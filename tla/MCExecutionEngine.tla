-------------------------- MODULE MCExecutionEngine --------------------------
(* Small instances of ExecutionEngine.                                       *)
EXTENDS ExecutionEngine, TLC

CONSTANTS s1, s2, etf, fast, guard, combiner
===============================================================================
