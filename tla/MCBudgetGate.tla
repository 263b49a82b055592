----------------------------- MODULE MCBudgetGate -----------------------------
(* Small instances of BudgetGate.                                            *)
EXTENDS BudgetGate, TLC

CONSTANTS c1, c2

Interchangeable == Permutations(Clients)
===============================================================================
