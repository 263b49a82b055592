----------------------------- MODULE MCPaperLedger -----------------------------
(* A small instance of PaperLedger.                                          *)
EXTENDS PaperLedger, TLC

CONSTANTS x, y, t1, t2

MCSymbols == {x, y}
MCThreads == {t1, t2}
Symmetry  == Permutations(MCThreads)
=============================================================================
