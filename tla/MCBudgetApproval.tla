--------------------------- MODULE MCBudgetApproval ---------------------------
(* Small instances of BudgetApproval.                                        *)
EXTENDS BudgetApproval, TLC

CONSTANTS r1, r2, r3, engine, c1, c2

\* One amount under the cap, the others over it.
Amounts == [r \in Requests |-> IF r = r1 THEN 3 ELSE 5]
===============================================================================
