----------------------------- MODULE MCLiveOrders -----------------------------
(* Small instances of LiveOrders.                                            *)
EXTENDS LiveOrders, TLC

CONSTANTS s1, b1, b2, x1

OneSymbol == [o \in Orders |-> s1]
===============================================================================
