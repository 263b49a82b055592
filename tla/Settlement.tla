------------------------------- MODULE Settlement -------------------------------
(***************************************************************************)
(* What the settlement of live orders promises, seen from the books.       *)
(* Only an order the broker completed moves money or shares.  A purchase   *)
(* is paid before its shares are added, a sale is paid after its shares    *)
(* were taken out.  Each is done once, and once more for each time the     *)
(* engine was cut short.  Once an order is settled, both have happened and *)
(* nothing happens to it again.  LiveOrders implements this.               *)
(***************************************************************************)
EXTENDS Integers

CONSTANTS BuyOrders, SellOrders

Orders == BuyOrders \cup SellOrders

VARIABLES
  life,     \* order -> "new", "open", "dead", "complete", "settled"
  paid,     \* order -> times its money was moved
  applied,  \* order -> times its shares were moved
  cuts      \* times the engine was cut short

Becomes(o, from, to) == life[o] = from /\ life' = [life EXCEPT ![o] = to]

Send(o)   == Becomes(o, "new", "open") /\ UNCHANGED <<paid, applied, cuts>>

\* The broker completes the order, or rejects or cancels it.
Answer(o) == /\ \E to \in {"complete", "dead"} : Becomes(o, "open", to)
             /\ UNCHANGED <<paid, applied, cuts>>

Settle(o) == /\ Becomes(o, "complete", "settled")
             /\ paid[o] > 0 /\ applied[o] > 0
             /\ UNCHANGED <<paid, applied, cuts>>

\* Whatever comes first may have been cut short before; what comes second
\* happens at most as often.
Pay(o) ==
  /\ life[o] = "complete"
  /\ IF o \in BuyOrders THEN paid[o] <= cuts ELSE paid[o] < applied[o]
  /\ paid' = [paid EXCEPT ![o] = @ + 1]
  /\ UNCHANGED <<life, applied, cuts>>

Apply(o) ==
  /\ life[o] = "complete"
  /\ IF o \in BuyOrders THEN applied[o] < paid[o] ELSE applied[o] <= cuts
  /\ applied' = [applied EXCEPT ![o] = @ + 1]
  /\ UNCHANGED <<life, paid, cuts>>

CutShort == cuts' = cuts + 1 /\ UNCHANGED <<life, paid, applied>>

Init ==
  /\ life = [o \in Orders |-> "new"]
  /\ paid = [o \in Orders |-> 0] /\ applied = [o \in Orders |-> 0]
  /\ cuts = 0

Next ==
  \/ \E o \in Orders : Send(o) \/ Answer(o) \/ Pay(o) \/ Apply(o) \/ Settle(o)
  \/ CutShort

Spec == Init /\ [][Next]_<<life, paid, applied, cuts>>
=============================================================================
