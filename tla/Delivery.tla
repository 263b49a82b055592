-------------------------------- MODULE Delivery --------------------------------
(***************************************************************************)
(* What the pollers with a memory promise of the rows of their sources:    *)
(* within one life of the engine the poller of a row publishes it at most  *)
(* once, and gives it up only when it is malformed or when a write failed, *)
(* one row for each failure.  A burst publishes each deal once more,       *)
(* whatever its poller has done.  Nothing else goes out twice, nothing     *)
(* malformed goes out.  A new life starts with nothing published.  Ingest  *)
(* implements this.                                                        *)
(***************************************************************************)
EXTENDS Integers

CONSTANT Rows

VARIABLES
  kind,    \* of each row: "none" until it appears
  times,   \* how often it was published in this life
  done,    \* the rows their pollers are through with, published or given up
  bursts,  \* bursts, and polls of sources without a memory
  faults   \* writes that failed and new lives

Open  == {r \in Rows \ done : kind[r] \in {"deal", "other"}}
Deals == {r \in Rows : kind[r] = "deal"}

Publishes(S) == times' = [r \in Rows |-> IF r \in S THEN times[r] + 1 ELSE times[r]]

Appears ==
  /\ \E r \in Rows, k \in {"deal", "other", "malformed"} :
        kind[r] = "none" /\ kind' = [kind EXCEPT ![r] = k]
  /\ UNCHANGED <<times, done, bursts, faults>>

\* A poll that goes well.
Sends ==
  /\ \E S \in SUBSET Open : Publishes(S) /\ done' = done \cup S
  /\ UNCHANGED <<kind, bursts, faults>>

\* A poll whose write fails gives up one row at most.
SendsSome ==
  /\ faults' = faults + 1
  /\ \E S \in SUBSET Open :
       /\ Publishes(S)
       /\ \E r \in Open : done' = done \cup S \cup {r}
  /\ UNCHANGED <<kind, bursts>>

GivesUp ==
  /\ \E r \in Rows : kind[r] = "malformed" /\ done' = done \cup {r}
  /\ UNCHANGED <<kind, times, bursts, faults>>

Bursts ==
  /\ bursts' = bursts + 1 /\ \E S \in SUBSET Deals : Publishes(S)
  /\ UNCHANGED <<kind, done, faults>>

NewLife ==
  /\ faults' = faults + 1 /\ times' = [r \in Rows |-> 0] /\ done' = {}
  /\ UNCHANGED <<kind, bursts>>

Init ==
  /\ kind = [r \in Rows |-> "none"] /\ times = [r \in Rows |-> 0] /\ done = {}
  /\ bursts = 0 /\ faults = 0

Next == Appears \/ Sends \/ SendsSome \/ GivesUp \/ Bursts \/ NewLife

Spec == Init /\ [][Next]_<<kind, times, done, bursts, faults>>
=============================================================================
