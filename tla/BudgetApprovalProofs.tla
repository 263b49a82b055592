------------------------- MODULE BudgetApprovalProofs -------------------------
(* Proofs about BudgetApproval: the approved maximum keeps its bounds, and   *)
(* the engine alone drops no request before its time.                        *)
EXTENDS BudgetApproval, TLAPS

\* What is granted is between the configured minimum and twice the maximum.
LEMMA ClampedBounds ==
  ASSUME NEW a \in Nat
  PROVE  Clamped(a) \in EnvMin..2 * EnvMax
  BY BudgetApprovalAssumption DEF Clamped

(* No amount is not above zero.                                             *)
LEMMA UnnamedIsNone == ~(Unnamed > 0)
  BY SMT DEF Unnamed

(* Counting one more crash stays within the numbers.                        *)
LEMMA NextNat == ASSUME NEW n \in Nat PROVE n + 1 \in Nat
  OBVIOUS

(* The default maximum, DAILY_INVESTMENT_MAX, lies between the bounds a     *)
(* request is clamped to.                                                   *)
LEMMA MaxInBounds == EnvMax \in EnvMin..2 * EnvMax
  BY BudgetApprovalAssumption

\* The initial state satisfies the invariant.
LEMMA InitInv == Init => ApprovalInv
<1> SUFFICES ASSUME Init PROVE ApprovalInv
  OBVIOUS
<1>1. TypeOK
  BY MaxInBounds DEF Init, TypeOK, Labels, Ops
<1>2. KnowsInv
  BY DEF Init, KnowsInv, Procs
<1>3. AloneInv
  BY DEF Init, AloneInv, Procs
<1> QED
  BY <1>1, <1>2, <1>3 DEF ApprovalInv

\* Every step keeps the types.
LEMMA TypeStep == TypeOK /\ KnowsInv /\ [Next]_vars => TypeOK'
<1> SUFFICES ASSUME TypeOK, KnowsInv, [Next]_vars PROVE TypeOK'
  OBVIOUS
<1> USE DEF TypeOK, Labels, settings, procs, seenBy, Goto
<1>e. Engine \in Procs
  BY DEF Procs
<1>b. ASSUME NEW p \in Procs, pc[p] \in {"expire read", "expire ts", "drop ts"}
      PROVE  Body(p) \in Labels
  BY <1>b DEF Body, KnowsInv
<1>0. ASSUME NEW p \in Procs, NEW o \in Ops, NEW r \in Requests \cup {Nothing},
             NEW a \in Named \cup {Unnamed}, Begin(p, o, r, a)
      PROVE  TypeOK'
  BY <1>0 DEF Begin
<1>1. ASSUME NEW p \in Procs, Poll(p) PROVE TypeOK'
  BY <1>0, <1>1 DEF Poll, Ops
<1>2. ASSUME NEW r \in Requests, AskForMore(r) PROVE TypeOK'
  BY <1>0, <1>2, <1>e DEF AskForMore, Ops
<1>3. CASE AutoApprove
  BY <1>0, <1>3, <1>e DEF AutoApprove, Ops
<1>4. ASSUME NEW c \in Clients, Approve(c) PROVE TypeOK'
  BY <1>0, <1>4 DEF Approve, Ops, Procs
<1>5. ASSUME NEW c \in Clients, Reject(c) PROVE TypeOK'
  BY <1>0, <1>5 DEF Reject, Ops, Procs
<1>6. ASSUME NEW p \in Procs, ExpireRead(p) PROVE TypeOK'
  BY <1>6, <1>b DEF ExpireRead
<1>7. ASSUME NEW p \in Procs, ExpireTs(p) PROVE TypeOK'
  BY <1>7, <1>b DEF ExpireTs
<1>8. ASSUME NEW p \in Procs, DropPending(p) PROVE TypeOK'
  BY <1>8 DEF DropPending
<1>9. ASSUME NEW p \in Procs, DropTs(p) PROVE TypeOK'
  BY <1>9, <1>b DEF DropTs
<1>10. ASSUME NEW p \in Procs, ApproveRead(p) PROVE TypeOK'
  BY <1>10 DEF ApproveRead
<1>11. ASSUME NEW p \in Procs, Grant(p) PROVE TypeOK'
  <2>2. CASE op[p] = "auto"
    BY <1>11, <2>2, MaxInBounds DEF Grant
  <2>3. CASE op[p] # "auto"
    <3>1. Wanted(p) \in Nat
      <4>1. pc[p] = "grant"
        BY <1>11 DEF Grant
      <4>2. saw[p] \in Requests \/ named[p] \in Named
        BY <4>1, <2>3 DEF KnowsInv
      <4>3. Amount \in [Requests -> Nat] /\ Named \subseteq Nat /\ Nothing \notin Requests
        BY BudgetApprovalAssumption
      <4>4. saw[p] \in Requests \cup {Nothing} /\ named[p] \in Named \cup {Unnamed}
        OBVIOUS
      <4>5. CASE saw[p] = Nothing \/ named[p] > 0
        <5>1. Wanted(p) = named[p]
          BY <4>5 DEF Wanted
        <5>3. named[p] \in Named
          BY <4>2, <4>3, <4>4, <4>5, UnnamedIsNone
        <5> QED
          BY <4>3, <5>1, <5>3
      <4>6. CASE ~(saw[p] = Nothing \/ named[p] > 0)
        BY <4>3, <4>4, <4>6 DEF Wanted
      <4> QED
        BY <4>5, <4>6
    <3>2. approved' \in EnvMin..2 * EnvMax
      BY <1>11, <2>3, <3>1, ClampedBounds DEF Grant
    <3> QED
      BY <1>11, <3>2 DEF Grant
  <2> QED
    BY <2>2, <2>3
<1>12. ASSUME NEW p \in Procs, ClearPending(p) PROVE TypeOK'
  BY <1>12 DEF ClearPending
<1>13. ASSUME NEW p \in Procs, ClearTs(p) PROVE TypeOK'
  BY <1>13 DEF ClearTs
<1>14. CASE RequestPending
  <2>1. about[Engine] \in Requests
    BY <1>14, <1>e DEF RequestPending, KnowsInv
  <2> QED
    BY <1>14, <2>1, <1>e DEF RequestPending
<1>15. CASE RequestTs
  BY <1>15, <1>e DEF RequestTs
<1>16. CASE Age
  BY <1>16 DEF Age
<1>17. CASE Crash
  <2>1. crashes' = crashes + 1
    BY <1>17, Zenon DEF Crash
  <2>2. crashes' \in Nat
    BY <2>1, NextNat
  <2>3. /\ UNCHANGED <<settings, op, saw, about, named, made, ripe, early>>
        /\ alone' = FALSE /\ pc' = [pc EXCEPT ![Engine] = "idle"]
    BY <1>17, Zenon DEF Crash
  <2> QED
    BY <2>2, <2>3, <1>e
<1>18. CASE UNCHANGED vars
  BY <1>18 DEF vars
<1> QED
  BY <1>1, <1>2, <1>3, <1>4, <1>5, <1>6, <1>7, <1>8, <1>9, <1>10, <1>11, <1>12,
     <1>13, <1>14, <1>15, <1>16, <1>17, <1>18 DEF Next, Step, EngineWrites

\* Every step keeps what a process knows.
LEMMA KnowsStep == TypeOK /\ KnowsInv /\ [Next]_vars => KnowsInv'
<1> SUFFICES ASSUME TypeOK, KnowsInv, [Next]_vars PROVE KnowsInv'
  OBVIOUS
<1>t. /\ pc \in [Procs -> Labels] /\ op \in [Procs -> Ops]
      /\ saw \in [Procs -> Requests \cup {Nothing}]
      /\ about \in [Procs -> Requests \cup {Nothing}]
      /\ named \in [Procs -> Named \cup {Unnamed}] /\ Nothing \notin Requests
      /\ pending \in Requests \cup {Nothing}
  BY BudgetApprovalAssumption DEF TypeOK
<1>e. Engine \in Procs /\ Engine \notin Clients /\ Clients \subseteq Procs
  BY BudgetApprovalAssumption DEF Procs
<1> USE DEF KnowsInv, settings, procs, seenBy, Goto
<1>1. ASSUME NEW p \in Procs, Poll(p) PROVE KnowsInv'
  BY <1>1, <1>t, <1>e DEF Poll, Begin
<1>2. ASSUME NEW r \in Requests, AskForMore(r) PROVE KnowsInv'
  BY <1>2, <1>t, <1>e DEF AskForMore, Begin
<1>3. CASE AutoApprove
  BY <1>3, <1>t, <1>e DEF AutoApprove, Begin
<1>4. ASSUME NEW c \in Clients, Approve(c) PROVE KnowsInv'
  BY <1>4, <1>t, <1>e DEF Approve, Begin
<1>5. ASSUME NEW c \in Clients, Reject(c) PROVE KnowsInv'
  BY <1>5, <1>t, <1>e DEF Reject, Begin
<1>6. ASSUME NEW p \in Procs, ExpireRead(p) PROVE KnowsInv'
  BY <1>6, <1>t, <1>e DEF ExpireRead, Body
<1>7. ASSUME NEW p \in Procs, ExpireTs(p) PROVE KnowsInv'
  BY <1>7, <1>t, <1>e DEF ExpireTs, Body
<1>8. ASSUME NEW p \in Procs, DropPending(p) PROVE KnowsInv'
  BY <1>8, <1>t, <1>e DEF DropPending
<1>9. ASSUME NEW p \in Procs, DropTs(p) PROVE KnowsInv'
  BY <1>9, <1>t, <1>e DEF DropTs, Body
<1>10. ASSUME NEW p \in Procs, ApproveRead(p) PROVE KnowsInv'
  BY <1>10, <1>t, <1>e DEF ApproveRead
<1>11. ASSUME NEW p \in Procs, Grant(p) PROVE KnowsInv'
  BY <1>11, <1>t, <1>e DEF Grant
<1>12. ASSUME NEW p \in Procs, ClearPending(p) PROVE KnowsInv'
  BY <1>12, <1>t, <1>e DEF ClearPending
<1>13. ASSUME NEW p \in Procs, ClearTs(p) PROVE KnowsInv'
  BY <1>13, <1>t, <1>e DEF ClearTs
<1>14. CASE RequestPending
  BY <1>14, <1>t, <1>e DEF RequestPending
<1>15. CASE RequestTs
  BY <1>15, <1>t, <1>e DEF RequestTs
<1>16. CASE Age
  BY <1>16 DEF Age
<1>17. CASE Crash
  BY <1>17, <1>t, <1>e DEF Crash
<1>18. CASE UNCHANGED vars
  BY <1>18 DEF vars
<1> QED
  BY <1>1, <1>2, <1>3, <1>4, <1>5, <1>6, <1>7, <1>8, <1>9, <1>10, <1>11, <1>12,
     <1>13, <1>14, <1>15, <1>16, <1>17, <1>18 DEF Next, Step, EngineWrites

\* Every step keeps the engine's own order of commits.
LEMMA AloneStep == TypeOK /\ KnowsInv /\ AloneInv /\ [Next]_vars => AloneInv'
<1> SUFFICES ASSUME TypeOK, KnowsInv, AloneInv, [Next]_vars,
                    alone'
             PROVE  AloneInv'
  BY DEF AloneInv
<1>t. /\ pc \in [Procs -> Labels]
      /\ pending \in Requests \cup {Nothing} /\ ts \in {"none", "young", "old"}
      /\ crashes \in Nat /\ Nothing \notin Requests
  BY BudgetApprovalAssumption DEF TypeOK
<1>e. /\ \A p \in Procs : p # Engine => p \in Clients
      /\ Engine \in Procs /\ Engine \notin Clients /\ Clients \subseteq Procs
  BY BudgetApprovalAssumption DEF Procs
<1>k. KnowsInv
  OBVIOUS
<1> USE DEF settings, procs, seenBy, Goto
<1>17. CASE Crash
  BY <1>17 DEF Crash
<1>1. ASSUME NEW p \in Procs, NEW o, NEW r, NEW a, Begin(p, o, r, a), o # "reject" PROVE AloneInv'
  BY <1>1, <1>t, <1>e DEF Begin, AloneInv
<1>2. ASSUME NEW p \in Procs, Poll(p) PROVE AloneInv'
  BY <1>1, <1>2 DEF Poll
<1>3. ASSUME NEW r \in Requests, AskForMore(r) PROVE AloneInv'
  BY <1>1, <1>3, <1>e DEF AskForMore
<1>4. CASE AutoApprove
  BY <1>1, <1>4, <1>e DEF AutoApprove
<1>5. ASSUME NEW c \in Clients, Approve(c) PROVE AloneInv'
  BY <1>1, <1>5, <1>e DEF Approve
<1>6. ASSUME NEW c \in Clients, Reject(c) PROVE AloneInv'
  BY <1>6, <1>e DEF Reject, Begin
<1>7. ASSUME NEW p \in Procs, Step(p) PROVE AloneInv'
  <2> USE <1>t, <1>e
  <2>0. alone
    BY <1>7 DEF Step, ExpireRead, ExpireTs, DropPending, DropTs, ApproveRead,
       Grant, ClearPending, ClearTs
  <2>1. p = Engine
    BY <1>7, <2>0 DEF AloneInv, Step, ExpireRead, ExpireTs, DropPending, DropTs,
       ApproveRead, Grant, ClearPending, ClearTs
  <2> USE <2>0, <2>1 DEF AloneInv
  <2>5. CASE ExpireRead(p)
    BY <2>5, <1>k DEF ExpireRead, Body, KnowsInv
  <2>6. CASE ExpireTs(p)
    BY <2>6, <1>k DEF ExpireTs, Body, KnowsInv
  <2>7. CASE DropPending(p)
    BY <2>7 DEF DropPending
  <2>8. CASE DropTs(p)
    BY <2>8, <1>k DEF DropTs, Body, KnowsInv
  <2>9. CASE ApproveRead(p)
    BY <2>9, <1>k DEF ApproveRead, KnowsInv
  <2>10. CASE Grant(p)
    BY <2>10 DEF Grant
  <2>11. CASE ClearPending(p)
    BY <2>11 DEF ClearPending
  <2>12. CASE ClearTs(p)
    BY <2>12 DEF ClearTs
  <2> QED
    BY <1>7, <2>5, <2>6, <2>7, <2>8, <2>9, <2>10, <2>11, <2>12 DEF Step
<1>13. CASE RequestPending
  BY <1>13, <1>t, <1>e, <1>k DEF RequestPending, KnowsInv, AloneInv
<1>14. CASE RequestTs
  BY <1>14, <1>t, <1>e DEF RequestTs, AloneInv
<1>15. CASE Age
  BY <1>15, <1>t, <1>e DEF Age, AloneInv
<1>18. CASE UNCHANGED vars
  BY <1>18 DEF vars, AloneInv
<1> QED
  BY <1>2, <1>3, <1>4, <1>5, <1>6, <1>7, <1>13, <1>14, <1>15, <1>17, <1>18
     DEF Next, EngineWrites

\* The inductive invariant holds in every reachable state.
THEOREM ApprovalInvariance == Spec => []ApprovalInv
<1>1. ApprovalInv /\ [Next]_vars => ApprovalInv'
  BY TypeStep, KnowsStep, AloneStep DEF ApprovalInv
<1> QED
  BY InitInv, <1>1, PTL DEF Spec

\* The approved maximum stays between the configured minimum and twice the
\* configured maximum, whatever amounts are requested or named in an approval,
\* and however requests, approvals, expiries and crashes fall between each
\* other's commits.
THEOREM ApprovalTypes == Spec => []TypeOK
<1>1. ApprovalInv => TypeOK
  BY DEF ApprovalInv
<1> QED
  BY <1>1, ApprovalInvariance, PTL

\* Without a dashboard and without crashes no request is dropped before its
\* fifteen minutes have passed.
THEOREM EngineAlone == Spec => []EngineAloneWaits
<1>1. ApprovalInv => EngineAloneWaits
  BY DEF ApprovalInv, AloneInv, EngineAloneWaits
<1> QED
  BY <1>1, ApprovalInvariance, PTL
===============================================================================
