---------------------------- MODULE BudgetApproval ----------------------------
(***************************************************************************)
(* The engine asks for a higher daily budget: the request waits in         *)
(* settings.budget_pending_increase, its time in settings.budget_pending_ts,*)
(* until a user of the dashboard approves or rejects it or it is           *)
(* fifteen minutes old.  Both settings are read and written one commit at  *)
(* a time by the engine process and by the dashboard's request threads,    *)
(* and every operation first expires a stale request.                      *)
(*                                                                         *)
(* Abstractions.  A timestamp is young or old.  The record of the last     *)
(* expired request and the amounts' formatting are left out.  Amounts are  *)
(* whole rupees.                                                           *)
(***************************************************************************)
EXTENDS Integers, FiniteSets

CONSTANTS
  Requests,    \* requests the engine may make
  Amount,      \* the maximum each of them asks for
  Engine,      \* the engine process, on its event loop
  Clients,     \* request threads of the dashboard
  Named,       \* amounts a client may name in an approval
  EnvMin,      \* DAILY_INVESTMENT_MIN
  EnvMax,      \* DAILY_INVESTMENT_MAX
  MaxCrashes   \* bound: crashes of the engine process

Nothing == [none |-> "request"]

Unnamed == -1   \* an approval that names no amount, as the page's button does

Procs == {Engine} \cup Clients

ASSUME BudgetApprovalAssumption ==
  /\ Amount \in [Requests -> Nat]
  /\ Named \subseteq Nat
  /\ Engine \notin Clients
  /\ EnvMin \in Nat /\ EnvMax \in Nat /\ EnvMin <= EnvMax
  /\ Nothing \notin Requests
  /\ MaxCrashes \in Nat

VARIABLES
  pending,   \* settings.budget_pending_increase: a request, or Nothing
  ts,        \* settings.budget_pending_ts: "none", "young" or "old"
  approved,  \* settings.daily_budget_max_approved, EnvMax when unset
  pc,        \* process -> what it does next
  op,        \* process -> the operation it is in
  saw,       \* process -> the request it read
  about,     \* process -> the request its operation is about: the one the engine
             \* wants to make, the one pending when a button was pressed
  named,     \* process -> the amount the approval it runs was called with
  \* observers
  made,      \* requests made so far
  ripe,      \* requests that have waited the fifteen minutes
  early,     \* requests dropped as stale that had not
  alone,     \* so far only the engine has run, without crashing
  crashes

settings == <<pending, ts, approved>>
procs    == <<pc, op, saw, about, named, named>>
seenBy   == <<made, ripe, early, alone, crashes>>
vars     == <<settings, procs, seenBy>>

Ops == {"poll", "request", "approve", "reject", "auto"}

Init ==
  /\ pending = Nothing /\ ts = "none" /\ approved = EnvMax
  /\ pc = [p \in Procs |-> "idle"] /\ op = [p \in Procs |-> "poll"]
  /\ saw = [p \in Procs |-> Nothing] /\ about = [p \in Procs |-> Nothing]
  /\ named = [p \in Procs |-> Unnamed]
  /\ made = {} /\ ripe = {} /\ early = {} /\ alone = TRUE /\ crashes = 0

-------------------------------------------------------------------------------
(* Beginning an operation.                                                   *)

Begin(p, o, r, a) ==
  /\ pc[p] = "idle"
  /\ op' = [op EXCEPT ![p] = o]
  /\ pc' = [pc EXCEPT ![p] = CASE o = "reject" -> "clear pending"
                               [] o = "auto"   -> "grant"
                               [] OTHER        -> "expire read"]
  /\ about' = [about EXCEPT ![p] = r]
  /\ named' = [named EXCEPT ![p] = a]
  /\ saw' = [saw EXCEPT ![p] = Nothing]
  /\ alone' = (alone /\ p = Engine)
  /\ UNCHANGED <<settings, made, ripe, early, crashes>>

\* The heartbeat's expiry, can_deploy, and every page the dashboard serves.
Poll(p) == Begin(p, "poll", Nothing, Unnamed)

\* After a budget veto the engine asks for the approved maximum and the cost of
\* the order that was vetoed.
AskForMore(r) ==
  /\ r \notin made
  /\ Amount[r] > approved
  /\ Begin(Engine, "request", r, Unnamed)

\* auto_approve_budget_if_vix_safe, in the premarket routine.
AutoApprove == Begin(Engine, "auto", Nothing, Unnamed)

\* The dashboard's two calls.  Either may come when nothing is pending, and an
\* approval may name an amount; the page's buttons name none.
Approve(c) ==
  \E a \in Named \cup {Unnamed} : Begin(c, "approve", pending, a)

Reject(c) == Begin(c, "reject", pending, Unnamed)

-------------------------------------------------------------------------------
(* expire_pending_if_stale.                                                  *)

\* What comes after the expiry.
Body(p) == IF op[p] = "poll" THEN "idle" ELSE op[p]

Goto(p, l) == pc' = [pc EXCEPT ![p] = l]

ExpireRead(p) ==
  /\ pc[p] = "expire read"
  /\ saw' = [saw EXCEPT ![p] = pending]
  /\ Goto(p, IF pending = Nothing THEN Body(p) ELSE "expire ts")
  /\ UNCHANGED <<settings, op, about, named, seenBy>>

\* Mutant of ExpireTs: a request without a time is left alone.
ExpireTsOldOnly(p) ==
  /\ pc[p] = "expire ts"
  /\ Goto(p, IF ts = "old" THEN "drop pending" ELSE Body(p))
  /\ UNCHANGED <<settings, op, saw, about, named, seenBy>>

\* A request without a time is dropped like one that is too old.
ExpireTs(p) ==
  /\ pc[p] = "expire ts"
  /\ Goto(p, IF ts = "young" THEN Body(p) ELSE "drop pending")
  /\ UNCHANGED <<settings, op, saw, about, named, seenBy>>

\* Whatever request is there by now goes.
DropPending(p) ==
  /\ pc[p] = "drop pending"
  /\ pending' = Nothing
  /\ early' = IF pending \in made \ ripe THEN early \cup {pending} ELSE early
  /\ Goto(p, "drop ts")
  /\ UNCHANGED <<ts, approved, op, saw, about, named, made, ripe, alone, crashes>>

DropTs(p) ==
  /\ pc[p] = "drop ts"
  /\ ts' = "none"
  /\ Goto(p, Body(p))
  /\ UNCHANGED <<pending, approved, op, saw, about, named, seenBy>>

-------------------------------------------------------------------------------
(* The rest of each operation.                                               *)

\* request_budget_increase: a maximum that is higher than the approved one, and
\* one request at a time.  Only the engine makes requests, so the slot it found
\* empty is still empty when it writes.
RequestPending ==
  LET r == about[Engine] IN
  /\ pc[Engine] = "request"
  /\ IF Amount[r] > approved /\ pending = Nothing
     THEN /\ pending' = r
          /\ made' = made \cup {r}
          /\ Goto(Engine, "request ts")
     ELSE /\ Goto(Engine, "idle")
          /\ UNCHANGED <<pending, made>>
  /\ UNCHANGED <<ts, approved, op, saw, about, named, ripe, early, alone, crashes>>

\* Mutant of RequestTs: the time is not written.
RequestTsForgotten ==
  /\ pc[Engine] = "request ts"
  /\ Goto(Engine, "idle")
  /\ UNCHANGED <<settings, op, saw, about, named, seenBy>>

RequestTs ==
  /\ pc[Engine] = "request ts"
  /\ ts' = "young"
  /\ Goto(Engine, "idle")
  /\ UNCHANGED <<pending, approved, op, saw, about, named, seenBy>>

\* approve_budget_increase reads the request that is pending now.  It needs
\* none if an amount was named.
ApproveRead(c) ==
  /\ pc[c] = "approve"
  /\ saw' = [saw EXCEPT ![c] = pending]
  /\ Goto(c, IF pending = Nothing /\ named[c] = Unnamed THEN "idle" ELSE "grant")
  /\ UNCHANGED <<settings, op, about, named, seenBy>>

\* At least the minimum, at most twice the configured maximum.
Clamped(a) ==
  LET capped == IF a > 2 * EnvMax THEN 2 * EnvMax ELSE a
  IN  IF capped < EnvMin THEN EnvMin ELSE capped

\* The amount that was named, that of the request if none was; 0 counts as
\* none where there is a request.
Wanted(p) ==
  IF saw[p] = Nothing \/ named[p] > 0 THEN named[p] ELSE Amount[saw[p]]

Grant(p) ==
  /\ pc[p] = "grant"
  /\ approved' = IF op[p] = "auto" THEN EnvMax ELSE Clamped(Wanted(p))
  /\ Goto(p, "clear pending")
  /\ UNCHANGED <<pending, ts, op, saw, about, named, seenBy>>

\* Approval, rejection and automatic approval end by clearing both settings.
ClearPending(p) ==
  /\ pc[p] = "clear pending"
  /\ pending' = Nothing
  /\ Goto(p, "clear ts")
  /\ UNCHANGED <<ts, approved, op, saw, about, named, seenBy>>

ClearTs(p) ==
  /\ pc[p] = "clear ts"
  /\ ts' = "none"
  /\ Goto(p, "idle")
  /\ UNCHANGED <<pending, approved, op, saw, about, named, seenBy>>

-------------------------------------------------------------------------------
(* Time and crashes.                                                         *)

\* Fifteen minutes pass, whatever is under way.
Age ==
  /\ pending \notin ripe \cup {Nothing} \/ ts = "young"
  /\ ts' = IF ts = "young" THEN "old" ELSE ts
  /\ ripe' = IF pending = Nothing THEN ripe ELSE ripe \cup {pending}
  /\ UNCHANGED <<pending, approved, procs, made, early, alone, crashes>>

\* The engine dies and is started again by its supervisor.
Crash ==
  /\ crashes < MaxCrashes
  /\ crashes' = crashes + 1 /\ alone' = FALSE
  /\ Goto(Engine, "idle")
  /\ UNCHANGED <<settings, op, saw, about, named, made, ripe, early>>

-------------------------------------------------------------------------------
Step(p) ==
  \/ ExpireRead(p) \/ ExpireTs(p) \/ DropPending(p) \/ DropTs(p)
  \/ ApproveRead(p) \/ Grant(p) \/ ClearPending(p) \/ ClearTs(p)

EngineWrites == RequestPending \/ RequestTs

Next ==
  \/ \E p \in Procs : Poll(p) \/ Step(p)
  \/ \E c \in Clients : Approve(c) \/ Reject(c)
  \/ \E r \in Requests : AskForMore(r)
  \/ AutoApprove \/ EngineWrites
  \/ Age \/ Crash

Spec == Init /\ [][Next]_vars

\* An operation that began goes on; the heartbeat polls every half minute
\* between whatever else the event loop does; and time passes.
Fairness ==
  /\ \A p \in Procs : WF_vars(Step(p))
  /\ WF_vars(EngineWrites)
  /\ SF_vars(Poll(Engine))
  /\ WF_vars(Age)

FairSpec == Spec /\ Fairness
-------------------------------------------------------------------------------
(* Properties.                                                               *)

Labels == {"idle", "expire read", "expire ts", "drop pending", "drop ts",
           "request", "request ts", "approve", "grant", "clear pending",
           "clear ts"}

\* Types; the approved maximum stays between the configured minimum and twice
\* the configured maximum, whatever is asked for or named and whoever answers.
TypeOK ==
  /\ pending \in Requests \cup {Nothing}
  /\ ts \in {"none", "young", "old"}
  /\ approved \in EnvMin..2 * EnvMax
  /\ pc \in [Procs -> Labels]
  /\ op \in [Procs -> Ops]
  /\ saw \in [Procs -> Requests \cup {Nothing}]
  /\ about \in [Procs -> Requests \cup {Nothing}]
  /\ named \in [Procs -> Named \cup {Unnamed}]
  /\ made \subseteq Requests /\ ripe \subseteq Requests /\ early \subseteq Requests
  /\ alone \in BOOLEAN /\ crashes \in Nat

\* As long as no dashboard was opened and the engine did not crash, a request is
\* dropped as stale only after its fifteen minutes, although its time is
\* written in a commit of its own.
EngineAloneWaits == alone => early = {}

\* No request waits for ever, whoever answers it or not and wherever a crash or
\* another process cut the two commits that make it.
PendingResolved == \A r \in Requests : pending = r ~> pending # r

\* budget_gate: "If user did not approve within BUDGET_APPROVAL_TIMEOUT_SEC,
\* drop the request" - and not before.
DropsAfterTimeout == crashes = 0 => early = {}

\* The dashboard's button: "Agent will deploy up to the requested daily cap".
\* The maximum its press grants is that of the request the user was shown.
ShownIsGranted ==
  \A c \in Clients :
    pc[c] = "grant" /\ named[c] = Unnamed /\ about[c] # Nothing => saw[c] = about[c]
-------------------------------------------------------------------------------
(* The inductive invariant behind the safety properties.                     *)

\* What a process knows of the request it read.
KnowsInv ==
  /\ \A p \in Procs : pc[p] = "grant" =>
       op[p] = "auto" \/ saw[p] \in Requests \/ named[p] \in Named
  /\ \A p \in Procs : pc[p] \in {"expire read", "expire ts", "drop pending", "drop ts"}
                       => op[p] \in {"poll", "request", "approve"}
  /\ \A c \in Clients : op[c] # "request"
  /\ pc[Engine] = "request" => op[Engine] = "request"
  /\ pc[Engine] # "approve" /\ op[Engine] # "approve"
  /\ op[Engine] = "request" => about[Engine] \in Requests
  /\ pending \in made \cup {Nothing}

\* With the engine alone, a time is that of the pending request unless the
\* engine is between the two commits that write or clear them, and is old only
\* if the request is ripe.
AloneInv ==
  alone =>
    /\ \A c \in Clients : pc[c] = "idle"
    /\ early = {}
    /\ pending # Nothing /\ pc[Engine] # "request ts" => ts # "none"
    /\ pending = Nothing /\ pc[Engine] \notin {"drop ts", "clear ts"} => ts = "none"
    /\ pc[Engine] = "request ts" => pending # Nothing /\ ts = "none"
    /\ pc[Engine] = "expire ts" => pending # Nothing
    /\ pc[Engine] = "drop pending" => ts = "old"
    /\ pc[Engine] \in {"drop ts", "clear ts"} => pending = Nothing
    /\ ts = "old" => pending \in ripe \cup {Nothing}

ApprovalInv == TypeOK /\ KnowsInv /\ AloneInv
===============================================================================
