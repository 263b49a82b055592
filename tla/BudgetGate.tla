------------------------------ MODULE BudgetGate ------------------------------
(***************************************************************************)
(* The daily deploy budget in paper trading, over several days.  The       *)
(* engine buys after can_deploy under its deploy lock, records the trade,  *)
(* charges the rolled pool and hears of its own fill over the bus; the     *)
(* dashboard process buys by hand on the same database without that lock.  *)
(* The morning stipend and the rollover at the close each write the pool   *)
(* and then, in a commit of its own, the day they did so.                  *)
(*                                                                         *)
(* Abstractions.  Money is counted in small units; an order is its         *)
(* estimated cost.  The halt, the sizing and the other vetoes decide       *)
(* whether an order is tried, which is left open.  Requests for a higher   *)
(* budget are in BudgetApproval; here a user approves some amount.         *)
(***************************************************************************)
EXTENDS Integers, Sequences, FiniteSets

CONSTANTS
  Mode,       \* BUDGET_ROLLOVER_MODE: "strict" or "accumulate"
  EnvMin,     \* DAILY_INVESTMENT_MIN
  EnvMax,     \* DAILY_INVESTMENT_MAX
  MaxCost,    \* largest estimated cost of an order
  Slip,       \* most that slippage adds to an estimate
  Fee,        \* fees of one paper order
  Clients,    \* manual buys the dashboard may serve at a time
  Approvals,  \* amounts a user may approve
  MaxDays,    \* bound: days
  MaxCrashes  \* bound: crashes of the engine process in a day

ASSUME BudgetGateAssumption ==
  /\ Mode \in {"strict", "accumulate"}
  /\ EnvMin \in Nat /\ EnvMax \in Nat \ {0} /\ EnvMin <= EnvMax
  /\ MaxCost \in Nat \ {0} /\ Slip \in Nat /\ Fee \in Nat
  /\ Approvals \subseteq Nat
  /\ MaxDays \in Nat \ {0} /\ MaxCrashes \in Nat
  /\ IsFiniteSet(Clients)

VARIABLES
  \* the exchange (external)
  day,         \* IST date
  market,      \* "night", "preopen", "open" or "post"
  \* the engine process
  up,          \* it runs
  seen,        \* last status the session poller saw; the session phase
  bus,         \* session events and paper fills not yet handled
  pc,          \* what the bus handler is in the middle of
  amt,         \* cost of the order it is buying
  \* the dashboard process
  cli,         \* client -> cost of the manual buy it checked, or 0
  \* the SQLite database
  approved,    \* daily_budget_max_approved, EnvMax when unset
  pool,        \* budget_rolled_inr
  stipendDay,  \* budget_stipend_credited_day, 0 when unset
  rolledDay,   \* budget_last_rollover_day, 0 when unset
  deployed,    \* deployed_today_inr: today's BUY trades
  \* observers
  peak,        \* highest ceiling that was in force today
  owed,        \* stipends credited so far less money spent so far
  credits,     \* stipends credited today
  rolls,       \* rollovers done today
  manual,      \* a manual buy was booked today
  crashes      \* crashes today

exchange == <<day, market>>
engine   == <<up, seen, bus, pc, amt>>
marks    == <<stipendDay, rolledDay>>
db       == <<approved, pool, marks, deployed>>
seenBy   == <<peak, owed, credits, rolls, manual, crashes>>
vars     == <<exchange, engine, cli, db, seenBy>>

MaxOf(a, b) == IF a >= b THEN a ELSE b
MinOf(a, b) == IF a <= b THEN a ELSE b

Init ==
  /\ day = 1 /\ market = "night"
  /\ up = FALSE /\ seen = "none" /\ bus = <<>> /\ pc = "idle" /\ amt = 0
  /\ cli = [c \in Clients |-> 0]
  /\ approved = EnvMax /\ pool = 0 /\ stipendDay = 0 /\ rolledDay = 0
  /\ deployed = 0
  /\ peak = EnvMax /\ owed = 0 /\ credits = 0 /\ rolls = 0 /\ manual = FALSE
  /\ crashes = 0

-------------------------------------------------------------------------------
(* The ceiling.                                                              *)

\* effective_daily_max, for a pool p and an approved maximum a.
Ceiling(p, a) == IF Mode = "accumulate" /\ p > 0 THEN p ELSE a

EffectiveDailyMax == Ceiling(pool, approved)

\* Mutant of CanDeploy: what was deployed today is forgotten.
CanDeployFresh(cost) == cost <= EffectiveDailyMax

\* can_deploy.
CanDeploy(cost) == cost <= EffectiveDailyMax - deployed

\* The highest ceiling of the day moves with pool and approved.
NotePeak == peak' = MaxOf(peak, Ceiling(pool', approved'))

-------------------------------------------------------------------------------
(* The engine buys.                                                          *)

\* on_event, in the deploy lock: BUY only in an open session.
CheckBuy(cost) ==
  /\ up /\ pc = "idle" /\ seen = "open"
  /\ cost > Fee /\ CanDeploy(cost)
  /\ pc' = "checked" /\ amt' = cost
  /\ UNCHANGED <<exchange, up, seen, bus, cli, db, seenBy>>

\* record_trade at the price after slippage.
RecordBuy(slip) ==
  /\ up /\ pc = "checked"
  /\ deployed' = deployed + amt + slip
  /\ owed' = owed - (amt + slip)
  /\ pc' = "recorded" /\ amt' = 0
  /\ UNCHANGED <<exchange, up, seen, bus, cli, approved, pool, marks,
                 peak, credits, rolls, manual, crashes>>

\* consume_rolled_on_deploy takes from the pool all that today's trades exceed
\* the approved maximum by; then the paper fill is published.
ConsumeRolled ==
  /\ up /\ pc = "recorded"
  /\ pool' = IF Mode = "accumulate" /\ deployed > approved
             THEN MaxOf(0, pool - (deployed - approved)) ELSE pool
  /\ bus' = Append(bus, "fill")
  /\ pc' = "idle"
  /\ UNCHANGED <<exchange, up, seen, amt, cli, approved, marks, deployed,
                 owed, credits, rolls, manual, crashes>>
  /\ NotePeak

\* on_order_fill finds the trades row and sets amount to price * qty: the fees
\* leave the day's total.
HandleFill ==
  /\ up /\ pc = "idle" /\ bus # <<>> /\ Head(bus) = "fill"
  /\ deployed' = deployed - Fee
  /\ bus' = Tail(bus)
  /\ UNCHANGED <<exchange, up, seen, pc, amt, cli, approved, pool, marks, seenBy>>

-------------------------------------------------------------------------------
(* The dashboard.                                                            *)

\* execute_manual_paper_buy: can_deploy on the bare price ...
CheckManual(c, cost) ==
  /\ cli[c] = 0
  /\ CanDeploy(cost)
  /\ cli' = [cli EXCEPT ![c] = cost]
  /\ UNCHANGED <<exchange, engine, db, seenBy>>

\* ... and record_trade with slippage and fees.  The pool is not charged.
RecordManual(c, slip) ==
  /\ cli[c] > 0
  /\ deployed' = deployed + cli[c] + slip + Fee
  /\ owed' = owed - (cli[c] + slip + Fee)
  /\ cli' = [cli EXCEPT ![c] = 0]
  /\ manual' = TRUE
  /\ UNCHANGED <<exchange, engine, approved, pool, marks, peak, credits, rolls,
                 crashes>>

\* approve_budget_increase, of a request or out of the blue.
Approve(a) ==
  /\ approved' = MaxOf(EnvMin, MinOf(a, 2 * EnvMax))
  /\ UNCHANGED <<exchange, engine, cli, pool, marks, deployed, owed, credits,
                 rolls, manual, crashes>>
  /\ NotePeak

\* auto_approve_budget_if_vix_safe, in the engine's premarket routine.
AutoApprove ==
  /\ up /\ pc = "idle" /\ market = "night"
  /\ approved' = EnvMax
  /\ UNCHANGED <<exchange, engine, cli, pool, marks, deployed, owed, credits,
                 rolls, manual, crashes>>
  /\ NotePeak

-------------------------------------------------------------------------------
(* Session events, the stipend and the rollover.                             *)

\* What the exchange reports; before the first and after the last session of
\* the day it is closed.
Status == IF market \in {"night", "post"} THEN "closed" ELSE market

\* poll_session_status publishes a status that differs from the last it saw.
Poll ==
  /\ up /\ pc = "idle" /\ seen # Status
  /\ seen' = Status
  /\ bus' = Append(bus, Status)
  /\ UNCHANGED <<exchange, up, pc, amt, cli, db, seenBy>>

\* on_pre_open and on_session_open credit the stipend, on_session_close rolls.
HandleSession ==
  /\ up /\ pc = "idle" /\ bus # <<>> /\ Head(bus) # "fill"
  /\ pc' = IF Head(bus) = "closed" THEN "rollover" ELSE "stipend"
  /\ bus' = Tail(bus)
  /\ UNCHANGED <<exchange, up, seen, amt, cli, db, seenBy>>

\* Mutant of CreditPool: the day of the last stipend is not looked at.
CreditPoolAlways ==
  /\ up /\ pc = "stipend"
  /\ IF Mode = "accumulate"
     THEN /\ pool' = pool + EnvMax
          /\ owed' = owed + EnvMax
          /\ credits' = credits + 1
          /\ pc' = "stipend day"
     ELSE /\ UNCHANGED <<pool, owed, credits>>
          /\ pc' = "idle"
  /\ UNCHANGED <<exchange, up, seen, bus, amt, cli, approved, marks, deployed,
                 rolls, manual, crashes>>
  /\ NotePeak

\* credit_daily_stipend_on_open, first commit.
CreditPool ==
  /\ up /\ pc = "stipend"
  /\ IF Mode = "accumulate" /\ stipendDay # day
     THEN /\ pool' = pool + EnvMax
          /\ owed' = owed + EnvMax
          /\ credits' = credits + 1
          /\ pc' = "stipend day"
     ELSE /\ UNCHANGED <<pool, owed, credits>>
          /\ pc' = "idle"
  /\ UNCHANGED <<exchange, up, seen, bus, amt, cli, approved, marks, deployed,
                 rolls, manual, crashes>>
  /\ NotePeak

\* credit_daily_stipend_on_open, second commit.
CreditDay ==
  /\ up /\ pc = "stipend day"
  /\ stipendDay' = day
  /\ pc' = "idle"
  /\ UNCHANGED <<exchange, up, seen, bus, amt, cli, approved, pool, rolledDay,
                 deployed, seenBy>>

\* rollover_at_session_close, first commit.
RollPool ==
  /\ up /\ pc = "rollover"
  /\ IF Mode = "accumulate" /\ rolledDay # day
     THEN /\ pool' = MaxOf(0, EffectiveDailyMax - deployed)
          /\ rolls' = rolls + 1
          /\ pc' = "rollover day"
     ELSE /\ UNCHANGED <<pool, rolls>>
          /\ pc' = "idle"
  /\ UNCHANGED <<exchange, up, seen, bus, amt, cli, approved, marks, deployed,
                 owed, credits, manual, crashes>>
  /\ NotePeak

\* rollover_at_session_close, second commit.
RollDay ==
  /\ up /\ pc = "rollover day"
  /\ rolledDay' = day
  /\ pc' = "idle"
  /\ UNCHANGED <<exchange, up, seen, bus, amt, cli, approved, pool, stipendDay,
                 deployed, seenBy>>

\* The engine process dies, and starts: main credits the stipend before it
\* polls the exchange for the first time.
Crash ==
  /\ up /\ crashes < MaxCrashes
  /\ up' = FALSE /\ bus' = <<>> /\ pc' = "idle" /\ amt' = 0 /\ seen' = "none"
  /\ crashes' = crashes + 1
  /\ UNCHANGED <<exchange, cli, db, peak, owed, credits, rolls, manual>>

Start ==
  /\ ~up
  /\ up' = TRUE /\ pc' = "stipend"
  /\ UNCHANGED <<exchange, seen, bus, amt, cli, db, seenBy>>

\* The sessions of a day are hours long: a running engine has seen the status
\* and handled its events before the next one.
Settled == up => seen = Status /\ bus = <<>> /\ pc = "idle"

AdvanceMarket ==
  /\ market # "post" /\ Settled
  /\ market' = CASE market = "night"   -> "preopen"
                 [] market = "preopen" -> "open"
                 [] market = "open"    -> "post"
  /\ UNCHANGED <<day, engine, cli, db, seenBy>>

\* Midnight in India, with no order in flight.
NextDay ==
  /\ market = "post" /\ Settled /\ day < MaxDays
  /\ \A c \in Clients : cli[c] = 0
  /\ day' = day + 1 /\ market' = "night"
  /\ deployed' = 0
  /\ peak' = EffectiveDailyMax
  /\ credits' = 0 /\ rolls' = 0 /\ manual' = FALSE /\ crashes' = 0
  /\ UNCHANGED <<engine, cli, approved, pool, marks, owed>>

-------------------------------------------------------------------------------
Buy ==
  \/ \E cost \in 1..MaxCost : CheckBuy(cost)
  \/ \E slip \in 0..Slip : RecordBuy(slip)
  \/ ConsumeRolled
  \/ HandleFill

Dashboard ==
  \/ \E c \in Clients, cost \in 1..MaxCost : CheckManual(c, cost)
  \/ \E c \in Clients, slip \in 0..Slip : RecordManual(c, slip)
  \/ \E a \in Approvals : Approve(a)

Session ==
  \/ Poll \/ HandleSession \/ CreditPool \/ CreditDay \/ RollPool \/ RollDay
  \/ AutoApprove

Next ==
  \/ Buy \/ Dashboard \/ Session
  \/ Crash \/ Start \/ AdvanceMarket \/ NextDay

Spec == Init /\ [][Next]_vars
-------------------------------------------------------------------------------
(* Properties.                                                               *)

\* Types.
TypeOK ==
  /\ day \in Nat /\ market \in {"night", "preopen", "open", "post"}
  /\ up \in BOOLEAN /\ seen \in {"none", "closed", "preopen", "open"}
  /\ bus \in Seq({"closed", "preopen", "open", "fill"})
  /\ pc \in {"idle", "checked", "recorded", "stipend", "stipend day",
             "rollover", "rollover day"}
  /\ amt \in Nat
  /\ cli \in [Clients -> Nat]
  /\ approved \in Nat /\ pool \in Nat
  /\ stipendDay \in Nat /\ rolledDay \in Nat
  /\ deployed \in Int
  /\ peak \in Nat /\ owed \in Int
  /\ credits \in Nat /\ rolls \in Nat /\ manual \in BOOLEAN
  /\ crashes \in Nat

\* The engine, with its check and its write under one lock, never brings
\* the day's purchases above the highest ceiling of the day by more than the
\* slippage of one order, whatever stipends, rollovers, approvals, crashes and
\* repriced fills come in between, as long as no manual buy was booked.
EngineKeepsCap == ~manual => deployed <= peak + Slip

\* Manual buys share no lock with the engine, but each stale check is good for
\* one order: the cap is exceeded by at most one order for every manual buy the
\* dashboard serves at a time.
OverspendBounded ==
  deployed <= peak + Slip + Cardinality(Clients) * (MaxCost + Slip + Fee)

\* The stipend is credited, and the unused pool rolled, once a day; each
\* further time costs a crash between the two commits that do it.
OncePerDay == credits <= 1 + crashes /\ rolls <= 1 + crashes

\* A day whose stipend has come and on which nothing was bought yet.
Fresh ==
  /\ Mode = "accumulate" /\ up /\ pc = "idle"
  /\ stipendDay = day /\ deployed = 0 /\ market \in {"preopen", "open"}

\* credit_daily_stipend_on_open's example, "76 left + fresh 2000 tomorrow ->
\* 2076 deployable": money left over can still be deployed,
LeftoverIsDeployable == Fresh => EffectiveDailyMax >= owed

\* and money that was spent cannot be deployed a second time.
SpentIsGone == Fresh => EffectiveDailyMax <= owed
-------------------------------------------------------------------------------
(* The inductive invariant behind the safety properties.                     *)

\* The ceiling in force is below the day's peak; the order the engine is buying
\* fits under it; a process that is down is buying nothing.
CapInv ==
  /\ ~up => pc = "idle"
  /\ EffectiveDailyMax <= peak
  /\ ~manual => /\ deployed <= peak + Slip
                /\ pc = "checked" => deployed + amt <= peak

\* While the day of the stipend is neither written nor about to be, every
\* stipend of the day is paid for by a crash; so is every rollover.
OnceInv ==
  /\ OncePerDay
  /\ stipendDay <= day /\ rolledDay <= day
  /\ stipendDay # day /\ pc # "stipend day" => credits <= crashes
  /\ rolledDay # day /\ pc # "rollover day" => rolls <= crashes

\* What the orders under way may still add to the day's purchases: the engine's
\* fits under the ceiling it was checked against, and so did the last of the
\* manual buys; the other clients' may be stale and count as a whole order each.
Pending    == IF pc = "checked" THEN amt + Slip ELSE 0
Whole      == MaxCost + Slip + Fee
Exposed(c) == IF cli[c] > 0 THEN cli[c] + Slip + Fee ELSE 0
Others(c)  == {d \in Clients \ {c} : cli[d] > 0}
Load(c)    == Exposed(c) + Cardinality(Others(c)) * Whole

SpendInv ==
  /\ amt <= MaxCost /\ \A c \in Clients : cli[c] <= MaxCost
  /\ \/ deployed + Pending <= peak + Slip
     \/ \E c \in Clients :
          deployed + Pending + Load(c) <= peak + Slip + Cardinality(Clients) * Whole

BudgetInv == TypeOK /\ CapInv /\ OnceInv /\ SpendInv
===============================================================================
