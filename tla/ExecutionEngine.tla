---------------------------- MODULE ExecutionEngine ----------------------------
(***************************************************************************)
(* How an event becomes a paper trade: the bus handlers of engine/main.py, *)
(* the fusion of strategy signals, the vetoes of ExecutionEngine.on_event, *)
(* the position monitor, the two square-offs of intraday (MIS) positions   *)
(* and the lifecycle that grants a strategy its capital.  Every handler    *)
(* runs on one event loop and, on paper, does not wait between its checks  *)
(* and its trade: a handler is one action.  A flag that the dashboard's    *)
(* process sets in the middle of one counts as set after it; LiveOrders    *)
(* cuts on_event there.                                                    *)
(*                                                                         *)
(* Abstractions.  A position is its rail; a sale sells the whole row, as   *)
(* the code does.  A price is kept as whether it is under the stop of the  *)
(* position.  Scores, sizes, budgets and costs are open choices: a BUY may *)
(* always be dropped.  Ticks and bars are handled when they come; only     *)
(* events the engine itself publishes are kept in the bus, but the paper   *)
(* fill, which only reprices the row.  A strategy is in or out of capital; *)
(* promotion and demotion are the learning loop's.  Every day is a trading *)
(* day.                                                                    *)
(***************************************************************************)
EXTENDS Integers, Sequences, FiniteSets

CONSTANTS
  Stocks,        \* what the strategies propose
  Etf,           \* the symbol every hedge buys, NIFTYBEES
  Entrants,      \* strategies that may propose a BUY or a SELL
  Fast,          \* the one of them whose BUY comes as a FAST_SNAPSHOT
  Guard,         \* stop_loss_guard
  Combiner,      \* signal_combiner, the id of a net signal
  MaxPositions,  \* MAX_POSITIONS
  MaxBus         \* bound: events waiting in the bus when another is published

Symbols == Stocks \cup {Etf}

Strategies == Entrants \cup {Guard, Combiner}

ASSUME EngineAssumption ==
  /\ IsFiniteSet(Stocks) /\ Etf \notin Stocks
  /\ Fast \in Entrants
  /\ MaxPositions \in Nat /\ MaxBus \in Nat

Flat   == "flat"
Rails  == {"CNC", "MIS"}

VARIABLES
  held,     \* positions table: symbol -> Flat or its rail
  low,      \* the last price of the position is under its stop
  cooling,  \* the last order is younger than MIN_ORDER_INTERVAL_SEC
  halted,   \* settings.trading_halted
  slumber,  \* settings.slumber_until_ts is in the future
  benched,  \* strategies whose lifecycle state gives them no capital
  bus,      \* events the engine published and has not handled
  phase,    \* ops.session_state._phase
  day       \* the exchange: "CLOSED", "OPEN", "LATE" from 15:10 on, "SQUARED"
            \* once the square-off loop of this process has run

books == <<held, low>>
gates == <<cooling, halted, slumber, benched>>
clock == <<phase, day>>
vars  == <<books, gates, bus, clock>>

Exit(s)  == [type |-> "exit", sym |-> s]       \* STOP_BREACH or TAKE_PROFIT
Enter(s) == [type |-> "snapshot", sym |-> s]   \* FAST_SNAPSHOT
Close    == [type |-> "close"]                 \* SESSION_CLOSE

Events == {Exit(s) : s \in Symbols} \cup {Enter(s) : s \in Stocks} \cup {Close}

\* PRE_OPEN opens no gate and is one with UNKNOWN.
Phases == {"UNKNOWN", "OPEN", "CLOSED"}

TypeOK ==
  /\ held \in [Symbols -> Rails \cup {Flat}]
  /\ low \in [Symbols -> BOOLEAN]
  /\ cooling \in BOOLEAN /\ halted \in BOOLEAN /\ slumber \in BOOLEAN
  /\ benched \subseteq Strategies
  /\ bus \in Seq(Events)
  /\ phase \in Phases
  /\ day \in {"CLOSED", "OPEN", "LATE", "SQUARED"}

Open == {s \in Symbols : held[s] # Flat}

\* A new database and a started engine.
Init ==
  /\ held = [s \in Symbols |-> Flat]
  /\ low = [s \in Symbols |-> FALSE]
  /\ cooling = FALSE /\ halted = FALSE /\ slumber = FALSE
  /\ benched \in {{}, Entrants}
  /\ bus = <<>>
  /\ phase = "UNKNOWN" /\ day = "CLOSED"

-----------------------------------------------------------------------------
(* Trades                                                                    *)

\* open_lot: a row that exists takes the rail of the new lot, and its average
\* price moves, so the last price may now be above the stop.
Buy(s, rail) ==
  /\ held' = [held EXCEPT ![s] = rail]
  /\ \E under \in {FALSE, low[s]} : low' = [low EXCEPT ![s] = under]
  /\ cooling' = TRUE

Sell(s) ==
  /\ held' = [held EXCEPT ![s] = Flat]
  /\ low' = [low EXCEPT ![s] = FALSE]
  /\ cooling' = TRUE

\* No trade: a gate is closed or a veto that is not modelled says no.
Pass == UNCHANGED <<books, cooling>>

Funded(x) == x \notin benched                           \* can_allocate_capital

MayOrder == ~cooling                                    \* can_place_order

\* Mutant: one position too many.
AtMostMaxPositions == Cardinality(Open) <= MaxPositions

BelowMaxPositions == Cardinality(Open) < MaxPositions   \* can_open_new

\* Mutant: the session gate is forgotten.
MayEnterAnyTime(x) ==
  ~slumber /\ MayOrder /\ BelowMaxPositions /\ Funded(x)

\* What a BUY of strategy x must pass; a HEDGE is not asked.
MayEnter(x) ==
  /\ ~slumber
  /\ phase = "OPEN"
  /\ MayOrder
  /\ BelowMaxPositions
  /\ Funded(x)

\* A signal of x leaves the combiner as it is, or merged with others of the
\* last 500 ms under the combiner's own name.
Fused(x) == {x, Combiner}

\* Mutant: the session gate of entries is asked for exits too.
SellInSession(s, x) ==
  /\ ~halted /\ phase = "OPEN"
  /\ held[s] # Flat
  /\ MayOrder
  /\ \E y \in Fused(x) : Funded(y)
  /\ Sell(s)

\* A SELL of x sells the whole row.
SellFor(s, x) ==
  /\ ~halted
  /\ held[s] # Flat
  /\ MayOrder
  /\ \E y \in Fused(x) : Funded(y)
  /\ Sell(s)

\* A BUY of x alone: dropped where the symbol is held.
BuyFor(s, x, rail) ==
  /\ ~halted
  /\ held[s] = Flat
  /\ MayEnter(x)
  /\ Buy(s, rail)

\* BUYs of the last 500 ms outweigh what else was signalled for the symbol, an
\* exit perhaps: a net BUY, which is not dropped where the symbol is held.
NetBuy(s) ==
  /\ ~halted
  /\ MayEnter(Combiner)
  /\ \E rail \in Rails : Buy(s, rail)

-----------------------------------------------------------------------------
(* Handlers                                                                  *)

Append1(e) ==
  /\ Len(bus) < MaxBus
  /\ bus' = Append(bus, e)

\* The sequences that hold every event of a set once.
Orders(es) ==
  {q \in [1..Cardinality(es) -> es] : \A a, b \in DOMAIN q : q[a] = q[b] => a = b}

ExitsOfMIS == {Exit(s) : s \in {r \in Symbols : held[r] = "MIS"}}

\* A tick of a symbol that is held: the guard looks at it, then the position
\* monitor, which also knows exits that are not stops.
OnTick(s) ==
  /\ held[s] # Flat
  /\ IF low[s] THEN SellFor(s, Guard) \/ NetBuy(s) \/ Pass ELSE Pass
  /\ \/ held'[s] # Flat /\ Append1(Exit(s))
     \/ (held'[s] = Flat \/ ~low[s]) /\ UNCHANGED bus
  /\ UNCHANGED <<halted, slumber, benched, clock>>

HandleExit(s) ==
  /\ bus # <<>> /\ Head(bus) = Exit(s)
  /\ SellFor(s, Guard) \/ NetBuy(s) \/ Pass
  /\ bus' = Tail(bus)
  /\ UNCHANGED <<halted, slumber, benched, clock>>

\* A snapshot names its symbol and strategy itself: no fusion, so also no
\* look at whether the symbol is held by now.
HandleSnapshot(s) ==
  /\ bus # <<>> /\ Head(bus) = Enter(s)
  /\ \/ ~halted /\ MayEnter(Fast) /\ Buy(s, "MIS")
     \/ Pass
  /\ bus' = Tail(bus)
  /\ UNCHANGED <<halted, slumber, benched, clock>>

\* PositionMonitor.on_session_close.
HandleClose ==
  /\ bus # <<>> /\ Head(bus) = Close
  /\ \E q \in Orders(ExitsOfMIS) : bus' = Tail(bus) \o q
  /\ UNCHANGED <<books, gates, clock>>

\* A bar, a filing, a macro figure: strategies answer it with a signal.
HandleSignal(s, x) ==
  /\ \/ \E rail \in Rails : BuyFor(s, x, rail)
     \/ NetBuy(s)
     \/ SellFor(s, x)
  /\ UNCHANGED <<halted, slumber, benched, bus, clock>>

\* A HEDGE becomes a BUY of the ETF after the checks that ask for a BUY.  In a
\* falling market it is chosen before its strategy's lifecycle is looked at.
HandleHedge ==
  /\ ~halted
  /\ Buy(Etf, "CNC")
  /\ UNCHANGED <<halted, slumber, benched, bus, clock>>

\* on_event finds the day's drawdown or loss over its limit.
Breaker ==
  /\ ~halted
  /\ halted' = TRUE
  /\ \/ /\ held' = [s \in Symbols |-> Flat]
        /\ low' = [s \in Symbols |-> FALSE]
     \/ UNCHANGED books
  /\ UNCHANGED <<cooling, slumber, benched, bus, clock>>

-----------------------------------------------------------------------------
(* Loops beside the bus, the dashboard, the exchange                         *)

\* The fast decision loop picks a symbol that is not held.
Snapshot(s) ==
  /\ day # "CLOSED"
  /\ held[s] = Flat
  /\ BelowMaxPositions
  /\ Append1(Enter(s))
  /\ UNCHANGED <<books, gates, clock>>

\* run_mis_squareoff_loop, once a day from 15:10.
SquareOff ==
  /\ day = "LATE"
  /\ day' = "SQUARED"
  /\ Len(bus) <= MaxBus
  /\ \E q \in Orders(ExitsOfMIS) : bus' = bus \o q
  /\ UNCHANGED <<books, gates, phase>>

\* poll_session_status publishes a change; the reply may lack the market.
Poll ==
  /\ \E status \in {IF day = "CLOSED" THEN "CLOSED" ELSE "OPEN", "UNKNOWN"} :
       /\ status # phase
       /\ phase' = status
       /\ IF status = "CLOSED" THEN Append1(Close) ELSE UNCHANGED bus
  /\ UNCHANGED <<books, gates, day>>

\* The learning loop promotes and demotes, the guard and the combiner too.
Learn ==
  /\ \E x \in Strategies :
       benched' = IF x \in benched THEN benched \ {x} ELSE benched \cup {x}
  /\ UNCHANGED <<books, cooling, halted, slumber, bus, clock>>

Cool ==
  /\ cooling
  /\ cooling' = FALSE
  /\ UNCHANGED <<books, halted, slumber, benched, bus, clock>>

\* The dashboard halts and resumes, and sends the engine to slumber.
Halt ==
  /\ halted' = ~halted
  /\ UNCHANGED <<books, cooling, slumber, benched, bus, clock>>

Slumber ==
  /\ slumber' = ~slumber
  /\ UNCHANGED <<books, cooling, halted, benched, bus, clock>>

Move(s) ==
  /\ held[s] # Flat
  /\ low' = [low EXCEPT ![s] = ~low[s]]
  /\ UNCHANGED <<held, gates, bus, clock>>

After == [CLOSED |-> "OPEN", OPEN |-> "LATE", LATE |-> "CLOSED", SQUARED |-> "CLOSED"]

Exchange ==
  /\ day' = After[day]
  /\ UNCHANGED <<books, gates, bus, phase>>

\* The tables survive; the bus, the session phase and the square-off loop's
\* memory of the day do not.
Restart ==
  /\ bus' = <<>>
  /\ phase' = "UNKNOWN"
  /\ day' = IF day = "SQUARED" THEN "LATE" ELSE day
  /\ UNCHANGED <<books, gates>>

Next ==
  \/ \E s \in Symbols :
       \/ OnTick(s)
       \/ HandleExit(s)
       \/ Move(s)
  \/ \E s \in Stocks :
       \/ Snapshot(s)
       \/ HandleSnapshot(s)
       \/ \E x \in Entrants : HandleSignal(s, x)
  \/ HandleClose
  \/ HandleHedge
  \/ Breaker
  \/ SquareOff
  \/ Poll
  \/ Learn
  \/ Cool
  \/ Halt
  \/ Slumber
  \/ Exchange
  \/ Restart

Spec == Init /\ [][Next]_vars

\* Orders age.  Ticks come by the second and an order blocks the next for
\* thirty, so a tick that would be sold on and comes again and again is once
\* handled between two orders.
Fairness ==
  /\ WF_vars(Cool)
  /\ \A s \in Symbols : SF_vars(OnTick(s) /\ held'[s] = Flat)

FairSpec == Spec /\ Fairness

-----------------------------------------------------------------------------
(* Properties                                                                *)

\* Whatever events interleave, the engine's own entries hold at most
\* MaxPositions symbols beside the hedge, which asks no limit: can_open_new
\* counts the rows at the start of the handler that buys.  Manual buys
\* (manual_trade.py, manual_buy) ask no limit either and are not in this module:
\* with them the table may hold more, and the engine then opens nothing.
PositionsBounded == Cardinality(Open \ {Etf}) <= MaxPositions

\* No path from an event to a new position, but the hedge's, leads around the
\* session, the slumber, the halt and the order cooldown, with entries queued
\* in the bus while each of these changes.
EntriesGated ==
  [][\A s \in Stocks :
       held[s] = Flat /\ held'[s] # Flat =>
         phase = "OPEN" /\ ~slumber /\ ~halted /\ ~cooling]_vars

\* A position whose price stays under its stop is sold or trading is halted,
\* as long as the guard keeps its capital: neither the cooldown that entries
\* and exits share nor signals that cancel an exit hold it back for ever.
ArmedStopActs ==
  \A s \in Symbols :
    held[s] # Flat /\ low[s] ~>
      held[s] = Flat \/ ~low[s] \/ halted \/ Guard \in benched

\* "New BUY entries only when exchange session is OPEN": not so for the hedge.
EntriesOnlyWhenOpen ==
  [][\A s \in Symbols : held[s] = Flat /\ held'[s] # Flat => phase = "OPEN"]_vars

\* "Exit on stop-loss": not when the stop-loss guard has been demoted.
StopLossActs ==
  \A s \in Symbols :
    held[s] # Flat /\ low[s] ~> held[s] = Flat \/ ~low[s] \/ halted
===============================================================================
