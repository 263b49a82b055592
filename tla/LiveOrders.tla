------------------------------ MODULE LiveOrders ------------------------------
(***************************************************************************)
(* The life of a live order (TRADING_MODE=live): the execution engine      *)
(* sends a market order to the broker, writes a pending_orders row, and    *)
(* books cash, lots and positions only when ORDER_FILL comes back through  *)
(* the event bus.  The books are SQLite tables; every helper commits on    *)
(* its own, so the settlement of one fill is several commits and a process *)
(* crash may fall between any two of them.                                 *)
(*                                                                         *)
(* Actors: the engine process (the bus runs one handler at a time; a       *)
(* handler is cut here at its commits and at the await of the strategy     *)
(* dispatch), the reconciliation task of the same event loop, the broker   *)
(* (external), and the dashboard process, which halts, resumes and panics  *)
(* on its own SQLite connection.                                           *)
(*                                                                         *)
(* Abstractions.  One share costs one rupee and trades carry no fees: a    *)
(* quantity is also the amount the budget gate sees.  The lots of a symbol *)
(* are kept as the sum of their remaining_qty.  Strategies, vetoes and the *)
(* margin check decide WHETHER a signal is acted on, which is left open.   *)
(* LIMIT_CHASE_ENABLED is false (the default), so place_async does not     *)
(* yield.  The dashboard's manual buys, which do not ask for the mode, are  *)
(* not in this module.  One trading day.                                   *)
(***************************************************************************)
EXTENDS Integers, Sequences

CONSTANTS
  Symbols,      \* traded symbols
  BuyOrders,    \* order ids the broker may give to BUY orders
  SellOrders,   \* order ids the broker may give to SELL orders
  SymOf,        \* the symbol each order id is used for
  MaxQty,       \* MAX_RUPEES_PER_TRADE at one rupee a share
  Cap,          \* effective_daily_max of the day
  HaltAfter,    \* RECONCILE_HALT_AFTER
  MaxCrashes,   \* bound: crashes of the engine process
  MaxTimeouts,  \* bound: place_order calls that raise after the broker accepted
  MaxDups,      \* bound: repeated COMPLETE updates for one fill
  MaxPanics     \* bound: panic_halt_and_squareoff calls

Orders == BuyOrders \cup SellOrders

ASSUME LiveOrdersAssumption ==
  /\ BuyOrders \cap SellOrders = {}
  /\ SymOf \in [Orders -> Symbols]
  /\ MaxQty \in Nat \ {0}
  /\ Cap \in Nat
  /\ HaltAfter \in Nat \ {0}
  /\ MaxCrashes \in Nat
  /\ MaxTimeouts \in Nat
  /\ MaxDups \in Nat
  /\ MaxPanics \in Nat

VARIABLES
  \* the broker (external)
  status,    \* order id -> "unused", "open", "complete" or "dead"
  qty,       \* order id -> quantity the broker was asked for
  stop,      \* BUY order id -> its SL-M backup: "none", "armed" or "fired"
  net,       \* symbol -> net quantity at the broker, negative when short
  \* the engine process
  bus,       \* queue of ORDER_FILL events not yet handled
  up,        \* the process runs
  pc,        \* where the bus handler is
  cur,       \* the order that handler works on
  sig,       \* the signal that handler works on
  \* the SQLite database
  row,       \* order id -> its pending_orders row: "none", "PENDING", "FILLED"
  trades,    \* order id -> number of trades rows
  cash,      \* order id -> number of cash_ledger rows
  booked,    \* order id -> times its fill was applied to lots and positions
  lots,      \* symbol -> sum of remaining_qty over fifo_lots
  pos,       \* symbol -> qty of the positions row, 0 when there is none
  deployed,  \* deployed_today_inr: sum over today's BUY trades
  halted,    \* settings.trading_halted
  streak,    \* settings.reconcile_mismatch_streak, capped at HaltAfter
  cooling,   \* last_order_placed_ts is younger than MIN_ORDER_INTERVAL_SEC
  \* counters that bound or observe
  late,      \* orders sent since the halt now in force
  crashes, timeouts, dups, panics

broker   == <<status, qty, stop, net>>
handler  == <<pc, cur, sig>>
books    == <<row, trades, cash, booked, lots, pos, deployed>>
controls == <<halted, streak, cooling>>
counters == <<late, crashes, timeouts, dups, panics>>
vars == <<broker, bus, up, handler, books, controls, counters>>

NoOrder  == [none |-> "order"]
NoSignal == [none |-> "signal"]
Signals  == [sym : Symbols, side : {"BUY", "SELL"}]
Fills    == [order : Orders, kind : {"main", "stop"}]

\* The steps of settle_pending_fill, in the order each side commits them.
BuySteps   == {"trade", "cash", "lot", "filled"}
SellSteps  == {"lot", "position", "trade", "cash", "filled"}
SettleStep == BuySteps \cup SellSteps
Step == {"idle", "deciding", "record", "mark"} \cup SettleStep

Init ==
  /\ status = [o \in Orders |-> "unused"]
  /\ qty = [o \in Orders |-> 0]
  /\ stop = [o \in BuyOrders |-> "none"]
  /\ net = [s \in Symbols |-> 0]
  /\ bus = <<>>
  /\ up = TRUE
  /\ pc = "idle" /\ cur = NoOrder /\ sig = NoSignal
  /\ row = [o \in Orders |-> "none"]
  /\ trades = [o \in Orders |-> 0]
  /\ cash = [o \in Orders |-> 0]
  /\ booked = [o \in Orders |-> 0]
  /\ lots = [s \in Symbols |-> 0]
  /\ pos = [s \in Symbols |-> 0]
  /\ deployed = 0
  /\ halted = FALSE /\ streak = 0 /\ cooling = FALSE
  /\ late = 0 /\ crashes = 0 /\ timeouts = 0 /\ dups = 0 /\ panics = 0

-------------------------------------------------------------------------------
(* The engine sends an order.                                                *)

\* Mutant of Decide: the kill switch is not read.
DecideWhileHalted(s, side) ==
  /\ up /\ pc = "idle"
  /\ pc' = "deciding"
  /\ sig' = [sym |-> s, side |-> side]
  /\ UNCHANGED <<broker, bus, up, cur, books, controls, counters>>

\* on_event: the halt flag is read once, at the top; the strategies are then
\* awaited and fuse to one signal.
Decide(s, side) ==
  /\ up /\ pc = "idle" /\ ~halted
  /\ pc' = "deciding"
  /\ sig' = [sym |-> s, side |-> side]
  /\ UNCHANGED <<broker, bus, up, cur, books, controls, counters>>

\* The cooldown, budget, margin and position vetoes, and a refusal of the
\* broker (place_async returns None with nothing placed).
Veto ==
  /\ up /\ pc = "deciding"
  /\ pc' = "idle" /\ sig' = NoSignal
  /\ UNCHANGED <<broker, bus, up, cur, books, controls, counters>>

\* place_async cuts a quantity above MAX_RUPEES_PER_TRADE.
BrokerQty(q) == IF q > MaxQty THEN MaxQty ELSE q

\* A BUY passes can_deploy under the deploy lock; a SELL is for the whole
\* positions row.  Both are refused during the order cooldown.
CanSubmit(o, q) ==
  /\ up /\ pc = "deciding" /\ ~cooling
  /\ status[o] = "unused"
  /\ sig.sym = SymOf[o]
  /\ \/ /\ o \in BuyOrders /\ sig.side = "BUY"
        /\ q \in 1..MaxQty
        /\ deployed + q <= Cap
     \/ /\ o \in SellOrders /\ sig.side = "SELL"
        /\ pos[SymOf[o]] > 0
        /\ q = BrokerQty(pos[SymOf[o]])

SendToBroker(o, q) ==
  /\ status' = [status EXCEPT ![o] = "open"]
  /\ qty' = [qty EXCEPT ![o] = q]
  /\ sig' = NoSignal
  /\ late' = IF halted THEN late + 1 ELSE late
  /\ UNCHANGED <<stop, net, bus, up, books, controls, crashes, dups, panics>>

\* place_async returns the order id.
Submit(o, q) ==
  /\ CanSubmit(o, q)
  /\ SendToBroker(o, q)
  /\ pc' = "record" /\ cur' = o
  /\ UNCHANGED timeouts

\* The broker accepted the order but the call raised: place_async logs and
\* returns None, so the engine records nothing.
SubmitTimesOut(o, q) ==
  /\ timeouts < MaxTimeouts
  /\ CanSubmit(o, q)
  /\ SendToBroker(o, q)
  /\ timeouts' = timeouts + 1
  /\ pc' = "idle" /\ UNCHANGED cur

\* record_pending, its own commit.
RecordPending ==
  /\ up /\ pc = "record"
  /\ row' = [row EXCEPT ![cur] = "PENDING"]
  /\ pc' = "mark"
  /\ UNCHANGED <<broker, bus, up, cur, sig, trades, cash, booked, lots, pos,
                 deployed, controls, counters>>

\* mark_order_placed and, for a BUY, place_sl_m, which may place nothing
\* (rail other than MIS, disabled, or an exception).
MarkPlaced ==
  /\ up /\ pc = "mark"
  /\ cooling' = TRUE
  /\ \/ UNCHANGED stop
     \/ cur \in BuyOrders /\ stop' = [stop EXCEPT ![cur] = "armed"]
  /\ pc' = "idle" /\ cur' = NoOrder
  /\ UNCHANGED <<status, qty, net, bus, up, sig, books, halted, streak, counters>>

-------------------------------------------------------------------------------
(* The broker and its order updates (external).                              *)

\* An update reaches the bus, or is lost: the process is down or its
\* websocket is not connected.
Notify(o, kind) ==
  \/ up /\ bus' = Append(bus, [order |-> o, kind |-> kind])
  \/ UNCHANGED bus

Signed(o) == IF o \in BuyOrders THEN qty[o] ELSE -qty[o]

BrokerFill(o) ==
  /\ status[o] = "open"
  /\ status' = [status EXCEPT ![o] = "complete"]
  /\ net' = [net EXCEPT ![SymOf[o]] = @ + Signed(o)]
  /\ Notify(o, "main")
  /\ UNCHANGED <<qty, stop, up, handler, books, controls, counters>>

\* Rejected or cancelled at the exchange: _handle_order_update drops every
\* update that is not COMPLETE.
BrokerReject(o) ==
  /\ status[o] = "open"
  /\ status' = [status EXCEPT ![o] = "dead"]
  /\ UNCHANGED <<qty, stop, net, bus, up, handler, books, controls, counters>>

\* The SL-M backup sells the quantity of the BUY it was placed with.  Nothing
\* in the program cancels it.
StopTriggers(o) ==
  /\ stop[o] = "armed"
  /\ stop' = [stop EXCEPT ![o] = "fired"]
  /\ net' = [net EXCEPT ![SymOf[o]] = @ - qty[o]]
  /\ Notify(o, "stop")
  /\ UNCHANGED <<status, qty, up, handler, books, controls, counters>>

\* The broker repeats the COMPLETE update of an order.
DuplicateUpdate(o) ==
  /\ dups < MaxDups /\ up
  /\ status[o] = "complete"
  /\ bus' = Append(bus, [order |-> o, kind |-> "main"])
  /\ dups' = dups + 1
  /\ UNCHANGED <<broker, up, handler, books, controls, late, crashes, timeouts, panics>>

-------------------------------------------------------------------------------
(* The bus handles an ORDER_FILL: on_order_fill, settle_pending_fill.        *)

\* Mutant of HeadIs: the bus does not wait for the handler that is sending an
\* order.
HeadIsConcurrent(kind) ==
  up /\ pc \in {"idle", "record"} /\ bus # <<>> /\ Head(bus).kind = kind

HeadIs(kind) == up /\ pc = "idle" /\ bus # <<>> /\ Head(bus).kind = kind

\* Mutant of MaySettle: the row's status is not looked at.
MaySettleAnyRow(o) ==
  /\ row[o] # "none"
  /\ o \in BuyOrders => deployed + qty[o] <= Cap

\* settle_pending_fill goes ahead: the row is PENDING, and a BUY passes
\* can_deploy once more.
MaySettle(o) ==
  /\ row[o] = "PENDING"
  /\ o \in BuyOrders => deployed + qty[o] <= Cap

\* Mutant of BeginSettle: a BUY opens its lot before its trade and its cash.
BeginSettleLotFirst ==
  /\ HeadIs("main")
  /\ MaySettle(Head(bus).order)
  /\ cur' = Head(bus).order
  /\ pc' = "lot"
  /\ bus' = Tail(bus)
  /\ UNCHANGED <<broker, up, sig, books, controls, counters>>

BeginSettle ==
  /\ HeadIs("main")
  /\ MaySettle(Head(bus).order)
  /\ cur' = Head(bus).order
  /\ pc' = IF cur' \in BuyOrders THEN "trade" ELSE "lot"
  /\ bus' = Tail(bus)
  /\ UNCHANGED <<broker, up, sig, books, controls, counters>>

\* settle_pending_fill returned False.  With a trades row the price is
\* corrected; without one a bare trades row is written, and that is all.
HandleUnsettled ==
  /\ HeadIs("main")
  /\ LET o == Head(bus).order IN
       /\ ~MaySettle(o)
       /\ IF trades[o] > 0
          THEN UNCHANGED <<trades, deployed>>
          ELSE /\ trades' = [trades EXCEPT ![o] = 1]
               /\ deployed' = IF o \in BuyOrders THEN deployed + qty[o] ELSE deployed
  /\ bus' = Tail(bus)
  /\ UNCHANGED <<broker, up, handler, row, cash, booked, lots, pos, controls, counters>>

\* The SL-M order has an id no table knows: a bare trades row of its own.
HandleStopFill ==
  /\ HeadIs("stop")
  /\ bus' = Tail(bus)
  /\ UNCHANGED <<broker, up, handler, books, controls, counters>>

At(step) == up /\ pc = step /\ cur \in Orders

SettleTrade ==
  /\ At("trade")
  /\ trades' = [trades EXCEPT ![cur] = @ + 1]
  /\ deployed' = IF cur \in BuyOrders THEN deployed + qty[cur] ELSE deployed
  /\ pc' = "cash"
  /\ UNCHANGED <<broker, bus, up, cur, sig, row, cash, booked, lots, pos,
                 controls, counters>>

SettleCash ==
  /\ At("cash")
  /\ cash' = [cash EXCEPT ![cur] = @ + 1]
  /\ pc' = IF cur \in BuyOrders THEN "lot" ELSE "filled"
  /\ UNCHANGED <<broker, bus, up, cur, sig, row, trades, booked, lots, pos,
                 deployed, controls, counters>>

\* Mutant of OpenLot: the row is left PENDING.
OpenLotUnmarked ==
  /\ At("lot") /\ cur \in BuyOrders
  /\ lots' = [lots EXCEPT ![SymOf[cur]] = @ + qty[cur]]
  /\ pos' = [pos EXCEPT ![SymOf[cur]] = @ + qty[cur]]
  /\ booked' = [booked EXCEPT ![cur] = @ + 1]
  /\ pc' = "idle" /\ cur' = NoOrder
  /\ UNCHANGED <<broker, bus, up, sig, row, trades, cash, deployed,
                 controls, counters>>

\* open_lot: the lot and the position in one transaction.
OpenLot ==
  /\ At("lot") /\ cur \in BuyOrders
  /\ lots' = [lots EXCEPT ![SymOf[cur]] = @ + qty[cur]]
  /\ pos' = [pos EXCEPT ![SymOf[cur]] = @ + qty[cur]]
  /\ booked' = [booked EXCEPT ![cur] = @ + 1]
  /\ pc' = "filled"
  /\ UNCHANGED <<broker, bus, up, cur, sig, row, trades, cash, deployed,
                 controls, counters>>

\* close_lots_fifo, first commit: what lots there are get consumed; if they do
\* not cover the sale, ValueError is raised after the commit and the bus drops
\* the event.
CloseLots ==
  /\ At("lot") /\ cur \in SellOrders
  /\ LET s == SymOf[cur] IN
       IF lots[s] >= qty[cur]
       THEN /\ lots' = [lots EXCEPT ![s] = @ - qty[cur]]
            /\ booked' = [booked EXCEPT ![cur] = @ + 1]
            /\ pc' = "position" /\ UNCHANGED cur
       ELSE /\ lots' = [lots EXCEPT ![s] = 0]
            /\ UNCHANGED booked
            /\ pc' = "idle" /\ cur' = NoOrder
  /\ UNCHANGED <<broker, bus, up, sig, row, trades, cash, pos, deployed,
                 controls, counters>>

\* close_lots_fifo, second commit.
ReducePosition ==
  /\ At("position") /\ cur \in SellOrders
  /\ pos' = [pos EXCEPT ![SymOf[cur]] = IF @ > qty[cur] THEN @ - qty[cur] ELSE 0]
  /\ pc' = "trade"
  /\ UNCHANGED <<broker, bus, up, cur, sig, row, trades, cash, booked, lots,
                 deployed, controls, counters>>

\* The last commit of settle_pending_fill.
MarkFilled ==
  /\ At("filled")
  /\ row' = [row EXCEPT ![cur] = "FILLED"]
  /\ pc' = "idle" /\ cur' = NoOrder
  /\ UNCHANGED <<broker, bus, up, sig, trades, cash, booked, lots, pos,
                 deployed, controls, counters>>

-------------------------------------------------------------------------------
(* Reconciliation, restarts, and the dashboard.                              *)

\* Symbols whose broker quantity cannot be repaired: bq < 0 is skipped.
Unrepaired == {s \in Symbols : net[s] < 0}

\* Mutant of Repair: rows of symbols the broker does not hold are kept.
RepairKeepsGone ==
  /\ pos' = [s \in Symbols |-> IF net[s] <= 0 THEN pos[s] ELSE net[s]]
  /\ IF Unrepaired # {}
     THEN /\ streak' = IF streak < HaltAfter THEN streak + 1 ELSE streak
          /\ halted' = (halted \/ streak + 1 >= HaltAfter)
     ELSE streak' = 0 /\ UNCHANGED halted
  /\ UNCHANGED <<row, trades, cash, booked, lots, deployed, cooling>>

\* Mutant of Repair: every pass counts as repaired.
RepairResetsStreak ==
  /\ pos' = [s \in Symbols |-> IF s \in Unrepaired THEN pos[s] ELSE net[s]]
  /\ streak' = 0 /\ UNCHANGED halted
  /\ UNCHANGED <<row, trades, cash, booked, lots, deployed, cooling>>

\* reconcile_positions and _track_mismatch_streak after kite.positions()
\* answered.  pos >= 0, so a short symbol always counts as a mismatch.
Repair ==
  /\ pos' = [s \in Symbols |-> IF s \in Unrepaired THEN pos[s] ELSE net[s]]
  /\ IF Unrepaired # {}
     THEN /\ streak' = IF streak < HaltAfter THEN streak + 1 ELSE streak
          /\ halted' = (halted \/ streak + 1 >= HaltAfter)
     ELSE streak' = 0 /\ UNCHANGED halted
  /\ UNCHANGED <<row, trades, cash, booked, lots, deployed, cooling>>

\* The loop runs when the bus handler is not in the middle of a synchronous
\* stretch.  A failed kite.positions() call changes nothing.
Reconcile ==
  /\ up /\ pc \in {"idle", "deciding"}
  /\ Repair
  /\ UNCHANGED <<broker, bus, up, handler, counters>>

\* The process dies; the bus and the handler die with it.
Crash ==
  /\ up /\ crashes < MaxCrashes
  /\ up' = FALSE
  /\ crashes' = crashes + 1
  /\ bus' = <<>>
  /\ pc' = "idle" /\ cur' = NoOrder /\ sig' = NoSignal
  /\ UNCHANGED <<broker, books, controls, late, timeouts, dups, panics>>

\* main: startup_position_audit reconciles once, if the broker answers.
Restart ==
  /\ ~up
  /\ up' = TRUE
  /\ \/ Repair
     \/ UNCHANGED <<books, controls>>
  /\ UNCHANGED <<broker, bus, handler, counters>>

CooldownEnds ==
  /\ cooling
  /\ cooling' = FALSE
  /\ UNCHANGED <<broker, bus, up, handler, books, halted, streak, counters>>

\* set_halt, from the dashboard or from the daily loss gate.
SetHalt ==
  /\ ~halted
  /\ halted' = TRUE
  /\ UNCHANGED <<broker, bus, up, handler, books, streak, cooling, counters>>

\* clear_halt, from the dashboard.
ClearHalt ==
  /\ halted
  /\ halted' = FALSE
  /\ late' = 0
  /\ UNCHANGED <<broker, bus, up, handler, books, streak, cooling,
                 crashes, timeouts, dups, panics>>

\* panic_halt_and_squareoff, from the dashboard or on intraday drawdown: halt,
\* then sell every row in the books.  It sends nothing to the broker.  A row
\* whose lots do not cover it raises after its lots are consumed, and the rows
\* after it are left alone.
PanicHalt ==
  /\ panics < MaxPanics
  /\ panics' = panics + 1
  /\ halted' = TRUE
  /\ LET held  == {s \in Symbols : pos[s] > 0}
         short == {s \in held : lots[s] < pos[s]}
     IN \E done \in SUBSET (held \ short), failed \in SUBSET short :
          /\ IF short = {} THEN done = held /\ failed = {} ELSE \E f \in short : failed = {f}
          /\ pos' = [s \in Symbols |-> IF s \in done THEN 0 ELSE pos[s]]
          /\ lots' = [s \in Symbols |-> CASE s \in done -> lots[s] - pos[s]
                                          [] s \in failed -> 0
                                          [] OTHER -> lots[s]]
  /\ UNCHANGED <<broker, bus, up, handler, row, trades, cash, booked, deployed,
                 streak, cooling, late, crashes, timeouts, dups>>

-------------------------------------------------------------------------------
Place ==
  \/ \E s \in Symbols, side \in {"BUY", "SELL"} : Decide(s, side)
  \/ Veto
  \/ \E o \in Orders, q \in 1..MaxQty : Submit(o, q) \/ SubmitTimesOut(o, q)
  \/ RecordPending
  \/ MarkPlaced

Broker ==
  \/ \E o \in Orders : BrokerFill(o) \/ BrokerReject(o) \/ DuplicateUpdate(o)
  \/ \E o \in BuyOrders : StopTriggers(o)

TakeFill == BeginSettle \/ HandleUnsettled \/ HandleStopFill

Settle ==
  \/ SettleTrade \/ SettleCash \/ OpenLot \/ CloseLots \/ ReducePosition
  \/ MarkFilled

Operator == SetHalt \/ ClearHalt \/ PanicHalt

Next ==
  \/ Place \/ Broker \/ TakeFill \/ Settle
  \/ Reconcile \/ Crash \/ Restart \/ CooldownEnds \/ Operator

Spec == Init /\ [][Next]_vars

\* The handler runs on, the supervisor restarts the process, the queue is
\* first-in first-out so its head is not passed over for ever, and the
\* reconciliation timer fires again and again with the broker answering.
Fairness ==
  /\ WF_vars(Veto)
  /\ WF_vars(RecordPending) /\ WF_vars(MarkPlaced)
  /\ WF_vars(Settle)
  /\ SF_vars(TakeFill)
  /\ SF_vars(Reconcile)
  /\ WF_vars(Restart)

FairSpec == Spec /\ Fairness
-------------------------------------------------------------------------------
(* Properties.                                                               *)

\* Types.
TypeOK ==
  /\ status \in [Orders -> {"unused", "open", "complete", "dead"}]
  /\ qty \in [Orders -> Nat]
  /\ stop \in [BuyOrders -> {"none", "armed", "fired"}]
  /\ net \in [Symbols -> Int]
  /\ bus \in Seq(Fills)
  /\ up \in BOOLEAN
  /\ pc \in Step
  /\ cur \in Orders \cup {NoOrder}
  /\ sig \in Signals \cup {NoSignal}
  /\ row \in [Orders -> {"none", "PENDING", "FILLED"}]
  /\ trades \in [Orders -> Nat]
  /\ cash \in [Orders -> Nat]
  /\ booked \in [Orders -> Nat]
  /\ lots \in [Symbols -> Nat]
  /\ pos \in [Symbols -> Nat]
  /\ deployed \in Nat
  /\ halted \in BOOLEAN /\ streak \in 0..HaltAfter /\ cooling \in BOOLEAN
  /\ late \in Nat /\ crashes \in Nat /\ timeouts \in Nat /\ dups \in Nat
  /\ panics \in Nat

\* Crash consistency of settle_pending_fill.  Whatever crash cuts a settlement
\* short and however often the fill is delivered again, shares bought are in
\* the lots only after the cash left the ledger, and cash moves only after its
\* trades row exists; shares sold left the lots before their trade and their
\* cash were written; and a FILLED row means all of it was done.
CommitPrefix ==
  /\ \A o \in BuyOrders : booked[o] <= cash[o] /\ cash[o] <= trades[o]
  /\ \A o \in SellOrders : /\ cash[o] <= trades[o]
                           /\ cash[o] <= booked[o]
                           /\ row[o] # "none" /\ trades[o] > 0 => booked[o] > 0
  /\ \A o \in Orders : row[o] = "FILLED" => booked[o] > 0 /\ cash[o] > 0

\* A fill is applied to lots and positions once, however often the broker
\* repeats it; each further application costs a crash between the booking and
\* the commit that marks the row FILLED.
BookedOncePerCrash == \A o \in Orders : booked[o] <= 1 + crashes

\* An order as the books see it: settled when its row is FILLED, otherwise what
\* the broker has made of it.
LifeOf(o) == CASE row[o] = "FILLED" -> "settled"
               [] status[o] = "unused" -> "new"
               [] OTHER -> status[o]

Books == INSTANCE Settlement
         WITH life <- [o \in Orders |-> LifeOf(o)], paid <- cash, applied <- booked, cuts <- crashes

\* The commits of settle_pending_fill implement Settlement, step by step, with
\* lost, repeated and late updates, reconciliation, panics and crashes between
\* any two of them: a bought share is paid before it is booked, a sold one is
\* paid after it left the books, neither twice without a crash in between, and
\* nothing moves for an order that is marked FILLED or that the broker did not
\* complete.
SettlesAsPromised == Books!Spec

\* The bus runs one handler at a time, so a fill is never handled before the
\* pending row of its order is written: a trades row for an order without a
\* pending row means the engine died, or lost the reply, after the broker
\* accepted the order.
NoEarlyFill ==
  \A o \in Orders : trades[o] > 0 /\ row[o] = "none" => crashes + timeouts > 0

\* The kill switch is read once per event: while one halt is in force at most
\* one order, already past the check when the halt was set, goes out.
HaltLetsOneThrough == halted => late <= 1

\* The books reach the broker's quantities and stay there, whatever was lost,
\* repeated or booked twice on the way, for every symbol that is not short.
BooksConverge == <>[](\A s \in Symbols : net[s] >= 0 => pos[s] = net[s])

\* A short position at the broker is the mismatch reconciliation cannot
\* repair: if it lasts, trading is halted, again after every resume.
ShortLeadsToHalt == <>[](\E s \in Symbols : net[s] < 0) => []<>halted

\* budget_gate calls the daily budget a hard cap: the BUY trades of the day
\* never exceed it.
HardCap == deployed <= Cap

\* The engine reports "positions flattened" when panic_halt_and_squareoff
\* returns: if the books agreed with the broker when it was called, the broker
\* holds nothing when it returns.
PanicFlattens ==
  [][panics' > panics /\ (\A s \in Symbols : pos[s] = net[s])
       => \A s \in Symbols : net'[s] = 0]_vars
-------------------------------------------------------------------------------
(* The inductive invariant behind the safety properties.                     *)

\* What each step of the handler knows of the order it works on.
HandlerInv ==
  /\ pc \in {"record", "mark"} \cup SettleStep => cur \in Orders
  /\ pc = "record" => row[cur] = "none" /\ trades[cur] = 0 /\ status[cur] # "unused"
  /\ pc \in SettleStep => row[cur] = "PENDING"
  /\ pc = "position" => cur \in SellOrders
  /\ pc = "deciding" => sig \in Signals

\* Only completed orders are announced, and an unused id is nowhere.
OriginInv ==
  /\ \A i \in 1..Len(bus) : bus[i].kind = "main" => status[bus[i].order] = "complete"
  /\ \A o \in Orders : status[o] = "unused" =>
       row[o] = "none" /\ trades[o] = 0 /\ booked[o] = 0

\* The commits of a settlement, with the one the handler is about to make.
BookInv ==
  /\ CommitPrefix
  /\ cur \in BuyOrders => /\ pc = "cash" => cash[cur] < trades[cur]
                          /\ pc = "lot" => booked[cur] < cash[cur]
  /\ cur \in SellOrders =>
       /\ pc \in {"position", "trade", "cash"} => cash[cur] < booked[cur]
       /\ pc = "cash" => cash[cur] < trades[cur]
  /\ pc = "filled" => booked[cur] > 0 /\ cash[cur] > 0

\* The handler has booked the fill of o and not yet marked its row.
Booking(o) ==
  /\ cur = o
  /\ pc = "filled" \/ (o \in SellOrders /\ pc \in {"position", "trade", "cash"})

OnceInv ==
  \A o \in Orders :
    booked[o] <= (IF row[o] = "FILLED" \/ Booking(o) THEN 1 + crashes ELSE crashes)

\* An accepted order without a row is the one about to be recorded, or lost.
EarlyInv ==
  \A o \in Orders :
    status[o] # "unused" /\ row[o] = "none" /\ ~(pc = "record" /\ cur = o)
      => crashes + timeouts > 0

\* Only what the broker completed is settled.
CompleteInv ==
  /\ pc \in SettleStep => status[cur] = "complete"
  /\ \A o \in Orders : row[o] = "FILLED" => status[o] = "complete"

\* The handler has paid for o and not yet marked its row.
Paying(o) ==
  /\ cur = o
  /\ pc = "filled" \/ (o \in BuyOrders /\ pc = "lot")

PaidInv ==
  \A o \in Orders :
    cash[o] <= (IF row[o] = "FILLED" \/ Paying(o) THEN 1 + crashes ELSE crashes)

HaltInv ==
  /\ late <= 1
  /\ ~halted \/ pc = "deciding" => late = 0

IInv ==
  /\ TypeOK /\ HandlerInv /\ OriginInv /\ BookInv /\ OnceInv /\ EarlyInv /\ HaltInv
  /\ CompleteInv /\ PaidInv
===============================================================================
