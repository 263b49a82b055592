-------------------------- MODULE LiveOrdersProofs --------------------------
(***************************************************************************)
(* Safety of LiveOrders for every set of orders and symbols and every      *)
(* bound, and that it implements Settlement.                               *)
(***************************************************************************)
EXTENDS LiveOrders, TLAPS

USE LiveOrdersAssumption

\* Only the initial state.
LEMMA InitInv == Init => IInv
<1> SUFFICES ASSUME Init PROVE IInv
  OBVIOUS
<1> USE DEF Init
<1>1. TypeOK
  <2>1. bus \in Seq(Fills)
    OBVIOUS
  <2>2. /\ status \in [Orders -> {"unused", "open", "complete", "dead"}]
        /\ qty \in [Orders -> Nat]
        /\ stop \in [BuyOrders -> {"none", "armed", "fired"}]
        /\ net \in [Symbols -> Int]
        /\ pc \in Step
    BY DEF Step
  <2>3. /\ row \in [Orders -> {"none", "PENDING", "FILLED"}]
        /\ trades \in [Orders -> Nat]
        /\ cash \in [Orders -> Nat]
        /\ booked \in [Orders -> Nat]
        /\ lots \in [Symbols -> Nat]
        /\ pos \in [Symbols -> Nat]
        /\ streak \in 0..HaltAfter
    OBVIOUS
  <2> QED
    BY <2>1, <2>2, <2>3 DEF TypeOK
<1>2. HandlerInv
  BY DEF HandlerInv, SettleStep, BuySteps, SellSteps
<1>3. OriginInv
  BY DEF OriginInv
<1>4. BookInv
  BY DEF BookInv, CommitPrefix, Orders, NoOrder
<1>5. OnceInv /\ EarlyInv /\ HaltInv
  BY DEF OnceInv, EarlyInv, HaltInv, Booking
<1>6. CompleteInv /\ PaidInv
  BY DEF CompleteInv, PaidInv, SettleStep, BuySteps, SellSteps
<1> QED
  BY <1>1, <1>2, <1>3, <1>4, <1>5, <1>6 DEF IInv

\* An update puts a fill on the bus or none.
LEMMA NotifyType ==
  ASSUME bus \in Seq(Fills), NEW o \in Orders, NEW kind \in {"main", "stop"}, Notify(o, kind)
  PROVE  bus' \in Seq(Fills)
<1>1. [order |-> o, kind |-> kind] \in Fills
  BY DEF Fills
<1>2. CASE bus' = Append(bus, [order |-> o, kind |-> kind])
  BY <1>1, <1>2
<1> QED
  BY <1>2 DEF Notify

\* Every step keeps the types.
LEMMA TypeStep == TypeOK /\ HandlerInv /\ [Next]_vars => TypeOK'
<1> SUFFICES ASSUME TypeOK, HandlerInv, [Next]_vars PROVE TypeOK'
  OBVIOUS
<1> USE DEF TypeOK, broker, handler, books, controls, counters
<1>1. CASE Place
  <2>1. ASSUME NEW s \in Symbols, NEW side \in {"BUY", "SELL"}, Decide(s, side) PROVE TypeOK'
    BY <2>1 DEF Decide, Signals, Step
  <2>2. CASE Veto
    BY <2>2 DEF Veto, Step
  <2>3. ASSUME NEW o \in Orders, NEW q \in 1..MaxQty, Submit(o, q) PROVE TypeOK'
    BY <2>3 DEF Submit, SendToBroker, Step
  <2>6. ASSUME NEW o \in Orders, NEW q \in 1..MaxQty, SubmitTimesOut(o, q) PROVE TypeOK'
    BY <2>6 DEF SubmitTimesOut, SendToBroker, Step
  <2>4. CASE RecordPending
    BY <2>4 DEF RecordPending, Step
  <2>5. CASE MarkPlaced
    BY <2>5 DEF MarkPlaced, Step
  <2> QED
    BY <1>1, <2>1, <2>2, <2>3, <2>4, <2>5, <2>6 DEF Place
<1>2. CASE Broker
  <2>2. ASSUME NEW o \in Orders, BrokerFill(o) PROVE TypeOK'
    <3>1. bus' \in Seq(Fills)
      BY <2>2, NotifyType DEF BrokerFill
    <3> QED
      BY <3>1, <2>2 DEF BrokerFill, Signed
  <2>5. ASSUME NEW o \in Orders, BrokerReject(o) PROVE TypeOK'
    BY <2>5 DEF BrokerReject
  <2>3. ASSUME NEW o \in Orders, DuplicateUpdate(o) PROVE TypeOK'
    <3>1. [order |-> o, kind |-> "main"] \in Fills
      BY DEF Fills
    <3> QED
      BY <2>3, <3>1 DEF DuplicateUpdate
  <2>4. ASSUME NEW o \in BuyOrders, StopTriggers(o) PROVE TypeOK'
    <3>1. o \in Orders
      BY DEF Orders
    <3>2. bus' \in Seq(Fills)
      BY <2>4, <3>1, NotifyType DEF StopTriggers
    <3> QED
      BY <2>4, <3>1, <3>2, SMTT(30) DEF StopTriggers
  <2> QED
    BY <1>2, <2>2, <2>3, <2>4, <2>5 DEF Broker
<1>3. CASE TakeFill
  <2>1. bus # <<>> => Head(bus) \in Fills /\ Tail(bus) \in Seq(Fills)
    OBVIOUS
  <2>2. CASE BeginSettle
    BY <2>1, <2>2 DEF BeginSettle, HeadIs, Fills, Step, SettleStep, BuySteps, SellSteps
  <2>3. CASE HandleUnsettled
    <3> DEFINE o == Head(bus).order
    <3>1. o \in Orders /\ bus' \in Seq(Fills)
      BY <2>1, <2>3 DEF HandleUnsettled, HeadIs, Fills
    <3>2. trades' = trades \/ trades' = [trades EXCEPT ![o] = 1]
      BY <2>3, Zenon DEF HandleUnsettled
    <3>3. trades' \in [Orders -> Nat]
      <4>1. [trades EXCEPT ![o] = 1] \in [Orders -> Nat]
        BY <3>1
      <4> QED
        BY <3>2, <4>1
    <3>4. deployed' \in Nat
      <4>1. qty[o] \in Nat
        BY <3>1
      <4>2. deployed' = deployed \/ deployed' = deployed + qty[o]
        BY <2>3, Zenon DEF HandleUnsettled
      <4>3. deployed \in Nat
        OBVIOUS
      <4> QED
        BY <4>1, <4>2, <4>3
    <3> QED
      BY <2>3, <3>1, <3>3, <3>4 DEF HandleUnsettled
  <2>4. CASE HandleStopFill
    BY <2>1, <2>4 DEF HandleStopFill, HeadIs
  <2> QED
    BY <1>3, <2>2, <2>3, <2>4 DEF TakeFill
<1>4. CASE Settle
  <2> USE DEF At, Step, SettleStep, BuySteps, SellSteps
  <2>1. CASE SettleTrade
    BY <2>1 DEF SettleTrade
  <2>2. CASE SettleCash
    BY <2>2 DEF SettleCash
  <2>3. CASE OpenLot
    BY <2>3 DEF OpenLot
  <2>4. CASE CloseLots
    <3>1. cur \in SellOrders /\ cur \in Orders /\ SymOf[cur] \in Symbols
      BY <2>4 DEF CloseLots, Orders
    <3>2. CASE lots[SymOf[cur]] >= qty[cur]
      <4>1. /\ lots' = [lots EXCEPT ![SymOf[cur]] = @ - qty[cur]]
            /\ booked' = [booked EXCEPT ![cur] = @ + 1]
            /\ pc' = "position" /\ cur' = cur
        BY <2>4, <3>2 DEF CloseLots
      <4>2. lots' \in [Symbols -> Nat]
        BY <3>1, <3>2, <4>1
      <4> QED
        BY <2>4, <3>1, <4>1, <4>2 DEF CloseLots
    <3>3. CASE ~(lots[SymOf[cur]] >= qty[cur])
      <4>1. /\ lots' = [lots EXCEPT ![SymOf[cur]] = 0]
            /\ booked' = booked /\ pc' = "idle" /\ cur' = NoOrder
        BY <2>4, <3>3 DEF CloseLots
      <4> QED
        BY <2>4, <4>1 DEF CloseLots
    <3> QED
      BY <3>2, <3>3
  <2>5. CASE ReducePosition
    BY <2>5 DEF ReducePosition
  <2>6. CASE MarkFilled
    BY <2>6 DEF MarkFilled
  <2> QED
    BY <1>4, <2>1, <2>2, <2>3, <2>4, <2>5, <2>6 DEF Settle
<1>5. ASSUME Repair PROVE pos' \in [Symbols -> Nat] /\ streak' \in 0..HaltAfter /\ halted' \in BOOLEAN
  <2>1. pos' \in [Symbols -> Nat]
    BY <1>5 DEF Repair, Unrepaired
  <2>2. streak' \in 0..HaltAfter
    BY <1>5 DEF Repair
  <2>3. halted' \in BOOLEAN
    BY <1>5 DEF Repair
  <2> QED
    BY <2>1, <2>2, <2>3
<1>6. CASE Reconcile
  BY <1>5, <1>6 DEF Reconcile, Repair
<1>7. CASE Crash
  <2>1. bus' \in Seq(Fills)
    BY <1>7 DEF Crash
  <2> QED
    <3>1. crashes' \in Nat /\ up' \in BOOLEAN
      <4>1. crashes' = crashes + 1
        BY <1>7, Zenon DEF Crash
      <4>2. up' = FALSE
        BY <1>7, Zenon DEF Crash
      <4>3. crashes' \in Nat
        BY <4>1
      <4> QED
        BY <4>2, <4>3, Zenon
    <3>2. pc' \in Step /\ cur' \in Orders \cup {NoOrder} /\ sig' \in Signals \cup {NoSignal}
      BY <1>7 DEF Crash, Step
    <3>3. UNCHANGED <<broker, books, controls, late, timeouts, dups, panics>>
      BY <1>7 DEF Crash
    <3> QED
      BY <2>1, <3>1, <3>2, <3>3
<1>8. CASE Restart
  BY <1>5, <1>8 DEF Restart, Repair
<1>9. CASE CooldownEnds
  BY <1>9 DEF CooldownEnds
<1>10. CASE SetHalt
  BY <1>10 DEF SetHalt
<1>13. CASE ClearHalt
  BY <1>13 DEF ClearHalt
<1>11. CASE PanicHalt
  <2>1. pos' \in [Symbols -> Nat] /\ lots' \in [Symbols -> Nat]
    <3> DEFINE held == {s \in Symbols : pos[s] > 0}
               short == {s \in held : lots[s] < pos[s]}
    <3>1. PICK done \in SUBSET (held \ short), failed \in SUBSET short :
            /\ pos' = [s \in Symbols |-> IF s \in done THEN 0 ELSE pos[s]]
            /\ lots' = [s \in Symbols |-> CASE s \in done -> lots[s] - pos[s]
                                            [] s \in failed -> 0
                                            [] OTHER -> lots[s]]
      BY <1>11 DEF PanicHalt
    <3>2. \A s \in done : lots[s] - pos[s] \in Nat
      OBVIOUS
    <3> QED
      BY <3>1, <3>2
  <2>2. halted' \in BOOLEAN /\ panics' \in Nat
    <3>1. halted' = TRUE /\ panics' = panics + 1
      BY <1>11, Zenon DEF PanicHalt
    <3> QED
      BY <3>1
  <2>3. UNCHANGED <<broker, bus, up, handler, row, trades, cash, booked, deployed,
                    streak, cooling, late, crashes, timeouts, dups>>
    BY <1>11 DEF PanicHalt
  <2> QED
    BY <2>1, <2>2, <2>3
<1>12. CASE UNCHANGED vars
  BY <1>12 DEF vars
<1> QED
  BY <1>1, <1>2, <1>3, <1>4, <1>6, <1>7, <1>8, <1>9, <1>10, <1>11, <1>12, <1>13
  DEF Next, Operator
\* The steps of everyone but the handler, and its stop fills: they leave the
\* handler and the settlement tables alone, and an order's status moves on.
Others == \/ Broker \/ HandleStopFill \/ Reconcile \/ Restart \/ CooldownEnds
          \/ Operator \/ UNCHANGED vars

Frame ==
  /\ UNCHANGED <<pc, cur, sig, row, trades, cash, booked, crashes, timeouts>>
  /\ \A o \in Orders : status'[o] = "unused" <=> status[o] = "unused"
  /\ \A o \in Orders : status[o] = "complete" => status'[o] = "complete"

(* The steps of the other actors leave what a settlement wrote alone.       *)
LEMMA OthersFrame == ASSUME TypeOK, Others PROVE Frame
<1> USE DEF Frame, TypeOK, broker, handler, books, controls, counters
<1>1. ASSUME NEW o \in Orders, BrokerFill(o) PROVE Frame
  BY <1>1 DEF BrokerFill
<1>2. ASSUME NEW o \in Orders, BrokerReject(o) PROVE Frame
  BY <1>2 DEF BrokerReject
<1>3. ASSUME NEW o \in Orders, DuplicateUpdate(o) PROVE Frame
  BY <1>3 DEF DuplicateUpdate
<1>4. ASSUME NEW o \in BuyOrders, StopTriggers(o) PROVE Frame
  BY <1>4 DEF StopTriggers
<1>5. CASE HandleStopFill
  BY <1>5 DEF HandleStopFill
<1>6. CASE Reconcile
  BY <1>6 DEF Reconcile, Repair
<1>7. CASE Restart
  BY <1>7 DEF Restart, Repair
<1>8. CASE CooldownEnds
  BY <1>8 DEF CooldownEnds
<1>9. CASE SetHalt
  BY <1>9 DEF SetHalt
<1>10. CASE ClearHalt
  BY <1>10 DEF ClearHalt
<1>11. CASE PanicHalt
  BY <1>11, Zenon DEF PanicHalt
<1>12. CASE UNCHANGED vars
  BY <1>12 DEF vars
<1> QED
  BY <1>1, <1>2, <1>3, <1>4, <1>5, <1>6, <1>7, <1>8, <1>9, <1>10, <1>11, <1>12
  DEF Others, Broker, Operator
\* The steps that are left: the handler's own, and a crash.
LEMMA StepCases ==
  ASSUME [Next]_vars
  PROVE  Others \/ Place \/ BeginSettle \/ HandleUnsettled \/ Settle \/ Crash
BY DEF Next, TakeFill, Others

\* Every fill on the bus names an order.
LEMMA BusOrders ==
  ASSUME bus \in Seq(Fills)
  PROVE  /\ \A i \in 1..Len(bus) : bus[i].order \in Orders
         /\ bus # <<>> => /\ 1 \in 1..Len(bus) /\ Head(bus) = bus[1]
                          /\ Head(bus).order \in Orders
<1>1. \A i \in 1..Len(bus) : bus[i] \in Fills
  OBVIOUS
<1>2. \A f \in Fills : f.order \in Orders
  BY DEF Fills
<1>3. bus # <<>> => 1 \in 1..Len(bus) /\ Head(bus) = bus[1]
  OBVIOUS
<1> QED
  BY <1>1, <1>2, <1>3

\* Each step of the handler keeps what it knows of its order.
LEMMA HandlerStep == ASSUME IInv, [Next]_vars PROVE HandlerInv'
<1> USE DEF IInv, TypeOK, HandlerInv, OriginInv, broker, handler, books, controls, counters,
            SettleStep, BuySteps, SellSteps
<1>1. CASE Others
  BY <1>1, OthersFrame DEF Frame
<1>2. CASE Place
  <2>1. ASSUME NEW s \in Symbols, NEW side \in {"BUY", "SELL"}, Decide(s, side) PROVE HandlerInv'
    BY <2>1 DEF Decide, Signals
  <2>2. CASE Veto
    BY <2>2 DEF Veto
  <2>3. ASSUME NEW o \in Orders, NEW q \in 1..MaxQty, Submit(o, q) PROVE HandlerInv'
    BY <2>3 DEF Submit, CanSubmit, SendToBroker
  <2>4. ASSUME NEW o \in Orders, NEW q \in 1..MaxQty, SubmitTimesOut(o, q) PROVE HandlerInv'
    BY <2>4 DEF SubmitTimesOut, SendToBroker
  <2>5. CASE RecordPending
    BY <2>5 DEF RecordPending
  <2>6. CASE MarkPlaced
    BY <2>6 DEF MarkPlaced
  <2> QED
    BY <1>2, <2>1, <2>2, <2>3, <2>4, <2>5, <2>6 DEF Place
<1>3. CASE BeginSettle
  <2>1. Head(bus).order \in Orders
    BY <1>3, BusOrders DEF BeginSettle, HeadIs
  <2> QED
    BY <1>3, <2>1 DEF BeginSettle, MaySettle, HeadIs
<1>4. CASE HandleUnsettled
  BY <1>4 DEF HandleUnsettled, HeadIs
<1>5. CASE Settle
  <2> USE DEF At
  <2>1. CASE SettleTrade
    BY <2>1 DEF SettleTrade
  <2>2. CASE SettleCash
    BY <2>2 DEF SettleCash
  <2>3. CASE OpenLot
    BY <2>3 DEF OpenLot
  <2>4. CASE CloseLots
    BY <2>4 DEF CloseLots
  <2>5. CASE ReducePosition
    BY <2>5 DEF ReducePosition
  <2>6. CASE MarkFilled
    BY <2>6 DEF MarkFilled
  <2> QED
    BY <1>5, <2>1, <2>2, <2>3, <2>4, <2>5, <2>6 DEF Settle
<1>6. CASE Crash
  BY <1>6 DEF Crash
<1> QED
  BY <1>1, <1>2, <1>3, <1>4, <1>5, <1>6, StepCases

\* A COMPLETE update comes from a completed order, and handlers and the broker
\* never go back to an unused id.
LEMMA OriginStep == ASSUME IInv, [Next]_vars PROVE OriginInv'
<1> DEFINE Announced == \A i \in 1..Len(bus) :
             bus[i].kind = "main" => status[bus[i].order] = "complete"
           Untouched == \A o \in Orders : status[o] = "unused" =>
             row[o] = "none" /\ trades[o] = 0 /\ booked[o] = 0
<1> SUFFICES Announced' /\ Untouched'
  BY DEF OriginInv
<1> USE DEF IInv, TypeOK, HandlerInv, OriginInv, broker, handler, books, controls, counters
<1>1. ASSUME bus' = bus, \A o \in Orders : status[o] = "complete" => status'[o] = "complete"
      PROVE  Announced'
  <2>1. \A i \in 1..Len(bus) : bus[i].order \in Orders
    BY BusOrders
  <2> QED
    BY <1>1, <2>1
<1>2. ASSUME bus # <<>>, bus' = Tail(bus), status' = status PROVE Announced'
  <2>1. \A i \in 1..Len(bus') : i + 1 \in 1..Len(bus) /\ bus'[i] = bus[i + 1]
    BY <1>2
  <2>2. Announced
    OBVIOUS
  <2>3. ASSUME NEW i \in 1..Len(bus'), bus'[i].kind = "main"
        PROVE  status'[bus'[i].order] = "complete"
    <3>1. i + 1 \in 1..Len(bus) /\ bus'[i] = bus[i + 1]
      BY <2>1
    <3>2. status[bus[i + 1].order] = "complete"
      BY <2>2, <2>3, <3>1, Zenon
    <3> QED
      BY <1>2, <3>1, <3>2, Zenon
  <2> QED
    BY <2>3
<1>3. ASSUME NEW o \in Orders, NEW kind \in {"main", "stop"}, bus' = Append(bus, [order |-> o, kind |-> kind]),
             kind = "main" => status'[o] = "complete",
             \A p \in Orders : status[p] = "complete" => status'[p] = "complete"
      PROVE  Announced'
  <2>1. \A i \in 1..Len(bus) : bus[i].order \in Orders
    BY BusOrders
  <2>2. ASSUME NEW i \in 1..Len(bus') PROVE bus'[i].kind = "main" => status'[bus'[i].order] = "complete"
    <3>1. CASE i \in 1..Len(bus)
      <4>1. bus'[i] = bus[i]
        BY <1>3, <3>1
      <4> QED
        BY <1>3, <2>1, <3>1, <4>1
    <3>2. CASE i = Len(bus) + 1
      <4>1. bus'[i] = [order |-> o, kind |-> kind]
        BY <1>3, <3>2
      <4> QED
        BY <1>3, <4>1
    <3>3. Len(bus') = Len(bus) + 1
      BY <1>3
    <3> QED
      BY <3>1, <3>2, <3>3
  <2> QED
    BY <2>2
<1>4. CASE Others
  <2>1. Untouched'
    BY <1>4, OthersFrame DEF Frame
  <2>2. \A o \in Orders : status[o] = "complete" => status'[o] = "complete"
    BY <1>4, OthersFrame DEF Frame
  <2>3. ASSUME NEW o \in Orders, BrokerFill(o) PROVE Announced'
    BY <1>1, <1>3, <2>2, <2>3 DEF BrokerFill, Notify
  <2>4. ASSUME NEW o \in BuyOrders, StopTriggers(o) PROVE Announced'
    BY <1>1, <1>3, <2>2, <2>4 DEF StopTriggers, Notify, Orders
  <2>5. ASSUME NEW o \in Orders, DuplicateUpdate(o) PROVE Announced'
    BY <1>3, <2>2, <2>5 DEF DuplicateUpdate
  <2>6. CASE HandleStopFill
    BY <1>2, <2>6 DEF HandleStopFill, HeadIs
  <2>7. CASE bus' = bus
    BY <1>1, <2>1, <2>2, <2>7
  <2>8. ASSUME NEW o \in Orders, BrokerReject(o) PROVE bus' = bus
    BY <2>8 DEF BrokerReject
  <2>9. Reconcile \/ Restart \/ CooldownEnds \/ Operator \/ UNCHANGED vars => bus' = bus
    BY DEF Reconcile, Restart, CooldownEnds, Operator, SetHalt, ClearHalt, PanicHalt, vars
  <2> QED
    BY <1>4, <2>1, <2>3, <2>4, <2>5, <2>6, <2>7, <2>8, <2>9 DEF Others, Broker
<1>5. CASE Place
  <2>1. bus' = bus
    BY <1>5 DEF Place, Decide, Veto, Submit, SubmitTimesOut, SendToBroker, RecordPending, MarkPlaced
  <2>2. \A o \in Orders : status[o] = "complete" => status'[o] = "complete"
    BY <1>5 DEF Place, Decide, Veto, Submit, SubmitTimesOut, CanSubmit, SendToBroker, RecordPending, MarkPlaced
  <2>3. ASSUME NEW s \in Symbols, NEW side \in {"BUY", "SELL"}, Decide(s, side) PROVE Untouched'
    BY <2>3 DEF Decide
  <2>4. CASE Veto
    BY <2>4 DEF Veto
  <2>5. ASSUME NEW o \in Orders, NEW q \in 1..MaxQty, Submit(o, q) PROVE Untouched'
    BY <2>5 DEF Submit, SendToBroker
  <2>6. ASSUME NEW o \in Orders, NEW q \in 1..MaxQty, SubmitTimesOut(o, q) PROVE Untouched'
    BY <2>6 DEF SubmitTimesOut, SendToBroker
  <2>7. CASE RecordPending
    BY <2>7 DEF RecordPending
  <2>8. CASE MarkPlaced
    BY <2>8 DEF MarkPlaced
  <2> QED
    BY <1>1, <1>5, <2>1, <2>2, <2>3, <2>4, <2>5, <2>6, <2>7, <2>8 DEF Place
<1>6. ASSUME BeginSettle \/ HandleUnsettled
      PROVE  Announced' /\ Head(bus).order \in Orders /\ status[Head(bus).order] = "complete"
  <2>1. bus # <<>> /\ bus' = Tail(bus) /\ status' = status
    BY <1>6 DEF BeginSettle, HandleUnsettled, HeadIs
  <2>2. bus[1] = Head(bus) /\ 1 \in 1..Len(bus) /\ Head(bus).order \in Orders
    BY <2>1, BusOrders
  <2>3. Head(bus).kind = "main"
    BY <1>6 DEF BeginSettle, HandleUnsettled, HeadIs
  <2> QED
    BY <1>2, <2>1, <2>2, <2>3
<1>7. CASE BeginSettle
  BY <1>6, <1>7 DEF BeginSettle
<1>8. CASE HandleUnsettled
  <2>1. trades' = trades \/ trades' = [trades EXCEPT ![Head(bus).order] = 1]
    BY <1>8, Zenon DEF HandleUnsettled
  <2>2. UNCHANGED <<status, row, booked>>
    BY <1>8 DEF HandleUnsettled
  <2> QED
    BY <1>6, <1>8, <2>1, <2>2
<1>9. CASE Settle
  <2> USE DEF At
  <2>1. bus' = bus /\ status' = status
    BY <1>9 DEF Settle, SettleTrade, SettleCash, OpenLot, CloseLots, ReducePosition, MarkFilled
  <2>2. status[cur] # "unused" /\ cur \in Orders
    BY <1>9 DEF Settle, SettleTrade, SettleCash, OpenLot, CloseLots, ReducePosition, MarkFilled,
                SettleStep, BuySteps, SellSteps
  <2>3. \A o \in Orders : o # cur => row'[o] = row[o] /\ trades'[o] = trades[o] /\ booked'[o] = booked[o]
    BY <1>9, <2>2 DEF Settle, SettleTrade, SettleCash, OpenLot, CloseLots, ReducePosition, MarkFilled
  <2> QED
    BY <1>1, <2>1, <2>2, <2>3
<1>10. CASE Crash
  <2>1. bus' = <<>> /\ UNCHANGED <<status, row, trades, booked>>
    BY <1>10 DEF Crash
  <2> QED
    BY <2>1
<1> QED
  BY <1>4, <1>5, <1>7, <1>8, <1>9, <1>10, StepCases
\* CommitPrefix, for one order.
LEMMA CommitPrefixAt ==
  ASSUME CommitPrefix, NEW o \in Orders
  PROVE  cash[o] <= trades[o] /\ (o \in SellOrders => cash[o] <= booked[o])
<1>1. CASE o \in BuyOrders
  BY <1>1, Zenon DEF CommitPrefix
<1>2. CASE o \in SellOrders
  BY <1>2, Zenon DEF CommitPrefix
<1> QED
  BY <1>1, <1>2 DEF Orders

\* A trades row more breaks no order, but for a sale not yet taken from the lots.
LEMMA TradesGrow ==
  ASSUME CommitPrefix, UNCHANGED <<row, cash, booked>>,
         trades \in [Orders -> Nat], trades' \in [Orders -> Nat],
         cash \in [Orders -> Nat], booked \in [Orders -> Nat],
         \A o \in Orders : trades'[o] >= trades[o],
         \A o \in SellOrders : trades'[o] # trades[o] => row[o] = "none" \/ booked[o] > 0
  PROVE  CommitPrefix'
<1>1. \A o \in Orders : cash[o] <= trades[o] => cash[o] <= trades'[o]
  OBVIOUS
<1> QED
  BY <1>1 DEF CommitPrefix, Orders

\* The commits of a settlement keep their order.
LEMMA BookStep == ASSUME IInv, [Next]_vars PROVE BookInv'
<1> USE DEF IInv, TypeOK, HandlerInv, OriginInv, BookInv, CommitPrefix, Orders, NoOrder,
            broker, handler, books, controls, counters
<1>1. CASE Others
  BY <1>1, OthersFrame DEF Frame
<1>2. CASE Place
  <2>1. ASSUME NEW s \in Symbols, NEW side \in {"BUY", "SELL"}, Decide(s, side) PROVE BookInv'
    BY <2>1 DEF Decide
  <2>2. CASE Veto
    BY <2>2 DEF Veto
  <2>3. ASSUME NEW o \in Orders, NEW q \in 1..MaxQty, Submit(o, q) PROVE BookInv'
    BY <2>3 DEF Submit, SendToBroker
  <2>4. ASSUME NEW o \in Orders, NEW q \in 1..MaxQty, SubmitTimesOut(o, q) PROVE BookInv'
    BY <2>4 DEF SubmitTimesOut, SendToBroker
  <2>5. CASE RecordPending
    BY <2>5 DEF RecordPending
  <2>6. CASE MarkPlaced
    BY <2>6 DEF MarkPlaced
  <2> HIDE DEF IInv, TypeOK, HandlerInv, OriginInv, BookInv, CommitPrefix, Orders
  <2> QED
    BY <1>2, <2>1, <2>2, <2>3, <2>4, <2>5, <2>6 DEF Place
<1>3. CASE BeginSettle
  <2>1. Head(bus).order \in Orders
    BY <1>3, BusOrders DEF BeginSettle, HeadIs
  <2>2. CommitPrefix'
    BY <1>3 DEF BeginSettle
  <2> QED
    BY <1>3, <2>1, <2>2 DEF BeginSettle, HeadIs
<1>4. CASE HandleUnsettled
  <2> DEFINE o == Head(bus).order
  <2>1. o \in Orders /\ ~MaySettle(o) /\ UNCHANGED <<row, cash, booked, pc, cur>> /\ pc = "idle"
    BY <1>4, BusOrders DEF HandleUnsettled, HeadIs
  <2>2. trades' = trades \/ (trades[o] = 0 /\ trades' = [trades EXCEPT ![o] = 1])
    BY <1>4, <2>1 DEF HandleUnsettled
  <2>3. o \in SellOrders => row[o] # "PENDING"
    BY <2>1 DEF MaySettle
  <2>4. CASE trades' = trades
    BY <2>1, <2>4
  <2>5. CASE trades[o] = 0 /\ trades' = [trades EXCEPT ![o] = 1]
    <3>1. /\ trades' \in [Orders -> Nat]
          /\ \A p \in Orders : trades'[p] >= trades[p]
          /\ \A p \in SellOrders : trades'[p] # trades[p] => row[p] = "none" \/ booked[p] > 0
      BY <2>1, <2>3, <2>5
    <3>2. CommitPrefix'
      BY <2>1, <3>1, TradesGrow
    <3> QED
      BY <2>1, <3>2
  <2> QED
    BY <2>2, <2>4, <2>5
<1>5. CASE Settle
  <2> USE DEF At, SettleStep, BuySteps, SellSteps
  <2>1. CASE SettleTrade
    <3>1. /\ UNCHANGED <<cur, row, cash, booked>>
          /\ trades' = [trades EXCEPT ![cur] = @ + 1] /\ pc = "trade" /\ pc' = "cash"
      BY <2>1 DEF SettleTrade
    <3>2. cur \in SellOrders => cash[cur] < booked[cur]
      BY <3>1
    <3>5. /\ trades' \in [Orders -> Nat]
          /\ \A p \in Orders : trades'[p] >= trades[p]
          /\ \A p \in SellOrders : trades'[p] # trades[p] => row[p] = "none" \/ booked[p] > 0
      BY <3>1, <3>2
    <3>3. CommitPrefix'
      BY <3>1, <3>5, TradesGrow
    <3>4. cash'[cur'] < trades'[cur']
      <4>1. cash[cur] \in Nat /\ trades[cur] \in Nat
        BY <2>1 DEF SettleTrade
      <4>2. cash[cur] <= trades[cur]
        BY <2>1, CommitPrefixAt DEF SettleTrade
      <4>3. trades'[cur] = trades[cur] + 1
        BY <2>1, <3>1 DEF SettleTrade
      <4> QED
        BY <3>1, <4>1, <4>2, <4>3
    <3> QED
      BY <3>1, <3>2, <3>3, <3>4
  <2>2. CASE SettleCash
    BY <2>2 DEF SettleCash
  <2>3. CASE OpenLot
    BY <2>3 DEF OpenLot
  <2>4. CASE CloseLots
    <3>1. cur \in SellOrders /\ cur \notin BuyOrders /\ UNCHANGED <<row, trades, cash>>
      BY <2>4 DEF CloseLots
    <3>2. CASE lots[SymOf[cur]] >= qty[cur]
      <4>1. booked' = [booked EXCEPT ![cur] = @ + 1] /\ pc' = "position" /\ cur' = cur
        BY <2>4, <3>2 DEF CloseLots
      <4>2. CommitPrefix'
        BY <3>1, <4>1
      <4>3. cash[cur] <= booked[cur]
        BY <3>1, CommitPrefixAt
      <4>5. cash[cur] \in Nat /\ booked[cur] \in Nat /\ booked'[cur] = booked[cur] + 1
        BY <3>1, <4>1
      <4>4. cash'[cur'] < booked'[cur']
        BY <3>1, <4>1, <4>3, <4>5
      <4> QED
        BY <3>1, <4>1, <4>2, <4>4
    <3>3. CASE ~(lots[SymOf[cur]] >= qty[cur])
      BY <2>4, <3>1, <3>3 DEF CloseLots
    <3> QED
      BY <3>2, <3>3
  <2>5. CASE ReducePosition
    BY <2>5 DEF ReducePosition
  <2>6. CASE MarkFilled
    BY <2>6 DEF MarkFilled
  <2> QED
    BY <1>5, <2>1, <2>2, <2>3, <2>4, <2>5, <2>6 DEF Settle
<1>6. CASE Crash
  BY <1>6 DEF Crash
<1> QED
  BY <1>1, <1>2, <1>3, <1>4, <1>5, <1>6, StepCases

\* A second application of a fill needs the row PENDING again, and only a crash
\* leaves a booked fill with a PENDING row.
LEMMA OnceStep == ASSUME IInv, [Next]_vars PROVE OnceInv'
<1> USE DEF IInv, TypeOK, HandlerInv, OriginInv, OnceInv, Booking, Orders, NoOrder,
            broker, handler, books, controls, counters
<1>1. CASE Others
  <2>1. UNCHANGED <<pc, cur, row, booked, crashes>>
    BY <1>1, OthersFrame DEF Frame
  <2> QED
    BY <2>1
<1>2. CASE Place
  <2>1. UNCHANGED <<booked, crashes>>
    BY <1>2 DEF Place, Decide, Veto, Submit, SubmitTimesOut, SendToBroker, RecordPending, MarkPlaced
  <2>2. \A o \in Orders : ~Booking(o)
    BY <1>2 DEF Place, Decide, Veto, Submit, SubmitTimesOut, CanSubmit, RecordPending, MarkPlaced
  <2>3. \A o \in Orders : row[o] = "FILLED" => row'[o] = "FILLED"
    BY <1>2 DEF Place, Decide, Veto, Submit, SubmitTimesOut, SendToBroker, RecordPending, MarkPlaced
  <2> QED
    BY <2>1, <2>2, <2>3
<1>3. CASE BeginSettle
  BY <1>3 DEF BeginSettle, HeadIs
<1>4. CASE HandleUnsettled
  BY <1>4 DEF HandleUnsettled, HeadIs
<1>5. CASE Settle
  <2> USE DEF At, SettleStep, BuySteps, SellSteps
  <2>1. CASE SettleTrade
    BY <2>1 DEF SettleTrade
  <2>2. CASE SettleCash
    BY <2>2 DEF SettleCash
  <2>3. CASE OpenLot
    BY <2>3 DEF OpenLot
  <2>4. CASE CloseLots
    BY <2>4 DEF CloseLots
  <2>5. CASE ReducePosition
    BY <2>5 DEF ReducePosition
  <2>6. CASE MarkFilled
    BY <2>6 DEF MarkFilled
  <2> QED
    BY <1>5, <2>1, <2>2, <2>3, <2>4, <2>5, <2>6 DEF Settle
<1>6. CASE Crash
  BY <1>6 DEF Crash
<1> QED
  BY <1>1, <1>2, <1>3, <1>4, <1>5, <1>6, StepCases

\* An accepted order gets its row before the handler does anything else.
LEMMA EarlyStep == ASSUME IInv, [Next]_vars PROVE EarlyInv'
<1> USE DEF IInv, TypeOK, HandlerInv, OriginInv, EarlyInv, NoOrder,
            broker, handler, books, controls, counters
<1>1. CASE Others
  BY <1>1, OthersFrame DEF Frame
<1>2. CASE Place
  <2>1. ASSUME NEW s \in Symbols, NEW side \in {"BUY", "SELL"}, Decide(s, side) PROVE EarlyInv'
    BY <2>1 DEF Decide
  <2>2. CASE Veto
    BY <2>2 DEF Veto
  <2>3. ASSUME NEW o \in Orders, NEW q \in 1..MaxQty, Submit(o, q) PROVE EarlyInv'
    BY <2>3 DEF Submit, CanSubmit, SendToBroker
  <2>4. ASSUME NEW o \in Orders, NEW q \in 1..MaxQty, SubmitTimesOut(o, q) PROVE EarlyInv'
    BY <2>4 DEF SubmitTimesOut, SendToBroker
  <2>5. CASE RecordPending
    BY <2>5 DEF RecordPending
  <2>6. CASE MarkPlaced
    BY <2>6 DEF MarkPlaced
  <2> QED
    BY <1>2, <2>1, <2>2, <2>3, <2>4, <2>5, <2>6 DEF Place
<1>3. CASE BeginSettle
  BY <1>3 DEF BeginSettle, HeadIs
<1>4. CASE HandleUnsettled
  BY <1>4 DEF HandleUnsettled, HeadIs
<1>5. CASE Settle
  <2>1. pc # "record" /\ pc' # "record" /\ UNCHANGED <<status, crashes, timeouts>>
    BY <1>5 DEF Settle, At, SettleTrade, SettleCash, OpenLot, CloseLots, ReducePosition, MarkFilled
  <2>2. row' = row \/ row' = [row EXCEPT ![cur] = "FILLED"]
    BY <1>5 DEF Settle, SettleTrade, SettleCash, OpenLot, CloseLots, ReducePosition, MarkFilled
  <2> QED
    BY <2>1, <2>2
<1>6. CASE Crash
  BY <1>6 DEF Crash
<1> QED
  BY <1>1, <1>2, <1>3, <1>4, <1>5, <1>6, StepCases

\* Between two orders the halt flag is read again.
LEMMA HaltStep == ASSUME IInv, [Next]_vars PROVE HaltInv'
<1> USE DEF IInv, TypeOK, HaltInv, broker, handler, books, controls, counters
<1>1. CASE Place
  <2>1. ASSUME NEW s \in Symbols, NEW side \in {"BUY", "SELL"}, Decide(s, side) PROVE HaltInv'
    BY <2>1 DEF Decide
  <2>2. CASE Veto
    BY <2>2 DEF Veto
  <2>3. ASSUME NEW o \in Orders, NEW q \in 1..MaxQty, Submit(o, q) PROVE HaltInv'
    BY <2>3 DEF Submit, CanSubmit, SendToBroker
  <2>4. ASSUME NEW o \in Orders, NEW q \in 1..MaxQty, SubmitTimesOut(o, q) PROVE HaltInv'
    BY <2>4 DEF SubmitTimesOut, CanSubmit, SendToBroker
  <2>5. CASE RecordPending
    BY <2>5 DEF RecordPending
  <2>6. CASE MarkPlaced
    BY <2>6 DEF MarkPlaced
  <2> QED
    BY <1>1, <2>1, <2>2, <2>3, <2>4, <2>5, <2>6 DEF Place
<1>2. CASE BeginSettle
  BY <1>2 DEF BeginSettle
<1>3. CASE HandleUnsettled
  BY <1>3 DEF HandleUnsettled
<1>4. CASE Settle
  <2>1. pc' # "deciding" /\ UNCHANGED <<late, halted>>
    BY <1>4 DEF Settle, At, SettleTrade, SettleCash, OpenLot, CloseLots, ReducePosition, MarkFilled
  <2> QED
    BY <2>1
<1>5. CASE Crash
  BY <1>5 DEF Crash
<1>6. CASE Others
  <2>1. pc' = pc
    BY <1>6, OthersFrame DEF Frame
  <2>2. late' = 0 \/ (late' = late /\ (halted => halted'))
    <3>1. ASSUME NEW o \in Orders, BrokerFill(o) \/ BrokerReject(o) \/ DuplicateUpdate(o)
          PROVE  late' = late /\ halted' = halted
      BY <3>1 DEF BrokerFill, BrokerReject, DuplicateUpdate
    <3>2. ASSUME NEW o \in BuyOrders, StopTriggers(o)
          PROVE  late' = late /\ halted' = halted
      BY <3>2 DEF StopTriggers
    <3>3. CASE Reconcile \/ Restart
      BY <3>3 DEF Reconcile, Restart, Repair
    <3>4. CASE HandleStopFill \/ CooldownEnds \/ SetHalt \/ ClearHalt \/ UNCHANGED vars
      BY <3>4 DEF HandleStopFill, CooldownEnds, SetHalt, ClearHalt, vars
    <3>5. CASE PanicHalt
      BY <3>5, Zenon DEF PanicHalt
    <3> QED
      BY <1>6, <3>1, <3>2, <3>3, <3>4, <3>5 DEF Others, Broker, Operator
  <2> QED
    BY <2>1, <2>2
<1> QED
  BY <1>1, <1>2, <1>3, <1>4, <1>5, <1>6, StepCases

\* The bus brings the handler fills of completed orders only.
LEMMA CompleteStep == ASSUME IInv, [Next]_vars PROVE CompleteInv'
<1> USE DEF IInv, TypeOK, HandlerInv, CompleteInv, broker, handler, books, controls, counters,
            SettleStep, BuySteps, SellSteps
<1>1. CASE Others
  BY <1>1, OthersFrame DEF Frame
<1>2. CASE Place
  <2>1. ASSUME NEW s \in Symbols, NEW side \in {"BUY", "SELL"}, Decide(s, side) PROVE CompleteInv'
    BY <2>1 DEF Decide
  <2>2. CASE Veto
    BY <2>2 DEF Veto
  <2>3. ASSUME NEW o \in Orders, NEW q \in 1..MaxQty, Submit(o, q) PROVE CompleteInv'
    BY <2>3 DEF Submit, CanSubmit, SendToBroker
  <2>4. ASSUME NEW o \in Orders, NEW q \in 1..MaxQty, SubmitTimesOut(o, q) PROVE CompleteInv'
    BY <2>4 DEF SubmitTimesOut, CanSubmit, SendToBroker
  <2>5. CASE RecordPending
    BY <2>5 DEF RecordPending
  <2>6. CASE MarkPlaced
    BY <2>6 DEF MarkPlaced
  <2> QED
    BY <1>2, <2>1, <2>2, <2>3, <2>4, <2>5, <2>6 DEF Place
<1>3. CASE BeginSettle
  <2>1. 1 \in 1..Len(bus) /\ bus[1] = Head(bus)
    BY <1>3, BusOrders DEF BeginSettle, HeadIs
  <2>2. status[Head(bus).order] = "complete"
    BY <1>3, <2>1 DEF BeginSettle, HeadIs, OriginInv
  <2> QED
    BY <1>3, <2>2 DEF BeginSettle
<1>4. CASE HandleUnsettled
  BY <1>4 DEF HandleUnsettled, HeadIs
<1>5. CASE Settle
  <2> USE DEF At
  <2>1. CASE SettleTrade
    BY <2>1 DEF SettleTrade
  <2>2. CASE SettleCash
    BY <2>2 DEF SettleCash
  <2>3. CASE OpenLot
    BY <2>3 DEF OpenLot
  <2>4. CASE CloseLots
    BY <2>4 DEF CloseLots
  <2>5. CASE ReducePosition
    BY <2>5 DEF ReducePosition
  <2>6. CASE MarkFilled
    BY <2>6 DEF MarkFilled
  <2> QED
    BY <1>5, <2>1, <2>2, <2>3, <2>4, <2>5, <2>6 DEF Settle
<1>6. CASE Crash
  BY <1>6 DEF Crash
<1> QED
  BY <1>1, <1>2, <1>3, <1>4, <1>5, <1>6, StepCases

\* A second payment needs the row PENDING again, and only a crash, or a sale
\* that fails before it is paid, leaves a row PENDING.
LEMMA PaidStep == ASSUME IInv, [Next]_vars PROVE PaidInv'
<1> USE DEF IInv, TypeOK, HandlerInv, OriginInv, PaidInv, Paying, Orders, NoOrder,
            broker, handler, books, controls, counters
<1>1. CASE Others
  <2>1. UNCHANGED <<pc, cur, row, cash, crashes>>
    BY <1>1, OthersFrame DEF Frame
  <2> QED
    BY <2>1
<1>2. CASE Place
  <2>1. UNCHANGED <<cash, crashes>>
    BY <1>2 DEF Place, Decide, Veto, Submit, SubmitTimesOut, SendToBroker, RecordPending, MarkPlaced
  <2>2. \A o \in Orders : ~Paying(o)
    BY <1>2 DEF Place, Decide, Veto, Submit, SubmitTimesOut, CanSubmit, RecordPending, MarkPlaced
  <2>3. \A o \in Orders : row[o] = "FILLED" => row'[o] = "FILLED"
    BY <1>2 DEF Place, Decide, Veto, Submit, SubmitTimesOut, SendToBroker, RecordPending, MarkPlaced
  <2> QED
    BY <2>1, <2>2, <2>3
<1>3. CASE BeginSettle
  BY <1>3 DEF BeginSettle, HeadIs
<1>4. CASE HandleUnsettled
  BY <1>4 DEF HandleUnsettled, HeadIs
<1>5. CASE Settle
  <2> USE DEF At, SettleStep, BuySteps, SellSteps
  <2>1. CASE SettleTrade
    BY <2>1 DEF SettleTrade
  <2>2. CASE SettleCash
    BY <2>2 DEF SettleCash
  <2>3. CASE OpenLot
    BY <2>3 DEF OpenLot
  <2>4. CASE CloseLots
    BY <2>4 DEF CloseLots
  <2>5. CASE ReducePosition
    BY <2>5 DEF ReducePosition
  <2>6. CASE MarkFilled
    BY <2>6 DEF MarkFilled
  <2> QED
    BY <1>5, <2>1, <2>2, <2>3, <2>4, <2>5, <2>6 DEF Settle
<1>6. CASE Crash
  BY <1>6 DEF Crash
<1> QED
  BY <1>1, <1>2, <1>3, <1>4, <1>5, <1>6, StepCases

\* The invariant is inductive.
LEMMA Inductive == IInv /\ [Next]_vars => IInv'
<1> SUFFICES ASSUME IInv, [Next]_vars PROVE IInv'
  OBVIOUS
<1>1. TypeOK'
  BY TypeStep DEF IInv
<1> QED
  BY <1>1, HandlerStep, OriginStep, BookStep, OnceStep, EarlyStep, HaltStep,
     CompleteStep, PaidStep DEF IInv

\* It holds of every behaviour.
THEOREM Invariance == Spec => []IInv
<1>1. Init => IInv
  BY InitInv
<1>2. IInv /\ [Next]_vars => IInv'
  BY Inductive
<1> QED
  BY <1>1, <1>2, PTL DEF Spec

\* Types, for every set of orders.
THEOREM TypeCorrect == Spec => []TypeOK
<1>1. IInv => TypeOK
  BY DEF IInv
<1> QED
  BY <1>1, Invariance, PTL

\* settle_pending_fill is crash consistent in the order of its commits.
THEOREM CommitsInOrder == Spec => []CommitPrefix
<1>1. IInv => CommitPrefix
  BY DEF IInv, BookInv
<1> QED
  BY <1>1, Invariance, PTL

\* A fill is booked once, and once more for each crash at the most.
THEOREM BookedOnce == Spec => []BookedOncePerCrash
<1>1. IInv => BookedOncePerCrash
  BY DEF IInv, TypeOK, OnceInv, BookedOncePerCrash
<1> QED
  BY <1>1, Invariance, PTL

\* Without a crash or a lost reply no fill is handled before its pending row.
THEOREM FillsAreExpected == Spec => []NoEarlyFill
<1>1. IInv => NoEarlyFill
  <2> SUFFICES ASSUME IInv, NEW o \in Orders, trades[o] > 0, row[o] = "none"
               PROVE  crashes + timeouts > 0
    BY DEF NoEarlyFill
  <2>1. status[o] # "unused"
    BY DEF IInv, OriginInv
  <2>2. ~(pc = "record" /\ cur = o)
    BY DEF IInv, HandlerInv
  <2> QED
    BY <2>1, <2>2 DEF IInv, EarlyInv
<1> QED
  BY <1>1, Invariance, PTL

\* One halt lets at most one order through.
THEOREM HaltIsPrompt == Spec => []HaltLetsOneThrough
<1>1. IInv => HaltLetsOneThrough
  BY DEF IInv, HaltInv, HaltLetsOneThrough
<1> QED
  BY <1>1, Invariance, PTL

-----------------------------------------------------------------------------
(* LiveOrders implements Settlement.                                        *)

Lives == [o \in Orders |-> LifeOf(o)]

\* How a step that concerns one order looks to Settlement.
LEMMA LifeMoves ==
  ASSUME NEW o \in Orders, \A p \in Orders : p # o => row'[p] = row[p] /\ status'[p] = status[p]
  PROVE  Lives' = [Lives EXCEPT ![o] = LifeOf(o)']
<1>1. \A p \in Orders : p # o => LifeOf(p)' = LifeOf(p)
  BY DEF LifeOf
<1> QED
  BY <1>1 DEF Lives

\* What leaves the books and the broker's orders alone is nothing to Settlement.
LEMMA NothingMoves ==
  ASSUME UNCHANGED <<row, cash, booked, crashes>>,
         \A o \in Orders : status'[o] = status[o]
  PROVE  UNCHANGED <<Lives, cash, booked, crashes>>
<1>1. \A o \in Orders : LifeOf(o)' = LifeOf(o)
  BY DEF LifeOf
<1> QED
  BY <1>1 DEF Lives

\* Sending an order and writing its row: an order with no row is not settled.
LEMMA PlaceSettles ==
  ASSUME IInv, Place
  PROVE  [Books!Next]_<<Lives, cash, booked, crashes>>
<1> USE DEF IInv, TypeOK, HandlerInv, OriginInv, broker, handler, books, controls, counters
<1>1. ASSUME NEW s \in Symbols, NEW side \in {"BUY", "SELL"}, Decide(s, side)
      PROVE  UNCHANGED <<Lives, cash, booked, crashes>>
  BY <1>1, NothingMoves DEF Decide
<1>2. CASE Veto
  BY <1>2, NothingMoves DEF Veto
<1>3. ASSUME NEW o \in Orders, NEW q \in 1..MaxQty, Submit(o, q) \/ SubmitTimesOut(o, q)
      PROVE  Books!Send(o)
  <2>1. /\ status[o] = "unused" /\ status' = [status EXCEPT ![o] = "open"]
        /\ UNCHANGED <<row, cash, booked, crashes>>
    BY <1>3 DEF Submit, SubmitTimesOut, CanSubmit, SendToBroker
  <2>2. Lives' = [Lives EXCEPT ![o] = LifeOf(o)']
    BY <2>1, LifeMoves
  <2>3. LifeOf(o) = "new" /\ LifeOf(o)' = "open"
    BY <2>1 DEF LifeOf
  <2> QED
    BY <2>1, <2>2, <2>3 DEF Books!Send, Books!Becomes, Lives
<1>4. CASE RecordPending
  <2>1. /\ cur \in Orders /\ row[cur] = "none" /\ row' = [row EXCEPT ![cur] = "PENDING"]
        /\ UNCHANGED <<status, cash, booked, crashes>>
    BY <1>4 DEF RecordPending
  <2>2. \A o \in Orders : LifeOf(o)' = LifeOf(o)
    BY <2>1 DEF LifeOf
  <2> QED
    BY <2>1, <2>2 DEF Lives
<1>5. CASE MarkPlaced
  BY <1>5, NothingMoves DEF MarkPlaced
<1> QED
  BY <1>1, <1>2, <1>3, <1>4, <1>5 DEF Place, Books!Next, Books!Orders, Orders

\* The other actors: only the broker's answer to an order counts.
LEMMA OthersSettle ==
  ASSUME IInv, Others
  PROVE  [Books!Next]_<<Lives, cash, booked, crashes>>
<1>1. UNCHANGED <<row, cash, booked, crashes>>
  BY OthersFrame DEF IInv, Frame
<1>2. ASSUME NEW o \in Orders, BrokerFill(o) \/ BrokerReject(o)
      PROVE  Books!Answer(o)
  <2>1. /\ status[o] = "open"
        /\ \/ status' = [status EXCEPT ![o] = "complete"]
           \/ status' = [status EXCEPT ![o] = "dead"]
    BY <1>2 DEF BrokerFill, BrokerReject
  <2>2. row[o] # "FILLED" /\ status'[o] \in {"complete", "dead"}
    BY <2>1 DEF IInv, TypeOK, CompleteInv
  <2>3. Lives' = [Lives EXCEPT ![o] = LifeOf(o)']
    BY <1>1, <2>1, LifeMoves DEF IInv, TypeOK
  <2>4. LifeOf(o) = "open" /\ LifeOf(o)' \in {"complete", "dead"}
    BY <1>1, <2>1, <2>2 DEF LifeOf
  <2> QED
    BY <1>1, <2>3, <2>4 DEF Books!Answer, Books!Becomes, Lives
<1>3. ASSUME NEW o \in Orders, DuplicateUpdate(o) PROVE status' = status
  BY <1>3 DEF DuplicateUpdate, broker
<1>4. ASSUME NEW o \in BuyOrders, StopTriggers(o) PROVE status' = status
  BY <1>4 DEF StopTriggers
<1>5. HandleStopFill \/ Reconcile \/ Restart \/ CooldownEnds \/ Operator \/ UNCHANGED vars
        => status' = status
  BY DEF HandleStopFill, Reconcile, Restart, CooldownEnds, Operator, SetHalt, ClearHalt,
         PanicHalt, vars, broker
<1>6. status' = status => UNCHANGED <<Lives, cash, booked, crashes>>
  BY <1>1, NothingMoves
<1> QED
  BY <1>2, <1>3, <1>4, <1>5, <1>6 DEF Others, Broker, Books!Next, Books!Orders, Orders

\* The commits: what an order under way has been booked and paid is what the
\* step at hand may add to.
LEMMA SettleSettles ==
  ASSUME IInv, Settle
  PROVE  [Books!Next]_<<Lives, cash, booked, crashes>>
<1> USE DEF IInv, TypeOK, HandlerInv, CompleteInv, broker, handler, books, controls, counters
<1>1. cur \in Orders /\ pc \in SettleStep /\ UNCHANGED <<status, crashes>>
  BY DEF Settle, At, SettleTrade, SettleCash, OpenLot, CloseLots, ReducePosition, MarkFilled,
         SettleStep, BuySteps, SellSteps
<1>2. status[cur] = "complete" /\ row[cur] = "PENDING"
  BY <1>1
<1>3. LifeOf(cur) = "complete"
  BY <1>2 DEF LifeOf
<1>4. Lives[cur] = "complete"
  BY <1>1, <1>3 DEF Lives
<1>5. row' = row => Lives' = Lives
  BY <1>1 DEF Lives, LifeOf
<1>6. CASE SettleTrade
  BY <1>5, <1>6, <1>1 DEF SettleTrade
<1>7. CASE SettleCash
  <2>1. pc = "cash" /\ cash' = [cash EXCEPT ![cur] = @ + 1] /\ UNCHANGED <<row, booked>>
    BY <1>7 DEF SettleCash, At
  <2>2. cur \in BuyOrders => cash[cur] <= crashes
    BY <1>1, <1>2, <2>1 DEF PaidInv, Paying
  <2>3. cur \notin BuyOrders => cash[cur] < booked[cur]
    BY <1>1, <2>1 DEF BookInv, Orders
  <2>4. Books!Pay(cur)
    BY <1>1, <1>4, <1>5, <2>1, <2>2, <2>3 DEF Books!Pay, Lives
  <2> QED
    BY <1>1, <2>4 DEF Books!Next, Books!Orders, Orders
<1>8. ASSUME booked' = [booked EXCEPT ![cur] = @ + 1], UNCHANGED <<row, cash>>, pc = "lot"
      PROVE  Books!Next
  <2>1. cur \in BuyOrders => booked[cur] < cash[cur]
    BY <1>8 DEF BookInv
  <2>2. cur \notin BuyOrders => booked[cur] <= crashes
    BY <1>1, <1>2, <1>8 DEF OnceInv, Booking
  <2>3. Books!Apply(cur)
    BY <1>1, <1>4, <1>5, <1>8, <2>1, <2>2 DEF Books!Apply, Lives
  <2> QED
    BY <1>1, <2>3 DEF Books!Next, Books!Orders, Orders
<1>9. CASE OpenLot
  BY <1>8, <1>9 DEF OpenLot, At
<1>10. CASE CloseLots
  <2>1. \/ booked' = [booked EXCEPT ![cur] = @ + 1]
        \/ UNCHANGED booked
    BY <1>10 DEF CloseLots
  <2>2. pc = "lot" /\ UNCHANGED <<row, cash>>
    BY <1>10 DEF CloseLots, At
  <2> QED
    BY <1>1, <1>5, <1>8, <2>1, <2>2
<1>11. CASE ReducePosition
  BY <1>1, <1>5, <1>11 DEF ReducePosition
<1>12. CASE MarkFilled
  <2>1. /\ pc = "filled" /\ row' = [row EXCEPT ![cur] = "FILLED"]
        /\ UNCHANGED <<cash, booked>>
    BY <1>12 DEF MarkFilled, At
  <2>2. Lives' = [Lives EXCEPT ![cur] = "settled"]
    BY <1>1, <2>1 DEF Lives, LifeOf
  <2>3. cash[cur] > 0 /\ booked[cur] > 0
    BY <1>1, <2>1 DEF BookInv
  <2>4. Books!Settle(cur)
    BY <1>1, <1>4, <2>1, <2>2, <2>3 DEF Books!Settle, Books!Becomes, Lives
  <2> QED
    BY <1>1, <2>4 DEF Books!Next, Books!Orders, Orders
<1> QED
  BY <1>6, <1>7, <1>9, <1>10, <1>11, <1>12 DEF Settle

\* A step of LiveOrders is a step of Settlement or changes nothing it speaks of.
LEMMA StepSettles ==
  ASSUME IInv, [Next]_vars
  PROVE  [Books!Next]_<<Lives, cash, booked, crashes>>
<1> USE DEF broker, handler, books, controls, counters
<1>1. CASE BeginSettle
  BY <1>1, NothingMoves DEF BeginSettle
<1>2. CASE HandleUnsettled
  BY <1>2, NothingMoves DEF HandleUnsettled
<1>3. CASE Crash
  <2>1. UNCHANGED <<row, status, cash, booked>> /\ crashes' = crashes + 1
    BY <1>3 DEF Crash
  <2>2. Lives' = Lives
    BY <2>1 DEF Lives, LifeOf
  <2> QED
    BY <2>1, <2>2 DEF Books!Next, Books!CutShort, Lives
<1> QED
  BY <1>1, <1>2, <1>3, PlaceSettles, OthersSettle, SettleSettles, StepCases

\* LiveOrders implements Settlement: however fills are lost, repeated or late,
\* whoever repairs, halts or panics meanwhile, and wherever the process dies.
THEOREM SettlementIsImplemented == Spec => SettlesAsPromised
<1>1. Init => Books!Init
  BY DEF Init, Books!Init, Books!Orders, Orders, LifeOf
<1>2. IInv /\ [Next]_vars => [Books!Next]_<<Lives, cash, booked, crashes>>
  BY StepSettles
<1>3. IInv /\ [Next]_vars
        => [Books!Next]_<<[o \in Orders |-> LifeOf(o)], cash, booked, crashes>>
  BY <1>2 DEF Lives
<1> QED
  BY <1>1, <1>3, Invariance, PTL DEF Spec, SettlesAsPromised, Books!Spec
=============================================================================
