---------------------------------- MODULE Bars ----------------------------------
(***************************************************************************)
(* From ticks to bars, to the database and to the regime: the bar          *)
(* aggregator, the recorder that keeps ticks and bars, and the regime that *)
(* is refreshed by five minute bars, by foreign flows and by changes of    *)
(* the session.  The bus handles one event at a time; what a tick closes   *)
(* is published behind the events that wait already.  The recorder runs in *)
(* tasks of its own.                                                       *)
(***************************************************************************)
EXTENDS Regime, Signals

CONSTANTS
  Symbols,     \* the symbols of the feed; Index among them
  Prices,      \* paise
  Spans,       \* slots of five minutes in a bar of each interval
  Flows,       \* what a poll of foreign flows may report
  FlushEvery,  \* TICK_FLUSH_EVERY
  MaxSlot,     \* bound: the last slot
  Plans        \* bound: how many ticks, of which symbols; flows, macro polls
               \* and openings; and failed writes and restarts a behaviour has

ASSUME BarsAssumption ==
  /\ Index \in Symbols /\ IsFiniteSet(Symbols)
  /\ Spans \in [{"BAR_5M", "BAR_15M", "BAR_1D"} -> Nat \ {0}]
  /\ Prices \subseteq Nat \ {0} /\ Flows \subseteq Int /\ FlushEvery \in Nat \ {0}
  /\ MaxSlot \in Nat /\ Plans \subseteq [tick : Nat, news : Nat, fault : Nat, syms : SUBSET Symbols]

Intervals == DOMAIN Spans
NoBar     == [n |-> 0]

VARIABLES
  now,      \* the slot of the last tick: a tick carries the time it came
  bus,      \* events that wait
  bars,     \* the open bar of each symbol and interval
  hist,     \* closes, highs and lows of five minute bars, and daily closes
  side,     \* the side of its VWAP each symbol is on
  tasks,    \* events the recorder has not taken
  tickBuf, barBuf, looping,   \* the recorder; its flush loop is alive
  tickLog, barLog,            \* the database
  index,    \* index_returns and the last close
  market,   \* the regime and what is pending, and the flow in the context
  plan,     \* the bounds of this behaviour
  counts,   \* ticks, news and faults so far; the session has closed
  ghost     \* history: see NoHistory

recorder == <<tasks, tickBuf, barBuf, looping, tickLog, barLog>>
builder  == <<bars, hist, side>>
vars == <<now, bus, bars, hist, side, recorder, index, market, plan, counts, ghost>>

\* handled: ticks of this life by symbol; shut: those in published bars;
\* raws: what the last refreshes saw, "adopted" for one that took its label
\* at once; switch: the label a refresh without a shock has just changed to;
\* fired: strategies that signalled a breakout of the extremes.
NoHistory == [handled |-> [s \in Symbols |-> 0],
              shut |-> [s \in Symbols |-> [i \in Intervals |-> 0]],
              raws |-> << >>, switch |-> "none", fired |-> {}]

NoBars   == [s \in Symbols |-> [i \in Intervals |-> NoBar]]
NoHist   == [close |-> << >>, high |-> << >>, low |-> << >>, day |-> << >>]
NoIndex  == [returns |-> << >>, last |-> 0]
NoMarket == [regime |-> "NEUTRAL", pending |-> "none", count |-> 0, fii |-> 0]

\* What a process starts with.
Restarted ==
  /\ bus' = << >> /\ bars' = NoBars
  /\ hist' = [s \in Symbols |-> NoHist] /\ side' = [s \in Symbols |-> "none"]
  /\ tasks' = << >> /\ tickBuf' = << >> /\ barBuf' = << >> /\ looping' = TRUE
  /\ index' = NoIndex /\ market' = NoMarket /\ ghost' = NoHistory

Event(type, sym, price, p) == [type |-> type, sym |-> sym, price |-> price, p |-> p]

Count(what) == counts[what] < plan[what] /\ counts' = [counts EXCEPT ![what] = @ + 1]

-----------------------------------------------------------------------------
(* The aggregator.  A bar carries n, the number of its ticks, which the     *)
(* code does not keep: ticks have no other identity once they are in a bar. *)

Highest(s) == CHOOSE x \in {s[i] : i \in DOMAIN s} : \A i \in DOMAIN s : s[i] <= x
Lowest(s)  == CHOOSE x \in {s[i] : i \in DOMAIN s} : \A i \in DOMAIN s : x <= s[i]

\* How many highs in a row, counted from the last, are lower than the one
\* before.
Streak(high) ==
  Cardinality({i \in 2 .. Len(high) : \A j \in i .. Len(high) : high[j] < high[j - 1]})

\* The histories with one bar more.
Joins(h, bar) ==
  [close |-> Push(20, h.close, bar.close), high |-> Push(20, h.high, bar.high),
   low   |-> Push(20, h.low, bar.low),     day  |-> h.day]

\* _bar_features: the bar joins its history, then the features are read.
Features(h, bar) ==
  LET seen == Joins(h, bar)
      top  == Highest(seen.high)
      base == IF Len(h.day) < 6 THEN 0 ELSE h.day[Len(h.day) - 5]
  IN  [hist |-> seen,
       p |-> [high |-> bar.high, low |-> bar.low, close |-> bar.close,
              high20 |-> top, low20 |-> Lowest(seen.low),
              near |-> 1000 * bar.close >= 995 * top, streak |-> Streak(seen.high),
              ret5 |-> IF base = 0 THEN 0 ELSE (10000 * (bar.close - base)) \div base]]

\* _emit_bar: what it publishes, from the history h.
Emit(h, sym, i, bar) ==
  LET own == [high |-> bar.high, low |-> bar.low, close |-> bar.close]
  IN  Event(i, sym, bar.close, IF i = "BAR_5M" THEN Features(h, bar).p ELSE own)

\* _emit_bar: the history after the bars of done.  A five minute bar is the
\* first of them; only a daily one joins the daily closes.
Learn(h, open, done) ==
  LET seen == IF "BAR_5M" \in done THEN Features(h, open["BAR_5M"]).hist ELSE h
  IN  IF "BAR_1D" \in done
      THEN [seen EXCEPT !.day = Push(8, @, open["BAR_1D"].close)] ELSE seen

InOrder == <<"BAR_5M", "BAR_15M", "BAR_1D">>

\* The bar of interval i after a tick: a new one when its bucket is over.
Joined(bar, i, tick) ==
  LET bucket == tick.p.ts \div Spans[i]
      px == tick.price  vol == tick.p.n   \* the volume of the day so far
  IN  IF bar = NoBar \/ bar.bucket # bucket
      THEN [high |-> px, low |-> px, close |-> px, num |-> px * vol, den |-> vol,
            n |-> 1, bucket |-> bucket]
      ELSE [bar EXCEPT !.high = IF px > @ THEN px ELSE @, !.low = IF px < @ THEN px ELSE @,
                       !.close = px, !.num = @ + px * vol, !.den = @ + vol, !.n = @ + 1]

\* The open bar belongs to another bucket than a tick of slot ts.
Over(bar, i, ts) == bar # NoBar /\ bar.bucket # ts \div Spans[i]

\* Emitted bars are the ghost's, by interval.
Shut(shut, open, done) ==
  [i \in Intervals |-> shut[i] + (IF i \in done THEN open[i].n ELSE 0)]

\* on_tick; the events it publishes go to the end of the bus.
BarsOnTick(tick, rest) ==
  LET sym  == tick.sym
      open == bars[sym]
      done == {i \in Intervals : Over(open[i], i, tick.p.ts)}
      ended(i) == IF i \in done THEN <<Emit(hist[sym], sym, i, open[i])>> ELSE << >>
      five == Joined(open["BAR_5M"], "BAR_5M", tick)
      new  == IF tick.price * five.den > five.num THEN "above"
              ELSE IF tick.price * five.den < five.num THEN "below" ELSE "at"
      cross == IF side[sym] \notin {"none", new} /\ new # "at"
               THEN <<Event("VWAP_CROSS", sym, tick.price, [above |-> new = "above"])>> ELSE << >>
  IN  /\ bars' = [bars EXCEPT ![sym] = [i \in Intervals |-> Joined(open[i], i, tick)]]
      /\ hist' = [hist EXCEPT ![sym] = Learn(@, open, done)]
      /\ side' = [side EXCEPT ![sym] = new]
      /\ bus' = rest \o ended(InOrder[1]) \o ended(InOrder[2]) \o ended(InOrder[3]) \o cross
      /\ ghost' = [ghost EXCEPT !.handled[sym] = @ + 1, !.shut[sym] = Shut(@, open, done)]

\* A tick opens all three bars of its symbol.
Opened == {s \in Symbols : bars[s]["BAR_5M"] # NoBar}

\* flush_all emits every open bar, symbol by symbol.  They are in a dictionary,
\* in the order of their first ticks, which is any order here.  seen: the
\* history so far.
EmitOpened(rest, seen) ==
  /\ \E order \in SetToSeqs(Opened) :
       bus' = rest \o [k \in 1 .. 3 * Len(order) |->
                         LET s == order[((k - 1) \div 3) + 1]  i == InOrder[((k - 1) % 3) + 1]
                         IN  Emit(hist[s], s, i, bars[s][i])]
  /\ hist' = [s \in Symbols |->
                IF s \in Opened THEN Learn(hist[s], bars[s], Intervals) ELSE hist[s]]
  /\ ghost' = [seen EXCEPT !.shut = [s \in Symbols |-> Shut(@[s], bars[s], Intervals)]]
  /\ UNCHANGED side

\* Mutant: a flush leaves the bars open.
FlushLeaves(rest, seen) == EmitOpened(rest, seen) /\ UNCHANGED bars

\* flush_all: every open bar, then none is open.
FlushAll(rest, seen) == EmitOpened(rest, seen) /\ bars' = NoBars

-----------------------------------------------------------------------------
(* The regime.                                                              *)

\* Closes of the index in bar_log.
Closes(interval) ==
  LET rows == SelectSeq(barLog, LAMBDA r : r.sym = Index /\ r.type = interval)
  IN  [j \in DOMAIN rows |-> rows[j].close]

\* append_index_return: bars of the index only, 60 returns.
IndexAfter(e) ==
  IF e.type # "BAR_5M" \/ e.sym # Index THEN index
  ELSE [last |-> e.price,
        returns |-> IF index.last = 0 THEN index.returns
                    ELSE Push(60, index.returns,
                              (10000 * (e.price - index.last)) \div index.last)]

\* refresh_ctx_regime: returns the state of the persistence and the history.
\* tilt: the flow in the context tilts the label (not on a session change).
Refresh(returns, fii, tilt) ==
  LET five  == Closes("BAR_5M")
      plain == RawRegime(returns, five, Closes("BAR_1D"), 0)
      raw   == IF tilt THEN Nudge(plain, fii) ELSE plain
      shock == Shock(returns, five)
      st    == [regime |-> market.regime, pending |-> market.pending, count |-> market.count]
      new   == Persist(st, raw, shock)
      adopted == market.regime = "NEUTRAL"
  IN  [st |-> new,
       raws |-> Push(PersistBars, ghost.raws, IF adopted THEN "adopted" ELSE raw),
       switch |-> IF adopted \/ shock \/ new.regime = market.regime THEN "none" ELSE new.regime]

\* The context after an event: refreshed, then written by the strategy.
Marked(r, written, fii) ==
  market' = [regime |-> IF written = "" THEN r.regime ELSE written,
             pending |-> r.pending, count |-> r.count, fii |-> fii]

Kept == [regime |-> market.regime, pending |-> market.pending, count |-> market.count]

\* fii_regime and global_risk_beta (TRADING_PHASE paper_learn) write the
\* regime on the events they listen to.
Written(e) ==
  CASE e.type = "FII_DII" -> IF e.p.fii < -3000 /\ e.p.dii < 0 THEN "RISK_OFF"
                             ELSE IF e.p.fii > 1000 /\ e.p.dii > 0 THEN "RISK_ON" ELSE ""
    [] e.type = "MACRO"   -> IF RiskOff(e) THEN "NEUTRAL"
                             ELSE IF e.p.us > 40 /\ e.p.crude < 0 THEN "RISK_ON" ELSE ""
    [] OTHER -> ""

\* The breakout strategies on a five minute bar.
Fired(e) == {s.by : s \in TurtleBreakout(e) \cup LiquiditySweep(e)}

-----------------------------------------------------------------------------
(* The bus handles its first event: context, strategies, aggregator, then a *)
(* task for the recorder.                                                   *)

Handle(type) == bus # << >> /\ Head(bus).type \in type

\* on_tick.
HandleTick ==
  /\ Handle({"TICK"}) /\ BarsOnTick(Head(bus), Tail(bus))
  /\ tasks' = Append(tasks, Head(bus))
  /\ UNCHANGED <<now, tickBuf, barBuf, looping, tickLog, barLog, index, market, counts>>

HandleBar ==
  LET e == Head(bus)
      after == IndexAfter(e)
      r == Refresh(after.returns, market.fii, TRUE)
  IN  /\ Handle(Intervals)
      /\ bus' = Tail(bus) /\ tasks' = Append(tasks, e) /\ index' = after
      /\ IF e.type = "BAR_5M"
         THEN /\ Marked(r.st, "", market.fii)
              /\ ghost' = [ghost EXCEPT !.raws = r.raws, !.switch = r.switch,
                                        !.fired = @ \cup Fired(e)]
         ELSE UNCHANGED <<market, ghost>>
      /\ UNCHANGED <<now, builder, tickBuf, barBuf, looping, tickLog, barLog, counts>>

\* Flows tilt and refresh; macro polls only reach the strategies.
HandleNews ==
  LET e == Head(bus)
      r == Refresh(index.returns, e.p.fii, TRUE)
  IN  /\ Handle({"FII_DII", "MACRO"})
      /\ bus' = Tail(bus)
      /\ IF e.type = "FII_DII"
         THEN /\ Marked(r.st, Written(e), e.p.fii)
              /\ ghost' = [ghost EXCEPT !.raws = r.raws, !.switch = r.switch]
         ELSE Marked(Kept, Written(e), market.fii) /\ UNCHANGED ghost
      /\ UNCHANGED <<now, builder, recorder, index, counts>>

\* A change of the session refreshes without a tilt; the close flushes bars.
HandleSession ==
  LET e == Head(bus)
      r == Refresh(index.returns, market.fii, FALSE)
      seen == [ghost EXCEPT !.raws = r.raws, !.switch = r.switch]
  IN  /\ Handle({"OPEN", "CLOSE"})
      /\ Marked(r.st, "", market.fii)
      /\ IF e.type = "CLOSE" THEN FlushAll(Tail(bus), seen)
         ELSE bus' = Tail(bus) /\ ghost' = seen /\ UNCHANGED builder
      /\ UNCHANGED <<now, recorder, index, counts>>

HandleCross ==
  /\ Handle({"VWAP_CROSS"}) /\ bus' = Tail(bus)
  /\ UNCHANGED <<now, builder, recorder, index, market, counts, ghost>>

-----------------------------------------------------------------------------
(* The recorder.  Its tasks and its loop run when the bus has nothing to    *)
(* handle: while events wait, the loop of the bus does not suspend.         *)

Row(e) == [sym |-> e.sym, type |-> e.type, close |-> e.price]

\* Mutant: the ticks stay in the buffer when they are committed.
FlushKeeps(ticks, rows) ==
  /\ tickLog' = tickLog \o ticks /\ barLog' = barLog \o rows
  /\ tickBuf' = ticks /\ barBuf' = << >> /\ UNCHANGED counts

\* flush() with these buffers.  It is one transaction, but each buffer is
\* emptied behind its own insert.
Flush(ticks, rows) ==
  /\ tickLog' = tickLog \o ticks /\ barLog' = barLog \o rows
  /\ tickBuf' = << >> /\ barBuf' = << >> /\ UNCHANGED counts

\* The insert of the ticks, that of the bars or the commit fails.
FlushFails(ticks, rows) ==
  /\ Count("fault")
  /\ \/ ticks # << >> /\ tickBuf' = ticks /\ barBuf' = rows
     \/ rows # << >> /\ tickBuf' = << >> /\ barBuf' = rows
     \/ tickBuf' = << >> /\ barBuf' = << >>
  /\ UNCHANGED <<tickLog, barLog>>

\* One task: on_event of the recorder.
Record ==
  LET e     == Head(tasks)
      ticks == IF e.type = "TICK" THEN Append(tickBuf, e.p.n) ELSE tickBuf
      rows  == IF e.type = "TICK" THEN barBuf ELSE Append(barBuf, Row(e))
  IN  /\ bus = << >> /\ tasks # << >> /\ tasks' = Tail(tasks)
      /\ IF Len(ticks) >= FlushEvery THEN Flush(ticks, rows) \/ FlushFails(ticks, rows)
         ELSE tickBuf' = ticks /\ barBuf' = rows /\ UNCHANGED <<tickLog, barLog, counts>>
      /\ UNCHANGED <<now, bus, builder, looping, index, market, ghost>>

\* recorder_flush_loop: a flush that fails ends it.
FlushLoop ==
  /\ bus = << >> /\ looping /\ (tickBuf # << >> \/ barBuf # << >>)
  /\ \/ Flush(tickBuf, barBuf) /\ looping' = TRUE
     \/ FlushFails(tickBuf, barBuf) /\ looping' = FALSE
  /\ UNCHANGED <<now, bus, builder, tasks, index, market, ghost>>

-----------------------------------------------------------------------------
(* The feed, the pollers and the processes.                                 *)

\* At most one event waits when another comes.
Publish(e) == Len(bus) <= 1 /\ bus' = Append(bus, e)

FeedTick ==
  /\ Count("tick")
  /\ \E s \in plan.syms, px \in Prices, ts \in now .. MaxSlot :
        /\ now' = ts
        /\ Publish(Event("TICK", s, px, [n |-> counts.tick + 1, ts |-> ts]))
  /\ UNCHANGED <<builder, recorder, index, market, ghost>>

News ==
  /\ Count("news")
  /\ \/ \E f \in Flows : Publish(Event("FII_DII", "", 0, [fii |-> f, dii |-> f]))
     \/ Publish(Event("MACRO", "MACRO", 0, [us |-> -60, crude |-> 0, usd |-> 0]))
     \/ Publish(Event("OPEN", "", 0, << >>))
  /\ UNCHANGED <<now, builder, recorder, index, market, ghost>>

SessionCloses ==
  /\ ~counts.closed /\ counts' = [counts EXCEPT !.closed = TRUE]
  /\ Publish(Event("CLOSE", "", 0, << >>))
  /\ UNCHANGED <<now, builder, recorder, index, market, ghost>>

\* run_premarket_routine takes the label of the price rule as it is.
Premarket ==
  /\ bus = << >> /\ Count("news")
  /\ RecentCloses(Closes("BAR_5M"), Closes("BAR_1D")) # << >>
  /\ market' = [market EXCEPT !.regime =
                  FromPrices(RecentCloses(Closes("BAR_5M"), Closes("BAR_1D")), 0)]
  /\ ghost' = [ghost EXCEPT !.switch = "none"]
  /\ UNCHANGED <<now, bus, builder, recorder, index>>

\* A crash, or a stop, which flushes the recorder first.
Restart ==
  /\ Count("fault") /\ Restarted
  /\ \/ UNCHANGED <<tickLog, barLog>>
     \/ tickLog' = tickLog \o tickBuf /\ barLog' = barLog \o barBuf
  /\ UNCHANGED now

Init ==
  /\ plan \in Plans /\ now = 0 /\ bus = << >> /\ bars = NoBars
  /\ hist = [s \in Symbols |-> NoHist] /\ side = [s \in Symbols |-> "none"]
  /\ tasks = << >> /\ tickBuf = << >> /\ barBuf = << >> /\ looping = TRUE
  /\ tickLog = << >> /\ barLog = << >> /\ index = NoIndex /\ market = NoMarket
  /\ counts = [tick |-> 0, news |-> 0, fault |-> 0, closed |-> FALSE] /\ ghost = NoHistory

Next ==
  \/ HandleTick \/ HandleBar \/ HandleNews \/ HandleSession \/ HandleCross
  \/ Record \/ FlushLoop
  \/ FeedTick \/ News \/ SessionCloses \/ Premarket \/ Restart

Spec == Init /\ [][Next /\ UNCHANGED plan]_vars

-----------------------------------------------------------------------------
(* Properties.                                                              *)

Bar  == [high : Nat, low : Nat, close : Nat, num : Nat, den : Nat, n : Nat \ {0}, bucket : Nat]
Own  == [high : Nat, low : Nat, close : Nat]
Rich == [high : Nat, low : Nat, close : Nat, high20 : Nat, low20 : Nat,
         near : BOOLEAN, streak : Nat, ret5 : Int]
Hist == [close : Seq(Nat), high : Seq(Nat), low : Seq(Nat), day : Seq(Nat)]

Events ==
  [type : {"TICK"}, sym : Symbols, price : Prices, p : [n : Nat, ts : Nat]]
  \cup [type : {"BAR_5M"}, sym : Symbols, price : Nat, p : Rich]
  \cup [type : {"BAR_15M", "BAR_1D"}, sym : Symbols, price : Nat, p : Own]
  \cup [type : {"VWAP_CROSS"}, sym : Symbols, price : Prices, p : [above : BOOLEAN]]
  \cup [type : {"FII_DII"}, sym : {""}, price : {0}, p : [fii : Flows, dii : Flows]]
  \cup [type : {"MACRO"}, sym : {"MACRO"}, price : {0}, p : [us : Int, crude : Int, usd : Int]]
  \cup [type : {"OPEN", "CLOSE"}, sym : {""}, price : {0}, p : {<< >>}]

Rows == [sym : Symbols, type : Intervals, close : Nat]

Histories == [handled : [Symbols -> Nat], shut : [Symbols -> [Intervals -> Nat]],
              raws : Seq(Labels \cup {"adopted"}), switch : Labels \cup {"none"},
              fired : SUBSET {"turtle_breakout", "liquidity_sweep"}]

Within(bar) == bar.low <= bar.close /\ bar.close <= bar.high

Aligned(h) ==
  /\ Len(h.close) = Len(h.high) /\ Len(h.low) = Len(h.high)
  /\ Len(h.high) <= 20 /\ Len(h.day) <= 8

\* The three bars of a symbol are open together.
BarsOK ==
  /\ bars \in [Symbols -> [Intervals -> Bar \cup {NoBar}]]
  /\ hist \in [Symbols -> Hist]
  /\ \A s \in Symbols :
       /\ Aligned(hist[s])
       /\ \A i \in Intervals : IF s \in Opened THEN bars[s][i] # NoBar /\ Within(bars[s][i])
                                             ELSE bars[s][i] = NoBar

RecorderOK ==
  /\ tasks \in Seq(Events) /\ \A k \in DOMAIN tasks : tasks[k].type \in Intervals \cup {"TICK"}
  /\ looping \in BOOLEAN
  /\ tickBuf \in Seq(Nat) /\ tickLog \in Seq(Nat)
  /\ barBuf \in Seq(Rows) /\ barLog \in Seq(Rows)

RegimeOK ==
  /\ index \in [returns : Seq(Int), last : Nat]
  /\ market \in [regime : Labels, pending : Labels \cup {"none"},
                  count : 0 .. PersistBars - 1, fii : Int]

GhostOK == ghost \in Histories

TypeOK ==
  /\ now \in 0 .. MaxSlot /\ bus \in Seq(Events) /\ side \in [Symbols -> {"none", "above", "below", "at"}]
  /\ plan \in Plans /\ counts \in [tick : Nat, news : Nat, fault : Nat, closed : BOOLEAN]
  /\ BarsOK /\ RecorderOK /\ RegimeOK /\ GhostOK

\* The aggregator (bar_aggregator.py, on_tick and flush_all) loses and doubles
\* nothing: at every interval each tick of a symbol handled in this life is in
\* exactly one bar, published or open, across buckets that end, flushes at the
\* close and ticks after it.
EveryTickInOneBar ==
  /\ TypeOK
  /\ \A s \in Symbols, i \in Intervals : ghost.handled[s] = ghost.shut[s][i] + bars[s][i].n

\* The recorder (tick_recorder.py, flush) writes no tick twice and none out of
\* order, whatever statement of a flush fails and whenever the engine stops.
RecordedOnce ==
  \A i, j \in DOMAIN tickLog : i < j => tickLog[i] < tickLog[j]

\* A bar is in its own history when its 20 bar extremes are read
\* (bar_aggregator.py, _bar_features): a close is never beyond them, and the
\* two strategies that wait for that never signal.  That is not what they are
\* for ("Donchian / Turtle breakout on BAR_CLOSE", turtle_breakout.py:1): a fact
\* for BarsProofs about two dead strategies, no requirement of the code.
OwnExtremesSilence == ghost.fired = {}

\* A refresh without a shock changes the regime only when the last
\* REGIME_PERSIST_BARS refreshes saw the new label (regime_change_detector.py,
\* apply_regime_persistence), unless one of them took over from NEUTRAL, which
\* leaves an older count in place.
RegimeNeedsRepeats ==
  \/ ghost.switch = "none" \/ \E j \in DOMAIN ghost.raws : ghost.raws[j] = "adopted"
  \/ Len(ghost.raws) = PersistBars /\ \A j \in DOMAIN ghost.raws : ghost.raws[j] = ghost.switch

-----------------------------------------------------------------------------
(* The invariant that implies them, which each step preserves.              *)

\* The ticks in a sequence of events.
Numbers(events) ==
  {events[k].p.n : k \in {j \in DOMAIN events : events[j].type = "TICK"}}

Before(A, B) == \A a \in A, b \in B : a < b

TicksRise(events) ==
  \A i, j \in DOMAIN events :
    i < j /\ events[i].type = "TICK" /\ events[j].type = "TICK" => events[i].p.n < events[j].p.n

Rise(s) == \A i, j \in DOMAIN s : i < j => s[i] < s[j]

\* Ticks in the log, in the buffer, in tasks and on the bus, top so far.
Lined(log, buf, tasked, waiting, top) ==
  /\ Rise(log) /\ Rise(buf)
  /\ Before(Range(log), Range(buf)) /\ Before(Range(log), tasked) /\ Before(Range(log), waiting)
  /\ Before(Range(buf), tasked) /\ Before(Range(buf), waiting) /\ Before(tasked, waiting)
  /\ \A n \in Range(log) \cup Range(buf) \cup tasked \cup waiting : n <= top

\* Ticks go through the bus, the tasks and the buffer to the log, and none
\* overtakes another on its way.
OrderInv ==
  /\ Lined(tickLog, tickBuf, Numbers(tasks), Numbers(bus), counts.tick)
  /\ TicksRise(tasks) /\ TicksRise(bus)

\* A five minute bar that waits is not beyond the extremes it carries.
Plausible(e) ==
  e.type = "BAR_5M" =>
    /\ e.price = e.p.close /\ Within(e.p)
    /\ e.p.low20 <= e.p.low /\ e.p.high <= e.p.high20

ExtremesInv == OwnExtremesSilence /\ \A k \in DOMAIN bus : Plausible(bus[k])

\* The last count labels are the pending one, or all since one that took over
\* from NEUTRAL, which left an older count.
Backed(raws, pending, count) ==
  LET n == Len(raws) IN
  \E j \in 0 .. n :
    /\ \A k \in j + 1 .. n : raws[k] = pending
    /\ n - j = count \/ (n - j < count /\ j # 0 /\ raws[j] = "adopted")

RepeatsInv ==
  RegimeNeedsRepeats /\ Len(ghost.raws) <= PersistBars /\ Backed(ghost.raws, market.pending, market.count)

BarsInv == EveryTickInOneBar /\ OrderInv /\ ExtremesInv /\ RepeatsInv
=============================================================================
