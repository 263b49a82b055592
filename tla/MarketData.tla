------------------------------- MODULE MarketData -------------------------------
(***************************************************************************)
(* From the sources to the signals: pollers (Ingest) fill the bus; for     *)
(* each event the context updater writes the market context, every rule    *)
(* strategy is asked (Signals), some strategies write the context, and the *)
(* router keeps the signals the regime lets through (Regime).  Ticks and   *)
(* bars come from the feed and from Bars.  The owner's suggestions from    *)
(* the dashboard take part through a strategy of their own.                *)
(***************************************************************************)
EXTENDS Ingest, Signals, Regime

CONSTANTS
  Symbols,     \* traded symbols; Index and GOLDBEES among them
  Facts,       \* what histories and tables may tell the strategies
  Clocks,      \* days and phases a behaviour may run in
  MarketLabels,\* labels the classifier may give before the tilt
  Paper,       \* TRADING_PHASE is paper_learn
  MaxRows      \* bound: the rows any plan lets appear

\* What the sources' numbers are: a key that is missing counts as 0, and the
\* bias of the language model is cut to its range when it is parsed.
Figures == {"fii", "dii", "gift", "us", "crude", "usd", "vix", "client", "fiiOi", "ret5"}

Sane(e) ==
  /\ e.price \in Int /\ \A key \in Figures : Get(e, key, 0) \in Int
  /\ Get(e, "bias", 0) \in -100 .. 100
  /\ e.type = "BAR_5M" => {e.p.high, e.p.low} \subseteq Int

ASSUME MarketAssumption ==
  /\ \A src \in Sources : \A list \in Contents[src] :
       list \in Seq(Members(list)) /\ \A j \in DOMAIN list : Sane(list[j])
  /\ {Index, "GOLDBEES"} \subseteq Symbols /\ MarketLabels \subseteq Buckets /\ Paper \in BOOLEAN
  /\ MaxRows \in Nat /\ \A p \in Plans : p.row <= MaxRows
  /\ Clocks \subseteq [phase : STRING, open : BOOLEAN, weekday : 0 .. 6, dom : 1 .. 31, expiry : BOOLEAN]

VARIABLES
  ctx,     \* MarketContext, as far as a rule reads it
  heard,   \* the last event handled: what was proposed and what the router kept
  desk,    \* user_suggestions
  clock, fast   \* the day and phase; FAST_PATH_ENTRIES

vars == <<ingest, ctx, heard, desk, clock, fast>>

NewContext ==
  [regime |-> "NEUTRAL", pending |-> "none", count |-> 0,
   gift |-> 0, fii |-> 0, dii |-> 0, us |-> 0, crude |-> 0, usd |-> 0, vix |-> 0,
   client |-> 0, fiiOi |-> 0, llm |-> 0, fg |-> 50, dip |-> 0,
   flag |-> [s \in Symbols |-> FALSE], rot |-> [s \in Symbols |-> << >>],
   open |-> [s \in Symbols |-> 0], vwap |-> [s \in Symbols |-> 0],
   orbHi |-> [s \in Symbols |-> 0], orbLo |-> [s \in Symbols |-> 0]]

Silence == [type |-> "none", asked |-> {}, kept |-> {}]

-----------------------------------------------------------------------------
(* The context updater.                                                     *)

Clamp(lo, x, hi) == IF x < lo THEN lo ELSE IF x > hi THEN hi ELSE x

\* compute_fear_greed, in whole points: tanh is cut to a line between its
\* limits.  The bias is in hundredths.
FearGreed(c) ==
  LET volatility == IF c.vix <= 0 THEN 50 ELSE Clamp(0, 100 - ((c.vix - 11) * 38) \div 10, 100)
      flows  == 50 + (28 * Clamp(-800, c.fii, 800)) \div 800
      gift   == Clamp(0, 50 + (22 * c.gift) \div 100, 100)
      bias   == 50 + (35 * c.llm) \div 100
      retail == 50 - (18 * Clamp(-5000000, c.client - c.fiiOi, 5000000)) \div 5000000
  IN  (30 * volatility + 25 * flows + 15 * (gift + bias + retail)) \div 100

Aware(c) == [c EXCEPT !.fg = FearGreed(c)]

\* refresh_ctx_regime; label: what the classifier says, see Bars.
Refreshed(c, label, tilt) ==
  LET st == Persist([regime |-> c.regime, pending |-> c.pending, count |-> c.count],
                    IF tilt THEN Nudge(label, c.fii) ELSE label, FALSE)
  IN  [c EXCEPT !.regime = st.regime, !.pending = st.pending, !.count = st.count]

\* ContextUpdater.on_event.
Updated(c, e, label) ==
  CASE e.type \in {"PRE_OPEN", "OPEN", "CLOSE"} -> Refreshed(Aware(c), label, FALSE)
    [] e.type = "BAR_5M"  -> Refreshed(c, label, TRUE)
    [] e.type = "FII_DII" ->
         Refreshed([c EXCEPT !.fii = Get(e, "fii", 0), !.dii = Get(e, "dii", 0)], label, TRUE)
    [] e.type = "GIFT"    -> [c EXCEPT !.gift = Get(e, "gift", 0)]
    [] e.type = "MACRO"   ->
         [c EXCEPT !.us = Get(e, "us", 0), !.crude = Get(e, "crude", 0), !.usd = Get(e, "usd", 0),
                   !.vix = IF Get(e, "vix", 0) # 0 THEN e.p.vix ELSE @]
    [] e.type = "LLM"     -> Aware([c EXCEPT !.llm = Get(e, "bias", 0)])
    [] e.type = "IV"      -> Aware([c EXCEPT !.vix = Get(e, "vix", 0)])
    [] e.type = "PREOPEN_PRICE" ->   \* the row has no low
         [c EXCEPT !.orbHi[e.sym] = e.price, !.orbLo[e.sym] = e.price, !.open[e.sym] = e.price]
    [] e.type = "PARTICIPANT" ->
         [c EXCEPT !.client = Get(e, "client", 0), !.fiiOi = Get(e, "fiiOi", 0)]
    [] e.type = "TICK" ->            \* kept for as long as the process lives
         [c EXCEPT !.open[e.sym] = IF @ # 0 THEN @ ELSE IF c.orbLo[e.sym] # 0 THEN c.orbLo[e.sym]
                                   ELSE e.price,
                   !.vwap[e.sym] = IF @ # 0 THEN @ ELSE e.price]
    [] OTHER -> c

-----------------------------------------------------------------------------
(* The strategies' own writes into the context.                             *)

RegimeWritten(e, c) ==
  CASE e.type = "FII_DII" -> IF c.fii < -3000 /\ c.dii < 0 THEN "RISK_OFF"
                             ELSE IF c.fii > 1000 /\ c.dii > 0 THEN "RISK_ON" ELSE c.regime
    [] e.type \in {"MACRO", "GIFT"} ->
         IF RiskOff(e) THEN (IF Paper THEN "NEUTRAL" ELSE "RISK_OFF")
         ELSE IF Get(e, "us", 0) > 40 /\ Get(e, "crude", 0) < 0 THEN "RISK_ON" ELSE c.regime
    [] OTHER -> c.regime

\* opening_range widens its range with every five minute bar.
Widened(e, c) ==
  LET hi == c.orbHi[e.sym]  lo == c.orbLo[e.sym]
  IN  [c EXCEPT !.orbHi[e.sym] = IF hi > e.p.high THEN hi ELSE e.p.high,
                !.orbLo[e.sym] = IF lo # 0 /\ lo < e.p.low THEN lo ELSE e.p.low]

\* vwap_volume_confirm: set by a cross upwards, taken back by its signal.
Flagged(e, c, f) ==
  IF e.type = "VWAP_CROSS" /\ e.p.above THEN [c EXCEPT !.flag[e.sym] = TRUE]
  ELSE IF e.type = "BAR_5M" /\ f.volr >= 15 THEN [c EXCEPT !.flag[e.sym] = FALSE] ELSE c

\* india_dual_rotation: a daily bar carries no return.
Rotated(e, c) ==
  IF e.type \in {"BAR_5M", "BAR_1D"} /\ e.sym \in {Index, "GOLDBEES"}
  THEN [c EXCEPT !.rot[e.sym] = <<Get(e, "ret5", 0)>>] ELSE c

\* All of them, after the strategies have answered: none reads on an event
\* what another writes on it.
Written(e, c, f) ==
  LET d == Rotated(e, Flagged(e, IF e.type = "BAR_5M" THEN Widened(e, c) ELSE c, f))
  IN  [d EXCEPT !.regime = RegimeWritten(e, c)]

-----------------------------------------------------------------------------
(* The dashboard's suggestions.                                             *)

Suggest ==
  /\ "desk" \in plan.sources /\ Use("row")
  /\ \E s \in Symbols, act \in {"BUY", "SELL"} :
        desk' = Append(desk, [sym |-> s, act |-> act, status |-> "pending", kept |-> FALSE])
  /\ UNCHANGED <<rows, shown, memory, plan, ctx, heard, clock, fast>>

Pending(sym) == {i \in DOMAIN desk : desk[i].sym = sym /\ desk[i].status = "pending"}

\* UserSuggestionStrategy on a bar: the oldest pending suggestion of a symbol.
Suggested(e) ==
  IF e.type # "BAR_5M" THEN {}
  ELSE {i \in Pending(e.sym) : \A j \in Pending(e.sym) : i <= j}

Outcomes == {"executed", "rejected", "expired_no_signal_window"}

\* resolve_evaluating_suggestions, when the owner opens the queue: there is a
\* trade of it, or a shadow trade, both only of what the router kept; or a
\* quarter of an hour has gone by.  Pending ones are not looked at.
Resolve ==
  /\ \E i \in DOMAIN desk, outcome \in Outcomes :
        /\ desk[i].status = "evaluating" /\ (outcome # "expired_no_signal_window" => desk[i].kept)
        /\ desk' = [desk EXCEPT ![i].status = outcome]
  /\ UNCHANGED <<ingest, ctx, heard, clock, fast>>

-----------------------------------------------------------------------------
(* One event of the bus.                                                    *)

\* AgentRouter.fuse: in a bear market hedges alone, else what the whitelist
\* has, and rules of the configuration.
Pool(sigs, regime) ==
  LET allowed == Whitelist(regime)
      hedges  == {s \in sigs : s.act = "HEDGE" /\ s.by \in allowed}
  IN  IF NormalRegime(regime) = "BEAR" /\ hedges # {} THEN hedges
      ELSE {s \in sigs : s.by \in allowed \cup {"custom_gap_fade"}}

Handle ==
  LET e == Head(bus).e
  IN  /\ bus # << >> /\ bus' = Tail(bus)
      /\ \E label \in MarketLabels, f \in Facts :
           LET c    == Updated(ctx, e, label)
               user == Suggested(e)
               sigs == IF fast /\ e.type = "TICK" THEN {}
                       ELSE RuleSignals(e, c, f, clock, Paper)
                              \cup {Signal("user_suggested", desk[i].sym, desk[i].act) : i \in user}
               new  == Written(e, c, f)
               kept == Pool(sigs, new.regime)
           IN  /\ ctx' = new
               /\ heard' = [type |-> e.type, asked |-> sigs, kept |-> kept]
               /\ desk' = [i \in DOMAIN desk |->
                     IF i \notin user THEN desk[i]
                     ELSE [desk[i] EXCEPT !.status = "evaluating",
                             !.kept = \E s \in kept : s.by = "user_suggested"]]
      /\ UNCHANGED <<rows, shown, marked, dead, sent, again, blocked, plan, used, clock, fast>>

\* A new process: the context starts anew, the database keeps the desk.
Restart ==
  /\ Use("fault") /\ ForgetIngest
  /\ ctx' = NewContext /\ heard' = Silence /\ UNCHANGED <<desk, clock, fast>>

Init ==
  /\ InitIngest /\ ctx = NewContext /\ heard = Silence /\ desk = << >>
  /\ clock \in Clocks /\ fast \in BOOLEAN

Next ==
  \/ Polls /\ UNCHANGED <<ctx, heard, desk, clock, fast>>
  \/ Handle \/ Suggest \/ Resolve \/ Restart

\* A poll that would publish something, of whatever source.
Poll == (\E src \in Kept : PollAll(src)) /\ UNCHANGED <<ctx, heard, desk, clock, fast>>

\* The first event has been taken: what Handle does to the bus.
Taken == bus # << >> /\ bus' = Tail(bus)

\* The pollers run again and again, and the bus takes what waits.  (Each of
\* them is as fair in the code; the weaker assumption is enough.)
Fairness == WF_bus(Taken) /\ WF_vars(Poll)

Spec == Init /\ [][Next]_vars /\ Fairness

-----------------------------------------------------------------------------
(* Properties.                                                              *)

Acts == {"BUY", "SELL", "HEDGE"}

TypeOK ==
  /\ ctx.regime \in Labels /\ ctx.pending \in Labels \cup {"none"} /\ ctx.fg \in 0 .. 100
  /\ \A s \in heard.asked : s.act \in Acts
  /\ heard.kept \subseteq heard.asked
  /\ Len(sent) = Len(rows) /\ (UNION {marked[s] : s \in Kept}) \cup blocked \subseteq DOMAIN rows
  /\ \A i \in DOMAIN desk : desk[i].status \in {"pending", "evaluating"} \cup Outcomes

Flowing == {"FII_DII", "GIFT", "MACRO"}

\* What flows in, in whatever order foreign flows, GIFT and macro figures come
\* (the last ones stay in the context for every later event), never makes the
\* rules on the index propose to buy it and to sell it on the same event of
\* these sources: the router would take the two for rivals and pick one.  That
\* is so while trading is on paper; in the live phase global_risk_beta sells on
\* macro figures that macro_confluence may buy on.
FlowsSpeakWithOneVoice ==
  /\ TypeOK
  /\ Paper /\ heard.type \in Flowing =>
       Cardinality({s.act : s \in {t \in heard.kept : t.sym = Index}}) <= 1

\* The whole context, the events on the bus and the desk, typed: from what the
\* sources may show, whatever the order it comes in.
Context ==
  [regime : Labels, pending : Labels \cup {"none"}, count : Nat,
   gift : Int, fii : Int, dii : Int, us : Int, crude : Int, usd : Int, vix : Int,
   client : Int, fiiOi : Int, llm : -100 .. 100, fg : 0 .. 100, dip : Int,
   flag : [Symbols -> BOOLEAN], rot : [Symbols -> Seq(Int)],
   open : [Symbols -> Int], vwap : [Symbols -> Int],
   orbHi : [Symbols -> Int], orbLo : [Symbols -> Int]]

Shown == UNION {Members(list) : list \in UNION {Contents[src] : src \in Sources}}

Suggestion == [sym : Symbols, act : {"BUY", "SELL"},
               status : {"pending", "evaluating"} \cup Outcomes, kept : BOOLEAN]

ContextInv ==
  /\ bus \in Seq([row : Nat, e : Shown]) /\ desk \in Seq(Suggestion) /\ ctx \in Context

\* What the rules propose on flows agrees about the index before the router
\* looks at it.
Voices ==
  /\ (\A s \in heard.asked : s.act \in Acts) /\ heard.kept \subseteq heard.asked
  /\ Paper /\ heard.type \in Flowing =>
       \A s, t \in heard.asked : s.sym = Index /\ t.sym = Index => s.act = t.act

MarketInv == IngestInv /\ ContextInv /\ Voices

\* What Delivery speaks of: kind and publications of each row in this life, and
\* the rows their pollers are through with.
RowKind ==
  [id \in 1 .. MaxRows |->
     IF id > Len(rows) THEN "none"
     ELSE IF rows[id].bad THEN "malformed"
     ELSE IF rows[id].src = "bulk" THEN "deal" ELSE "other"]

RowTimes == [id \in 1 .. MaxRows |-> IF id > Len(rows) THEN 0 ELSE sent[id] + again[id]]

RowsDone == {id \in DOMAIN rows : id \in marked[rows[id].src] \cup blocked \/ sent[id] > 0}

D == INSTANCE Delivery WITH Rows <- 1 .. MaxRows, kind <- RowKind, times <- RowTimes,
                            done <- RowsDone, bursts <- used.poll, faults <- used.fault

\* The pollers implement Delivery: in one life of the engine the poller of a row
\* publishes it at most once, every burst repeats the deals once and no other
\* row, nothing malformed goes out, and a failed write loses one row, not the
\* rest of the list that its poll had not come to.
RowsAsPromised == D!Spec

Listed(id) == id \in DOMAIN rows /\ id \in shown[rows[id].src]

\* A row that stays listed is published in the end, unless its own write
\* failed, or the task of its poller has ended (akshare's only), or a malformed
\* row stays listed that keeps the polls from reaching it: a poll that failed is
\* followed by another, and a list that is cleared of malformed rows is read
\* again.
ArrivesAtLast ==
  \A id \in 1 .. MaxRows :
    Listed(id) ~> \/ ~Listed(id) \/ ~Reached(rows[id].src, id) \/ sent[id] > 0 \/ id \in blocked
                  \/ rows[id].src = "akshare" /\ "akshare" \in dead

\* "It competes in fuse() like any other strategy" (candidacy_signals.py:297):
\* what the owner has suggested is among what the router chooses from.
SuggestionCompetes ==
  {s \in heard.asked : s.by = "user_suggested"} \subseteq heard.kept
=============================================================================
