------------------------------- MODULE BarsProofs -------------------------------
(***************************************************************************)
(* Safety of Bars for every set of symbols, every price, every length of   *)
(* a bucket and any number of ticks, news and faults: a tick is in one bar *)
(* of each interval, the log has no tick twice or out of order, a bar does *)
(* not break out of extremes it belongs to, and a regime changes only on   *)
(* repeated evidence.  BarsInv is inductive.  At the end, the feed that    *)
(* brings the ticks (KiteFeed): a live one is not lost to a restart.        *)
(***************************************************************************)
EXTENDS Bars, KiteFeed, FiniteSetTheorems, SequenceTheorems, WellFoundedInduction, TLAPS

-----------------------------------------------------------------------------
(* Sequences and numbers.                                                   *)

\* Length, domain and entries of a sequence.
LEMMA SeqFacts ==
  ASSUME NEW S, NEW q \in Seq(S)
  PROVE  Len(q) \in Nat /\ DOMAIN q = 1 .. Len(q) /\ \A j \in 1 .. Len(q) : q[j] \in S
BY LenProperties, ElementOfSeq

\* A function on 1 .. n as a sequence.
LEMMA FunctionSeq ==
  ASSUME NEW S, NEW n \in Nat, NEW f \in [1 .. n -> S]
  PROVE  f \in Seq(S) /\ Len(f) = n
<1>1. f \in Seq(S)
  BY SeqDef
<1>2. Len(f) \in Nat /\ 1 .. Len(f) = 1 .. n
  BY <1>1, LenProperties
<1>3. \A i \in Nat \ {0} : i \in 1 .. n <=> i \in 1 .. Len(f)
  BY <1>2
<1>4. CASE n < Len(f)
  BY <1>2, <1>3, <1>4
<1>5. CASE Len(f) < n
  BY <1>2, <1>3, <1>5
<1> QED
  BY <1>1, <1>2, <1>4, <1>5

\* A set of natural numbers has a smallest one.
LEMMA Smallest ==
  ASSUME NEW T, T \subseteq Nat, T # {}
  PROVE  \E x \in T : \A y \in T : x <= y
<1>1. PICK x \in T : \A y \in T : ~ (<<y, x>> \in OpToRel(<, Nat))
  BY NatLessThanWellFounded, WFMin
<1>2. \A y \in T : ~ (y < x)
  BY <1>1 DEF OpToRel
<1> QED
  BY <1>2

\* Numbers in a sequence have a largest one.
LEMMA HasLargest ==
  ASSUME NEW s \in Seq(Nat), s # << >>
  PROVE  \E x \in {s[i] : i \in DOMAIN s} : \A i \in DOMAIN s : s[i] <= x
<1> DEFINE Top(n) == \E j \in 1 .. n : \A i \in 1 .. n : s[i] <= s[j]
           Bad    == {n \in 1 .. Len(s) : ~ Top(n)}
<1>1. Len(s) \in Nat /\ Len(s) # 0 /\ DOMAIN s = 1 .. Len(s) /\ \A i \in 1 .. Len(s) : s[i] \in Nat
  BY SeqFacts, EmptySeq
<1>2. ASSUME NEW n \in 1 .. Len(s), n # 1, Top(n - 1) PROVE Top(n)
  <2>1. PICK j \in 1 .. n - 1 : \A i \in 1 .. n - 1 : s[i] <= s[j]
    BY <1>2
  <2>2. /\ n \in Nat /\ j \in 1 .. n /\ n \in 1 .. n /\ s[n] \in Nat /\ s[j] \in Nat
        /\ \A i \in 1 .. n : i = n \/ i \in 1 .. n - 1
        /\ \A i \in 1 .. n : s[i] \in Nat
    BY <1>1, <1>2
  <2>3. CASE s[n] <= s[j]
    BY <2>1, <2>2, <2>3
  <2>4. CASE s[j] <= s[n]
    <3>1. \A i \in 1 .. n : s[i] <= s[n]
      BY <2>1, <2>2, <2>4
    <3> QED
      BY <2>2, <3>1
  <2>5. s[n] <= s[j] \/ s[j] <= s[n]
    BY <2>2
  <2> QED
    BY <2>3, <2>4, <2>5
<1>3. Top(1)
  BY <1>1
<1> HIDE DEF Top
<1>4. Bad = {}
  <2> SUFFICES ASSUME Bad # {} PROVE FALSE
    OBVIOUS
  <2>1. Bad \subseteq Nat
    BY <1>1
  <2>2. PICK n \in Bad : \A y \in Bad : n <= y
    <3> HIDE DEF Bad
    <3> QED
      BY <2>1, Smallest
  <2>3. n \in 1 .. Len(s) /\ ~ Top(n) /\ n # 1
    BY <1>3, <2>2
  <2>4. n - 1 \in 1 .. Len(s) /\ ~ (n <= n - 1)
    BY <1>1, <2>3
  <2>5. n - 1 \notin Bad
    BY <2>2, <2>4
  <2> QED
    BY <1>2, <2>3, <2>4, <2>5
<1>5. Top(Len(s))
  <2>1. Len(s) \in 1 .. Len(s)
    BY <1>1
  <2> QED
    BY <1>4, <2>1
<1> QED
  BY <1>1, <1>5 DEF Top

\* What Highest and Lowest choose.
LEMMA Extremes ==
  ASSUME NEW s \in Seq(Nat), s # << >>
  PROVE  /\ Highest(s) \in Nat /\ \A i \in DOMAIN s : s[i] <= Highest(s)
         /\ Lowest(s) \in Nat /\ \A i \in DOMAIN s : Lowest(s) <= s[i]
<1> DEFINE T == {s[i] : i \in DOMAIN s}
<1>1. T \subseteq Nat /\ T # {}
  BY SeqFacts, EmptySeq
<1>2. \E x \in T : \A i \in DOMAIN s : s[i] <= x
  BY HasLargest
<1>3. \E x \in T : \A i \in DOMAIN s : x <= s[i]
  <2>1. PICK x \in T : \A y \in T : x <= y
    <3> HIDE DEF T
    <3> QED
      BY <1>1, Smallest
  <2> QED
    BY <2>1
<1>4. Highest(s) \in T /\ \A i \in DOMAIN s : s[i] <= Highest(s)
  BY <1>2 DEF Highest
<1>5. Lowest(s) \in T /\ \A i \in DOMAIN s : Lowest(s) <= s[i]
  BY <1>3 DEF Lowest
<1> QED
  BY <1>1, <1>4, <1>5

\* t ends with x, behind the last entries of s, and has n entries at most.
Extends(t, n, s, x) ==
  /\ Len(t) \in Nat \ {0} /\ t[Len(t)] = x
  /\ Len(t) = IF Len(s) + 1 > n THEN n ELSE Len(s) + 1
  /\ \A i \in 1 .. Len(t) - 1 : t[i] = s[i + Len(s) + 1 - Len(t)]

\* What Push returns.
LEMMA PushFacts ==
  ASSUME NEW S, NEW s \in Seq(S), NEW x \in S, NEW n \in Nat \ {0}
  PROVE  Push(n, s, x) \in Seq(S) /\ Extends(Push(n, s, x), n, s, x)
<1> DEFINE t == Push(n, s, x)
           a == Append(s, x)
           m == IF Len(a) > n THEN Len(a) - n + 1 ELSE 1
<1>1. /\ a \in Seq(S) /\ Len(a) = Len(s) + 1 /\ a[Len(s) + 1] = x
      /\ \A i \in 1 .. Len(s) : a[i] = s[i]
  BY AppendProperties
<1>2. Len(s) \in Nat /\ \A i \in 1 .. Len(a) : a[i] \in S
  BY <1>1, SeqFacts
<1>3. m \in 1 .. Len(a) /\ Len(a) - m + 1 = IF Len(s) + 1 > n THEN n ELSE Len(s) + 1
  BY <1>1, <1>2
<1> HIDE DEF a, m, t
<1>4. /\ SubSeq(a, m, Len(a)) \in Seq(S)
      /\ Len(SubSeq(a, m, Len(a))) = Len(a) - m + 1
      /\ \A i \in 1 .. Len(a) - m + 1 : SubSeq(a, m, Len(a))[i] = a[m + i - 1]
  BY <1>1, <1>2, <1>3, SubSeqProperties
<1>5. t = SubSeq(a, m, Len(a))
  BY DEF Latest, Push, a, m, t
<1>6. t \in Seq(S) /\ Len(t) = Len(a) - m + 1 /\ \A i \in 1 .. Len(t) : t[i] = a[m + i - 1]
  BY <1>4, <1>5
<1>7. Len(t) \in Nat \ {0} /\ t # << >> /\ Len(t) = IF Len(s) + 1 > n THEN n ELSE Len(s) + 1
  BY <1>1, <1>2, <1>3, <1>6, EmptySeq
<1>8. m = Len(s) + 2 - Len(t)
  BY <1>1, <1>2, <1>3, <1>6
<1>9. t[Len(t)] = x
  <2>1. Len(t) \in 1 .. Len(t) /\ m + Len(t) - 1 = Len(s) + 1
    BY <1>2, <1>7, <1>8
  <2> QED
    BY <1>1, <1>6, <2>1
<1>10. ASSUME NEW i \in 1 .. Len(t) - 1
       PROVE  t[i] = s[i + Len(s) + 1 - Len(t)]
  <2>1. m + i - 1 = i + Len(s) + 1 - Len(t) /\ i \in 1 .. Len(t)
    BY <1>2, <1>7, <1>8
  <2>2. m \in Nat \ {0}
    BY <1>1, <1>2, <1>3
  <2>3. m + i - 1 \in 1 .. Len(s)
    <3>1. i \in Nat /\ 1 <= i /\ i < Len(t) /\ Len(t) \in Nat
      BY <1>7
    <3> QED
      BY <1>2, <1>8, <2>2, <3>1
  <2> QED
    BY <1>1, <1>6, <2>1, <2>3
<1>11. Extends(t, n, s, x)
  BY <1>7, <1>9, <1>10 DEF Extends
<1> QED
  BY <1>6, <1>11 DEF t

-----------------------------------------------------------------------------
(* The operators of the aggregator.                                         *)

\* What is assumed of the constants, with the intervals by name.
LEMMA Constants ==
  /\ Index \in Symbols /\ IsFiniteSet(Symbols)
  /\ Intervals = {"BAR_5M", "BAR_15M", "BAR_1D"} /\ \A i \in Intervals : Spans[i] \in Nat \ {0}
  /\ Prices \subseteq Nat \ {0} /\ Flows \subseteq Int /\ FlushEvery \in Nat \ {0}
  /\ MaxSlot \in Nat /\ PersistBars \in Nat \ {0} /\ MinReturns \in Nat \ {0}
BY BarsAssumption, RegimeAssumption DEF BarsAssumption, RegimeAssumption, Intervals

\* No bar is none.
LEMMA NoBarIsNone == NoBar.n = 0 /\ NoBar \notin Bar
BY DEF NoBar, Bar

\* The features of a bar: its own high and low are within the extremes.
LEMMA FeaturesType ==
  ASSUME NEW h \in Hist, Aligned(h), NEW bar \in Bar, Within(bar)
  PROVE  LET f == Features(h, bar)
         IN  /\ f.hist \in Hist /\ Aligned(f.hist) /\ f.p \in Rich
             /\ f.p.close = bar.close /\ Within(f.p)
             /\ f.p.low20 <= f.p.low /\ f.p.high <= f.p.high20
<1> DEFINE base == IF Len(h.day) < 6 THEN 0 ELSE h.day[Len(h.day) - 5]
           ret5 == IF base = 0 THEN 0 ELSE (10000 * (bar.close - base)) \div base
           close == Push(20, h.close, bar.close)
           high  == Push(20, h.high, bar.high)
           low   == Push(20, h.low, bar.low)
           seen  == [close |-> close, high |-> high, low |-> low, day |-> h.day]
<1>1. /\ h.close \in Seq(Nat) /\ h.high \in Seq(Nat) /\ h.low \in Seq(Nat) /\ h.day \in Seq(Nat)
      /\ bar.close \in Nat /\ bar.high \in Nat /\ bar.low \in Nat
  BY DEF Hist, Bar
<1> HIDE DEF base, ret5, seen
<1>2. 20 \in Nat \ {0}
  OBVIOUS
<1>b. /\ close \in Seq(Nat) /\ close # << >> /\ close[Len(close)] = bar.close
      /\ Len(close) = (IF Len(h.close) + 1 > 20 THEN 20 ELSE Len(h.close) + 1)
  <2>1. close \in Seq(Nat) /\ Extends(close, 20, h.close, bar.close)
    BY <1>1, <1>2, PushFacts
  <2> QED
    BY <2>1, EmptySeq DEF Extends
<1>c. /\ high \in Seq(Nat) /\ high # << >> /\ high[Len(high)] = bar.high
      /\ Len(high) = (IF Len(h.high) + 1 > 20 THEN 20 ELSE Len(h.high) + 1)
  <2>1. high \in Seq(Nat) /\ Extends(high, 20, h.high, bar.high)
    BY <1>1, <1>2, PushFacts
  <2> QED
    BY <2>1, EmptySeq DEF Extends
<1>d. /\ low \in Seq(Nat) /\ low # << >> /\ low[Len(low)] = bar.low
      /\ Len(low) = (IF Len(h.low) + 1 > 20 THEN 20 ELSE Len(h.low) + 1)
  <2>1. low \in Seq(Nat) /\ Extends(low, 20, h.low, bar.low)
    BY <1>1, <1>2, PushFacts
  <2> QED
    BY <2>1, EmptySeq DEF Extends
<1>3. seen = Joins(h, bar)
  BY DEF Joins, seen
<1> HIDE DEF close, high, low
<1>4. seen \in Hist /\ Aligned(seen)
  <2>1. Len(h.high) \in Nat
    BY <1>1, LenProperties
  <2>2. seen \in Hist
    BY <1>1, <1>b, <1>c, <1>d DEF Hist, seen
  <2>3. /\ seen.close = close /\ seen.high = high /\ seen.low = low /\ seen.day = h.day
        /\ Len(close) = Len(high) /\ Len(low) = Len(high) /\ Len(high) <= 20 /\ Len(h.day) <= 8
    BY <1>b, <1>c, <1>d, <2>1 DEF Aligned, seen
  <2> QED
    BY <2>2, <2>3 DEF Aligned
<1>5. Len(high) \in DOMAIN high /\ Len(low) \in DOMAIN low
  BY <1>c, <1>d, SeqFacts, EmptySeq
<1>6. /\ Highest(high) \in Nat /\ bar.high <= Highest(high)
      /\ Lowest(low) \in Nat /\ Lowest(low) <= bar.low
  BY <1>c, <1>d, <1>5, Extremes
<1>7. Streak(high) \in Nat
  <2> DEFINE T == {i \in 2 .. Len(high) : \A j \in i .. Len(high) : high[j] < high[j - 1]}
  <2>1. Len(high) \in Nat
    BY <1>c, LenProperties
  <2>2. IsFiniteSet(2 .. Len(high))
    BY <2>1, FS_Interval
  <2>3. IsFiniteSet(T)
    BY <2>2, FS_Subset
  <2> QED
    BY <2>3, FS_CardinalityType DEF Streak
<1>8. ret5 \in Int
  <2>1. base \in Nat
    <3>1. Len(h.day) \in Nat
      BY <1>1, LenProperties
    <3>2. Len(h.day) >= 6 => Len(h.day) - 5 \in 1 .. Len(h.day)
      BY <3>1
    <3> QED
      BY <1>1, <3>1, <3>2, ElementOfSeq DEF base
  <2> QED
    BY <1>1, <2>1 DEF ret5
<1> DEFINE p == [high |-> bar.high, low |-> bar.low, close |-> bar.close,
                 high20 |-> Highest(high), low20 |-> Lowest(low),
                 near |-> 1000 * bar.close >= 995 * Highest(high),
                 streak |-> Streak(high), ret5 |-> ret5]
<1>9. Features(h, bar) = [hist |-> seen, p |-> p]
  BY <1>3 DEF Features, seen, ret5, base
<1>10. p \in Rich
  BY <1>1, <1>6, <1>7, <1>8 DEF Rich
<1>11. p.close = bar.close /\ Within(p) /\ p.low20 <= p.low /\ p.high <= p.high20
  BY <1>6 DEF Within
<1> QED
  BY <1>4, <1>9, <1>10, <1>11

\* The bar after a tick, and its ticks.
LEMMA JoinedType ==
  ASSUME NEW bar \in Bar \cup {NoBar}, bar # NoBar => Within(bar), NEW i \in Intervals,
         NEW tick \in Events, tick.type = "TICK"
  PROVE  LET new == Joined(bar, i, tick)
         IN  /\ new \in Bar /\ new # NoBar /\ Within(new)
             /\ new.n = IF bar = NoBar \/ Over(bar, i, tick.p.ts) THEN 1 ELSE bar.n + 1
<1>1. tick.price \in Nat /\ tick.p.n \in Nat /\ tick.p.ts \in Nat /\ Spans[i] \in Nat \ {0}
  BY Constants DEF Events
<1> DEFINE bucket == tick.p.ts \div Spans[i]
           vol    == tick.p.n
           prod   == tick.price * vol
<1>2. bucket \in Nat /\ prod \in Nat
  BY <1>1
<1> HIDE DEF bucket, prod
<1>3. CASE bar = NoBar \/ bar.bucket # bucket
  BY <1>1, <1>2, <1>3, NoBarIsNone DEF Joined, Over, Bar, Within, bucket, prod
<1>4. CASE ~ (bar = NoBar \/ bar.bucket # bucket)
  <2>1. bar \in Bar /\ Within(bar)
    BY <1>4
  <2>2. Joined(bar, i, tick) =
          [high |-> IF tick.price > bar.high THEN tick.price ELSE bar.high,
           low  |-> IF tick.price < bar.low THEN tick.price ELSE bar.low,
           close |-> tick.price, num |-> bar.num + prod, den |-> bar.den + vol,
           n |-> bar.n + 1, bucket |-> bar.bucket]
    BY <1>4, <2>1 DEF Joined, Bar, bucket, prod
  <2> QED
    BY <1>1, <1>2, <1>4, <2>1, <2>2, NoBarIsNone DEF Over, Bar, Within, bucket
<1> QED
  BY <1>3, <1>4

\* What _emit_bar publishes.
LEMMA EmitType ==
  ASSUME NEW h \in Hist, Aligned(h), NEW sym \in Symbols, NEW i \in Intervals,
         NEW bar \in Bar, Within(bar)
  PROVE  LET e == Emit(h, sym, i, bar)
         IN  e \in Events /\ e.type # "TICK" /\ Plausible(e)
<1>1. bar.high \in Nat /\ bar.low \in Nat /\ bar.close \in Nat
  BY DEF Bar
<1>2. CASE i = "BAR_5M"
  <2> DEFINE p == Features(h, bar).p
  <2>1. /\ p \in Rich /\ p.close = bar.close /\ Within(p)
        /\ p.low20 <= p.low /\ p.high <= p.high20
    BY FeaturesType
  <2> HIDE DEF p
  <2>2. Emit(h, sym, i, bar) = [type |-> "BAR_5M", sym |-> sym, price |-> bar.close, p |-> p]
    BY <1>2 DEF Emit, Event, p
  <2> QED
    BY <1>1, <2>1, <2>2 DEF Events, Plausible
<1>3. CASE i # "BAR_5M"
  <2> DEFINE own == [high |-> bar.high, low |-> bar.low, close |-> bar.close]
  <2>1. own \in Own
    BY <1>1 DEF Own
  <2>2. Emit(h, sym, i, bar) = [type |-> i, sym |-> sym, price |-> bar.close, p |-> own]
    BY <1>3 DEF Emit, Event
  <2>3. i \in {"BAR_15M", "BAR_1D"}
    BY <1>3, Constants
  <2> HIDE DEF own
  <2> DEFINE e == [type |-> i, sym |-> sym, price |-> bar.close, p |-> own]
  <2>4. e \in [type : {"BAR_15M", "BAR_1D"}, sym : Symbols, price : Nat, p : Own]
    BY <1>1, <2>1, <2>3
  <2>5. e \in Events
    BY <2>4 DEF Events
  <2>6. e.type # "TICK" /\ Plausible(e)
    BY <2>3 DEF Plausible
  <2> QED
    BY <2>2, <2>5, <2>6
<1> QED
  BY <1>2, <1>3

\* The history after any of the open bars.
LEMMA LearnType ==
  ASSUME NEW h \in Hist, Aligned(h), NEW open, NEW done \in SUBSET Intervals,
         \A i \in done : open[i] \in Bar /\ Within(open[i])
  PROVE  Learn(h, open, done) \in Hist /\ Aligned(Learn(h, open, done))
<1> DEFINE seen == IF "BAR_5M" \in done THEN Features(h, open["BAR_5M"]).hist ELSE h
           x    == open["BAR_1D"].close
           day  == Push(8, seen.day, x)
<1>1. seen \in Hist /\ Aligned(seen)
  BY FeaturesType
<1> HIDE DEF seen
<1>2. CASE "BAR_1D" \in done
  <2>1. x \in Nat /\ seen.day \in Seq(Nat) /\ 8 \in Nat \ {0}
    BY <1>1, <1>2 DEF Hist, Bar
  <2>2. day \in Seq(Nat) /\ Extends(day, 8, seen.day, x)
    BY <2>1, PushFacts
  <2>3. Len(seen.day) \in Nat
    BY <2>1, LenProperties
  <2>4. day \in Seq(Nat) /\ Len(day) <= 8
    BY <2>2, <2>3 DEF Extends
  <2>5. Learn(h, open, done) = [seen EXCEPT !.day = day]
    BY <1>2 DEF Learn, seen
  <2> HIDE DEF day
  <2> QED
    BY <1>1, <2>4, <2>5 DEF Hist, Aligned
<1>3. CASE "BAR_1D" \notin done
  <2>1. Learn(h, open, done) = seen
    BY <1>3 DEF Learn, seen
  <2> QED
    BY <1>1, <2>1
<1> QED
  BY <1>2, <1>3

-----------------------------------------------------------------------------
(* Ticks on their way.                                                      *)

\* The number of a tick that waits.
LEMMA NumbersType ==
  ASSUME NEW q \in Seq(Events)
  PROVE  /\ Numbers(q) \subseteq Nat
         /\ \A k \in DOMAIN q : q[k].type = "TICK" => q[k].p.n \in Numbers(q)
<1>1. \A e \in Events : e.type = "TICK" => e.p.n \in Nat
  BY DEF Events
<1>2. \A k \in DOMAIN q : q[k] \in Events
  BY SeqFacts
<1> QED
  BY <1>1, <1>2 DEF Numbers

\* The bus or the tasks without their first event.
LEMMA TailTicks ==
  ASSUME NEW q \in Seq(Events), q # << >>
  PROVE  /\ Head(q) \in Events /\ Tail(q) \in Seq(Events)
         /\ Head(q) = q[1] /\ 1 \in DOMAIN q
         /\ \A k \in DOMAIN Tail(q) : k + 1 \in DOMAIN q /\ Tail(q)[k] = q[k + 1]
         /\ Numbers(Tail(q)) \subseteq Numbers(q)
         /\ TicksRise(q) => TicksRise(Tail(q))
         /\ Head(q).type = "TICK" =>
              /\ Head(q).p.n \in Numbers(q)
              /\ TicksRise(q) => \A n \in Numbers(Tail(q)) : Head(q).p.n < n
<1>1. /\ Head(q) \in Events /\ Tail(q) \in Seq(Events) /\ Len(Tail(q)) = Len(q) - 1
      /\ \A k \in 1 .. Len(Tail(q)) : Tail(q)[k] = q[k + 1]
  BY HeadTailProperties
<1>2. Len(q) \in Nat \ {0} /\ DOMAIN q = 1 .. Len(q) /\ DOMAIN Tail(q) = 1 .. Len(Tail(q))
  BY <1>1, SeqFacts, EmptySeq
<1>3. 1 \in DOMAIN q /\ Head(q) = q[1]
  BY <1>2
<1>4. \A k \in DOMAIN Tail(q) : k \in Nat \ {0} /\ k + 1 \in DOMAIN q /\ Tail(q)[k] = q[k + 1]
  BY <1>1, <1>2
<1> DEFINE t == Tail(q)  e == Head(q)
<1> HIDE DEF t, e
<1>5. /\ 1 \in DOMAIN q /\ e = q[1]
      /\ \A k \in DOMAIN t : k \in Nat \ {0} /\ k + 1 \in DOMAIN q /\ t[k] = q[k + 1]
  BY <1>3, <1>4 DEF t, e
<1>6. Numbers(t) \subseteq Numbers(q)
  BY <1>5 DEF Numbers
<1>7. ASSUME TicksRise(q) PROVE TicksRise(t)
  <2> SUFFICES ASSUME NEW i \in DOMAIN t, NEW j \in DOMAIN t, i < j,
                      t[i].type = "TICK", t[j].type = "TICK"
               PROVE  t[i].p.n < t[j].p.n
    BY DEF TicksRise
  <2>1. i + 1 \in DOMAIN q /\ j + 1 \in DOMAIN q /\ i + 1 < j + 1 /\ t[i] = q[i + 1] /\ t[j] = q[j + 1]
    BY <1>5
  <2> QED
    BY <1>7, <2>1 DEF TicksRise
<1>8. ASSUME e.type = "TICK"
      PROVE  e.p.n \in Numbers(q) /\ (TicksRise(q) => \A n \in Numbers(t) : e.p.n < n)
  <2>1. e.p.n \in Numbers(q)
    BY <1>5, <1>8, NumbersType
  <2>2. ASSUME TicksRise(q), NEW n \in Numbers(t) PROVE e.p.n < n
    <3>1. PICK k \in DOMAIN t : t[k].type = "TICK" /\ n = t[k].p.n
      BY DEF Numbers
    <3>2. k + 1 \in DOMAIN q /\ 1 < k + 1 /\ t[k] = q[k + 1]
      BY <1>5
    <3> QED
      BY <1>5, <1>8, <2>2, <3>1, <3>2 DEF TicksRise
  <2> QED
    BY <2>1, <2>2
<1> QED
  BY <1>1, <1>3, <1>4, <1>6, <1>7, <1>8 DEF t, e

\* An event behind the others.
LEMMA AppendTicks ==
  ASSUME NEW q \in Seq(Events), NEW e \in Events
  PROVE  /\ Append(q, e) \in Seq(Events)
         /\ \A k \in DOMAIN Append(q, e) :
              Append(q, e)[k] = e \/ (k \in DOMAIN q /\ Append(q, e)[k] = q[k])
         /\ Numbers(Append(q, e)) = Numbers(q) \cup (IF e.type = "TICK" THEN {e.p.n} ELSE {})
         /\ TicksRise(q) /\ (e.type = "TICK" => \A n \in Numbers(q) : n < e.p.n)
              => TicksRise(Append(q, e))
<1> DEFINE a == Append(q, e)
<1>1. /\ a \in Seq(Events) /\ Len(a) = Len(q) + 1 /\ a[Len(q) + 1] = e
      /\ \A k \in 1 .. Len(q) : a[k] = q[k]
  BY AppendProperties
<1> HIDE DEF a
<1>2. Len(q) \in Nat /\ DOMAIN q = 1 .. Len(q) /\ DOMAIN a = 1 .. Len(q) + 1
  BY <1>1, SeqFacts
<1>3. /\ Len(q) + 1 \in DOMAIN a
      /\ \A k \in DOMAIN a : k = Len(q) + 1 \/ k \in DOMAIN q
      /\ \A k \in DOMAIN q : k \in DOMAIN a /\ a[k] = q[k] /\ k < Len(q) + 1
  BY <1>1, <1>2
<1>4. Numbers(a) = Numbers(q) \cup (IF e.type = "TICK" THEN {e.p.n} ELSE {})
  BY <1>1, <1>3 DEF Numbers
<1>5. ASSUME TicksRise(q), e.type = "TICK" => \A n \in Numbers(q) : n < e.p.n
      PROVE  TicksRise(a)
  <2> SUFFICES ASSUME NEW i \in DOMAIN a, NEW j \in DOMAIN a, i < j,
                      a[i].type = "TICK", a[j].type = "TICK"
               PROVE  a[i].p.n < a[j].p.n
    BY DEF TicksRise
  <2>1. i \in DOMAIN q
    BY <1>2, <1>3
  <2>2. CASE j \in DOMAIN q
    BY <1>3, <1>5, <2>1, <2>2 DEF TicksRise
  <2>3. CASE j = Len(q) + 1
    BY <1>1, <1>3, <1>5, <2>1, <2>3, NumbersType
  <2> QED
    BY <1>3, <2>2, <2>3
<1>6. ASSUME NEW k \in DOMAIN a PROVE a[k] = e \/ (k \in DOMAIN q /\ a[k] = q[k])
  <2>1. CASE k = Len(q) + 1
    BY <1>1, <2>1
  <2>2. CASE k \in DOMAIN q
    BY <1>3, <2>2
  <2> QED
    BY <1>3, <2>1, <2>2
<1>7. TicksRise(q) /\ (e.type = "TICK" => \A n \in Numbers(q) : n < e.p.n) => TicksRise(a)
  BY <1>5
<1>8. \A k \in DOMAIN a : a[k] = e \/ (k \in DOMAIN q /\ a[k] = q[k])
  BY <1>6
<1>9. a \in Seq(Events)
  BY <1>1
<1>10. a = Append(q, e)
  BY DEF a
<1> QED
  BY <1>4, <1>7, <1>8, <1>9, <1>10

\* A sequence without ticks, whose five minute bars are not beyond their
\* extremes; and what it leaves alone when it is put behind another.
Quiet(q) == q \in Seq(Events) /\ \A k \in DOMAIN q : q[k].type # "TICK" /\ Plausible(q[k])

MoreQuiet(new, old) ==
  /\ new \in Seq(Events) /\ Numbers(new) = Numbers(old)
  /\ TicksRise(old) => TicksRise(new)
  /\ (\A k \in DOMAIN old : Plausible(old[k])) => \A k \in DOMAIN new : Plausible(new[k])

\* Quiet events behind the others change nothing for these.
LEMMA ConcatQuiet ==
  ASSUME NEW q \in Seq(Events), NEW r, Quiet(r)
  PROVE  MoreQuiet(q \o r, q)
<1> DEFINE c == q \o r
<1>1. r \in Seq(Events) /\ \A k \in DOMAIN r : r[k].type # "TICK" /\ Plausible(r[k])
  BY DEF Quiet
<1>2. /\ c \in Seq(Events) /\ Len(c) = Len(q) + Len(r)
      /\ \A i \in 1 .. Len(q) + Len(r) : c[i] = IF i <= Len(q) THEN q[i] ELSE r[i - Len(q)]
  BY <1>1, ConcatProperties
<1> HIDE DEF c
<1>3. /\ Len(q) \in Nat /\ DOMAIN q = 1 .. Len(q) /\ Len(r) \in Nat /\ DOMAIN r = 1 .. Len(r)
      /\ DOMAIN c = 1 .. Len(q) + Len(r)
  BY <1>1, <1>2, SeqFacts
<1>4. \A k \in DOMAIN q : k \in DOMAIN c /\ c[k] = q[k]
  BY <1>2, <1>3
<1>5. ASSUME NEW k \in DOMAIN c, k \notin DOMAIN q PROVE c[k].type # "TICK" /\ Plausible(c[k])
  <2>1. k - Len(q) \in DOMAIN r /\ c[k] = r[k - Len(q)]
    BY <1>2, <1>3, <1>5
  <2> QED
    BY <1>1, <2>1
<1>6. Numbers(c) = Numbers(q)
  BY <1>4, <1>5 DEF Numbers
<1>7. TicksRise(q) => TicksRise(c)
  BY <1>4, <1>5 DEF TicksRise
<1>8. (\A k \in DOMAIN q : Plausible(q[k])) => \A k \in DOMAIN c : Plausible(c[k])
  BY <1>4, <1>5
<1> QED
  BY <1>2, <1>6, <1>7, <1>8 DEF MoreQuiet, c

\* One quiet event, or none.
LEMMA OneQuiet ==
  /\ Quiet(<< >>)
  /\ \A e \in Events : e.type # "TICK" /\ Plausible(e) => Quiet(<<e>>)
BY EmptySeq DEF Quiet

\* A number behind those of a log or a buffer.
LEMMA AppendNumber ==
  ASSUME NEW s \in Seq(Nat), NEW x \in Nat
  PROVE  /\ Append(s, x) \in Seq(Nat) /\ Range(Append(s, x)) = Range(s) \cup {x}
         /\ Rise(s) /\ (\A n \in Range(s) : n < x) => Rise(Append(s, x))
<1> DEFINE a == Append(s, x)
<1>1. /\ a \in Seq(Nat) /\ Len(a) = Len(s) + 1 /\ a[Len(s) + 1] = x
      /\ \A k \in 1 .. Len(s) : a[k] = s[k]
  BY AppendProperties
<1> HIDE DEF a
<1>2. Len(s) \in Nat /\ DOMAIN s = 1 .. Len(s) /\ DOMAIN a = 1 .. Len(s) + 1
  BY <1>1, SeqFacts
<1>3. /\ Len(s) + 1 \in DOMAIN a
      /\ \A k \in DOMAIN a : k = Len(s) + 1 \/ k \in DOMAIN s
      /\ \A k \in DOMAIN s : k \in DOMAIN a /\ a[k] = s[k] /\ k < Len(s) + 1
  BY <1>1, <1>2
<1>4. Range(a) = Range(s) \cup {x}
  BY <1>1, <1>3 DEF Range
<1>5. ASSUME Rise(s), \A n \in Range(s) : n < x, NEW i \in DOMAIN a, NEW j \in DOMAIN a, i < j
      PROVE  a[i] < a[j]
  <2>1. i \in DOMAIN s
    BY <1>2, <1>3, <1>5
  <2>2. CASE j \in DOMAIN s
    BY <1>3, <1>5, <2>1, <2>2 DEF Rise
  <2>3. CASE j = Len(s) + 1
    BY <1>1, <1>3, <1>5, <2>1, <2>3 DEF Range
  <2> QED
    BY <1>3, <2>2, <2>3
<1> QED
  BY <1>1, <1>4, <1>5 DEF a, Rise

\* A buffer behind the log.
LEMMA ConcatNumbers ==
  ASSUME NEW s \in Seq(Nat), NEW t \in Seq(Nat)
  PROVE  /\ s \o t \in Seq(Nat) /\ Range(s \o t) = Range(s) \cup Range(t)
         /\ Rise(s) /\ Rise(t) /\ Before(Range(s), Range(t)) => Rise(s \o t)
<1> DEFINE c == s \o t
<1>1. /\ c \in Seq(Nat) /\ Len(c) = Len(s) + Len(t)
      /\ \A i \in 1 .. Len(s) + Len(t) : c[i] = IF i <= Len(s) THEN s[i] ELSE t[i - Len(s)]
  BY ConcatProperties
<1> HIDE DEF c
<1>2. /\ Len(s) \in Nat /\ DOMAIN s = 1 .. Len(s) /\ Len(t) \in Nat /\ DOMAIN t = 1 .. Len(t)
      /\ DOMAIN c = 1 .. Len(s) + Len(t)
  BY <1>1, SeqFacts
<1>3. /\ \A k \in DOMAIN s : k \in DOMAIN c /\ c[k] = s[k]
      /\ \A k \in DOMAIN t : k + Len(s) \in DOMAIN c /\ k + Len(s) \notin DOMAIN s /\ c[k + Len(s)] = t[k]
      /\ \A k \in DOMAIN c : k \notin DOMAIN s => k - Len(s) \in DOMAIN t /\ c[k] = t[k - Len(s)]
  BY <1>1, <1>2
<1>4. Range(c) = Range(s) \cup Range(t)
  BY <1>3 DEF Range
<1>5. ASSUME Rise(s), Rise(t), Before(Range(s), Range(t)),
             NEW i \in DOMAIN c, NEW j \in DOMAIN c, i < j
      PROVE  c[i] < c[j]
  <2>1. CASE j \in DOMAIN s
    BY <1>2, <1>3, <1>5, <2>1 DEF Rise
  <2>2. CASE j \notin DOMAIN s /\ i \in DOMAIN s
    BY <1>3, <1>5, <2>2 DEF Before, Range
  <2>3. CASE i \notin DOMAIN s
    <3>1. /\ j \notin DOMAIN s /\ i - Len(s) < j - Len(s)
      BY <1>2, <1>5, <2>3
    <3> QED
      BY <1>3, <1>5, <2>3, <3>1 DEF Rise
  <2> QED
    BY <2>1, <2>2, <2>3
<1> QED
  BY <1>1, <1>4, <1>5 DEF c, Rise

-----------------------------------------------------------------------------
(* The aggregator's steps.                                                  *)

\* The counts agree, as in EveryTickInOneBar.
Balanced ==
  \A s \in Symbols, i \in Intervals : ghost.handled[s] = ghost.shut[s][i] + bars[s][i].n

\* An open bar of a symbol, and the sum of ticks when it is shut.
LEMMA OpenBars ==
  ASSUME BarsOK, NEW s \in Symbols
  PROVE  /\ hist[s] \in Hist /\ Aligned(hist[s])
         /\ \A i \in Intervals :
              /\ bars[s][i] \in Bar \cup {NoBar} /\ bars[s][i].n \in Nat
              /\ bars[s][i] # NoBar => bars[s][i] \in Bar /\ Within(bars[s][i]) /\ s \in Opened
              /\ s \in Opened => bars[s][i] # NoBar
<1>1. /\ bars \in [Symbols -> [Intervals -> Bar \cup {NoBar}]] /\ hist \in [Symbols -> Hist]
      /\ Aligned(hist[s])
      /\ \A i \in Intervals : IF s \in Opened THEN bars[s][i] # NoBar /\ Within(bars[s][i])
                                             ELSE bars[s][i] = NoBar
  BY DEF BarsOK
<1>2. \A b \in Bar \cup {NoBar} : b.n \in Nat
  BY NoBarIsNone DEF Bar
<1> QED
  BY <1>1, <1>2

\* on_tick.
LEMMA TickStep ==
  ASSUME BarsOK, GhostOK, side \in [Symbols -> {"none", "above", "below", "at"}], Balanced,
         NEW tick \in Events, tick.type = "TICK", NEW rest \in Seq(Events),
         BarsOnTick(tick, rest)
  PROVE  /\ MoreQuiet(bus', rest) /\ BarsOK' /\ GhostOK' /\ Balanced'
         /\ side' \in [Symbols -> {"none", "above", "below", "at"}]
         /\ ghost'.raws = ghost.raws /\ ghost'.switch = ghost.switch /\ ghost'.fired = ghost.fired
<1> DEFINE sym  == tick.sym
           open == bars[sym]
           done == {i \in Intervals : Over(open[i], i, tick.p.ts)}
           ended(i) == IF i \in done THEN <<Emit(hist[sym], sym, i, open[i])>> ELSE << >>
           five == Joined(open["BAR_5M"], "BAR_5M", tick)
           new  == IF tick.price * five.den > five.num THEN "above"
                   ELSE IF tick.price * five.den < five.num THEN "below" ELSE "at"
           crossed == [type |-> "VWAP_CROSS", sym |-> sym, price |-> tick.price,
                       p |-> [above |-> new = "above"]]
           cross == IF side[sym] \notin {"none", new} /\ new # "at" THEN <<crossed>> ELSE << >>
           N == [i \in Intervals |-> Joined(open[i], i, tick)]
<1>1. sym \in Symbols /\ tick.price \in Prices
  BY DEF Events
<1>2. /\ hist[sym] \in Hist /\ Aligned(hist[sym])
      /\ \A i \in Intervals :
           /\ open[i] \in Bar \cup {NoBar} /\ open[i].n \in Nat
           /\ open[i] # NoBar => open[i] \in Bar /\ Within(open[i])
  BY <1>1, OpenBars
<1>3. /\ bars' = [bars EXCEPT ![sym] = N]
      /\ hist' = [hist EXCEPT ![sym] = Learn(@, open, done)]
      /\ side' = [side EXCEPT ![sym] = new]
      /\ bus' = rest \o ended("BAR_5M") \o ended("BAR_15M") \o ended("BAR_1D") \o cross
      /\ ghost' = [ghost EXCEPT !.handled[sym] = @ + 1, !.shut[sym] = Shut(@, open, done)]
  BY DEF BarsOnTick, Event, InOrder
<1>4. done \in SUBSET Intervals /\ \A i \in done : open[i] \in Bar /\ Within(open[i])
  BY <1>2 DEF Over
<1>5. \A i \in Intervals : Quiet(ended(i))
  <2> SUFFICES ASSUME NEW i \in Intervals PROVE Quiet(ended(i))
    OBVIOUS
  <2>1. CASE i \in done
    <3>1. Emit(hist[sym], sym, i, open[i]) \in Events
      BY <1>1, <1>2, <1>4, <2>1, EmitType
    <3>2. Emit(hist[sym], sym, i, open[i]).type # "TICK" /\ Plausible(Emit(hist[sym], sym, i, open[i]))
      BY <1>1, <1>2, <1>4, <2>1, EmitType
    <3> QED
      BY <2>1, <3>1, <3>2, OneQuiet
  <2>2. CASE i \notin done
    BY <2>2, OneQuiet
  <2> QED
    BY <2>1, <2>2
<1>6. Quiet(cross)
  <2>1. crossed \in Events /\ crossed.type # "TICK" /\ Plausible(crossed)
    <3>1. crossed \in [type : {"VWAP_CROSS"}, sym : Symbols, price : Prices, p : [above : BOOLEAN]]
      <4>1. [above |-> new = "above"] \in [above : BOOLEAN]
        OBVIOUS
      <4> HIDE DEF new, sym
      <4> QED
        BY <1>1, <4>1
    <3>2. crossed.type = "VWAP_CROSS"
      OBVIOUS
    <3> HIDE DEF crossed
    <3> QED
      BY <3>1, <3>2 DEF Events, Plausible
  <2> HIDE DEF crossed
  <2> QED
    BY <2>1, OneQuiet
<1>7. MoreQuiet(bus', rest)
  <2> DEFINE a == ended("BAR_5M")  b == ended("BAR_15M")  c == ended("BAR_1D")  d == cross
  <2>1. Quiet(a) /\ Quiet(b) /\ Quiet(c) /\ Quiet(d)
    BY <1>5, <1>6, Constants
  <2>2. bus' = rest \o a \o b \o c \o d
    BY <1>3
  <2> HIDE DEF a, b, c, d
  <2>3. MoreQuiet(rest \o a, rest)
    BY <2>1, ConcatQuiet
  <2>4. MoreQuiet(rest \o a \o b, rest \o a)
    BY <2>1, <2>3, ConcatQuiet DEF MoreQuiet
  <2>5. MoreQuiet(rest \o a \o b \o c, rest \o a \o b)
    BY <2>1, <2>4, ConcatQuiet DEF MoreQuiet
  <2>6. MoreQuiet(rest \o a \o b \o c \o d, rest \o a \o b \o c)
    BY <2>1, <2>5, ConcatQuiet DEF MoreQuiet
  <2> QED
    BY <2>2, <2>3, <2>4, <2>5, <2>6 DEF MoreQuiet
<1>8. \A i \in Intervals : /\ N[i] \in Bar /\ N[i] # NoBar /\ Within(N[i])
                          /\ N[i].n = IF open[i] = NoBar \/ i \in done THEN 1 ELSE open[i].n + 1
  BY <1>2, JoinedType
<1>9. Learn(hist[sym], open, done) \in Hist /\ Aligned(Learn(hist[sym], open, done))
  BY <1>2, <1>4, LearnType
<1>10. new \in {"none", "above", "below", "at"}
  OBVIOUS
<1> HIDE DEF N, done, new
<1>11. BarsOK'
  <2>1. N \in [Intervals -> Bar \cup {NoBar}]
    BY <1>8 DEF N
  <2>2. bars' \in [Symbols -> [Intervals -> Bar \cup {NoBar}]] /\ hist' \in [Symbols -> Hist]
    BY <1>1, <1>3, <1>9, <2>1 DEF BarsOK
  <2>3. /\ bars'[sym] = N /\ hist'[sym] = Learn(hist[sym], open, done)
        /\ \A s \in Symbols : s # sym => bars'[s] = bars[s] /\ hist'[s] = hist[s]
    BY <1>1, <1>3 DEF BarsOK
  <2>4. sym \in Opened' /\ \A s \in Symbols : s # sym => (s \in Opened' <=> s \in Opened)
    BY <1>1, <1>8, <2>3, Constants DEF Opened
  <2>5. ASSUME NEW s \in Symbols
        PROVE  /\ Aligned(hist'[s])
               /\ \A i \in Intervals : IF s \in Opened' THEN bars'[s][i] # NoBar /\ Within(bars'[s][i])
                                                      ELSE bars'[s][i] = NoBar
    <3>1. CASE s = sym
      BY <1>8, <1>9, <2>3, <2>4, <3>1
    <3>2. CASE s # sym
      BY <2>3, <2>4, <3>2 DEF BarsOK
    <3> QED
      BY <3>1, <3>2
  <2> QED
    BY <2>2, <2>5 DEF BarsOK
<1>12. /\ ghost' \in Histories
       /\ ghost'.handled = [ghost.handled EXCEPT ![sym] = @ + 1]
       /\ ghost'.shut = [ghost.shut EXCEPT ![sym] = Shut(@, open, done)]
       /\ ghost'.raws = ghost.raws /\ ghost'.switch = ghost.switch /\ ghost'.fired = ghost.fired
  <2>1. ghost.shut[sym] \in [Intervals -> Nat] /\ ghost.handled[sym] \in Nat
    BY <1>1 DEF GhostOK, Histories
  <2>2. Shut(ghost.shut[sym], open, done) \in [Intervals -> Nat]
    BY <1>2, <2>1 DEF Shut
  <2> DEFINE X == Shut(ghost.shut[sym], open, done)
  <2> HIDE DEF X
  <2>3. ghost' = [ghost EXCEPT !.handled = [ghost.handled EXCEPT ![sym] = @ + 1],
                               !.shut = [ghost.shut EXCEPT ![sym] = X]]
    BY <1>3 DEF X
  <2>4. /\ [ghost.handled EXCEPT ![sym] = @ + 1] \in [Symbols -> Nat]
        /\ [ghost.shut EXCEPT ![sym] = X] \in [Symbols -> [Intervals -> Nat]]
    BY <1>1, <2>1, <2>2 DEF GhostOK, Histories, X
  <2> QED
    BY <2>3, <2>4 DEF GhostOK, Histories, X
<1>13. Balanced'
  <2> SUFFICES ASSUME NEW s \in Symbols, NEW i \in Intervals
               PROVE  ghost'.handled[s] = ghost'.shut[s][i] + bars'[s][i].n
    BY DEF Balanced
  <2>0. ghost.handled[s] = ghost.shut[s][i] + bars[s][i].n
    BY DEF Balanced
  <2>1. CASE s # sym
    <3>1. /\ ghost'.handled[s] = ghost.handled[s] /\ ghost'.shut[s] = ghost.shut[s]
          /\ bars'[s] = bars[s]
      BY <1>3, <1>12, <2>1 DEF GhostOK, Histories, BarsOK
    <3> QED
      BY <2>0, <3>1
  <2>2. CASE s = sym
    <3>1. /\ ghost'.handled[s] = ghost.handled[s] + 1
          /\ ghost'.shut[s][i] = ghost.shut[s][i] + (IF i \in done THEN open[i].n ELSE 0)
          /\ bars'[s][i] = N[i]
      BY <1>1, <1>3, <1>12, <2>2 DEF GhostOK, Histories, BarsOK, Shut
    <3>2. ghost.shut[s][i] \in Nat /\ ghost.handled[s] \in Nat /\ open[i].n \in Nat
      BY <1>2 DEF GhostOK, Histories
    <3>3. open[i] = NoBar => open[i].n = 0 /\ i \notin done
      BY NoBarIsNone DEF done, Over
    <3> QED
      BY <1>8, <2>0, <2>2, <3>1, <3>2, <3>3
  <2> QED
    BY <2>1, <2>2
<1>14. side' \in [Symbols -> {"none", "above", "below", "at"}]
  BY <1>1, <1>3, <1>10
<1> QED
  BY <1>7, <1>11, <1>12, <1>13, <1>14 DEF GhostOK, Histories

\* flush_all; seen is the history with what a refresh has noted in it.
LEMMA FlushStep ==
  ASSUME BarsOK, GhostOK, Balanced, NEW rest \in Seq(Events),
         NEW seen \in Histories,
         seen.handled = ghost.handled, seen.shut = ghost.shut,
         FlushAll(rest, seen)
  PROVE  /\ MoreQuiet(bus', rest) /\ BarsOK' /\ GhostOK' /\ Balanced' /\ side' = side
         /\ ghost'.raws = seen.raws /\ ghost'.switch = seen.switch /\ ghost'.fired = seen.fired
<1>1. /\ bars' = NoBars /\ side' = side
      /\ hist' = [s \in Symbols |->
                   IF s \in Opened THEN Learn(hist[s], bars[s], Intervals) ELSE hist[s]]
      /\ ghost' = [seen EXCEPT !.shut = [s \in Symbols |-> Shut(@[s], bars[s], Intervals)]]
  BY DEF FlushAll, EmitOpened
<1>2. MoreQuiet(bus', rest)
  <2>1. PICK order \in SetToSeqs(Opened) :
          bus' = rest \o [k \in 1 .. 3 * Len(order) |->
                   LET s == order[((k - 1) \div 3) + 1]  i == InOrder[((k - 1) % 3) + 1]
                   IN  Emit(hist[s], s, i, bars[s][i])]
    BY DEF FlushAll, EmitOpened
  <2>2. /\ Len(order) \in Nat /\ \A j \in 1 .. Len(order) : order[j] \in Opened
    <3> DEFINE n == Cardinality(Opened)
    <3>1. Opened \in SUBSET Symbols
      BY DEF Opened
    <3>2. IsFiniteSet(Opened)
      BY <3>1, Constants, FS_Subset
    <3>3. n \in Nat
      BY <3>2, FS_CardinalityType
    <3>4. order \in [1 .. n -> Opened]
      BY DEF SetToSeqs
    <3> QED
      BY <3>3, <3>4, FunctionSeq
  <2> DEFINE sym(k) == order[((k - 1) \div 3) + 1]
             int(k) == InOrder[((k - 1) % 3) + 1]
             E(k)   == Emit(hist[sym(k)], sym(k), int(k), bars[sym(k)][int(k)])
             q      == [k \in 1 .. 3 * Len(order) |-> E(k)]
  <2>3. ASSUME NEW k \in 1 .. 3 * Len(order)
        PROVE  E(k) \in Events /\ E(k).type # "TICK" /\ Plausible(E(k))
    <3>1. sym(k) \in Opened
      <4>1. ((k - 1) \div 3) + 1 \in 1 .. Len(order)
        BY <2>2
      <4> QED
        BY <2>2, <4>1
    <3>2. int(k) \in Intervals
      <4>1. ((k - 1) % 3) + 1 \in {1, 2, 3}
        BY <2>2
      <4> QED
        BY <4>1, Constants DEF InOrder
    <3>3. sym(k) \in Symbols
      BY <3>1 DEF Opened
    <3> HIDE DEF sym, int
    <3>4. /\ hist[sym(k)] \in Hist /\ Aligned(hist[sym(k)])
          /\ bars[sym(k)][int(k)] \in Bar /\ Within(bars[sym(k)][int(k)])
      BY <3>1, <3>2, <3>3, OpenBars
    <3> QED
      BY <3>2, <3>3, <3>4, EmitType
  <2> HIDE DEF E
  <2>4. q \in Seq(Events) /\ Len(q) = 3 * Len(order)
    <3>1. 3 * Len(order) \in Nat /\ q \in [1 .. 3 * Len(order) -> Events]
      BY <2>2, <2>3
    <3> HIDE DEF q
    <3> QED
      BY <3>1, FunctionSeq
  <2>5. \A k \in DOMAIN q : q[k].type # "TICK" /\ Plausible(q[k])
    BY <2>3
  <2>6. bus' = rest \o q
    BY <2>1 DEF E
  <2> HIDE DEF q
  <2> QED
    BY <2>4, <2>5, <2>6, ConcatQuiet DEF Quiet
<1>3. BarsOK'
  <2>1. bars' \in [Symbols -> [Intervals -> Bar \cup {NoBar}]] /\ \A s \in Symbols, i \in Intervals : bars'[s][i] = NoBar
    BY <1>1 DEF NoBars
  <2>2. \A s \in Symbols : s \notin Opened'
    BY <2>1, Constants DEF Opened
  <2>3. ASSUME NEW s \in Symbols PROVE hist'[s] \in Hist /\ Aligned(hist'[s])
    <3>1. hist[s] \in Hist /\ Aligned(hist[s])
      BY OpenBars
    <3>2. CASE s \in Opened
      <4>1. \A i \in Intervals : bars[s][i] \in Bar /\ Within(bars[s][i])
        BY <3>2, OpenBars
      <4>2. Learn(hist[s], bars[s], Intervals) \in Hist /\ Aligned(Learn(hist[s], bars[s], Intervals))
        BY <3>1, <4>1, LearnType
      <4>3. hist'[s] = Learn(hist[s], bars[s], Intervals)
        BY <1>1, <3>2
      <4> QED
        BY <4>2, <4>3
    <3>3. CASE s \notin Opened
      BY <1>1, <3>1, <3>3
    <3> QED
      BY <3>2, <3>3
  <2>4. hist' \in [Symbols -> Hist]
    <3>1. hist' = [s \in Symbols |-> hist'[s]]
      BY <1>1
    <3> QED
      BY <2>3, <3>1
  <2> QED
    BY <2>1, <2>2, <2>3, <2>4 DEF BarsOK
<1>4. /\ \A s \in Symbols, i \in Intervals : ghost'.shut[s][i] = ghost.shut[s][i] + bars[s][i].n
      /\ ghost'.shut \in [Symbols -> [Intervals -> Nat]] /\ ghost'.handled = ghost.handled
  <2> DEFINE X == [s \in Symbols |-> Shut(seen.shut[s], bars[s], Intervals)]
  <2>1. \A s \in Symbols, i \in Intervals : bars[s][i].n \in Nat /\ ghost.shut[s][i] \in Nat
    BY OpenBars DEF GhostOK, Histories
  <2>2. X = [s \in Symbols |-> [i \in Intervals |-> ghost.shut[s][i] + bars[s][i].n]]
    BY DEF Shut
  <2>3. ghost' = [seen EXCEPT !.shut = X]
    BY <1>1
  <2> HIDE DEF X
  <2>4. ghost'.shut = X /\ ghost'.handled = ghost.handled
    BY <2>3
  <2> QED
    BY <2>1, <2>2, <2>4
<1>5. GhostOK' /\ ghost'.raws = seen.raws /\ ghost'.switch = seen.switch /\ ghost'.fired = seen.fired
  <2> DEFINE X == [s \in Symbols |-> Shut(seen.shut[s], bars[s], Intervals)]
  <2>1. ghost' = [seen EXCEPT !.shut = X]
    BY <1>1
  <2> HIDE DEF X
  <2> QED
    BY <1>4, <2>1 DEF GhostOK, Histories
<1>6. Balanced'
  <2>1. \A s \in Symbols, i \in Intervals : bars'[s][i].n = 0
    BY <1>1, NoBarIsNone DEF NoBars
  <2>2. \A s \in Symbols, i \in Intervals : bars[s][i].n \in Nat /\ ghost.shut[s][i] \in Nat
    BY OpenBars DEF GhostOK, Histories
  <2> QED
    BY <1>4, <2>1, <2>2 DEF Balanced
<1> QED
  BY <1>1, <1>2, <1>3, <1>5, <1>6

-----------------------------------------------------------------------------
(* The regime.                                                              *)

\* What a refresh finds is a label.
LEMMA RefreshLabels ==
  ASSUME NEW returns, NEW five, NEW day, NEW vix, NEW fii
  PROVE  /\ RawRegime(returns, five, day, vix) \in Labels
         /\ Nudge(RawRegime(returns, five, day, vix), fii) \in Labels
         /\ FromPrices(five, vix) \in Labels
<1>1. \A r : Classify(r, vix) \in Buckets
  BY DEF Classify, Buckets
<1>2. \A c : FromPrices(c, vix) \in Buckets
  BY DEF FromPrices, Buckets
<1>3. Buckets \subseteq Labels
  BY DEF Labels
<1>4. RawRegime(returns, five, day, vix) \in Buckets
  BY <1>1, <1>2 DEF RawRegime
<1>5. \A r \in Labels : Nudge(r, fii) \in Labels
  BY DEF Nudge, NormalRegime, Labels, Buckets
<1> QED
  BY <1>2, <1>3, <1>4, <1>5

\* The evidence for a change, as in RegimeNeedsRepeats.
Repeated(raws, switch) ==
  \/ switch = "none" \/ \E j \in DOMAIN raws : raws[j] = "adopted"
  \/ Len(raws) = PersistBars /\ \A j \in DOMAIN raws : raws[j] = switch

\* One label more, x, where at most PersistBars are kept: where the older ones
\* are then.
LEMMA PushLabel ==
  ASSUME NEW old \in Seq(Labels \cup {"adopted"}), Len(old) <= PersistBars,
         NEW x \in Labels \cup {"adopted"}, NEW new, new = Push(PersistBars, old, x)
  PROVE  /\ new \in Seq(Labels \cup {"adopted"}) /\ Len(old) \in Nat
         /\ Len(new) \in Nat \ {0} /\ new[Len(new)] = x
         /\ Len(new) = IF Len(old) = PersistBars THEN PersistBars ELSE Len(old) + 1
         /\ \A i \in 1 .. Len(new) - 1 : new[i] = old[i + (Len(old) + 1 - Len(new))]
<1>1. new \in Seq(Labels \cup {"adopted"}) /\ Extends(new, PersistBars, old, x)
  BY PushFacts, Constants
<1>2. Len(old) \in Nat /\ PersistBars \in Nat \ {0}
  BY LenProperties, Constants
<1>3. /\ Len(new) \in Nat \ {0} /\ new[Len(new)] = x
      /\ Len(new) = IF Len(old) + 1 > PersistBars THEN PersistBars ELSE Len(old) + 1
      /\ \A i \in 1 .. Len(new) - 1 : new[i] = old[i + Len(old) + 1 - Len(new)]
  BY <1>1 DEF Extends
<1>4. ASSUME NEW i \in 1 .. Len(new) - 1
      PROVE  new[i] = old[i + (Len(old) + 1 - Len(new))]
  <2>1. i + (Len(old) + 1 - Len(new)) = i + Len(old) + 1 - Len(new)
    BY <1>2, <1>3
  <2> QED
    BY <1>3, <2>1
<1>5. Len(new) = IF Len(old) = PersistBars THEN PersistBars ELSE Len(old) + 1
  BY <1>2, <1>3
<1> QED
  BY <1>1, <1>2, <1>3, <1>4, <1>5

\* A label that is the pending one again adds to what backs it, and is a
\* change only when all the last labels, or one that took over, are behind it.
LEMMA SeenAgain ==
  ASSUME NEW old \in Seq(Labels \cup {"adopted"}), Len(old) <= PersistBars,
         NEW x \in Labels, NEW count \in 0 .. PersistBars - 1, Backed(old, x, count),
         NEW new, new = Push(PersistBars, old, x)
  PROVE  /\ count + 1 < PersistBars => Backed(new, x, count + 1)
         /\ count + 1 >= PersistBars => Repeated(new, x)
<1> DEFINE n == Len(old)  m == Len(new)  d == n + 1 - m
<1>0. /\ new \in Seq(Labels \cup {"adopted"}) /\ n \in Nat /\ n <= PersistBars
      /\ m \in Nat \ {0} /\ new[m] = x
      /\ m = IF n = PersistBars THEN PersistBars ELSE n + 1
      /\ \A i \in 1 .. m - 1 : new[i] = old[i + d]
  BY PushLabel
<1>1. PersistBars \in Nat \ {0} /\ DOMAIN new = 1 .. m /\ count \in Nat /\ count < PersistBars
  BY <1>0, SeqFacts, Constants
<1>2. PICK j \in 0 .. n :
        /\ \A k \in j + 1 .. n : old[k] = x
        /\ n - j = count \/ (n - j < count /\ j # 0 /\ old[j] = "adopted")
  BY DEF Backed
<1> HIDE DEF n, m, d
<1>3. /\ d \in {0, 1} /\ d = n + 1 - m /\ (d = 1 => n = PersistBars)
      /\ (n = PersistBars => m = PersistBars) /\ (n # PersistBars => m = n + 1)
  BY <1>0, <1>1 DEF d
<1>4. j \in Nat /\ j <= n /\ n - j <= count
  BY <1>0, <1>1, <1>2
<1>5. \A k \in 1 .. m : j < k + d => new[k] = x
  <2> SUFFICES ASSUME NEW k \in 1 .. m, j < k + d PROVE new[k] = x
    OBVIOUS
  <2>1. CASE k = m
    BY <1>0, <2>1
  <2>2. CASE k # m
    <3>1. k \in 1 .. m - 1 /\ k + d \in j + 1 .. n
      BY <1>0, <1>3, <1>4, <2>2
    <3> QED
      BY <1>0, <1>2, <3>1
  <2> QED
    BY <2>1, <2>2
<1>6. ASSUME j # 0, old[j] = "adopted", n - j < count
      PROVE  j - d \in 1 .. m - 1 /\ new[j - d] = "adopted"
  <2>1. d = 1 => j >= 2
    BY <1>0, <1>1, <1>3, <1>4, <1>6
  <2>2. j - d \in 1 .. m - 1 /\ (j - d) + d = j
    BY <1>0, <1>3, <1>4, <1>6, <2>1
  <2> QED
    BY <1>0, <1>6, <2>2
<1>7. ASSUME count + 1 < PersistBars PROVE Backed(new, x, count + 1)
  <2>1. j - d \in 0 .. m
    BY <1>0, <1>1, <1>3, <1>4, <1>7
  <2>2. \A k \in (j - d) + 1 .. m : new[k] = x
    <3> SUFFICES ASSUME NEW k \in (j - d) + 1 .. m PROVE new[k] = x
      OBVIOUS
    <3>1. k \in 1 .. m /\ j < k + d
      BY <1>0, <1>3, <1>4, <2>1
    <3> QED
      BY <1>5, <3>1
  <2>3. CASE n - j = count
    <3>1. m - (j - d) = count + 1
      BY <1>0, <1>3, <1>4, <2>3
    <3> QED
      BY <2>1, <2>2, <3>1 DEF Backed, m
  <2>4. CASE n - j < count /\ j # 0 /\ old[j] = "adopted"
    <3>1. m - (j - d) < count + 1
      BY <1>0, <1>1, <1>3, <1>4, <2>4
    <3>2. j - d # 0 /\ new[j - d] = "adopted"
      BY <1>0, <1>6, <2>4
    <3> QED
      BY <2>1, <2>2, <3>1, <3>2 DEF Backed, m
  <2> QED
    BY <1>2, <2>3, <2>4
<1>8. ASSUME count + 1 >= PersistBars PROVE Repeated(new, x)
  <2>1. CASE n - j = count
    <3>1. m = PersistBars /\ j = d
      BY <1>0, <1>1, <1>3, <1>4, <1>8, <2>1
    <3>2. \A k \in 1 .. m : j < k + d
      BY <1>0, <1>3, <3>1
    <3> QED
      BY <1>1, <1>5, <3>1, <3>2 DEF Repeated, m
  <2>2. CASE n - j < count /\ j # 0 /\ old[j] = "adopted"
    <3>1. j - d \in DOMAIN new
      BY <1>0, <1>1, <1>6, <2>2
    <3> QED
      BY <1>6, <2>2, <3>1 DEF Repeated
  <2> QED
    BY <1>2, <2>1, <2>2
<1> QED
  BY <1>7, <1>8

\* A refresh: the labels stay labels and what is pending stays backed, and a
\* change has its evidence.
LEMMA RefreshStep ==
  ASSUME RegimeOK, GhostOK, RepeatsInv, NEW returns, NEW fii, NEW tilt \in BOOLEAN,
         NEW r, r = Refresh(returns, fii, tilt)
  PROVE  /\ r.st.regime \in Labels /\ r.st.pending \in Labels \cup {"none"}
         /\ r.st.count \in 0 .. PersistBars - 1
         /\ r.raws \in Seq(Labels \cup {"adopted"}) /\ Len(r.raws) <= PersistBars
         /\ r.switch \in Labels \cup {"none"}
         /\ Repeated(r.raws, r.switch) /\ Backed(r.raws, r.st.pending, r.st.count)
<1> DEFINE five  == Closes("BAR_5M")
           plain == RawRegime(returns, five, Closes("BAR_1D"), 0)
           raw   == IF tilt THEN Nudge(plain, fii) ELSE plain
           shock == Shock(returns, five)
           st    == [regime |-> market.regime, pending |-> market.pending, count |-> market.count]
           new   == Persist(st, raw, shock)
           adopted == market.regime = "NEUTRAL"
           x     == IF adopted THEN "adopted" ELSE raw
           raws  == Push(PersistBars, ghost.raws, x)
           count == IF market.pending = raw THEN market.count + 1 ELSE 1
<1>1. raw \in Labels
  BY RefreshLabels
<1>2. /\ market.regime \in Labels /\ market.pending \in Labels \cup {"none"}
      /\ market.count \in 0 .. PersistBars - 1 /\ PersistBars \in Nat \ {0}
  BY Constants DEF RegimeOK
<1>3. /\ ghost.raws \in Seq(Labels \cup {"adopted"}) /\ Len(ghost.raws) <= PersistBars
      /\ Backed(ghost.raws, market.pending, market.count)
  BY DEF GhostOK, Histories, RepeatsInv
<1>4. r = [st |-> new, raws |-> raws,
           switch |-> IF adopted \/ shock \/ new.regime = market.regime THEN "none" ELSE new.regime]
  BY DEF Refresh
<1>5. new = IF adopted THEN [st EXCEPT !.regime = raw]
            ELSE IF raw = market.regime THEN [st EXCEPT !.pending = "none", !.count = 0]
            ELSE IF count >= (IF shock THEN 1 ELSE PersistBars)
                 THEN [regime |-> raw, pending |-> "none", count |-> 0]
            ELSE [st EXCEPT !.pending = raw, !.count = count]
  BY DEF Persist
<1>6. count \in 1 .. PersistBars
  BY <1>2
<1> HIDE DEF raw, shock, new, raws
<1>7. /\ raws \in Seq(Labels \cup {"adopted"}) /\ Len(ghost.raws) \in Nat
      /\ Len(raws) \in Nat \ {0} /\ raws[Len(raws)] = x
      /\ Len(raws) = IF Len(ghost.raws) = PersistBars THEN PersistBars ELSE Len(ghost.raws) + 1
  BY <1>1, <1>3, PushLabel DEF raws
<1>8. Len(raws) <= PersistBars /\ DOMAIN raws = 1 .. Len(raws)
  BY <1>2, <1>3, <1>7, SeqFacts
<1>9. \A p : Backed(raws, p, 0)
  <2>1. Len(raws) \in 0 .. Len(raws) /\ Len(raws) - Len(raws) = 0
    BY <1>7
  <2>2. \A p : \A k \in Len(raws) + 1 .. Len(raws) : raws[k] = p
    BY <1>7
  <2> QED
    BY <2>1, <2>2 DEF Backed
<1>10. CASE adopted
  <2>1. new.regime = raw /\ new.pending = market.pending /\ new.count = market.count
    BY <1>5, <1>10
  <2>2. Backed(raws, market.pending, market.count)
    <3>1. Len(raws) \in 0 .. Len(raws) /\ Len(raws) - Len(raws) = 0 /\ Len(raws) # 0
      BY <1>7
    <3>2. \A k \in Len(raws) + 1 .. Len(raws) : raws[k] = market.pending
      BY <1>7
    <3>3. 0 = market.count \/ 0 < market.count
      BY <1>2
    <3> QED
      BY <1>7, <1>10, <3>1, <3>2, <3>3 DEF Backed
  <2>3. r.switch = "none" /\ Repeated(r.raws, r.switch)
    BY <1>4, <1>10 DEF Repeated
  <2> QED
    BY <1>1, <1>2, <1>4, <1>7, <1>8, <2>1, <2>2, <2>3
<1>11. CASE ~ adopted /\ raw = market.regime
  <2>1. new.regime = market.regime /\ new.pending = "none" /\ new.count = 0
    BY <1>5, <1>11
  <2>2. r.switch = "none" /\ Repeated(r.raws, r.switch)
    BY <1>4, <2>1 DEF Repeated
  <2> QED
    BY <1>2, <1>4, <1>7, <1>8, <1>9, <2>1, <2>2
<1>12. CASE ~ adopted /\ raw # market.regime /\ count >= (IF shock THEN 1 ELSE PersistBars)
  <2>1. new.regime = raw /\ new.pending = "none" /\ new.count = 0
    BY <1>5, <1>12
  <2>2. CASE shock
    <3>1. r.switch = "none" /\ Repeated(r.raws, r.switch)
      BY <1>4, <2>2 DEF Repeated
    <3> QED
      BY <1>1, <1>2, <1>4, <1>7, <1>8, <1>9, <2>1, <3>1
  <2>3. CASE ~ shock
    <3>1. r.switch = raw
      BY <1>4, <1>12, <2>1, <2>3
    <3>2. Repeated(raws, raw)
      <4>1. CASE market.pending = raw
        <5>1. market.count + 1 >= PersistBars /\ raws = Push(PersistBars, ghost.raws, raw)
          BY <1>12, <2>3, <4>1 DEF raws
        <5> QED
          BY <1>1, <1>2, <1>3, <4>1, <5>1, SeenAgain
      <4>2. CASE market.pending # raw
        <5>1. PersistBars = 1
          BY <1>2, <1>12, <2>3, <4>2
        <5>2. Len(raws) = 1 /\ raws[1] = raw
          BY <1>7, <1>8, <1>12, <5>1
        <5> QED
          BY <1>8, <5>1, <5>2 DEF Repeated
      <4> QED
        BY <4>1, <4>2
    <3> QED
      BY <1>1, <1>2, <1>4, <1>7, <1>8, <1>9, <2>1, <3>1, <3>2
  <2> QED
    BY <2>2, <2>3
<1>13. CASE ~ adopted /\ raw # market.regime /\ ~ (count >= (IF shock THEN 1 ELSE PersistBars))
  <2>1. new.regime = market.regime /\ new.pending = raw /\ new.count = count
    BY <1>5, <1>13
  <2>2. count \in 0 .. PersistBars - 1
    BY <1>2, <1>6, <1>13
  <2>3. r.switch = "none" /\ Repeated(r.raws, r.switch)
    BY <1>4, <2>1 DEF Repeated
  <2>4. Backed(raws, raw, count)
    <3>1. CASE market.pending = raw
      <4>1. market.count + 1 < PersistBars /\ raws = Push(PersistBars, ghost.raws, raw) /\ count = market.count + 1
        BY <1>2, <1>13, <2>2, <3>1 DEF raws
      <4>2. Backed(ghost.raws, raw, market.count)
        BY <1>3, <3>1
      <4> QED
        BY <1>1, <1>2, <1>3, <4>1, <4>2, SeenAgain
    <3>2. CASE market.pending # raw
      <4> DEFINE j == Len(raws) - 1
      <4>1. j \in 0 .. Len(raws) /\ Len(raws) - j = 1 /\ count = 1
        BY <1>7, <3>2
      <4>2. \A k \in j + 1 .. Len(raws) : raws[k] = raw
        BY <1>7, <1>13
      <4> HIDE DEF j
      <4> QED
        BY <4>1, <4>2 DEF Backed
    <3> QED
      BY <3>1, <3>2
  <2> QED
    BY <1>1, <1>2, <1>4, <1>7, <1>8, <2>1, <2>2, <2>3, <2>4
<1> QED
  BY <1>10, <1>11, <1>12, <1>13

-----------------------------------------------------------------------------
(* The order of ticks.                                                      *)

\* A tick that is handled goes to the tasks; any may be missing there.
LEMMA LinedHandled ==
  ASSUME NEW log, NEW buf, NEW T, NEW B, NEW top, Lined(log, buf, T, B, top),
         NEW B2 \in SUBSET B, NEW T2,
         T2 \subseteq T \/ \E n \in B : T2 = T \cup {n} /\ \A b \in B2 : n < b
  PROVE  Lined(log, buf, T2, B2, top)
BY DEF Lined, Before

\* A task that is taken: what of it goes to the buffer.
LEMMA LinedTaken ==
  ASSUME NEW log, NEW buf \in Seq(Nat), NEW T \in SUBSET Nat, NEW B, NEW top,
         Lined(log, buf, T, B, top),
         NEW n \in T, NEW T2 \in SUBSET T, \A t \in T2 : n < t
  PROVE  Lined(log, Append(buf, n), T2, B, top)
<1>1. /\ Range(Append(buf, n)) = Range(buf) \cup {n}
      /\ Rise(buf) /\ (\A b \in Range(buf) : b < n) => Rise(Append(buf, n))
  BY AppendNumber
<1>2. Rise(Append(buf, n))
  BY <1>1 DEF Lined, Before
<1> QED
  BY <1>1, <1>2 DEF Lined, Before

\* A buffer that is written, or lost.
LEMMA LinedFlushed ==
  ASSUME NEW log \in Seq(Nat), NEW buf \in Seq(Nat), NEW T, NEW B, NEW top,
         Lined(log, buf, T, B, top)
  PROVE  Lined(log \o buf, << >>, T, B, top) /\ Lined(log, << >>, T, B, top)
<1>1. /\ Range(log \o buf) = Range(log) \cup Range(buf)
      /\ Rise(log) /\ Rise(buf) /\ Before(Range(log), Range(buf)) => Rise(log \o buf)
  BY ConcatNumbers
<1>2. Rise(<< >>) /\ Range(<< >>) = {}
  BY DEF Rise, Range
<1> QED
  BY <1>1, <1>2 DEF Lined, Before

\* The next tick.
LEMMA LinedNext ==
  ASSUME NEW log, NEW buf, NEW T, NEW B, NEW top \in Nat, Lined(log, buf, T, B, top),
         Range(log) \cup Range(buf) \cup T \cup B \subseteq Nat
  PROVE  Lined(log, buf, T, B \cup {top + 1}, top + 1)
<1>1. \A n \in Range(log) \cup Range(buf) \cup T \cup B : n < top + 1 /\ n <= top + 1
  BY DEF Lined
<1> QED
  BY <1>1 DEF Lined, Before

\* The bus handles its first event; what it publishes is quiet.
LEMMA HandledOrder ==
  ASSUME TypeOK, OrderInv, \A k \in DOMAIN bus : Plausible(bus[k]),
         bus # << >>, MoreQuiet(bus', Tail(bus)),
         \/ tasks' = Append(tasks, Head(bus)) \/ tasks' = tasks,
         tickLog' = tickLog, tickBuf' = tickBuf, counts' = counts
  PROVE  /\ bus' \in Seq(Events) /\ tasks' \in Seq(Events) /\ OrderInv'
         /\ \A k \in DOMAIN bus' : Plausible(bus'[k])
<1>1. bus \in Seq(Events) /\ tasks \in Seq(Events)
  BY DEF TypeOK, RecorderOK
<1> DEFINE e == Head(bus)  t == Tail(bus)  a == Append(tasks, e)
<1>2. /\ e \in Events /\ t \in Seq(Events) /\ Numbers(t) \subseteq Numbers(bus)
      /\ \A k \in DOMAIN t : k + 1 \in DOMAIN bus /\ t[k] = bus[k + 1]
  BY <1>1, TailTicks
<1>3. TicksRise(t) /\ (e.type = "TICK" => e.p.n \in Numbers(bus) /\ \A n \in Numbers(t) : e.p.n < n)
  BY <1>1, TailTicks DEF OrderInv
<1> HIDE DEF e, t
<1>4. /\ bus' \in Seq(Events) /\ Numbers(bus') = Numbers(t) /\ TicksRise(bus')
      /\ \A k \in DOMAIN bus' : Plausible(bus'[k])
  BY <1>2, <1>3 DEF MoreQuiet, t
<1>5. Lined(tickLog, tickBuf, Numbers(tasks), Numbers(bus), counts.tick) /\ TicksRise(tasks)
  BY DEF OrderInv
<1>6. CASE tasks' = tasks
  <2>1. Lined(tickLog, tickBuf, Numbers(tasks), Numbers(t), counts.tick)
    BY <1>2, <1>5, LinedHandled
  <2> QED
    BY <1>1, <1>4, <1>5, <1>6, <2>1 DEF OrderInv
<1>7. CASE tasks' = a
  <2>1. /\ a \in Seq(Events)
        /\ Numbers(a) = Numbers(tasks) \cup (IF e.type = "TICK" THEN {e.p.n} ELSE {})
    BY <1>1, <1>2, AppendTicks
  <2>2. e.type = "TICK" => \A n \in Numbers(tasks) : n < e.p.n
    BY <1>3, <1>5 DEF Lined, Before
  <2>3. TicksRise(a)
    BY <1>1, <1>2, <1>5, <2>2, AppendTicks
  <2> HIDE DEF a
  <2>4. Lined(tickLog, tickBuf, Numbers(a), Numbers(t), counts.tick)
    <3>1. CASE e.type = "TICK"
      BY <1>2, <1>3, <1>5, <2>1, <3>1, LinedHandled
    <3>2. CASE e.type # "TICK"
      <4>1. Numbers(a) = Numbers(tasks)
        BY <2>1, <3>2
      <4> QED
        BY <1>2, <1>5, <4>1, LinedHandled
    <3> QED
      BY <3>1, <3>2
  <2> QED
    BY <1>4, <1>7, <2>1, <2>3, <2>4 DEF OrderInv
<1> QED
  BY <1>6, <1>7 DEF a, e

-----------------------------------------------------------------------------
(* BarsInv, action by action.                                               *)

\* BarsInv with EveryTickInOneBar and RepeatsInv taken apart.
LEMMA InvParts ==
  BarsInv <=> /\ TypeOK /\ Balanced /\ OrderInv /\ ExtremesInv
              /\ Repeated(ghost.raws, ghost.switch) /\ Len(ghost.raws) <= PersistBars
              /\ Backed(ghost.raws, market.pending, market.count)
BY DEF BarsInv, EveryTickInOneBar, Balanced, RepeatsInv, RegimeNeedsRepeats, Repeated

\* The same in the next state.
LEMMA InvPartsNext ==
  (BarsInv <=> /\ TypeOK /\ Balanced /\ OrderInv /\ ExtremesInv
               /\ Repeated(ghost.raws, ghost.switch) /\ Len(ghost.raws) <= PersistBars
               /\ Backed(ghost.raws, market.pending, market.count))'
BY InvParts, PTL

\* A new process has nothing yet: its bars, its order and its history.
LEMMA Fresh ==
  /\ NoBars \in [Symbols -> [Intervals -> Bar \cup {NoBar}]]
  /\ \A s \in Symbols, i \in Intervals : NoBars[s][i] = NoBar
  /\ NoHist \in Hist /\ Aligned(NoHist)
  /\ NoIndex \in [returns : Seq(Int), last : Nat]
  /\ NoMarket \in [regime : Labels, pending : Labels \cup {"none"},
                   count : 0 .. PersistBars - 1, fii : Int]
  /\ NoHistory \in Histories
  /\ Repeated(NoHistory.raws, NoHistory.switch) /\ Len(NoHistory.raws) <= PersistBars
  /\ Backed(NoHistory.raws, NoMarket.pending, NoMarket.count)
<1>1. Len(<< >>) = 0 /\ \A S : << >> \in Seq(S)
  BY EmptySeq
<1>2. NoBars \in [Symbols -> [Intervals -> Bar \cup {NoBar}]]
      /\ \A s \in Symbols, i \in Intervals : NoBars[s][i] = NoBar
  BY DEF NoBars
<1>3. NoHist \in Hist /\ Aligned(NoHist)
  BY <1>1 DEF NoHist, Hist, Aligned
<1>4. NoIndex \in [returns : Seq(Int), last : Nat]
  BY <1>1 DEF NoIndex
<1>5. NoMarket \in [regime : Labels, pending : Labels \cup {"none"},
                   count : 0 .. PersistBars - 1, fii : Int]
  BY Constants DEF NoMarket, Labels
<1>6. NoHistory \in Histories
  BY <1>1 DEF NoHistory, Histories
<1>7. Repeated(NoHistory.raws, NoHistory.switch) /\ Len(NoHistory.raws) <= PersistBars
  BY <1>1, Constants DEF NoHistory, Repeated
<1>8. Backed(NoHistory.raws, NoMarket.pending, NoMarket.count)
  <2>1. NoHistory.raws = << >> /\ NoMarket.count = 0
    BY DEF NoHistory, NoMarket
  <2>2. \A p : Backed(<< >>, p, 0)
    BY <1>1 DEF Backed
  <2> QED
    BY <2>1, <2>2
<1> QED
  BY <1>2, <1>3, <1>4, <1>5, <1>6, <1>7, <1>8

\* Whatever starts with these, and has nothing in the bus, the tasks and the
\* buffers, satisfies all but the order of the log.
Started ==
  /\ bars = NoBars /\ hist = [s \in Symbols |-> NoHist] /\ side = [s \in Symbols |-> "none"]
  /\ bus = << >> /\ tasks = << >> /\ tickBuf = << >> /\ barBuf = << >> /\ looping = TRUE
  /\ index = NoIndex /\ market = NoMarket /\ ghost = NoHistory
  /\ now \in 0 .. MaxSlot /\ plan \in Plans
  /\ counts \in [tick : Nat, news : Nat, fault : Nat, closed : BOOLEAN]
  /\ tickLog \in Seq(Nat) /\ barLog \in Seq(Rows)
  /\ Rise(tickLog) /\ \A n \in Range(tickLog) : n <= counts.tick

\* What a process starts with satisfies the invariant.
LEMMA StartsFresh == Started => BarsInv
<1> SUFFICES ASSUME Started PROVE BarsInv
  OBVIOUS
<1> USE DEF Started
<1>1. \A S : << >> \in Seq(S)
  BY EmptySeq
<1>2. \A s \in Symbols : s \notin Opened
  BY Fresh, Constants DEF Opened
<1>3. BarsOK
  BY <1>2, Fresh DEF BarsOK
<1>4. RecorderOK /\ RegimeOK /\ GhostOK
  BY <1>1, Fresh DEF RecorderOK, RegimeOK, GhostOK, Histories
<1>5. TypeOK
  <2>1. bus \in Seq(Events)
    BY <1>1
  <2>2. side \in [Symbols -> {"none", "above", "below", "at"}]
    OBVIOUS
  <2> QED
    BY <1>3, <1>4, <2>1, <2>2 DEF TypeOK
<1>6. Balanced
  <2>1. \A s \in Symbols, i \in Intervals :
          ghost.handled[s] = 0 /\ ghost.shut[s][i] = 0 /\ bars[s][i].n = 0
    BY Fresh, NoBarIsNone DEF NoHistory
  <2> QED
    BY <2>1 DEF Balanced
<1>7. OrderInv
  <2>1. Numbers(<< >>) = {} /\ Range(<< >>) = {} /\ TicksRise(<< >>) /\ Rise(<< >>)
    BY DEF Numbers, Range, TicksRise, Rise
  <2> QED
    BY <2>1 DEF OrderInv, Lined, Before
<1>8. ExtremesInv
  BY DEF ExtremesInv, OwnExtremesSilence, NoHistory
<1> QED
  BY <1>5, <1>6, <1>7, <1>8, Fresh, InvParts

\* The initial states.
LEMMA InitInv == Init => BarsInv
<1> SUFFICES ASSUME Init PROVE BarsInv
  OBVIOUS
<1>1. counts \in [tick : Nat, news : Nat, fault : Nat, closed : BOOLEAN]
  BY DEF Init
<1>2. tickLog = << >> /\ barLog = << >> /\ \A S : << >> \in Seq(S)
  BY EmptySeq DEF Init
<1>3. Rise(tickLog) /\ \A n \in Range(tickLog) : n <= counts.tick
  BY <1>2 DEF Rise, Range
<1>4. now \in 0 .. MaxSlot
  BY Constants DEF Init
<1> QED
  BY <1>1, <1>2, <1>3, <1>4, StartsFresh DEF Init, Started

\* A start after another life.
LEMMA RestartInv == BarsInv /\ Restart /\ UNCHANGED plan => BarsInv'
<1> SUFFICES ASSUME BarsInv, Restart, UNCHANGED plan PROVE BarsInv'
  OBVIOUS
<1>1. /\ TypeOK /\ RecorderOK
      /\ Lined(tickLog, tickBuf, Numbers(tasks), Numbers(bus), counts.tick)
  BY InvParts DEF TypeOK, OrderInv
<1>2. /\ counts' \in [tick : Nat, news : Nat, fault : Nat, closed : BOOLEAN]
      /\ counts'.tick = counts.tick
  BY <1>1 DEF Restart, Count, TypeOK
<1>3. /\ tickLog' \in Seq(Nat) /\ barLog' \in Seq(Rows)
      /\ Rise(tickLog') /\ \A n \in Range(tickLog') : n <= counts.tick
  <2>1. /\ tickLog \in Seq(Nat) /\ tickBuf \in Seq(Nat)
        /\ barLog \in Seq(Rows)
        /\ barBuf \in Seq(Rows)
    BY <1>1 DEF RecorderOK
  <2>2. CASE UNCHANGED <<tickLog, barLog>>
    BY <1>1, <2>1, <2>2 DEF Lined
  <2>3. CASE tickLog' = tickLog \o tickBuf /\ barLog' = barLog \o barBuf
    <3>1. tickLog \o tickBuf \in Seq(Nat)
      BY <2>1, ConcatNumbers
    <3>2. Lined(tickLog \o tickBuf, << >>, Numbers(tasks), Numbers(bus), counts.tick)
      BY <1>1, <2>1, LinedFlushed
    <3>3. barLog \o barBuf \in Seq(Rows)
      BY <2>1, ConcatProperties
    <3> QED
      BY <2>3, <3>1, <3>2, <3>3 DEF Lined
  <2> QED
    BY <2>2, <2>3 DEF Restart
<1>4. Started'
  BY <1>1, <1>2, <1>3 DEF Started, Restart, Restarted, TypeOK
<1>5. (Started => BarsInv)'
  BY StartsFresh, PTL
<1> QED
  BY <1>4, <1>5

\* A step that changes nothing.
LEMMA StutterInv == BarsInv /\ UNCHANGED vars => BarsInv'
BY DEF BarsInv, EveryTickInOneBar, TypeOK, BarsOK, Opened, RecorderOK, RegimeOK, GhostOK, Histories,
       OrderInv, ExtremesInv, OwnExtremesSilence, RepeatsInv, RegimeNeedsRepeats,
       vars, recorder, builder

\* What BarsInv says, in parts, and of the event the bus has first.
LEMMA Facts ==
  ASSUME BarsInv
  PROVE  /\ TypeOK /\ BarsOK /\ RecorderOK /\ RegimeOK /\ GhostOK /\ Balanced /\ OrderInv
         /\ side \in [Symbols -> {"none", "above", "below", "at"}] /\ RepeatsInv
         /\ ghost.fired = {} /\ \A k \in DOMAIN bus : Plausible(bus[k])
         /\ bus # << >> => Head(bus) \in Events /\ Plausible(Head(bus)) /\ Tail(bus) \in Seq(Events)
<1>1. TypeOK /\ ExtremesInv /\ Balanced /\ OrderInv /\ RepeatsInv
  BY InvParts DEF BarsInv
<1>2. ghost.fired = {} /\ \A k \in DOMAIN bus : Plausible(bus[k])
  BY <1>1 DEF ExtremesInv, OwnExtremesSilence
<1>3. bus \in Seq(Events)
  BY <1>1 DEF TypeOK
<1>4. bus # << >> => Head(bus) \in Events /\ Plausible(Head(bus)) /\ Tail(bus) \in Seq(Events)
  BY <1>2, <1>3, TailTicks
<1> QED
  BY <1>1, <1>2, <1>4 DEF TypeOK

\* What the bus handles leaves the plan, the counts and the rest of the
\* recorder alone; the aggregator, the regime and the history keep their types.
LEMMA HandledInv ==
  ASSUME BarsInv, bus # << >>, MoreQuiet(bus', Tail(bus)),
         \/ tasks' = tasks
         \/ tasks' = Append(tasks, Head(bus)) /\ Head(bus).type \in Intervals \cup {"TICK"},
         UNCHANGED <<now, tickBuf, barBuf, looping, tickLog, barLog, counts, plan>>,
         BarsOK', RegimeOK', GhostOK', Balanced', ghost'.fired = {},
         side' \in [Symbols -> {"none", "above", "below", "at"}],
         Repeated(ghost'.raws, ghost'.switch), Len(ghost'.raws) <= PersistBars,
         Backed(ghost'.raws, market'.pending, market'.count)
  PROVE  BarsInv'
<1>1. /\ TypeOK /\ RecorderOK /\ OrderInv /\ \A k \in DOMAIN bus : Plausible(bus[k])
      /\ Head(bus) \in Events
  BY Facts
<1>2. /\ bus' \in Seq(Events) /\ tasks' \in Seq(Events) /\ OrderInv'
      /\ \A k \in DOMAIN bus' : Plausible(bus'[k])
  BY <1>1, HandledOrder
<1>3. \A k \in DOMAIN tasks' : tasks'[k].type \in Intervals \cup {"TICK"}
  <2>1. CASE tasks' = tasks
    BY <1>1, <2>1 DEF RecorderOK
  <2>2. CASE tasks' = Append(tasks, Head(bus)) /\ Head(bus).type \in Intervals \cup {"TICK"}
    <3>1. \A k \in DOMAIN Append(tasks, Head(bus)) :
            \/ Append(tasks, Head(bus))[k] = Head(bus)
            \/ k \in DOMAIN tasks /\ Append(tasks, Head(bus))[k] = tasks[k]
      BY <1>1, AppendTicks DEF RecorderOK
    <3> QED
      BY <1>1, <2>2, <3>1 DEF RecorderOK
  <2> QED
    BY <2>1, <2>2
<1>4. RecorderOK'
  BY <1>1, <1>2, <1>3 DEF RecorderOK
<1>5. TypeOK'
  BY <1>1, <1>2, <1>4 DEF TypeOK
<1>6. ExtremesInv'
  BY <1>2 DEF ExtremesInv, OwnExtremesSilence
<1> QED
  BY <1>2, <1>5, <1>6, InvPartsNext

\* An event that is handled and publishes nothing.
LEMMA NothingPublished ==
  ASSUME NEW q \in Seq(Events)
  PROVE  MoreQuiet(q, q)
BY DEF MoreQuiet

\* on_tick.
LEMMA HandleTickInv == BarsInv /\ HandleTick /\ UNCHANGED plan => BarsInv'
<1> SUFFICES ASSUME BarsInv, HandleTick, UNCHANGED plan PROVE BarsInv'
  OBVIOUS
<1> DEFINE e == Head(bus)  rest == Tail(bus)
<1>1. /\ bus # << >> /\ e.type = "TICK" /\ BarsOnTick(e, rest) /\ tasks' = Append(tasks, Head(bus))
      /\ UNCHANGED <<now, tickBuf, barBuf, looping, tickLog, barLog, index, market, counts>>
  BY DEF HandleTick, Handle
<1>2. /\ e \in Events /\ rest \in Seq(Events)
      /\ BarsOK /\ GhostOK /\ Balanced /\ RegimeOK /\ RepeatsInv /\ ghost.fired = {}
      /\ side \in [Symbols -> {"none", "above", "below", "at"}]
  BY <1>1, Facts
<1> HIDE DEF e, rest
<1>3. /\ MoreQuiet(bus', rest) /\ BarsOK' /\ GhostOK' /\ Balanced'
      /\ side' \in [Symbols -> {"none", "above", "below", "at"}]
      /\ ghost'.raws = ghost.raws /\ ghost'.switch = ghost.switch /\ ghost'.fired = ghost.fired
  BY <1>1, <1>2, TickStep
<1>4. RegimeOK'
  BY <1>1, <1>2 DEF RegimeOK
<1>5. /\ Repeated(ghost'.raws, ghost'.switch) /\ Len(ghost'.raws) <= PersistBars
      /\ Backed(ghost'.raws, market'.pending, market'.count)
  BY <1>1, <1>3, InvParts
<1>6. MoreQuiet(bus', Tail(bus)) /\ ghost'.fired = {} /\ Head(bus).type \in Intervals \cup {"TICK"}
  BY <1>1, <1>2, <1>3 DEF e, rest
<1> QED
  BY <1>1, <1>3, <1>4, <1>5, <1>6, HandledInv

\* The aggregator's part of the invariant when its state is left alone.
LEMMA BuilderKept ==
  ASSUME BarsOK, Balanced, UNCHANGED builder,
         ghost'.handled = ghost.handled, ghost'.shut = ghost.shut
  PROVE  BarsOK' /\ Balanced'
BY DEF BarsOK, Opened, Balanced, builder

\* The context after a refresh and what a strategy writes.
LEMMA MarkedType ==
  ASSUME NEW r, r.regime \in Labels, r.pending \in Labels \cup {"none"},
         r.count \in 0 .. PersistBars - 1, NEW written \in Labels \cup {""}, NEW fii \in Int,
         Marked(r, written, fii)
  PROVE  /\ market' \in [regime : Labels, pending : Labels \cup {"none"},
                         count : 0 .. PersistBars - 1, fii : Int]
         /\ market'.pending = r.pending /\ market'.count = r.count
BY DEF Marked, Labels, Buckets

\* A bar that carries its own extremes fires nothing.
LEMMA NoSignal ==
  ASSUME NEW e \in Events, e.type = "BAR_5M", Plausible(e)
  PROVE  Fired(e) = {}
<1>1. /\ e.p.high \in Nat /\ e.p.low \in Nat /\ e.p.close \in Nat /\ e.price \in Nat
      /\ e.p.high20 \in Nat /\ e.p.low20 \in Nat
  BY DEF Events, Rich
<1>2. /\ e.price = e.p.close /\ e.p.low <= e.p.close /\ e.p.close <= e.p.high
      /\ e.p.low20 <= e.p.low /\ e.p.high <= e.p.high20
  BY DEF Plausible, Within
<1>3. Get(e, "high20", 0) \in {0, e.p.high20} /\ Get(e, "low20", 0) \in {0, e.p.low20}
  BY DEF Get
<1>4. /\ ~ (e.price > Get(e, "high20", 0) /\ Get(e, "high20", 0) > 0)
      /\ ~ (e.price < Get(e, "low20", 0))
  BY <1>1, <1>2, <1>3
<1>5. TurtleBreakout(e) = {}
  BY <1>4 DEF TurtleBreakout, On, Pick
<1>6. ~ (e.p.low < e.p.low20) /\ ~ (e.p.high > e.p.high20)
  BY <1>1, <1>2
<1>7. LiquiditySweep(e) = {}
  BY <1>6 DEF LiquiditySweep, On, OnSymbol, Pick
<1> QED
  BY <1>5, <1>7 DEF Fired

\* append_index_return.
LEMMA IndexType ==
  ASSUME RegimeOK, NEW e \in Events, e.type \in Intervals
  PROVE  IndexAfter(e) \in [returns : Seq(Int), last : Nat]
<1>1. index.returns \in Seq(Int) /\ index.last \in Nat /\ index \in [returns : Seq(Int), last : Nat]
  BY DEF RegimeOK
<1>2. CASE e.type # "BAR_5M" \/ e.sym # Index
  BY <1>1, <1>2 DEF IndexAfter
<1>3. CASE ~ (e.type # "BAR_5M" \/ e.sym # Index)
  <2>1. e.price \in Nat
    BY <1>3 DEF Events
  <2> DEFINE x == (10000 * (e.price - index.last)) \div index.last
             new == IF index.last = 0 THEN index.returns ELSE Push(60, index.returns, x)
  <2>2. new \in Seq(Int)
    <3>1. CASE index.last = 0
      BY <1>1, <3>1
    <3>2. CASE index.last # 0
      <4>1. x \in Int /\ 60 \in Nat \ {0}
        BY <1>1, <2>1, <3>2
      <4>2. Push(60, index.returns, x) \in Seq(Int)
        BY <1>1, <4>1, PushFacts
      <4> QED
        BY <3>2, <4>2
    <3> QED
      BY <3>1, <3>2
  <2>3. IndexAfter(e) = [last |-> e.price, returns |-> new]
    BY <1>3 DEF IndexAfter
  <2> HIDE DEF new
  <2> QED
    BY <2>1, <2>2, <2>3
<1> QED
  BY <1>2, <1>3

\* A bar is handled.
LEMMA HandleBarInv == BarsInv /\ HandleBar /\ UNCHANGED plan => BarsInv'
<1> SUFFICES ASSUME BarsInv, HandleBar, UNCHANGED plan PROVE BarsInv'
  OBVIOUS
<1> DEFINE e == Head(bus)
           after == IndexAfter(e)
           r == Refresh(after.returns, market.fii, TRUE)
<1>1. /\ bus # << >> /\ e.type \in Intervals
      /\ bus' = Tail(bus) /\ tasks' = Append(tasks, Head(bus)) /\ index' = after
      /\ IF e.type = "BAR_5M"
         THEN /\ Marked(r.st, "", market.fii)
              /\ ghost' = [ghost EXCEPT !.raws = r.raws, !.switch = r.switch,
                                        !.fired = @ \cup Fired(e)]
         ELSE UNCHANGED <<market, ghost>>
      /\ UNCHANGED <<now, builder, tickBuf, barBuf, looping, tickLog, barLog, counts>>
  BY DEF HandleBar, Handle
<1>2. /\ e \in Events /\ Plausible(e) /\ Tail(bus) \in Seq(Events)
      /\ BarsOK /\ GhostOK /\ Balanced /\ RegimeOK /\ RepeatsInv /\ ghost.fired = {}
      /\ side \in [Symbols -> {"none", "above", "below", "at"}]
  BY <1>1, Facts
<1>3. after \in [returns : Seq(Int), last : Nat]
  BY <1>1, <1>2, IndexType
<1>4. /\ r.st.regime \in Labels /\ r.st.pending \in Labels \cup {"none"}
      /\ r.st.count \in 0 .. PersistBars - 1
      /\ r.raws \in Seq(Labels \cup {"adopted"}) /\ Len(r.raws) <= PersistBars
      /\ r.switch \in Labels \cup {"none"}
      /\ Repeated(r.raws, r.switch) /\ Backed(r.raws, r.st.pending, r.st.count)
  BY <1>2, RefreshStep
<1> HIDE DEF e, after, r
<1>5. /\ GhostOK' /\ RegimeOK' /\ ghost'.fired = {}
      /\ ghost'.handled = ghost.handled /\ ghost'.shut = ghost.shut
      /\ Repeated(ghost'.raws, ghost'.switch) /\ Len(ghost'.raws) <= PersistBars
      /\ Backed(ghost'.raws, market'.pending, market'.count)
  <2>1. CASE e.type = "BAR_5M"
    <3>1. Fired(e) = {}
      BY <1>2, <2>1, NoSignal
    <3>2. market.fii \in Int /\ "" \in Labels \cup {""}
      BY <1>2 DEF RegimeOK
    <3>3. /\ market' \in [regime : Labels, pending : Labels \cup {"none"},
                          count : 0 .. PersistBars - 1, fii : Int]
          /\ market'.pending = r.st.pending /\ market'.count = r.st.count
      BY <1>1, <1>4, <2>1, <3>2, MarkedType
    <3>4. /\ ghost' = [ghost EXCEPT !.raws = r.raws, !.switch = r.switch, !.fired = {}]
      BY <1>1, <1>2, <2>1, <3>1
    <3> QED
      BY <1>1, <1>2, <1>3, <1>4, <3>3, <3>4 DEF GhostOK, Histories, RegimeOK
  <2>2. CASE e.type # "BAR_5M"
    <3>1. market' = market /\ ghost' = ghost
      BY <1>1, <2>2
    <3> QED
      BY <1>1, <1>2, <1>3, <3>1, InvParts DEF GhostOK, Histories, RegimeOK
  <2> QED
    BY <2>1, <2>2
<1>6. BarsOK' /\ Balanced' /\ side' = side
  BY <1>1, <1>2, <1>5, BuilderKept DEF builder
<1>7. MoreQuiet(bus', Tail(bus)) /\ Head(bus).type \in Intervals \cup {"TICK"}
  BY <1>1, <1>2, NothingPublished DEF e
<1> QED
  BY <1>1, <1>2, <1>5, <1>6, <1>7, HandledInv

\* A poll of flows or of macro data.
LEMMA HandleNewsInv == BarsInv /\ HandleNews /\ UNCHANGED plan => BarsInv'
<1> SUFFICES ASSUME BarsInv, HandleNews, UNCHANGED plan PROVE BarsInv'
  OBVIOUS
<1> DEFINE e == Head(bus)
           r == Refresh(index.returns, e.p.fii, TRUE)
<1>1. /\ bus # << >> /\ e.type \in {"FII_DII", "MACRO"} /\ bus' = Tail(bus)
      /\ IF e.type = "FII_DII"
         THEN /\ Marked(r.st, Written(e), e.p.fii)
              /\ ghost' = [ghost EXCEPT !.raws = r.raws, !.switch = r.switch]
         ELSE Marked(Kept, Written(e), market.fii) /\ UNCHANGED ghost
      /\ UNCHANGED <<now, builder, recorder, index, counts>>
  BY DEF HandleNews, Handle
<1>2. /\ e \in Events /\ Tail(bus) \in Seq(Events)
      /\ BarsOK /\ GhostOK /\ Balanced /\ RegimeOK /\ RepeatsInv /\ ghost.fired = {}
      /\ side \in [Symbols -> {"none", "above", "below", "at"}]
  BY <1>1, Facts
<1>3. Written(e) \in Labels \cup {""}
  BY DEF Written, Labels
<1>4. /\ r.st.regime \in Labels /\ r.st.pending \in Labels \cup {"none"}
      /\ r.st.count \in 0 .. PersistBars - 1
      /\ r.raws \in Seq(Labels \cup {"adopted"}) /\ Len(r.raws) <= PersistBars
      /\ r.switch \in Labels \cup {"none"}
      /\ Repeated(r.raws, r.switch) /\ Backed(r.raws, r.st.pending, r.st.count)
  BY <1>2, RefreshStep
<1> HIDE DEF e, r
<1>5. /\ GhostOK' /\ RegimeOK' /\ ghost'.fired = {}
      /\ ghost'.handled = ghost.handled /\ ghost'.shut = ghost.shut
      /\ Repeated(ghost'.raws, ghost'.switch) /\ Len(ghost'.raws) <= PersistBars
      /\ Backed(ghost'.raws, market'.pending, market'.count)
  <2>1. CASE e.type = "FII_DII"
    <3>1. e.p.fii \in Int
      BY <1>2, <2>1, Constants DEF Events
    <3>2. /\ market' \in [regime : Labels, pending : Labels \cup {"none"},
                          count : 0 .. PersistBars - 1, fii : Int]
          /\ market'.pending = r.st.pending /\ market'.count = r.st.count
      BY <1>1, <1>3, <1>4, <2>1, <3>1, MarkedType
    <3>3. ghost' = [ghost EXCEPT !.raws = r.raws, !.switch = r.switch]
      BY <1>1, <2>1
    <3> QED
      BY <1>1, <1>2, <1>4, <3>2, <3>3 DEF GhostOK, Histories, RegimeOK
  <2>2. CASE e.type # "FII_DII"
    <3>1. Marked(Kept, Written(e), market.fii) /\ ghost' = ghost
      BY <1>1, <2>2
    <3>2. /\ Kept.regime = market.regime /\ Kept.pending = market.pending
          /\ Kept.count = market.count
      BY DEF Kept
    <3>3. /\ market.regime \in Labels /\ market.pending \in Labels \cup {"none"}
          /\ market.count \in 0 .. PersistBars - 1 /\ market.fii \in Int
      BY <1>2 DEF RegimeOK
    <3>4. /\ market' \in [regime : Labels, pending : Labels \cup {"none"},
                          count : 0 .. PersistBars - 1, fii : Int]
          /\ market'.pending = market.pending /\ market'.count = market.count
      BY <1>3, <3>1, <3>2, <3>3, MarkedType
    <3> QED
      BY <1>1, <1>2, <3>1, <3>4, InvParts DEF GhostOK, Histories, RegimeOK
  <2> QED
    BY <2>1, <2>2
<1>6. BarsOK' /\ Balanced' /\ side' = side
  BY <1>1, <1>2, <1>5, BuilderKept DEF builder
<1>7. MoreQuiet(bus', Tail(bus))
  BY <1>1, <1>2, NothingPublished
<1> QED
  BY <1>1, <1>2, <1>5, <1>6, <1>7, HandledInv DEF recorder

\* A change of the session; the close flushes the bars.
LEMMA HandleSessionInv == BarsInv /\ HandleSession /\ UNCHANGED plan => BarsInv'
<1> SUFFICES ASSUME BarsInv, HandleSession, UNCHANGED plan PROVE BarsInv'
  OBVIOUS
<1> DEFINE e == Head(bus)
           r == Refresh(index.returns, market.fii, FALSE)
           seen == [ghost EXCEPT !.raws = r.raws, !.switch = r.switch]
<1>1. /\ bus # << >> /\ Marked(r.st, "", market.fii)
      /\ IF e.type = "CLOSE" THEN FlushAll(Tail(bus), seen)
         ELSE bus' = Tail(bus) /\ ghost' = seen /\ UNCHANGED builder
      /\ UNCHANGED <<now, recorder, index, counts>>
  BY DEF HandleSession, Handle
<1>2. /\ Tail(bus) \in Seq(Events)
      /\ BarsOK /\ GhostOK /\ Balanced /\ RegimeOK /\ RepeatsInv /\ ghost.fired = {}
      /\ side \in [Symbols -> {"none", "above", "below", "at"}]
  BY <1>1, Facts
<1>3. /\ r.st.regime \in Labels /\ r.st.pending \in Labels \cup {"none"}
      /\ r.st.count \in 0 .. PersistBars - 1
      /\ r.raws \in Seq(Labels \cup {"adopted"}) /\ Len(r.raws) <= PersistBars
      /\ r.switch \in Labels \cup {"none"}
      /\ Repeated(r.raws, r.switch) /\ Backed(r.raws, r.st.pending, r.st.count)
  BY <1>2, RefreshStep
<1> HIDE DEF e, r
<1>4. market.fii \in Int /\ "" \in Labels \cup {""}
  BY <1>2 DEF RegimeOK
<1>5. /\ market' \in [regime : Labels, pending : Labels \cup {"none"},
                      count : 0 .. PersistBars - 1, fii : Int]
      /\ market'.pending = r.st.pending /\ market'.count = r.st.count
  BY <1>1, <1>3, <1>4, MarkedType
<1>6. /\ seen \in Histories
      /\ seen.handled = ghost.handled /\ seen.shut = ghost.shut /\ seen.fired = {}
      /\ seen.raws = r.raws /\ seen.switch = r.switch
  BY <1>2, <1>3 DEF GhostOK, Histories
<1> HIDE DEF seen
<1>7. /\ MoreQuiet(bus', Tail(bus)) /\ BarsOK' /\ GhostOK' /\ Balanced' /\ side' = side
      /\ ghost'.raws = seen.raws /\ ghost'.switch = seen.switch /\ ghost'.fired = seen.fired
  <2>1. CASE e.type = "CLOSE"
    <3>1. FlushAll(Tail(bus), seen)
      BY <1>1, <2>1
    <3> QED
      BY <1>2, <1>6, <3>1, FlushStep
  <2>2. CASE e.type # "CLOSE"
    <3>1. bus' = Tail(bus) /\ ghost' = seen /\ UNCHANGED builder
      BY <1>1, <2>2
    <3>2. MoreQuiet(bus', Tail(bus))
      BY <1>2, <3>1, NothingPublished
    <3>3. BarsOK' /\ Balanced'
      BY <1>2, <1>6, <3>1, BuilderKept
    <3> QED
      BY <1>6, <3>1, <3>2, <3>3 DEF GhostOK, Histories, builder
  <2> QED
    BY <2>1, <2>2
<1>8. RegimeOK'
  BY <1>1, <1>2, <1>5 DEF RegimeOK
<1>9. /\ Repeated(ghost'.raws, ghost'.switch) /\ Len(ghost'.raws) <= PersistBars
      /\ Backed(ghost'.raws, market'.pending, market'.count) /\ ghost'.fired = {}
  BY <1>3, <1>5, <1>6, <1>7
<1> QED
  BY <1>1, <1>2, <1>7, <1>8, <1>9, HandledInv DEF recorder

\* A crossing of the VWAP: no strategy of this model listens.
LEMMA HandleCrossInv == BarsInv /\ HandleCross /\ UNCHANGED plan => BarsInv'
<1> SUFFICES ASSUME BarsInv, HandleCross, UNCHANGED plan PROVE BarsInv'
  OBVIOUS
<1>1. /\ bus # << >> /\ bus' = Tail(bus)
      /\ UNCHANGED <<now, builder, recorder, index, market, counts, ghost>>
  BY DEF HandleCross, Handle
<1>2. /\ Tail(bus) \in Seq(Events)
      /\ BarsOK /\ GhostOK /\ Balanced /\ RegimeOK /\ ghost.fired = {}
      /\ side \in [Symbols -> {"none", "above", "below", "at"}]
  BY <1>1, Facts
<1>3. MoreQuiet(bus', Tail(bus)) /\ BarsOK' /\ Balanced' /\ RegimeOK' /\ GhostOK'
  BY <1>1, <1>2, NothingPublished, BuilderKept DEF RegimeOK, GhostOK, Histories
<1>4. /\ Repeated(ghost'.raws, ghost'.switch) /\ Len(ghost'.raws) <= PersistBars
      /\ Backed(ghost'.raws, market'.pending, market'.count)
  BY <1>1, InvParts
<1> QED
  BY <1>1, <1>2, <1>3, <1>4, HandledInv DEF builder, recorder

-----------------------------------------------------------------------------
(* The recorder's steps.                                                    *)

\* What a step of the recorder may do with the buffers it has: keep them,
\* write them, or fail at one of the statements.
Stored(ticks, rows) ==
  \/ Flush(ticks, rows) \/ FlushFails(ticks, rows)
  \/ tickBuf' = ticks /\ barBuf' = rows /\ UNCHANGED <<tickLog, barLog, counts>>

\* Buffers and logs keep their types over a write, whole or cut short.
LEMMA StoredType ==
  ASSUME NEW ticks \in Seq(Nat), NEW rows \in Seq(Rows), Stored(ticks, rows),
         tickLog \in Seq(Nat), barLog \in Seq(Rows),
         counts \in [tick : Nat, news : Nat, fault : Nat, closed : BOOLEAN],
         NEW T, NEW B, Lined(tickLog, ticks, T, B, counts.tick)
  PROVE  /\ tickBuf' \in Seq(Nat) /\ tickLog' \in Seq(Nat)
         /\ barBuf' \in Seq(Rows) /\ barLog' \in Seq(Rows)
         /\ counts' \in [tick : Nat, news : Nat, fault : Nat, closed : BOOLEAN]
         /\ counts'.tick = counts.tick
         /\ Lined(tickLog', tickBuf', T, B, counts'.tick)
<1>1. /\ tickLog \o ticks \in Seq(Nat) /\ barLog \o rows \in Seq(Rows)
      /\ \A S : << >> \in Seq(S)
  BY ConcatNumbers, ConcatProperties, EmptySeq
<1>2. Lined(tickLog \o ticks, << >>, T, B, counts.tick) /\ Lined(tickLog, << >>, T, B, counts.tick)
  BY LinedFlushed
<1>3. CASE Flush(ticks, rows)
  BY <1>1, <1>2, <1>3 DEF Flush
<1>4. CASE FlushFails(ticks, rows)
  <2>1. /\ counts' \in [tick : Nat, news : Nat, fault : Nat, closed : BOOLEAN]
        /\ counts'.tick = counts.tick
    <3>1. Count("fault")
      BY <1>4 DEF FlushFails
    <3>2. counts' = [counts EXCEPT !.fault = @ + 1]
      BY <3>1 DEF Count
    <3>3. counts.fault + 1 \in Nat
      OBVIOUS
    <3> QED
      BY <3>2, <3>3
  <2>2. /\ tickBuf' = ticks \/ tickBuf' = << >>
        /\ barBuf' = rows \/ barBuf' = << >>
        /\ UNCHANGED <<tickLog, barLog>>
    BY <1>4 DEF FlushFails
  <2> QED
    BY <1>1, <1>2, <2>1, <2>2
<1>5. CASE tickBuf' = ticks /\ barBuf' = rows /\ UNCHANGED <<tickLog, barLog, counts>>
  BY <1>5
<1> QED
  BY <1>3, <1>4, <1>5 DEF Stored

\* Only the recorder has changed.
LEMMA RecordedInv ==
  ASSUME BarsInv, UNCHANGED <<now, bus, builder, index, market, ghost, plan>>,
         NEW ticks \in Seq(Nat), NEW rows \in Seq(Rows), Stored(ticks, rows),
         looping' \in BOOLEAN, tasks' \in Seq(Events), TicksRise(tasks'),
         \A k \in DOMAIN tasks' : tasks'[k].type \in Intervals \cup {"TICK"},
         Lined(tickLog, ticks, Numbers(tasks'), Numbers(bus), counts.tick)
  PROVE  BarsInv'
<1>1. /\ TypeOK /\ BarsOK /\ RecorderOK /\ RegimeOK /\ GhostOK /\ Balanced /\ OrderInv
      /\ ghost.fired = {} /\ \A k \in DOMAIN bus : Plausible(bus[k])
  BY Facts
<1>2. /\ tickLog \in Seq(Nat) /\ barLog \in Seq(Rows)
      /\ counts \in [tick : Nat, news : Nat, fault : Nat, closed : BOOLEAN]
  BY <1>1 DEF RecorderOK, TypeOK
<1>3. /\ tickBuf' \in Seq(Nat) /\ tickLog' \in Seq(Nat)
      /\ barBuf' \in Seq(Rows) /\ barLog' \in Seq(Rows)
      /\ counts' \in [tick : Nat, news : Nat, fault : Nat, closed : BOOLEAN]
      /\ Lined(tickLog', tickBuf', Numbers(tasks'), Numbers(bus), counts'.tick)
  BY <1>2, StoredType
<1>4. RecorderOK'
  BY <1>3 DEF RecorderOK
<1>5. BarsOK' /\ Balanced' /\ RegimeOK' /\ GhostOK'
  BY <1>1, BuilderKept DEF RegimeOK, GhostOK, Histories
<1>6. TypeOK'
  BY <1>1, <1>3, <1>4, <1>5 DEF TypeOK, builder
<1>7. OrderInv'
  BY <1>1, <1>3 DEF OrderInv
<1>8. ExtremesInv'
  BY <1>1 DEF ExtremesInv, OwnExtremesSilence
<1>9. /\ Repeated(ghost'.raws, ghost'.switch) /\ Len(ghost'.raws) <= PersistBars
      /\ Backed(ghost'.raws, market'.pending, market'.count)
  BY InvParts
<1> QED
  BY <1>5, <1>6, <1>7, <1>8, <1>9, InvPartsNext

\* One task of the recorder.
LEMMA RecordInv == BarsInv /\ Record /\ UNCHANGED plan => BarsInv'
<1> SUFFICES ASSUME BarsInv, Record, UNCHANGED plan PROVE BarsInv'
  OBVIOUS
<1> DEFINE e     == Head(tasks)
           ticks == IF e.type = "TICK" THEN Append(tickBuf, e.p.n) ELSE tickBuf
           rows  == IF e.type = "TICK" THEN barBuf ELSE Append(barBuf, Row(e))
<1>1. /\ tasks # << >> /\ tasks' = Tail(tasks)
      /\ IF Len(ticks) >= FlushEvery THEN Flush(ticks, rows) \/ FlushFails(ticks, rows)
         ELSE tickBuf' = ticks /\ barBuf' = rows /\ UNCHANGED <<tickLog, barLog, counts>>
      /\ UNCHANGED <<now, bus, builder, looping, index, market, ghost>>
  BY DEF Record
<1>2. Stored(ticks, rows)
  BY <1>1 DEF Stored
<1>3. /\ tasks \in Seq(Events) /\ \A k \in DOMAIN tasks : tasks[k].type \in Intervals \cup {"TICK"}
      /\ tickBuf \in Seq(Nat) /\ barBuf \in Seq(Rows) /\ looping \in BOOLEAN /\ bus \in Seq(Events)
      /\ Lined(tickLog, tickBuf, Numbers(tasks), Numbers(bus), counts.tick) /\ TicksRise(tasks)
  BY Facts DEF RecorderOK, OrderInv, TypeOK
<1>4. /\ e \in Events /\ e = tasks[1] /\ 1 \in DOMAIN tasks /\ tasks' \in Seq(Events)
      /\ \A k \in DOMAIN tasks' : k + 1 \in DOMAIN tasks /\ tasks'[k] = tasks[k + 1]
      /\ Numbers(tasks') \subseteq Numbers(tasks) /\ TicksRise(tasks')
      /\ e.type = "TICK" => e.p.n \in Numbers(tasks) /\ \A n \in Numbers(tasks') : e.p.n < n
  BY <1>1, <1>3, TailTicks
<1>5. e.type \in Intervals \cup {"TICK"}
      /\ \A k \in DOMAIN tasks' : tasks'[k].type \in Intervals \cup {"TICK"}
  BY <1>3, <1>4
<1>6. Numbers(tasks) \subseteq Nat
  BY <1>3, NumbersType
<1> HIDE DEF e
<1>7. /\ ticks \in Seq(Nat) /\ rows \in Seq(Rows)
      /\ Lined(tickLog, ticks, Numbers(tasks'), Numbers(bus), counts.tick)
  <2>1. CASE e.type = "TICK"
    <3>1. e.p.n \in Numbers(tasks) /\ e.p.n \in Nat
      BY <1>4, <1>6, <2>1
    <3>2. Append(tickBuf, e.p.n) \in Seq(Nat)
      BY <1>3, <3>1, AppendProperties
    <3>3. Lined(tickLog, Append(tickBuf, e.p.n), Numbers(tasks'), Numbers(bus), counts.tick)
      BY <1>3, <1>4, <1>6, <2>1, <3>1, LinedTaken
    <3> QED
      BY <1>3, <2>1, <3>2, <3>3
  <2>2. CASE e.type # "TICK"
    <3>1. Row(e) \in Rows
      <4>1. e.sym \in Symbols /\ e.price \in Nat /\ e.type \in Intervals
        BY <1>4, <1>5, <2>2, Constants DEF Events
      <4> QED
        BY <4>1 DEF Row, Rows
    <3>2. Append(barBuf, Row(e)) \in Seq(Rows)
      BY <1>3, <3>1, AppendProperties
    <3>3. Lined(tickLog, tickBuf, Numbers(tasks'), Numbers(bus), counts.tick)
      BY <1>3, <1>4, LinedHandled
    <3> QED
      BY <1>3, <2>2, <3>2, <3>3
  <2> QED
    BY <2>1, <2>2
<1> HIDE DEF ticks, rows
<1> QED
  BY <1>1, <1>2, <1>3, <1>4, <1>5, <1>7, RecordedInv

\* recorder_flush_loop.
LEMMA FlushLoopInv == BarsInv /\ FlushLoop /\ UNCHANGED plan => BarsInv'
<1> SUFFICES ASSUME BarsInv, FlushLoop, UNCHANGED plan PROVE BarsInv'
  OBVIOUS
<1>1. /\ Stored(tickBuf, barBuf) /\ looping' \in BOOLEAN
      /\ UNCHANGED <<now, bus, builder, tasks, index, market, ghost>>
  BY DEF FlushLoop, Stored
<1>2. /\ tasks \in Seq(Events) /\ \A k \in DOMAIN tasks : tasks[k].type \in Intervals \cup {"TICK"}
      /\ tickBuf \in Seq(Nat) /\ barBuf \in Seq(Rows)
      /\ Lined(tickLog, tickBuf, Numbers(tasks), Numbers(bus), counts.tick) /\ TicksRise(tasks)
  BY Facts DEF RecorderOK, OrderInv
<1> QED
  BY <1>1, <1>2, RecordedInv

-----------------------------------------------------------------------------
(* The feed, the pollers and the processes.                                 *)

\* An event is published behind those that wait; a tick is the next one.
LEMMA PublishedInv ==
  ASSUME BarsInv, NEW e \in Events, e.type # "BAR_5M", bus' = Append(bus, e),
         UNCHANGED <<builder, recorder, index, market, ghost, plan>>, now' \in 0 .. MaxSlot,
         counts' \in [tick : Nat, news : Nat, fault : Nat, closed : BOOLEAN],
         \/ e.type # "TICK" /\ counts'.tick = counts.tick
         \/ e.type = "TICK" /\ e.p.n = counts.tick + 1 /\ counts'.tick = counts.tick + 1
  PROVE  BarsInv'
<1>1. /\ TypeOK /\ BarsOK /\ RecorderOK /\ RegimeOK /\ GhostOK /\ Balanced
      /\ ghost.fired = {} /\ \A k \in DOMAIN bus : Plausible(bus[k])
      /\ bus \in Seq(Events) /\ counts.tick \in Nat /\ tasks \in Seq(Events)
      /\ tickLog \in Seq(Nat) /\ tickBuf \in Seq(Nat)
  BY Facts DEF TypeOK, RecorderOK
<1>2. /\ Lined(tickLog, tickBuf, Numbers(tasks), Numbers(bus), counts.tick)
      /\ TicksRise(tasks) /\ TicksRise(bus)
  BY Facts DEF OrderInv
<1>3. /\ bus' \in Seq(Events)
      /\ \A k \in DOMAIN bus' : bus'[k] = e \/ (k \in DOMAIN bus /\ bus'[k] = bus[k])
      /\ Numbers(bus') = Numbers(bus) \cup (IF e.type = "TICK" THEN {e.p.n} ELSE {})
      /\ TicksRise(bus) /\ (e.type = "TICK" => \A n \in Numbers(bus) : n < e.p.n) => TicksRise(bus')
  BY <1>1, AppendTicks
<1>4. OrderInv'
  <2>1. CASE e.type # "TICK"
    <3>1. Numbers(bus') = Numbers(bus) /\ counts'.tick = counts.tick /\ TicksRise(bus')
      BY <1>2, <1>3, <2>1
    <3> QED
      BY <1>2, <3>1 DEF OrderInv, recorder
  <2>2. CASE e.type = "TICK"
    <3>1. /\ Numbers(bus') = Numbers(bus) \cup {counts.tick + 1}
          /\ counts'.tick = counts.tick + 1 /\ e.p.n = counts.tick + 1
      BY <1>3, <2>2
    <3>2. Range(tickLog) \cup Range(tickBuf) \cup Numbers(tasks) \cup Numbers(bus) \subseteq Nat
      <4>1. Range(tickLog) \subseteq Nat /\ Range(tickBuf) \subseteq Nat
        BY <1>1, SeqFacts DEF Range
      <4>2. Numbers(tasks) \subseteq Nat /\ Numbers(bus) \subseteq Nat
        BY <1>1, NumbersType
      <4> QED
        BY <4>1, <4>2
    <3>3. Lined(tickLog, tickBuf, Numbers(tasks), Numbers(bus'), counts'.tick)
      <4>1. Lined(tickLog, tickBuf, Numbers(tasks), Numbers(bus) \cup {counts.tick + 1}, counts.tick + 1)
        BY <1>1, <1>2, <3>2, LinedNext
      <4> QED
        BY <3>1, <4>1
    <3>4. \A n \in Numbers(bus) : n < e.p.n
      BY <1>1, <1>2, <3>1, <3>2 DEF Lined
    <3> QED
      BY <1>2, <1>3, <3>3, <3>4 DEF OrderInv, recorder
  <2> QED
    BY <2>1, <2>2
<1>5. ExtremesInv'
  <2>1. Plausible(e)
    BY DEF Plausible
  <2> QED
    BY <1>1, <1>3, <2>1 DEF ExtremesInv, OwnExtremesSilence
<1>6. BarsOK' /\ Balanced' /\ RecorderOK' /\ RegimeOK' /\ GhostOK'
  BY <1>1, BuilderKept DEF RecorderOK, RegimeOK, GhostOK, Histories, recorder
<1>7. TypeOK'
  BY <1>1, <1>3, <1>6 DEF TypeOK, builder
<1>8. /\ Repeated(ghost'.raws, ghost'.switch) /\ Len(ghost'.raws) <= PersistBars
      /\ Backed(ghost'.raws, market'.pending, market'.count)
  BY InvParts
<1> QED
  BY <1>4, <1>5, <1>6, <1>7, <1>8, InvPartsNext

\* The feed's next tick.
LEMMA FeedTickInv == BarsInv /\ FeedTick /\ UNCHANGED plan => BarsInv'
<1> SUFFICES ASSUME BarsInv, FeedTick, UNCHANGED plan PROVE BarsInv'
  OBVIOUS
<1>1. /\ now \in 0 .. MaxSlot /\ plan \in Plans
      /\ counts \in [tick : Nat, news : Nat, fault : Nat, closed : BOOLEAN]
  BY Facts DEF TypeOK
<1>2. PICK s \in plan.syms, px \in Prices, ts \in now .. MaxSlot :
        now' = ts /\ Publish(Event("TICK", s, px, [n |-> counts.tick + 1, ts |-> ts]))
  BY DEF FeedTick
<1> DEFINE p == [n |-> counts.tick + 1, ts |-> ts]
           e == [type |-> "TICK", sym |-> s, price |-> px, p |-> p]
<1>3. now' \in 0 .. MaxSlot /\ ts \in Nat /\ s \in Symbols
  BY <1>1, <1>2, Constants, BarsAssumption DEF BarsAssumption
<1>4. e \in Events
  <2>1. p \in [n : Nat, ts : Nat]
    BY <1>1, <1>3
  <2> HIDE DEF p
  <2>2. e \in [type : {"TICK"}, sym : Symbols, price : Prices, p : [n : Nat, ts : Nat]]
    BY <1>3, <2>1
  <2> HIDE DEF e
  <2> QED
    BY <2>2 DEF Events
<1>5. bus' = Append(bus, e)
  BY <1>2 DEF Publish, Event
<1>6. e.type = "TICK" /\ e.p.n = counts.tick + 1
  OBVIOUS
<1>7. /\ counts' \in [tick : Nat, news : Nat, fault : Nat, closed : BOOLEAN]
      /\ counts'.tick = counts.tick + 1
  BY <1>1 DEF FeedTick, Count
<1>8. UNCHANGED <<builder, recorder, index, market, ghost>>
  BY DEF FeedTick
<1> HIDE DEF e
<1>9. e.type # "BAR_5M"
  BY <1>6
<1> QED
  BY <1>3, <1>4, <1>5, <1>6, <1>7, <1>8, <1>9, PublishedInv

\* A poll of flows or macro data, or an opening.
LEMMA NewsInv == BarsInv /\ News /\ UNCHANGED plan => BarsInv'
<1> SUFFICES ASSUME BarsInv, News, UNCHANGED plan PROVE BarsInv'
  OBVIOUS
<1>1. /\ now \in 0 .. MaxSlot
      /\ counts \in [tick : Nat, news : Nat, fault : Nat, closed : BOOLEAN]
  BY Facts DEF TypeOK
<1>2. /\ counts' \in [tick : Nat, news : Nat, fault : Nat, closed : BOOLEAN]
      /\ counts'.tick = counts.tick /\ now' \in 0 .. MaxSlot
      /\ UNCHANGED <<builder, recorder, index, market, ghost>>
  <2>1. Count("news") /\ now' = now /\ UNCHANGED <<builder, recorder, index, market, ghost>>
    BY DEF News
  <2> QED
    BY <1>1, <2>1 DEF Count
<1>3. \E e \in Events : e.type \notin {"TICK", "BAR_5M"} /\ bus' = Append(bus, e)
  <2>1. CASE \E f \in Flows : Publish(Event("FII_DII", "", 0, [fii |-> f, dii |-> f]))
    <3>1. PICK f \in Flows : Publish(Event("FII_DII", "", 0, [fii |-> f, dii |-> f]))
      BY <2>1
    <3> DEFINE e == Event("FII_DII", "", 0, [fii |-> f, dii |-> f])
    <3>2. e \in Events /\ e.type = "FII_DII"
      BY DEF Event, Events
    <3> QED
      BY <3>1, <3>2 DEF Publish
  <2>2. CASE Publish(Event("MACRO", "MACRO", 0, [us |-> -60, crude |-> 0, usd |-> 0]))
    <3> DEFINE e == Event("MACRO", "MACRO", 0, [us |-> -60, crude |-> 0, usd |-> 0])
    <3>1. e \in Events /\ e.type = "MACRO"
      BY DEF Event, Events
    <3> QED
      BY <2>2, <3>1 DEF Publish
  <2>3. CASE Publish(Event("OPEN", "", 0, << >>))
    <3> DEFINE e == Event("OPEN", "", 0, << >>)
    <3>1. e \in Events /\ e.type = "OPEN"
      BY DEF Event, Events
    <3> QED
      BY <2>3, <3>1 DEF Publish
  <2> QED
    BY <2>1, <2>2, <2>3 DEF News
<1> QED
  BY <1>2, <1>3, PublishedInv

\* The close of the session.
LEMMA SessionClosesInv == BarsInv /\ SessionCloses /\ UNCHANGED plan => BarsInv'
<1> SUFFICES ASSUME BarsInv, SessionCloses, UNCHANGED plan PROVE BarsInv'
  OBVIOUS
<1>1. /\ now \in 0 .. MaxSlot
      /\ counts \in [tick : Nat, news : Nat, fault : Nat, closed : BOOLEAN]
  BY Facts DEF TypeOK
<1>2. /\ counts' \in [tick : Nat, news : Nat, fault : Nat, closed : BOOLEAN]
      /\ counts'.tick = counts.tick /\ now' \in 0 .. MaxSlot
      /\ UNCHANGED <<builder, recorder, index, market, ghost>>
  BY <1>1 DEF SessionCloses
<1> DEFINE e == Event("CLOSE", "", 0, << >>)
<1>3. e \in Events /\ e.type = "CLOSE" /\ bus' = Append(bus, e)
  BY DEF SessionCloses, Publish, Event, Events
<1> QED
  BY <1>2, <1>3, PublishedInv

\* run_premarket_routine.
LEMMA PremarketInv == BarsInv /\ Premarket /\ UNCHANGED plan => BarsInv'
<1> SUFFICES ASSUME BarsInv, Premarket, UNCHANGED plan PROVE BarsInv'
  OBVIOUS
<1> DEFINE closes == RecentCloses(Closes("BAR_5M"), Closes("BAR_1D"))
<1>1. /\ Count("news") /\ market' = [market EXCEPT !.regime = FromPrices(closes, 0)]
      /\ ghost' = [ghost EXCEPT !.switch = "none"]
      /\ UNCHANGED <<now, bus, builder, recorder, index>>
  BY DEF Premarket
<1>2. FromPrices(closes, 0) \in Labels
  BY RefreshLabels
<1> HIDE DEF closes
<1>3. /\ TypeOK /\ BarsOK /\ RecorderOK /\ RegimeOK /\ GhostOK /\ Balanced /\ OrderInv
      /\ ghost.fired = {} /\ \A k \in DOMAIN bus : Plausible(bus[k])
  BY Facts
<1>4. /\ counts' \in [tick : Nat, news : Nat, fault : Nat, closed : BOOLEAN]
      /\ counts'.tick = counts.tick
  BY <1>1, <1>3 DEF Count, TypeOK
<1>5. /\ GhostOK' /\ ghost'.handled = ghost.handled /\ ghost'.shut = ghost.shut
      /\ ghost'.raws = ghost.raws /\ ghost'.switch = "none" /\ ghost'.fired = {}
  BY <1>1, <1>3 DEF GhostOK, Histories
<1>6. RegimeOK' /\ market'.pending = market.pending /\ market'.count = market.count
  BY <1>1, <1>2, <1>3 DEF RegimeOK
<1>7. BarsOK' /\ Balanced' /\ RecorderOK'
  BY <1>1, <1>3, <1>5, BuilderKept DEF RecorderOK, recorder
<1>8. TypeOK'
  BY <1>1, <1>3, <1>4, <1>5, <1>6, <1>7 DEF TypeOK, builder
<1>9. OrderInv' /\ ExtremesInv'
  BY <1>1, <1>3, <1>4, <1>5 DEF OrderInv, ExtremesInv, OwnExtremesSilence, recorder
<1>10. /\ Repeated(ghost'.raws, ghost'.switch) /\ Len(ghost'.raws) <= PersistBars
       /\ Backed(ghost'.raws, market'.pending, market'.count)
  BY <1>5, <1>6, InvParts DEF Repeated
<1> QED
  BY <1>7, <1>8, <1>9, <1>10, InvPartsNext

-----------------------------------------------------------------------------
(* The theorems.                                                            *)

\* BarsInv holds in every state: types, the balance of ticks and bars, the
\* order of the ticks on their way to the log, the extremes on the bus and the
\* evidence behind a pending regime.
THEOREM BarsInvariance == Spec => []BarsInv
<1>1. Init => BarsInv
  BY InitInv
<1>2. BarsInv /\ [Next /\ UNCHANGED plan]_vars => BarsInv'
  BY HandleTickInv, HandleBarInv, HandleNewsInv, HandleSessionInv, HandleCrossInv,
     RecordInv, FlushLoopInv, FeedTickInv, NewsInv, SessionClosesInv, PremarketInv,
     RestartInv, StutterInv DEF Next
<1> QED
  BY <1>1, <1>2, PTL DEF Spec

\* bar_aggregator.py: at every interval each tick handled in this life is in
\* exactly one bar, published or open.
THEOREM EveryTickOnce == Spec => []EveryTickInOneBar
<1>1. BarsInv => EveryTickInOneBar
  BY DEF BarsInv
<1> QED
  BY <1>1, BarsInvariance, PTL

\* tick_recorder.py: the log has no tick twice and none out of order.
THEOREM LoggedOnce == Spec => []RecordedOnce
<1>1. BarsInv => RecordedOnce
  BY DEF BarsInv, OrderInv, Lined, Rise, RecordedOnce
<1> QED
  BY <1>1, BarsInvariance, PTL

\* bar_aggregator.py, _bar_features: the two strategies that wait for a close
\* beyond the extremes of its own window never signal.
THEOREM ExtremesAreSilent == Spec => []OwnExtremesSilence
<1>1. BarsInv => OwnExtremesSilence
  BY DEF BarsInv, ExtremesInv
<1> QED
  BY <1>1, BarsInvariance, PTL

\* regime_change_detector.py, apply_regime_persistence: without a shock the
\* regime changes only on REGIME_PERSIST_BARS labels that agree, or after a
\* takeover from NEUTRAL that left an older count in place.
THEOREM ChangesAreBacked == Spec => []RegimeNeedsRepeats
<1>1. BarsInv => RegimeNeedsRepeats
  BY DEF BarsInv, RepeatsInv
<1> QED
  BY <1>1, BarsInvariance, PTL
-----------------------------------------------------------------------------
(* The feed the ticks come from.                                            *)

\* A check of the token tells the truth unless a bad verdict is cached or a
\* request fails, which is counted; the count never falls.
LEMMA CheckIsTrue ==
  ASSUME NEW c \in Cache, NEW ok \in BOOLEAN, token \in BOOLEAN, flakes \in Nat,
         Checks(c, ok)
  PROVE  /\ flakes' \in Nat /\ flakes' >= flakes
         /\ token /\ ~ok => c = "bad" \/ flakes' > 0
BY DEF Checks, Cache

\* A start of a feed that fails is counted.
LEMMA MissCounts ==
  ASSUME misses \in Nat, Miss
  PROVE  misses' \in Nat /\ misses' > misses
BY DEF Miss

\* The count of failed starts only grows.
LEMMA MissesGrow ==
  ASSUME misses \in Nat, [FeedNext]_feedVars
  PROVE  misses' \in Nat
<1>1. misses' = misses \/ Miss
  BY DEF FeedNext, Engine, World, Boot, BootFails, WatchFile, Watchdog, ScreenDone, Restarts,
         PollHealth, HandleAuthGood, HandleAuthBad, GapEnds, CacheEnds, RestartFeed, StartFeed,
         Cut, Reconnect, Expire, LoginAtDashboard, RefreshToken, SupCacheEnds, Crash,
         ConsumeFlag, Start, feedVars
<1> QED
  BY <1>1, MissCounts

\* A handler that checks the token, caches the verdict and keeps the feed it
\* knows or starts another.
LEMMA CheckKeeps ==
  ASSUME FeedInv, NEW ok \in BOOLEAN, NEW c \in {cache, "none"}, Checks(c, ok),
         cache' = Cached(ok), token' = token, feed' = feed \/ StartFeed(ok), misses' \in Nat
  PROVE  FeedInv'
<1>1. c \in Cache /\ token \in BOOLEAN /\ flakes \in Nat
  BY DEF FeedInv, Cache
<1>2. flakes' \in Nat /\ flakes' >= flakes /\ (token /\ ~ok => c = "bad" \/ flakes' > 0)
  BY <1>1, CheckIsTrue
<1>3. cache' \in Cache /\ (cache' = "bad" => ~ok)
  BY DEF Cached, Cache
<1>4. feed' \in {"live", "cut"} => token'
  BY DEF FeedInv, StartFeed, Connected
<1>5. feed' \in {"live", "cut"} /\ cache' = "bad" => flakes' > 0
  <2>1. SUFFICES ASSUME feed' \in {"live", "cut"}, ~ok PROVE flakes' > 0
    BY <1>3
  <2>2. feed' = feed
    BY <2>1 DEF StartFeed
  <2>3. c = "bad" => flakes > 0
    BY <2>1, <2>2 DEF FeedInv
  <2> QED
    BY <1>1, <1>2, <1>4, <2>1, <2>3
<1> QED
  BY <1>1, <1>2, <1>3, <1>4, <1>5 DEF FeedInv

\* kite_ticker.py, kite_token_watcher.py, auth_recovery.py: FeedInv is
\* inductive.
THEOREM FeedInvariance == FeedSpec => []FeedInv
<1>1. FeedInit => FeedInv
  BY DEF FeedInit, FeedInv, Cache
<1>2. FeedInv /\ [FeedNext]_feedVars => FeedInv'
  <2> SUFFICES ASSUME FeedInv, [FeedNext]_feedVars PROVE FeedInv'
    OBVIOUS
  <2>0. misses' \in Nat
    BY MissesGrow DEF FeedInv
  <2>1. CASE Boot
    BY <2>0, <2>1, CheckKeeps DEF Boot
  <2>2. CASE WatchFile
    BY <2>0, <2>2, CheckKeeps DEF WatchFile, RestartFeed
  <2>3. CASE Watchdog \/ ScreenDone
    BY <2>0, <2>3, CheckKeeps DEF Watchdog, ScreenDone, Restarts, RestartFeed
  <2>4. CASE PollHealth
    BY <2>0, <2>4, CheckKeeps DEF PollHealth, links
  <2>5. CASE HandleAuthGood
    <3>1. TRUE \in BOOLEAN /\ Checks(cache, TRUE) /\ cache' = Cached(TRUE)
      BY <2>0, <2>5 DEF HandleAuthGood, Cached
    <3> QED
      BY <2>0, <2>5, <3>1, CheckKeeps DEF HandleAuthGood
  <2>6. CASE HandleAuthBad
    <3>1. cache \in Cache /\ token \in BOOLEAN /\ flakes \in Nat /\ FALSE \in BOOLEAN
      BY DEF FeedInv
    <3>2. flakes' \in Nat /\ flakes' >= flakes /\ (token => cache = "bad" \/ flakes' > 0)
      BY <2>0, <2>6, <3>1, CheckIsTrue DEF HandleAuthBad
    <3>3. /\ feed' = feed /\ cache' = "bad" /\ token' \in {token, TRUE}
      BY <2>0, <2>6 DEF HandleAuthBad, links
    <3>4. feed \in {"live", "cut"} => token /\ (cache = "bad" => flakes > 0)
      BY DEF FeedInv
    <3>5. token' \in BOOLEAN /\ (token => token')
      BY <3>1, <3>3
    <3>6. feed' \in {"live", "cut"} => flakes' > 0
      BY <3>1, <3>2, <3>3, <3>4
    <3> QED
      BY <2>0, <3>2, <3>3, <3>4, <3>5, <3>6 DEF FeedInv, Cache
  <2>7. CASE GapEnds \/ CacheEnds \/ SupCacheEnds \/ Start \/ UNCHANGED feedVars
    BY <2>0, <2>7 DEF GapEnds, CacheEnds, SupCacheEnds, Start, feedVars, links, memory,
                FeedInv, Cache
  <2>8. CASE Cut \/ Reconnect \/ Expire
    BY <2>0, <2>8 DEF Cut, Reconnect, Expire, memory, FeedInv
  <2>9. CASE LoginAtDashboard
    BY <2>0, <2>9 DEF LoginAtDashboard, links, FeedInv
  <2>10. CASE RefreshToken
    <3>1. PICK ok \in BOOLEAN :
            /\ Checks(supCache, ok) /\ token' \in {token, TRUE}
            /\ feed' = feed /\ cache' = cache
      BY <2>0, <2>10 DEF RefreshToken, links
    <3>2. flakes' \in Nat /\ flakes' >= flakes
      BY <3>1 DEF Checks, FeedInv
    <3>3. /\ token \in BOOLEAN /\ flakes \in Nat /\ cache \in Cache
          /\ feed \in {"live", "cut"} => token /\ (cache = "bad" => flakes > 0)
      BY DEF FeedInv
    <3>4. token' \in BOOLEAN /\ (token => token')
      BY <3>1, <3>3
    <3>5. feed' \in {"live", "cut"} /\ cache' = "bad" => flakes' > 0
      BY <3>1, <3>2, <3>3
    <3> QED
      BY <2>0, <3>1, <3>2, <3>3, <3>4, <3>5 DEF FeedInv
  <2>11. CASE Crash \/ ConsumeFlag
    BY <2>0, <2>11 DEF Crash, ConsumeFlag, Gone, FeedInv, Cache
  <2>12. CASE BootFails
    <3>1. flakes' \in Nat
      BY <2>0, <2>12 DEF BootFails, Checks, FeedInv
    <3> QED
      BY <2>0, <2>12, <3>1 DEF BootFails, Gone, FeedInv, Cache
  <2> QED
    BY <2>1, <2>2, <2>3, <2>4, <2>5, <2>6, <2>7, <2>8, <2>9, <2>10, <2>11, <2>12
       DEF FeedNext, Engine, World
<1> QED
  BY <1>1, <1>2, PTL DEF FeedSpec

\* _restart_feed stops the feed it knows before it looks at the token and at the
\* instruments: while the token is valid and the engine runs, a live feed is lost
\* to that only when a check of the token failed or this start of a feed did.
THEOREM TickingIsKept == FeedSpec => KeepsTicking
<1> DEFINE Spared == feed = "live" /\ token /\ token' /\ Running /\ on' = "running"
                     => feed' \in {"live", "cut"} \/ flakes' > 0 \/ misses' > misses
<1>1. FeedInv /\ [FeedNext]_feedVars => Spared
  <2> SUFFICES ASSUME FeedInv, [FeedNext]_feedVars, feed = "live", token, token',
                      Running, on' = "running", feed' # feed, feed' # "cut"
               PROVE  flakes' > 0 \/ misses' > misses
    OBVIOUS
  <2>0. token \in BOOLEAN /\ flakes \in Nat /\ misses \in Nat /\ cache \in Cache /\ "none" \in Cache
        /\ (cache = "bad" => flakes > 0)
    BY DEF FeedInv, Cache
  <2>1. ~Boot
    BY DEF Boot, Running
  <2>2. CASE WatchFile
    BY <2>0, <2>2, MissCounts DEF WatchFile, RestartFeed, StartFeed, Connected
  <2>3. CASE Watchdog \/ ScreenDone
    <3>1. PICK ok \in BOOLEAN : Checks(cache, ok) /\ RestartFeed(ok)
      BY <2>3 DEF Watchdog, ScreenDone, Restarts
    <3> SUFFICES ASSUME ~ Miss PROVE flakes' > 0
      BY <2>0, MissCounts
    <3>2. ~ok
      BY <3>1 DEF RestartFeed, StartFeed, Connected
    <3>3. flakes' \in Nat /\ flakes' >= flakes /\ (cache = "bad" \/ flakes' > 0)
      BY <2>0, <3>1, <3>2, CheckIsTrue
    <3> QED
      BY <2>0, <3>3
  <2>4. ~(PollHealth \/ HandleAuthGood \/ HandleAuthBad \/ GapEnds \/ CacheEnds)
    BY DEF PollHealth, HandleAuthGood, HandleAuthBad, GapEnds, CacheEnds, links
  <2>5. ~(Cut \/ Reconnect \/ Expire)
    BY DEF Cut, Reconnect, Expire
  <2>6. ~(LoginAtDashboard \/ RefreshToken \/ SupCacheEnds)
    BY DEF LoginAtDashboard, RefreshToken, SupCacheEnds, links
  <2>7. ~(BootFails \/ Crash \/ ConsumeFlag \/ Start \/ UNCHANGED feedVars)
    BY DEF BootFails, Crash, ConsumeFlag, Gone, Start, Running, feedVars, links
  <2> QED
    BY <2>1, <2>2, <2>3, <2>4, <2>5, <2>6, <2>7 DEF FeedNext, Engine, World
<1> QED
  BY <1>1, FeedInvariance, PTL DEF FeedSpec, KeepsTicking
=============================================================================
