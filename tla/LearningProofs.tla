----------------------------- MODULE LearningProofs -----------------------------
(***************************************************************************)
(* The learning side: what the signal ledger, the lifecycle and the mined  *)
(* rules keep (StrategyLearning), and what training and promotion of the   *)
(* reinforcement learner's weights keep (ModelPromotion).                  *)
(***************************************************************************)
EXTENDS StrategyLearning, ModelPromotion, FiniteSetTheorems, FunctionTheorems, SequenceTheorems,
        NaturalsInduction, TLAPS

-----------------------------------------------------------------------------
(* Sequences and numbers.                                                   *)

\* Length, domain and entries of a sequence.
LEMMA SeqFacts ==
  ASSUME NEW S, NEW q \in Seq(S)
  PROVE  Len(q) \in Nat /\ DOMAIN q = 1 .. Len(q) /\ \A j \in 1 .. Len(q) : q[j] \in S
BY LenProperties, ElementOfSeq

\* A function on 1 .. n as a sequence.
LEMMA FunctionSeq ==
  ASSUME NEW S, NEW n \in Nat, NEW f \in [1 .. n -> S]
  PROVE  f \in Seq(S) /\ Len(f) = n
<1>1. f \in Seq(S)
  BY SeqDef
<1>2. Len(f) \in Nat /\ 1 .. Len(f) = 1 .. n
  BY <1>1, LenProperties
<1>3. \A i \in Nat \ {0} : i \in 1 .. n <=> i \in 1 .. Len(f)
  BY <1>2
<1>4. CASE n < Len(f)
  BY <1>2, <1>3, <1>4
<1>5. CASE Len(f) < n
  BY <1>2, <1>3, <1>5
<1> QED  BY <1>1, <1>2, <1>4, <1>5

\* A non-empty set of numbers up to n has a smallest and a largest member.
LEMMA Extremes ==
  ASSUME NEW n \in Nat, NEW T \in SUBSET (0 .. n), T # {}
  PROVE  /\ \E x \in T : \A y \in T : x <= y
         /\ \E x \in T : \A y \in T : y <= x
<1> DEFINE R == OpToRel(<, Nat)
<1>1. IsWellFoundedOn(R, Nat)
  BY NatLessThanWellFounded
<1>2. \A x, y \in Nat : <<y, x>> \notin R => x <= y
  BY DEF OpToRel
<1> HIDE DEF R
<1>3. ASSUME NEW V \in SUBSET Nat, V # {}
      PROVE  \E x \in V : \A y \in V : x <= y
  <2>1. PICK x \in V : \A y \in V : <<y, x>> \notin R
    BY <1>1, <1>3, WFMin
  <2> QED  BY <1>2, <2>1
<1>4. \E x \in T : \A y \in T : x <= y
  <2>1. T \in SUBSET Nat
    OBVIOUS
  <2> QED  BY <1>3, <2>1
<1>5. \E x \in T : \A y \in T : y <= x
  <2> DEFINE U == {m \in Nat : \E x \in T : m = n - x}
  <2>1. PICK x0 \in T : TRUE
    OBVIOUS
  <2>2. n - x0 \in U
    BY <2>1
  <2>3. PICK u \in U : \A v \in U : u <= v
    BY <1>3, <2>2
  <2>4. PICK x \in T : u = n - x
    BY <2>3
  <2>5. ASSUME NEW y \in T PROVE y <= x
    <3>1. n - y \in U
      OBVIOUS
    <3>2. n - x <= n - y
      BY <2>3, <2>4, <3>1
    <3>3. x \in 0 .. n /\ y \in 0 .. n
      OBVIOUS
    <3> QED  BY <3>2, <3>3
  <2> QED  BY <2>5
<1> QED  BY <1>4, <1>5

-----------------------------------------------------------------------------
(* The operators of the lifecycle.                                          *)

\* The bounds are numbers.
LEMMA Bounds ==
  /\ MinSignals \in Nat /\ MinTrades \in Nat /\ LossLimit \in Nat /\ MinClosed \in Nat
  /\ FirstSamples \in Nat /\ MinSamples \in Nat /\ KeepRules \in Nat
  /\ MaxClosed \in Nat /\ MaxNow \in Nat
  /\ IsFiniteSet(Strategies) /\ IsFiniteSet(Rules) /\ Loop \in Passes
BY LearningAssumption DEF LearningAssumption

\* A capped counter stays below its cap and never falls.
LEMMA BumpType ==
  ASSUME NEW cap \in Nat, NEW f \in [Strategies -> 0 .. cap], NEW S
  PROVE  /\ Bump(f, S, cap) \in [Strategies -> 0 .. cap]
         /\ \A s \in Strategies : f[s] <= Bump(f, S, cap)[s]
<1>1. \A s \in Strategies : (IF s \in S THEN UpTo(f[s] + 1, cap) ELSE f[s]) \in 0 .. cap
                            /\ f[s] <= (IF s \in S THEN UpTo(f[s] + 1, cap) ELSE f[s])
  BY DEF UpTo
<1> QED  BY <1>1 DEF Bump

\* The rows of one event, in some order.
LEMMA RowsType ==
  ASSUME now \in 0 .. MaxNow, NEW S \in SUBSET Strategies, NEW ran \in BOOLEAN
  PROVE  /\ \A q \in Rows(S, ran) : q \in Seq(Row)
         /\ \A q \in Logged(S) : q \in Seq(Shadow)
<1>1. IsFiniteSet(S)
  BY Bounds, FS_Subset
<1>2. Cardinality(S) \in Nat
  BY <1>1, FS_CardinalityType
<1> DEFINE n == Cardinality(S)
<1>3. [at : {now}, who : S, ran : {ran}] \subseteq Row /\ [at : {now}, who : S] \subseteq Shadow
  BY DEF Row, Shadow
<1>4. \A q \in Rows(S, ran) : q \in [1 .. n -> Row]
  BY <1>3 DEF Rows
<1>5. \A q \in Logged(S) : q \in [1 .. n -> Shadow]
  BY <1>3 DEF Logged
<1> HIDE DEF n
<1>6. n \in Nat
  BY <1>2 DEF n
<1> QED  BY <1>4, <1>5, <1>6, FunctionSeq

\* Rows are only added, and they stay where they are.
LEMMA Longer ==
  ASSUME NEW S, NEW p \in Seq(S), NEW q \in Seq(S)
  PROVE  /\ p \o q \in Seq(S)
         /\ \A i \in DOMAIN p : i \in DOMAIN (p \o q) /\ (p \o q)[i] = p[i]
<1>1. /\ p \o q \in Seq(S) /\ Len(p \o q) = Len(p) + Len(q)
      /\ \A i \in 1 .. Len(p) + Len(q) : (p \o q)[i] = IF i <= Len(p) THEN p[i] ELSE q[i - Len(p)]
  BY ConcatProperties
<1>2. /\ Len(p) \in Nat /\ Len(q) \in Nat /\ DOMAIN p = 1 .. Len(p)
      /\ DOMAIN (p \o q) = 1 .. Len(p) + Len(q)
  BY <1>1, SeqFacts
<1>3. \A i \in 1 .. Len(p) : i \in 1 .. Len(p) + Len(q) /\ i <= Len(p)
  BY <1>2
<1> QED  BY <1>1, <1>2, <1>3

\* What counts as a sample of a strategy never stops to count.
LEMMA SampledGrows ==
  ASSUME TypeOK, TypeOK', NEW s,
         \A i \in DOMAIN ledger : i \in DOMAIN ledger' /\ ledger'[i] = ledger[i],
         DOMAIN outcome \subseteq DOMAIN outcome'
  PROVE  /\ Cardinality(Sampled(s, FALSE)) \in Nat
         /\ Cardinality(Sampled(s, FALSE)') \in Nat
         /\ Cardinality(Sampled(s, FALSE)) <= Cardinality(Sampled(s, FALSE)')
<1>1. Sampled(s, FALSE) \in SUBSET Sampled(s, FALSE)'
  BY DEF Sampled
<1>2. ledger' \in Seq(Row)
  BY DEF TypeOK, EvidenceType
<1>3. Len(ledger') \in Nat /\ DOMAIN ledger' = 1 .. Len(ledger')
  BY <1>2, SeqFacts
<1>4. IsFiniteSet(1 .. Len(ledger'))
  BY <1>3, FS_Interval
<1>5. Sampled(s, FALSE)' \in SUBSET (1 .. Len(ledger'))
  BY <1>3 DEF Sampled
<1>6. IsFiniteSet(Sampled(s, FALSE)')
  BY <1>4, <1>5, FS_Subset
<1>7. IsFiniteSet(Sampled(s, FALSE))
      /\ Cardinality(Sampled(s, FALSE)) <= Cardinality(Sampled(s, FALSE)')
  BY <1>1, <1>6, FS_Subset
<1> QED  BY <1>6, <1>7, FS_CardinalityType

\* Whatever the gate counts, it counts no more than all signals or the closed
\* trades.
LEMMA CountIsRecord ==
  ASSUME TypeOK, NEW s \in Strategies, NEW k \in Nat, SampleCount(s) >= k
  PROVE  Cardinality(Sampled(s, FALSE)) >= k \/ sold[s] >= k
<1>1. ledger \in Seq(Row) /\ sold[s] \in Nat
  <2>1. sold \in [Strategies -> 0 .. MaxClosed] /\ MaxClosed \in Nat
    BY Bounds DEF TypeOK, GovernType
  <2> QED  BY <2>1 DEF TypeOK, EvidenceType
<1>2. Len(ledger) \in Nat /\ DOMAIN ledger = 1 .. Len(ledger)
  BY <1>1, SeqFacts
<1>3. Sampled(s, FALSE) \in SUBSET (1 .. Len(ledger))
  BY <1>2 DEF Sampled
<1>4. IsFiniteSet(Sampled(s, FALSE))
  <2>1. IsFiniteSet(1 .. Len(ledger))
    BY <1>2, FS_Interval
  <2> QED  BY <1>3, <2>1, FS_Subset
<1>5. Sampled(s, TRUE) \in SUBSET Sampled(s, FALSE)
  BY DEF Sampled
<1>6. Cardinality(Sampled(s, TRUE)) <= Cardinality(Sampled(s, FALSE))
      /\ Cardinality(Sampled(s, TRUE)) \in Nat /\ Cardinality(Sampled(s, FALSE)) \in Nat
  BY <1>4, <1>5, FS_Subset, FS_CardinalityType
<1> DEFINE ran == Cardinality(Sampled(s, TRUE))
           any == Cardinality(Sampled(s, FALSE))
           n   == IF ran >= MinClosed THEN ran ELSE any
<1>7. SampleCount(s) = IF n < MinClosed /\ sold[s] >= MinClosed /\ sold[s] > 0
                       THEN sold[s] ELSE n
  BY DEF SampleCount
<1>8. ran \in Nat /\ any \in Nat /\ ran <= any
  BY <1>6
<1> HIDE DEF ran, any
<1>9. n \in Nat /\ n <= any
  BY <1>8
<1> HIDE DEF n
<1>10. any >= k \/ sold[s] >= k
  BY <1>1, <1>7, <1>8, <1>9
<1> QED  BY <1>10 DEF any

-----------------------------------------------------------------------------
(* What a step can change.                                                  *)

\* Tables and figures.
LEMMA EvidenceChanges ==
  ASSUME [Next]_vars
  PROVE  \/ Tick \/ Engine \/ \E p \in Passes : LabelSignals(p) \/ SeedRL(p)
         \/ UNCHANGED <<now, evidence, seedTs, pushed>> /\ up' \in {up, TRUE, FALSE}
<1> DEFINE Same == UNCHANGED <<now, evidence, seedTs, pushed>> /\ up' \in {up, TRUE, FALSE}
<1>1. ASSUME NEW p \in Passes
      PROVE  /\ StartPass(p) \/ Review(p) \/ Governed(p) \/ SaveRules(p) => Same
             /\ PassFails(p) => Same
  <2>1. StartPass(p) => Same
    BY DEF StartPass
  <2>2. Review(p) \/ Governed(p) \/ SaveRules(p) => Same
    BY DEF Review, Governed, SaveRules
  <2>3. PassFails(p) => Same
    BY DEF PassFails, Cut
  <2> QED  BY <2>1, <2>2, <2>3
<1>2. ASSUME NEW p \in Passes
      PROVE  /\ \A s \in Strategies : EvaluateLifecycle(p, s) => Same
             /\ \A r \in Rules : MarkRule(p, r) => Same
  BY DEF EvaluateLifecycle, MarkRule
<1>3. Mine \/ Crash \/ Restart => Same
  BY DEF Mine, Crash, Restart, Cut
<1>4. \A s \in Strategies : LossesAge(s) => Same
  BY DEF LossesAge
<1>5. UNCHANGED vars => Same
  BY DEF vars, evidence
<1> HIDE DEF Same
<1>6. Tick \/ Engine \/ (\E p \in Passes : LabelSignals(p) \/ SeedRL(p)) \/ Same
  BY <1>1, <1>2, <1>3, <1>4, <1>5 DEF Next, Pass
<1> USE DEF Same
<1> QED  BY <1>6

\* The rows of the lifecycle.
LEMMA GovernChanges ==
  ASSUME [Next]_vars
  PROVE  \/ Engine \/ \E s \in Strategies : LossesAge(s)
         \/ \E p \in Passes, s \in Strategies : EvaluateLifecycle(p, s)
         \/ UNCHANGED govern
<1>1. ASSUME NEW p \in Passes
      PROVE  /\ StartPass(p) \/ LabelSignals(p) \/ Review(p) \/ Governed(p) => UNCHANGED govern
             /\ SaveRules(p) \/ SeedRL(p) \/ PassFails(p) => UNCHANGED govern
             /\ \A r \in Rules : MarkRule(p, r) => UNCHANGED govern
  <2>1. StartPass(p) \/ LabelSignals(p) => UNCHANGED govern
    BY DEF StartPass, LabelSignals
  <2>2. Review(p) \/ Governed(p) \/ SaveRules(p) \/ SeedRL(p) => UNCHANGED govern
    BY DEF Review, Governed, SaveRules, SeedRL
  <2>3. PassFails(p) => UNCHANGED govern
    BY DEF PassFails, Cut
  <2>4. \A r \in Rules : MarkRule(p, r) => UNCHANGED govern
    BY DEF MarkRule
  <2> QED  BY <2>1, <2>2, <2>3, <2>4
<1>2. Tick \/ Mine \/ Crash \/ Restart => UNCHANGED govern
  BY DEF Tick, Mine, Crash, Restart, Cut
<1>3. UNCHANGED vars => UNCHANGED govern
  BY DEF vars
<1> QED  BY <1>1, <1>2, <1>3 DEF Next, Pass

\* Rules.
LEMMA RuleChanges ==
  ASSUME [Next]_vars
  PROVE  \/ Mine \/ \E p \in Passes, r \in Rules : MarkRule(p, r)
         \/ \E p \in Passes : Governed(p) \/ SaveRules(p)
         \/ \E P \in SUBSET Passes : Cut(P)
         \/ \E p \in Passes :
              /\ ~Promoting(p) /\ fresh' = fresh /\ list' = list
              /\ \E x \in Stages \ {"promote", "mined"} : Goto(p, x)
              /\ UNCHANGED <<marked, learned, risked>>
         \/ UNCHANGED <<marked, learned, stage, list, fresh, risked>>
BY DEF Next, Pass, Tick, Engine, LossesAge, Crash, Restart, StartPass, LabelSignals, Review,
   EvaluateLifecycle, SeedRL, PassFails, vars, memory, history, Promoting, Stages

\* Labels.
LEMMA LabelChanges ==
  ASSUME [Next]_vars
  PROVE  \/ \E p \in Passes : StartPass(p) \/ LabelSignals(p)
         \/ \E P \in SUBSET Passes : Cut(P)
         \/ UNCHANGED <<outcome, batch, raced>>
BY DEF Next, Pass, Tick, Engine, LossesAge, Mine, Crash, Restart, Review, Governed,
   EvaluateLifecycle, MarkRule, SaveRules, SeedRL, PassFails, vars, memory, history,
   evidence, NothingFused, Fused, Closes

\* What an event may do: rows are added, counters rise.
LEMMA EngineIs ==
  ASSUME TypeOK, Engine
  PROVE  /\ ledger' = ledger \/ \E q \in Seq(Row) : ledger' = ledger \o q
         /\ shadows' = shadows \/ \E q \in Seq(Shadow) : shadows' = shadows \o q
         /\ outcome' = outcome /\ life' = life
         /\ heard' = heard \/ \E S : heard' = Bump(heard, S, MinSignals)
         /\ losses' = losses \/ \E S : losses' = Bump(losses, S, LossLimit)
         /\ sold' = sold \/ \E S : sold' = Bump(sold, S, MaxClosed)
         /\ \/ UNCHANGED <<trades, stay>>
            \/ \E S : stay' = Bump(stay, S, MinTrades)
                      /\ (trades' = Bump(trades, S, MinTrades) \/ trades' = trades)
         /\ UNCHANGED <<now, up, seedTs, pushed, marked, learned, stage, memory, history>>
<1>1. now \in 0 .. MaxNow
  BY DEF TypeOK, EvidenceType
<1>2. ASSUME NEW S \in SUBSET Strategies, NothingFused(S)
      PROVE  /\ \E q \in Seq(Row) : ledger' = ledger \o q
             /\ \E q \in Seq(Shadow) : shadows' = shadows \o q
             /\ heard' = Bump(heard, S, MinSignals)
             /\ UNCHANGED <<outcome, life, losses, sold, trades, stay>>
  <2>1. PICK q \in Rows(S, FALSE) : ledger' = ledger \o q
    BY <1>2 DEF NothingFused
  <2>2. PICK r \in Logged(S) : shadows' = shadows \o r
    BY <1>2 DEF NothingFused
  <2>3. q \in Seq(Row) /\ r \in Seq(Shadow)
    BY <1>1, RowsType
  <2>4. /\ heard' = Bump(heard, S, MinSignals)
        /\ UNCHANGED <<outcome, life, losses, sold, trades, stay>>
    BY <1>2 DEF NothingFused
  <2> QED  BY <2>1, <2>2, <2>3, <2>4
<1>3. ASSUME NEW S \in SUBSET Strategies, NEW c \in S, Fused(S, c)
      PROVE  /\ \E q \in Seq(Row) : ledger' = ledger \o q
             /\ \E q \in Seq(Shadow) : shadows' = shadows \o q
             /\ heard' = Bump(heard, S \ {c}, MinSignals)
             /\ \/ UNCHANGED <<trades, stay>>
                \/ \E X : stay' = Bump(stay, X, MinTrades)
                          /\ (trades' = Bump(trades, X, MinTrades) \/ trades' = trades)
             /\ UNCHANGED <<outcome, life, losses, sold>>
  <2>1. PICK ran \in BOOLEAN :
          /\ \E q \in Rows(S \ {c}, FALSE) :
               ledger' = ledger \o Append(q, [at |-> now, who |-> c, ran |-> ran])
          /\ trades' = IF ran /\ life[c] = "probation"
                       THEN Bump(trades, {c}, MinTrades) ELSE trades
          /\ stay' = IF ran THEN Bump(stay, {c}, MinTrades) ELSE stay
    BY <1>3 DEF Fused
  <2>2. PICK q \in Rows(S \ {c}, FALSE) :
          ledger' = ledger \o Append(q, [at |-> now, who |-> c, ran |-> ran])
    BY <2>1
  <2>3. PICK r \in Logged(S \ {c}) : shadows' = shadows \o r
    BY <1>3 DEF Fused
  <2>4. S \ {c} \in SUBSET Strategies /\ [at |-> now, who |-> c, ran |-> ran] \in Row
    BY <1>1 DEF Row
  <2>5. q \in Seq(Row) /\ r \in Seq(Shadow)
    BY <1>1, <2>4, RowsType
  <2>6. Append(q, [at |-> now, who |-> c, ran |-> ran]) \in Seq(Row)
    BY <2>4, <2>5, AppendProperties
  <2>7. \/ UNCHANGED <<trades, stay>>
        \/ \E X : stay' = Bump(stay, X, MinTrades)
                  /\ (trades' = Bump(trades, X, MinTrades) \/ trades' = trades)
    BY <2>1
  <2>8. heard' = Bump(heard, S \ {c}, MinSignals) /\ UNCHANGED <<outcome, life, losses, sold>>
    BY <1>3 DEF Fused
  <2> QED  BY <2>2, <2>3, <2>5, <2>6, <2>7, <2>8
<1>4. ASSUME NEW s \in Strategies, Closes(s)
      PROVE  /\ \E S : sold' = Bump(sold, S, MaxClosed)
             /\ losses' = losses \/ \E S : losses' = Bump(losses, S, LossLimit)
             /\ UNCHANGED <<ledger, shadows, outcome, life, heard, trades, stay>>
  BY <1>4 DEF Closes, evidence
<1>5. UNCHANGED <<now, up, seedTs, pushed, marked, learned, stage, memory, history>>
  BY DEF Engine
<1>6. (\E S \in SUBSET Strategies : NothingFused(S) \/ \E c \in S : Fused(S, c))
      \/ \E s \in Strategies : Closes(s)
  BY DEF Engine
<1> QED  BY <1>2, <1>3, <1>4, <1>5, <1>6

\* A row that is judged moves to the target of the state that was read, or stays.
LEMMA EvaluateIs ==
  ASSUME TypeOK, NEW p \in Passes, NEW s \in Strategies, EvaluateLifecycle(p, s)
  PROVE  /\ view[p][s] \in States /\ Target[view[p][s]] \in States
         /\ view' = [view EXCEPT ![p][s] = "none"]
         /\ \/ /\ PassesGate(view[p][s], s) \/ MustDemote(view[p][s], s)
               /\ Transition(p, s)
               /\ stale' = (stale \ {<<p, s>>}) \cup
                    {<<q, s>> : q \in {q \in Passes \ {p} : view[q][s] # "none"}}
            \/ stale' = stale \ {<<p, s>>} /\ UNCHANGED <<life, trades, stay>>
         /\ UNCHANGED <<now, up, evidence, seedTs, pushed, heard, losses, sold,
                        marked, learned, stage, batch, todo, list, fresh, raced, risked>>
<1>1. view[p][s] \in States \cup {"none"}
  BY DEF TypeOK, PassType
<1>2. view[p][s] \in States
  BY <1>1 DEF EvaluateLifecycle
<1>3. Target[view[p][s]] \in States
  BY <1>2 DEF Target, States
<1> QED  BY <1>2, <1>3 DEF EvaluateLifecycle

-----------------------------------------------------------------------------
(* Types.                                                                   *)

\* What SeedRL hands over was returned by strategies, and its mark is a label.
LEMMA SeedType ==
  ASSUME TypeOK, NEW p \in Passes, SeedRL(p)
  PROVE  EvidenceType'
<1> DEFINE new == {t \in DOMAIN outcome : outcome[t].labelled > seedTs}
           Before(t) == {u \in new : \/ outcome[u].labelled < outcome[t].labelled
                                     \/ outcome[u].labelled = outcome[t].labelled /\ u < t}
           taken == {t \in new : Cardinality(Before(t)) < SeedLimit}
           labels == {outcome[t].labelled : t \in taken}
<1>1. /\ DOMAIN outcome \subseteq 0 .. MaxNow
      /\ \A t \in DOMAIN outcome : outcome[t] \in Out
      /\ seedTs \in -1 .. MaxNow /\ pushed \subseteq Shadow
  BY DEF TypeOK, EvidenceType, IsTable
<1>2. /\ pushed' = pushed \cup {[at |-> t, who |-> outcome[t].ret] : t \in taken}
      /\ seedTs' = IF taken = {} THEN seedTs
                   ELSE CHOOSE n \in labels : \A t \in taken : outcome[t].labelled <= n
      /\ UNCHANGED <<now, up, evidence>>
  BY DEF SeedRL
<1>3. taken \subseteq DOMAIN outcome
  OBVIOUS
<1> HIDE DEF taken
<1>4. pushed' \subseteq Shadow
  BY <1>1, <1>2, <1>3 DEF Shadow, Out
<1>5. seedTs' \in -1 .. MaxNow
  <2>1. CASE taken = {}
    BY <1>1, <1>2, <2>1
  <2>2. CASE taken # {}
    <3>1. labels \in SUBSET (0 .. MaxNow) /\ labels # {}
      BY <1>1, <1>3, <2>2 DEF Out
    <3>2. \E n \in labels : \A m \in labels : m <= n
      <4> HIDE DEF labels
      <4> QED  BY <3>1, Bounds, Extremes
    <3>3. \E n \in labels : \A t \in taken : outcome[t].labelled <= n
      BY <3>2
    <3>4. (CHOOSE n \in labels : \A t \in taken : outcome[t].labelled <= n) \in labels
      BY <3>3
    <3>5. seedTs' \in labels
      BY <1>2, <2>2, <3>4
    <3>6. seedTs' \in 0 .. MaxNow
      BY <3>1, <3>5
    <3> QED  BY <3>6, Bounds
  <2> QED  BY <2>1, <2>2
<1> QED  BY <1>2, <1>4, <1>5 DEF TypeOK, EvidenceType, evidence, IsTable

\* The tables are tables after every step.
LEMMA EvidenceTypeStep ==
  ASSUME TypeOK, [Next]_vars
  PROVE  EvidenceType'
<1>1. CASE Tick
  <2>1. now \in 0 .. MaxNow /\ now < MaxNow /\ now' = now + 1
    BY <1>1 DEF Tick, TypeOK, EvidenceType
  <2>2. now' \in 0 .. MaxNow
    BY <2>1, Bounds
  <2> QED  BY <1>1, <2>2 DEF Tick, TypeOK, EvidenceType, evidence, IsTable
<1>2. CASE Engine
  <2>1. /\ ledger' = ledger \/ \E q \in Seq(Row) : ledger' = ledger \o q
        /\ shadows' = shadows \/ \E q \in Seq(Shadow) : shadows' = shadows \o q
        /\ outcome' = outcome /\ UNCHANGED <<now, up, seedTs, pushed>>
    BY <1>2, EngineIs
  <2>2. ledger \in Seq(Row) /\ shadows \in Seq(Shadow)
    BY DEF TypeOK, EvidenceType
  <2>3. ledger' \in Seq(Row) /\ shadows' \in Seq(Shadow)
    BY <2>1, <2>2, Longer
  <2> QED  BY <2>1, <2>3 DEF TypeOK, EvidenceType, IsTable
<1>3. ASSUME NEW p \in Passes, LabelSignals(p)
      PROVE  EvidenceType'
  <2>1. IsTable(outcome) /\ IsTable(batch[p])
    BY DEF TypeOK, EvidenceType, PassType
  <2>2. outcome' = [t \in DOMAIN outcome \cup DOMAIN batch[p] |->
          IF t \notin DOMAIN batch[p] THEN outcome[t]
          ELSE IF t \notin DOMAIN outcome THEN batch[p][t]
          ELSE [batch[p][t] EXCEPT !.who = outcome[t].who]]
    BY <1>3 DEF LabelSignals
  <2>3. DOMAIN outcome' \subseteq 0 .. MaxNow
    BY <2>1, <2>2 DEF IsTable
  <2>4. ASSUME NEW t \in DOMAIN outcome' PROVE outcome'[t] \in Out
    <3>1. CASE t \notin DOMAIN batch[p]
      BY <2>1, <2>2, <2>4, <3>1 DEF IsTable
    <3>2. CASE t \in DOMAIN batch[p] /\ t \notin DOMAIN outcome
      BY <2>1, <2>2, <3>2 DEF IsTable
    <3>3. CASE t \in DOMAIN batch[p] /\ t \in DOMAIN outcome
      <4>1. outcome'[t] = [batch[p][t] EXCEPT !.who = outcome[t].who]
        BY <2>2, <3>3
      <4>2. batch[p][t] \in Out /\ outcome[t] \in Out
        BY <2>1, <3>3 DEF IsTable
      <4> QED  BY <4>1, <4>2 DEF Out
    <3> QED  BY <3>1, <3>2, <3>3
  <2> QED  BY <1>3, <2>3, <2>4 DEF LabelSignals, TypeOK, EvidenceType, IsTable
<1>4. ASSUME UNCHANGED <<now, evidence, seedTs, pushed>>, up' \in {up, TRUE, FALSE}
      PROVE  EvidenceType'
  <2>1. up' \in BOOLEAN
    BY <1>4 DEF TypeOK, EvidenceType
  <2> QED  BY <1>4, <2>1 DEF TypeOK, EvidenceType, evidence, IsTable
<1> QED  BY <1>1, <1>2, <1>3, <1>4, SeedType, EvidenceChanges

\* Counters stay below their caps, and states are states.
LEMMA GovernTypeStep ==
  ASSUME TypeOK, [Next]_vars
  PROVE  GovernType'
<1>1. GovernType
  BY DEF TypeOK
<1>2. CASE Engine
  <2>1. /\ life' = life
        /\ heard' = heard \/ \E S : heard' = Bump(heard, S, MinSignals)
        /\ losses' = losses \/ \E S : losses' = Bump(losses, S, LossLimit)
        /\ sold' = sold \/ \E S : sold' = Bump(sold, S, MaxClosed)
        /\ \/ UNCHANGED <<trades, stay>>
           \/ \E S : stay' = Bump(stay, S, MinTrades)
                     /\ (trades' = Bump(trades, S, MinTrades) \/ trades' = trades)
    BY <1>2, EngineIs
  <2>2. heard' \in [Strategies -> 0 .. MinSignals]
    BY <1>1, <2>1, BumpType, Bounds DEF GovernType
  <2>3. losses' \in [Strategies -> 0 .. LossLimit] /\ sold' \in [Strategies -> 0 .. MaxClosed]
    BY <1>1, <2>1, BumpType, Bounds DEF GovernType
  <2>4. trades' \in [Strategies -> 0 .. MinTrades] /\ stay' \in [Strategies -> 0 .. MinTrades]
    BY <1>1, <2>1, BumpType, Bounds DEF GovernType
  <2> QED  BY <1>1, <2>1, <2>2, <2>3, <2>4 DEF GovernType
<1>3. ASSUME NEW s \in Strategies, LossesAge(s)
      PROVE  GovernType'
  <2>1. losses' = [losses EXCEPT ![s] = 0] /\ UNCHANGED <<life, heard, trades, sold, stay>>
    BY <1>3 DEF LossesAge
  <2>2. 0 \in 0 .. LossLimit
    BY Bounds
  <2> QED  BY <1>1, <2>1, <2>2 DEF GovernType
<1>4. ASSUME NEW p \in Passes, NEW s \in Strategies, EvaluateLifecycle(p, s)
      PROVE  GovernType'
  <2>1. /\ Target[view[p][s]] \in States /\ UNCHANGED <<heard, losses, sold>>
        /\ Transition(p, s) \/ UNCHANGED <<life, trades, stay>>
    BY <1>4, EvaluateIs
  <2>2. CASE UNCHANGED <<life, trades, stay>>
    BY <1>1, <2>1, <2>2 DEF GovernType
  <2>3. CASE Transition(p, s)
    <3>1. 0 \in 0 .. MinTrades
      BY Bounds
    <3> QED  BY <1>1, <2>1, <2>3, <3>1 DEF GovernType, Transition
  <2> QED  BY <2>1, <2>2, <2>3
<1>5. CASE UNCHANGED govern
  BY <1>1, <1>5 DEF govern, GovernType
<1> QED  BY <1>2, <1>3, <1>4, <1>5, GovernChanges

\* The batch a pass reads is a table of seconds that have no outcome, and the
\* seconds another pass holds as well are on record.
LEMMA StartIs ==
  ASSUME TypeOK, NEW p \in Passes, StartPass(p)
  PROVE  \E B : /\ IsTable(B) /\ DOMAIN B \cap DOMAIN outcome = {}
                /\ batch' = [batch EXCEPT ![p] = B]
                /\ raced' = raced \cup
                     UNION {DOMAIN B \cap DOMAIN batch[q] : q \in Passes \ {p}}
<1> DEFINE all == ledger \o shadows
           W   == Row \cup Shadow
<1>1. ledger \in Seq(Row) /\ shadows \in Seq(Shadow) /\ now \in 0 .. MaxNow
  BY DEF TypeOK, EvidenceType
<1>2. \A row \in W : row.at \in 0 .. MaxNow /\ row.who \in Strategies
  BY DEF Row, Shadow
<1>3. ledger \in Seq(W) /\ shadows \in Seq(W)
  BY <1>1, SeqMonotonic
<1> HIDE DEF W
<1>4. all \in Seq(W)
  BY <1>3, Longer
<1> HIDE DEF all
<1>5. Len(all) \in Nat /\ DOMAIN all = 1 .. Len(all) /\ \A i \in DOMAIN all : all[i] \in W
  BY <1>4, SeqFacts
<1> DEFINE of(priced, t) == {i \in priced : all[i].at = t}
           seconds(priced) == {all[i].at : i \in priced}
           First(priced, t) == CHOOSE i \in of(priced, t) : \A j \in of(priced, t) : i <= j
           Last(priced, t)  == CHOOSE i \in of(priced, t) : \A j \in of(priced, t) : j <= i
           B(priced) == [t \in seconds(priced) |->
                           [who |-> all[First(priced, t)].who,
                            ret |-> all[Last(priced, t)].who, labelled |-> now]]
<1>6. PICK priced \in SUBSET {i \in DOMAIN all : Due(all[i])} :
        /\ batch' = [batch EXCEPT ![p] = B(priced)]
        /\ raced' = raced \cup
             UNION {seconds(priced) \cap DOMAIN batch[q] : q \in Passes \ {p}}
  BY DEF StartPass, all
<1>7. priced \subseteq DOMAIN all
  BY <1>6
<1>8. ASSUME NEW t \in seconds(priced)
      PROVE  /\ all[First(priced, t)].who \in Strategies
             /\ all[Last(priced, t)].who \in Strategies
  <2> DEFINE V == of(priced, t)
  <2>1. V # {}
    BY <1>8
  <2>2. V \subseteq DOMAIN all
    BY <1>7
  <2>3. V \in SUBSET (0 .. Len(all))
    BY <1>5, <2>2
  <2>4. /\ \E i \in V : \A j \in V : i <= j
        /\ \E i \in V : \A j \in V : j <= i
    <3> HIDE DEF V
    <3> QED  BY <1>5, <2>1, <2>3, Extremes
  <2>5. First(priced, t) \in V /\ Last(priced, t) \in V
    BY <2>4
  <2> HIDE DEF V, First, Last
  <2> QED  BY <1>2, <1>5, <2>2, <2>5
<1>9. seconds(priced) \subseteq 0 .. MaxNow
  BY <1>2, <1>5, <1>7
<1>10. seconds(priced) \cap DOMAIN outcome = {}
  BY <1>6 DEF Due
<1>11. DOMAIN B(priced) = seconds(priced)
  OBVIOUS
<1> HIDE DEF First, Last, seconds
<1>12. IsTable(B(priced))
  <2>1. \A t \in seconds(priced) : B(priced)[t] \in Out
    BY <1>1, <1>8 DEF Out
  <2> QED  BY <1>9, <1>11, <2>1 DEF IsTable
<1>13. /\ DOMAIN B(priced) \cap DOMAIN outcome = {}
       /\ raced' = raced \cup
            UNION {DOMAIN B(priced) \cap DOMAIN batch[q] : q \in Passes \ {p}}
  BY <1>6, <1>10, <1>11
<1>14. batch' = [batch EXCEPT ![p] = B(priced)]
  BY <1>6
<1> HIDE DEF B
<1> QED  BY <1>12, <1>13, <1>14

\* The end of a list: it fits, and while it is shorter than that it is the whole.
LEMMA EndIs ==
  ASSUME TypeOK, NEW p \in Passes
  PROVE  /\ EndOf(p) \in Seq(Rules) /\ Len(EndOf(p)) <= KeepRules
         /\ Len(EndOf(p)) < KeepRules =>
              Len(list[p]) < KeepRules /\ In(list[p]) \subseteq In(EndOf(p))
<1> DEFINE q   == list[p]
           cut == IF Len(q) > KeepRules THEN Len(q) - KeepRules ELSE 0
           e   == EndOf(p)
<1>1. q \in Seq(Rules) /\ KeepRules \in Nat
  BY Bounds DEF TypeOK, PassType
<1>2. e = SubSeq(q, cut + 1, Len(q))
  BY DEF EndOf
<1> HIDE DEF q, e
<1>3. Len(q) \in Nat /\ DOMAIN q = 1 .. Len(q) /\ \A i \in 1 .. Len(q) : q[i] \in Rules
  BY <1>1, SeqFacts
<1>a. Len(q) \in Nat /\ KeepRules \in Nat
  BY <1>1, <1>3
<1>4. /\ cut \in Nat /\ cut <= Len(q) /\ Len(q) - cut <= KeepRules
      /\ (Len(q) > KeepRules => Len(q) - cut = KeepRules)
      /\ (Len(q) <= KeepRules => cut = 0)
  <2>1. CASE Len(q) > KeepRules
    BY <1>a, <2>1
  <2>2. CASE Len(q) <= KeepRules
    BY <1>a, <2>2
  <2> QED  BY <1>a, <2>1, <2>2
<1> HIDE DEF cut
<1>5. \A i \in (cut + 1) .. Len(q) : q[i] \in Rules
  <2>1. \A i \in (cut + 1) .. Len(q) : i \in 1 .. Len(q)
    BY <1>3, <1>4
  <2> QED  BY <1>3, <2>1
<1>6. /\ e \in Seq(Rules)
      /\ Len(e) = IF cut + 1 <= Len(q) THEN Len(q) - (cut + 1) + 1 ELSE 0
      /\ \A i \in 1 .. Len(q) - (cut + 1) + 1 : e[i] = q[cut + 1 + i - 1]
  <2>1. cut + 1 \in Int /\ Len(q) \in Int
    BY <1>3, <1>4
  <2> QED  BY <1>2, <1>5, <2>1, SubSeqProperties
<1>7. Len(e) = Len(q) - cut
  <2>1. Len(e) = IF cut + 1 <= Len(q) THEN Len(q) - (cut + 1) + 1 ELSE 0
    BY <1>6
  <2>2. cut \in Nat /\ cut <= Len(q) /\ Len(q) \in Nat
    BY <1>3, <1>4
  <2> QED  BY <2>1, <2>2
<1>8. Len(e) <= KeepRules
  BY <1>4, <1>7
<1>9. ASSUME Len(e) < KeepRules
      PROVE  Len(q) < KeepRules /\ In(q) \subseteq In(e)
  <2>1. cut = 0 /\ Len(e) = Len(q)
    BY <1>a, <1>4, <1>7, <1>9
  <2>2. DOMAIN e = 1 .. Len(q)
    BY <1>6, <2>1, SeqFacts
  <2>3. \A i \in 1 .. Len(q) : e[i] = q[i]
    <3>1. \A i \in 1 .. Len(q) : 0 + 1 + i - 1 = i /\ i \in 1 .. Len(q) - (0 + 1) + 1
      BY <1>3
    <3> QED  BY <1>6, <2>1, <3>1
  <2>4. In(q) \subseteq In(e)
    BY <1>3, <2>2, <2>3 DEF In
  <2> QED  BY <1>9, <2>1, <2>4
<1> QED  BY <1>6, <1>8, <1>9 DEF q, e

\* A rule at the end of a list.
LEMMA Appended ==
  ASSUME NEW q \in Seq(Rules), NEW r \in Rules
  PROVE  /\ Append(q, r) \in Seq(Rules) /\ In(Append(q, r)) = In(q) \cup {r}
         /\ Len(Append(q, r)) = Len(q) + 1 /\ Len(q) \in Nat
<1>1. /\ Append(q, r) \in Seq(Rules) /\ Len(Append(q, r)) = Len(q) + 1
      /\ \A i \in 1 .. Len(q) : Append(q, r)[i] = q[i]
      /\ Append(q, r)[Len(q) + 1] = r
  BY AppendProperties
<1>2. /\ Len(q) \in Nat /\ DOMAIN q = 1 .. Len(q)
      /\ DOMAIN Append(q, r) = 1 .. Len(q) + 1
  BY <1>1, SeqFacts
<1>3. 1 .. Len(q) + 1 = (1 .. Len(q)) \cup {Len(q) + 1}
  BY <1>2
<1>4. In(Append(q, r)) = In(q) \cup {r}
  BY <1>1, <1>2, <1>3 DEF In
<1> QED  BY <1>1, <1>2, <1>4

\* The empty list.
LEMMA EmptyList ==
  /\ <<>> \in Seq(Rules) /\ Len(<<>>) = 0 /\ In(<<>>) = {}
  /\ IsTable(Nothing)
BY EmptySeq DEF In, IsTable, Nothing

\* What passes hold has its type after every step: a pass's own step ...
LEMMA PassTypeOwn ==
  ASSUME TypeOK, NEW p \in Passes, Pass(p)
  PROVE  PassType'
<1> USE DEF Goto, Stages
<1>1. PassType
  BY DEF TypeOK
<1>2. CASE StartPass(p)
  <2>1. PICK B : IsTable(B) /\ batch' = [batch EXCEPT ![p] = B]
    BY <1>2, StartIs
  <2>2. DOMAIN batch' = Passes /\ \A q \in Passes : IsTable(batch'[q])
    BY <1>1, <2>1 DEF PassType
  <2> QED  BY <1>1, <1>2, <2>2 DEF StartPass, PassType
<1>3. CASE LabelSignals(p)
  <2>1. DOMAIN batch' = Passes /\ \A q \in Passes : IsTable(batch'[q])
    BY <1>1, <1>3, EmptyList DEF LabelSignals, PassType
  <2> QED  BY <1>1, <1>3, <2>1 DEF LabelSignals, PassType
<1>4. CASE Review(p)
  <2>1. life \in [Strategies -> States]
    BY DEF TypeOK, GovernType
  <2>2. [s \in Strategies |-> IF Ready(s) THEN life[s] ELSE "none"]
          \in [Strategies -> States \cup {"none"}]
    BY <2>1
  <2> QED  BY <1>1, <1>4, <2>2 DEF Review, PassType
<1>5. CASE Governed(p)
  <2>1. learned \in Seq(Rules)
    BY DEF TypeOK
  <2> QED  BY <1>1, <1>5, <2>1 DEF Governed, ReadRules, PassType
<1>6. ASSUME NEW s \in Strategies, EvaluateLifecycle(p, s)
      PROVE  PassType'
  <2>1. view' = [view EXCEPT ![p][s] = "none"] /\ UNCHANGED <<stage, batch, todo, list, fresh>>
    BY <1>6, EvaluateIs
  <2> QED  BY <1>1, <2>1 DEF PassType
<1>7. ASSUME NEW r \in Rules, MarkRule(p, r)
      PROVE  PassType'
  <2>1. list[p] \in Seq(Rules) /\ fresh[p] \subseteq Rules
    BY <1>1 DEF PassType
  <2>2. Append(list[p], r) \in Seq(Rules) /\ fresh[p] \cup {r} \in SUBSET Rules
    BY <2>1, Appended
  <2> QED  BY <1>1, <1>7, <2>2 DEF MarkRule, PassType
<1>8. CASE SaveRules(p)
  <2>1. (IF stage[p] = "mined" THEN "idle" ELSE "seed") \in Stages
    OBVIOUS
  <2> QED  BY <1>1, <1>8, <2>1, EmptyList DEF SaveRules, PassType
<1>9. CASE SeedRL(p)
  BY <1>1, <1>9 DEF SeedRL, memory, PassType
<1> QED  BY <1>2, <1>3, <1>4, <1>5, <1>6, <1>7, <1>8, <1>9 DEF Pass

\* ... or one that cuts it, or leaves it alone.
LEMMA CutType ==
  ASSUME TypeOK, NEW P \in SUBSET Passes, Cut(P)
  PROVE  PassType'
<1>1. PassType
  BY DEF TypeOK
<1>2. stage' \in [Passes -> Stages]
  BY <1>1 DEF Cut, PassType, Stages
<1>3. DOMAIN batch' = Passes /\ \A q \in Passes : IsTable(batch'[q])
  BY <1>1, EmptyList DEF Cut, PassType
<1>4. view' \in [Passes -> [Strategies -> States \cup {"none"}]]
  BY <1>1 DEF Cut, PassType
<1>5. todo' \in [Passes -> SUBSET Rules] /\ fresh' \in [Passes -> SUBSET Rules]
  BY <1>1 DEF Cut, PassType
<1>6. list' \in [Passes -> Seq(Rules)]
  BY <1>1, EmptyList DEF Cut, PassType
<1> QED  BY <1>2, <1>3, <1>4, <1>5, <1>6 DEF PassType

\* Whatever the step, what passes hold has its type.
LEMMA PassTypeStep ==
  ASSUME TypeOK, [Next]_vars
  PROVE  PassType'
<1>1. PassType
  BY DEF TypeOK
<1>2. CASE Tick \/ Engine \/ Restart \/ UNCHANGED vars \/ \E s \in Strategies : LossesAge(s)
  <2>1. UNCHANGED <<stage, memory>>
    BY <1>2 DEF Tick, Engine, Restart, LossesAge, vars
  <2> QED  BY <1>1, <2>1 DEF PassType, memory
<1>3. CASE Mine
  <2>1. learned \in Seq(Rules) /\ Loop \in Passes
    BY Bounds DEF TypeOK
  <2>2. /\ stage' = [stage EXCEPT ![Loop] = "mined"] /\ list' = [list EXCEPT ![Loop] = learned]
        /\ todo' = [todo EXCEPT ![Loop] = Rules \ marked'] /\ UNCHANGED <<batch, view, fresh>>
    BY <1>3 DEF Mine, Goto, ReadRules
  <2>3. stage' \in [Passes -> Stages]
    BY <1>1, <2>2 DEF PassType, Stages
  <2> QED  BY <1>1, <2>1, <2>2, <2>3 DEF PassType
<1>4. CASE Crash \/ \E p \in Passes : PassFails(p)
  <2>1. \E P \in SUBSET Passes : Cut(P)
    BY <1>4 DEF Crash, PassFails
  <2> QED  BY <2>1, CutType
<1> QED  BY <1>2, <1>3, <1>4, PassTypeOwn DEF Next

\* What is kept for the rules, and on record of the races.
LEMMA TypeStep ==
  ASSUME TypeOK, [Next]_vars
  PROVE  TypeOK'
<1>1. EvidenceType' /\ GovernType' /\ PassType'
  BY EvidenceTypeStep, GovernTypeStep, PassTypeStep
<1>2. /\ marked \subseteq Rules /\ risked \subseteq Rules /\ learned \in Seq(Rules)
      /\ Len(learned) <= KeepRules /\ fresh \in [Passes -> SUBSET Rules]
      /\ stale \subseteq Passes \X Strategies /\ raced \subseteq 0 .. MaxNow
      /\ \A q \in Passes : DOMAIN batch[q] \subseteq 0 .. MaxNow
  BY DEF TypeOK, PassType, IsTable
<1>3. marked' \subseteq Rules /\ learned' \in Seq(Rules) /\ Len(learned') <= KeepRules
      /\ risked' \subseteq Rules
  <2>1. CASE Mine
    BY <1>2, <2>1 DEF Mine, history
  <2>2. ASSUME NEW p \in Passes, NEW r \in Rules, MarkRule(p, r)
        PROVE  /\ marked' \subseteq Rules /\ learned' = learned /\ risked' = risked
    BY <1>2, <2>2 DEF MarkRule, history
  <2>3. ASSUME NEW p \in Passes, SaveRules(p)
        PROVE  /\ marked' = marked /\ learned' \in Seq(Rules)
               /\ Len(learned') <= KeepRules /\ risked' \subseteq Rules
    <3>1. learned' = (IF fresh[p] = {} THEN learned ELSE EndOf(p)) /\ marked' = marked
          /\ risked' \in {risked, risked \cup fresh[p]}
      BY <2>3 DEF SaveRules
    <3> QED  BY <1>2, <3>1, EndIs
  <2>4. ASSUME NEW P \in SUBSET Passes, Cut(P)
        PROVE  marked' = marked /\ learned' = learned /\ risked' \subseteq Rules
    BY <1>2, <2>4 DEF Cut
  <2>5. ASSUME NEW p \in Passes, Governed(p)
        PROVE  UNCHANGED <<marked, learned, risked>>
    BY <2>5 DEF Governed, history
  <2> QED  BY <1>2, <2>1, <2>2, <2>3, <2>4, <2>5, RuleChanges
<1>4. raced' \subseteq 0 .. MaxNow
  <2>1. ASSUME NEW p \in Passes, StartPass(p)
        PROVE  raced' \subseteq 0 .. MaxNow
    <3>1. PICK B : raced' = raced \cup
                     UNION {DOMAIN B \cap DOMAIN batch[q] : q \in Passes \ {p}}
      BY <2>1, StartIs
    <3> QED  BY <1>2, <3>1
  <2>2. ASSUME NEW p \in Passes, LabelSignals(p)
        PROVE  raced' = raced
    BY <2>2 DEF LabelSignals, history
  <2>3. ASSUME NEW P, Cut(P) PROVE raced' = raced
    BY <2>3 DEF Cut
  <2> QED  BY <1>2, <2>1, <2>2, <2>3, LabelChanges
<1>5. stale' \subseteq Passes \X Strategies
  <2>1. ASSUME NEW p \in Passes, NEW s \in Strategies, EvaluateLifecycle(p, s)
        PROVE  stale' \subseteq Passes \X Strategies
    <3>1. \/ stale' = (stale \ {<<p, s>>}) \cup
               {<<q, s>> : q \in {q \in Passes \ {p} : view[q][s] # "none"}}
          \/ stale' = stale \ {<<p, s>>}
      BY <2>1, EvaluateIs
    <3> QED  BY <1>2, <3>1
  <2>2. stale' \subseteq stale
        \/ \E p \in Passes, s \in Strategies : EvaluateLifecycle(p, s)
    BY DEF Next, Pass, Tick, Engine, LossesAge, Mine, Crash, Restart, StartPass, LabelSignals,
       Review, Governed, MarkRule, SaveRules, SeedRL, PassFails, Cut, vars, history
  <2> QED  BY <1>2, <2>1, <2>2
<1> QED  BY <1>1, <1>3, <1>4, <1>5 DEF TypeOK

-----------------------------------------------------------------------------
(* The invariant.                                                           *)

\* Rows are only added, seconds only labelled, and counters of signals and of
\* closed trades only rise, whatever the step.
LEMMA EvidenceGrows ==
  ASSUME TypeOK, [Next]_vars
  PROVE  /\ \A i \in DOMAIN ledger : i \in DOMAIN ledger' /\ ledger'[i] = ledger[i]
         /\ DOMAIN outcome \subseteq DOMAIN outcome'
         /\ \A s \in Strategies : heard[s] <= heard'[s] /\ sold[s] <= sold'[s]
<1>1. /\ ledger \in Seq(Row) /\ heard \in [Strategies -> 0 .. MinSignals]
      /\ sold \in [Strategies -> 0 .. MaxClosed]
  BY DEF TypeOK, EvidenceType, GovernType
<1>2. \A s \in Strategies : heard[s] <= heard[s] /\ sold[s] <= sold[s]
  BY <1>1, Bounds
<1>3. CASE Engine
  <2>1. /\ ledger' = ledger \/ \E q \in Seq(Row) : ledger' = ledger \o q
        /\ outcome' = outcome
        /\ heard' = heard \/ \E S : heard' = Bump(heard, S, MinSignals)
        /\ sold' = sold \/ \E S : sold' = Bump(sold, S, MaxClosed)
    BY <1>3, EngineIs
  <2>2. \A i \in DOMAIN ledger : i \in DOMAIN ledger' /\ ledger'[i] = ledger[i]
    BY <1>1, <2>1, Longer
  <2>3. \A s \in Strategies : heard[s] <= heard'[s]
    BY <1>1, <1>2, <2>1, BumpType, Bounds
  <2>4. \A s \in Strategies : sold[s] <= sold'[s]
    BY <1>1, <1>2, <2>1, BumpType, Bounds
  <2> QED  BY <2>1, <2>2, <2>3, <2>4
<1>4. \/ heard' = heard /\ sold' = sold
      \/ Engine
  <2>1. ASSUME NEW p \in Passes, NEW s \in Strategies, EvaluateLifecycle(p, s)
        PROVE  heard' = heard /\ sold' = sold
    BY <2>1 DEF EvaluateLifecycle
  <2>2. ASSUME NEW s \in Strategies, LossesAge(s)
        PROVE  heard' = heard /\ sold' = sold
    BY <2>2 DEF LossesAge
  <2> QED  BY <2>1, <2>2, GovernChanges DEF govern
<1>5. \/ Engine
      \/ ledger' = ledger /\ DOMAIN outcome \subseteq DOMAIN outcome'
  <2>1. ASSUME NEW p \in Passes, LabelSignals(p)
        PROVE  ledger' = ledger /\ DOMAIN outcome \subseteq DOMAIN outcome'
    <3>1. DOMAIN outcome' = DOMAIN outcome \cup DOMAIN batch[p]
      BY <2>1 DEF LabelSignals
    <3> QED  BY <2>1, <3>1 DEF LabelSignals
  <2>2. ASSUME NEW p \in Passes, SeedRL(p)
        PROVE  ledger' = ledger /\ outcome' = outcome
    BY <2>2 DEF SeedRL, evidence
  <2>3. ASSUME Tick
        PROVE  ledger' = ledger /\ outcome' = outcome
    BY <2>3 DEF Tick, evidence
  <2> QED  BY <2>1, <2>2, <2>3, EvidenceChanges DEF evidence
<1> QED  BY <1>2, <1>3, <1>4, <1>5

\* A record that was enough stays enough.
LEMMA RecordGrows ==
  ASSUME TypeOK, TypeOK', [Next]_vars, NEW s \in Strategies
  PROVE  /\ heard[s] >= MinSignals => heard'[s] >= MinSignals
         /\ HasRecord(s) => HasRecord(s)'
<1>1. heard[s] <= heard'[s] /\ sold[s] <= sold'[s]
  BY EvidenceGrows
<1>2. /\ heard[s] \in Nat /\ heard'[s] \in Nat /\ sold[s] \in Nat /\ sold'[s] \in Nat
      /\ MinSignals \in Nat /\ FirstSamples \in Nat
  BY Bounds DEF TypeOK, GovernType
<1>3. /\ Cardinality(Sampled(s, FALSE)) \in Nat /\ Cardinality(Sampled(s, FALSE)') \in Nat
      /\ Cardinality(Sampled(s, FALSE)) <= Cardinality(Sampled(s, FALSE)')
  BY EvidenceGrows, SampledGrows
<1>4. heard[s] >= MinSignals => heard'[s] >= MinSignals
  BY <1>1, <1>2
<1>5. sold[s] >= FirstSamples => sold'[s] >= FirstSamples
  BY <1>1, <1>2
<1>6. Cardinality(Sampled(s, FALSE)) >= FirstSamples
        => Cardinality(Sampled(s, FALSE)') >= FirstSamples
  <2> DEFINE was == Cardinality(Sampled(s, FALSE))
             is  == Cardinality(Sampled(s, FALSE)')
  <2>1. was \in Nat /\ is \in Nat /\ was <= is /\ FirstSamples \in Nat
    BY <1>2, <1>3
  <2> HIDE DEF was, is
  <2>2. was >= FirstSamples => is >= FirstSamples
    BY <2>1
  <2> QED  BY <2>2 DEF was, is
<1> QED  BY <1>4, <1>5, <1>6 DEF HasRecord

\* What a pass has read of a strategy, after a step: what it had, nothing, or the
\* state of a row it has just found ready.
LEMMA ViewIs ==
  ASSUME TypeOK, [Next]_vars, NEW p \in Passes, NEW s \in Strategies
  PROVE  \/ view'[p][s] = view[p][s]
         \/ view'[p][s] = "none"
         \/ Ready(s) /\ view'[p][s] = life[s] /\ UNCHANGED <<govern, stale>>
<1>1. view \in [Passes -> [Strategies -> States \cup {"none"}]]
  BY DEF TypeOK, PassType
<1>2. ASSUME NEW q \in Passes, Review(q)
      PROVE  \/ view'[p][s] = view[p][s] \/ view'[p][s] = "none"
             \/ Ready(s) /\ view'[p][s] = life[s] /\ UNCHANGED <<govern, stale>>
  BY <1>1, <1>2 DEF Review, history
<1>3. ASSUME NEW q \in Passes, NEW t \in Strategies, EvaluateLifecycle(q, t)
      PROVE  view'[p][s] = view[p][s] \/ view'[p][s] = "none"
  BY <1>1, <1>3 DEF EvaluateLifecycle
<1>4. ASSUME NEW P, Cut(P)
      PROVE  view'[p][s] = view[p][s] \/ view'[p][s] = "none"
  BY <1>4 DEF Cut
<1>5. \/ \E q \in Passes : Review(q) \/ \E t \in Strategies : EvaluateLifecycle(q, t)
      \/ \E P : Cut(P)
      \/ view' = view
  BY DEF Next, Pass, Tick, Engine, LossesAge, Mine, Crash, Restart, StartPass, LabelSignals,
     Governed, MarkRule, SaveRules, SeedRL, PassFails, vars, memory
<1> QED  BY <1>2, <1>3, <1>4, <1>5

\* Who is moved, and how: only by a pass that judges a row it has read.
LEMMA LifeIs ==
  ASSUME TypeOK, [Next]_vars
  PROVE  \/ life' = life
         \/ \E p \in Passes, s \in Strategies :
              /\ EvaluateLifecycle(p, s) /\ Transition(p, s)
              /\ PassesGate(view[p][s], s) \/ MustDemote(view[p][s], s)
<1>1. ASSUME NEW s \in Strategies, LossesAge(s)
      PROVE  life' = life
  BY <1>1 DEF LossesAge
<1>2. ASSUME Engine
      PROVE  life' = life
  BY <1>2, EngineIs
<1>3. ASSUME NEW p \in Passes, NEW s \in Strategies, EvaluateLifecycle(p, s)
      PROVE  \/ life' = life
             \/ /\ Transition(p, s)
                /\ PassesGate(view[p][s], s) \/ MustDemote(view[p][s], s)
  BY <1>3, EvaluateIs
<1> QED  BY <1>1, <1>2, <1>3, GovernChanges DEF govern

\* A strategy leaves candidacy with its record, and keeps it.
LEMMA EvidencedStep ==
  ASSUME TypeOK, TypeOK', Evidenced, [Next]_vars
  PROVE  Evidenced'
<1> SUFFICES ASSUME NEW s \in Strategies \ Core
             PROVE  /\ life'[s] # "candidacy" => HasRecord(s)'
                    /\ \A p \in Passes :
                         /\ view'[p][s] = "candidacy" => heard'[s] >= MinSignals
                         /\ view'[p][s] \notin {"none", "candidacy"} => HasRecord(s)'
  BY DEF Evidenced
<1>1. /\ life[s] # "candidacy" => HasRecord(s)
      /\ \A p \in Passes : /\ view[p][s] = "candidacy" => heard[s] >= MinSignals
                           /\ view[p][s] \notin {"none", "candidacy"} => HasRecord(s)
  BY DEF Evidenced
<1>2. /\ heard[s] >= MinSignals => heard'[s] >= MinSignals
      /\ HasRecord(s) => HasRecord(s)'
  BY RecordGrows
<1>3. ASSUME life'[s] # "candidacy"
      PROVE  HasRecord(s)
  <2>1. CASE life'[s] = life[s]
    BY <1>1, <1>3, <2>1
  <2>2. CASE life'[s] # life[s]
    <3>1. PICK p \in Passes, t \in Strategies :
            /\ EvaluateLifecycle(p, t) /\ Transition(p, t)
            /\ PassesGate(view[p][t], t) \/ MustDemote(view[p][t], t)
      BY <2>2, LifeIs
    <3>2. t = s
      <4>1. life' = [life EXCEPT ![t] = Target[view[p][t]]]
        BY <3>1 DEF Transition
      <4>2. life \in [Strategies -> States]
        BY DEF TypeOK, GovernType
      <4> QED  BY <2>2, <4>1, <4>2
    <3>3. view[p][s] # "none"
      BY <3>1, <3>2 DEF EvaluateLifecycle
    <3>4. CASE view[p][s] # "candidacy"
      BY <1>1, <3>3, <3>4
    <3>5. CASE view[p][s] = "candidacy"
      <4>1. SampleCount(s) >= FirstSamples
        BY <3>1, <3>2, <3>5 DEF PassesGate, MustDemote
      <4>2. Cardinality(Sampled(s, FALSE)) >= FirstSamples \/ sold[s] >= FirstSamples
        BY <4>1, CountIsRecord, Bounds
      <4>3. heard[s] >= MinSignals
        BY <1>1, <3>5
      <4> QED  BY <4>2, <4>3 DEF HasRecord
    <3> QED  BY <3>4, <3>5
  <2> QED  BY <2>1, <2>2
<1>4. ASSUME NEW p \in Passes
      PROVE  /\ view'[p][s] = "candidacy" => heard[s] >= MinSignals
             /\ view'[p][s] \notin {"none", "candidacy"} => HasRecord(s)
  BY <1>1, ViewIs DEF Ready
<1> QED  BY <1>2, <1>3, <1>4

\* The counter of probation trades never passes the trades of the stay.
LEMMA CountedStep ==
  ASSUME TypeOK, Counted, [Next]_vars
  PROVE  Counted'
<1>1. /\ trades \in [Strategies -> 0 .. MinTrades] /\ stay \in [Strategies -> 0 .. MinTrades]
      /\ MinTrades \in Nat
  BY Bounds DEF TypeOK, GovernType
<1>2. \A s \in Strategies : trades[s] \in Nat /\ stay[s] \in Nat /\ trades[s] <= stay[s]
  BY <1>1 DEF Counted
<1>3. CASE UNCHANGED <<trades, stay>>
  BY <1>2, <1>3 DEF Counted
<1>4. ASSUME NEW p \in Passes, NEW s \in Strategies, EvaluateLifecycle(p, s)
      PROVE  Counted'
  <2>1. CASE Transition(p, s)
    <3>1. trades' = [trades EXCEPT ![s] = 0] /\ stay' = [stay EXCEPT ![s] = 0]
      BY <2>1 DEF Transition
    <3> QED  BY <1>1, <1>2, <3>1 DEF Counted
  <2> QED  BY <1>3, <1>4, <2>1, EvaluateIs
<1>5. CASE Engine
  <2>1. ASSUME NEW X, stay' = Bump(stay, X, MinTrades),
               trades' = Bump(trades, X, MinTrades) \/ trades' = trades
        PROVE  Counted'
    <3> SUFFICES ASSUME NEW s \in Strategies PROVE trades'[s] <= stay'[s]
      BY DEF Counted
    <3>1. trades[s] \in 0 .. MinTrades /\ stay[s] \in 0 .. MinTrades /\ trades[s] <= stay[s]
      BY <1>1, <1>2
    <3>2. stay'[s] = IF s \in X THEN UpTo(stay[s] + 1, MinTrades) ELSE stay[s]
      BY <2>1 DEF Bump
    <3>3. trades'[s] = trades[s]
          \/ trades'[s] = IF s \in X THEN UpTo(trades[s] + 1, MinTrades) ELSE trades[s]
      BY <2>1 DEF Bump
    <3> QED  BY <1>1, <3>1, <3>2, <3>3 DEF UpTo
  <2> QED  BY <1>3, <1>5, <2>1, EngineIs
<1>6. ASSUME NEW s \in Strategies, LossesAge(s)
      PROVE  Counted'
  BY <1>3, <1>6 DEF LossesAge
<1> QED  BY <1>3, <1>4, <1>5, <1>6, GovernChanges DEF govern

\* Who read a stay as long enough was right, or the strategy has moved since.
LEMMA EarnedStep ==
  ASSUME TypeOK, Counted, Earned, [Next]_vars
  PROVE  Earned'
<1> SUFFICES ASSUME NEW p \in Passes, NEW s \in Strategies, view'[p][s] = "probation"
             PROVE  stay'[s] >= MinTrades \/ <<p, s>> \in stale'
  BY DEF Earned
<1>1. /\ stay \in [Strategies -> 0 .. MinTrades] /\ trades \in [Strategies -> 0 .. MinTrades]
      /\ view \in [Passes -> [Strategies -> States \cup {"none"}]] /\ MinTrades \in Nat
  BY Bounds DEF TypeOK, GovernType, PassType
<1>2. CASE Ready(s) /\ view'[p][s] = life[s] /\ UNCHANGED <<govern, stale>>
  <2>1. trades[s] >= MinTrades /\ trades[s] <= stay[s] /\ stay'[s] = stay[s]
    BY <1>2 DEF Ready, Counted, govern
  <2>2. trades[s] \in Nat /\ stay[s] \in Nat
    BY <1>1
  <2> QED  BY <1>1, <2>1, <2>2
<1>3. ASSUME view'[p][s] = view[p][s]
      PROVE  stay'[s] >= MinTrades \/ <<p, s>> \in stale'
  <2>1. stay[s] >= MinTrades \/ <<p, s>> \in stale
    BY <1>3 DEF Earned
  <2>2. ASSUME NEW q \in Passes, NEW t \in Strategies, EvaluateLifecycle(q, t)
        PROVE  stay'[s] >= MinTrades \/ <<p, s>> \in stale'
    <3>1. view' = [view EXCEPT ![q][t] = "none"]
      BY <2>2, EvaluateIs
    <3>2. <<q, t>> # <<p, s>>
      BY <1>1, <3>1
    <3>3. CASE UNCHANGED <<life, trades, stay>> /\ stale' = stale \ {<<q, t>>}
      BY <2>1, <3>2, <3>3
    <3>4. CASE /\ Transition(q, t)
               /\ stale' = (stale \ {<<q, t>>}) \cup
                    {<<x, t>> : x \in {x \in Passes \ {q} : view[x][t] # "none"}}
      <4>1. CASE t = s
        <5>1. p \in {x \in Passes \ {q} : view[x][t] # "none"}
          BY <1>3, <3>2, <4>1
        <5> QED  BY <3>4, <4>1, <5>1
      <4>2. CASE t # s
        <5>1. stay'[s] = stay[s]
          BY <1>1, <3>4, <4>2 DEF Transition
        <5> QED  BY <2>1, <3>2, <3>4, <5>1
      <4> QED  BY <4>1, <4>2
    <3> QED  BY <2>2, <3>3, <3>4, EvaluateIs
  <2>3. ASSUME NEW P, Cut(P)
        PROVE  stay'[s] >= MinTrades \/ <<p, s>> \in stale'
    <3>1. p \notin P
      BY <2>3 DEF Cut
    <3>2. stay' = stay /\ stale' = stale \ (P \X Strategies)
      BY <2>3 DEF Cut, govern
    <3> QED  BY <2>1, <3>1, <3>2
  <2>4. CASE Engine
    <3>1. stay' = stay \/ \E S : stay' = Bump(stay, S, MinTrades)
      BY <2>4, EngineIs
    <3>2. stay[s] <= stay'[s] /\ stay[s] \in Nat /\ stay'[s] \in Nat
      <4>1. CASE stay' = stay
        BY <1>1, <4>1
      <4>2. ASSUME NEW S, stay' = Bump(stay, S, MinTrades)
            PROVE  stay[s] <= stay'[s] /\ stay'[s] \in 0 .. MinTrades
        BY <1>1, <4>2, BumpType
      <4> QED  BY <1>1, <3>1, <4>1, <4>2
    <3>3. stale' = stale
      BY <2>4 DEF Engine, history
    <3> QED  BY <1>1, <2>1, <3>2, <3>3
  <2>5. \/ Engine \/ \E q \in Passes, t \in Strategies : EvaluateLifecycle(q, t)
        \/ \E P : Cut(P)
        \/ stay' = stay /\ stale' = stale
    BY DEF Next, Pass, Tick, LossesAge, Mine, Crash, Restart, StartPass, LabelSignals, Review,
       Governed, MarkRule, SaveRules, SeedRL, PassFails, vars, govern, history
  <2> QED  BY <2>1, <2>2, <2>3, <2>4, <2>5
<1> QED  BY <1>2, <1>3, ViewIs

\* A pass marks a rule with having it on its list, and stops holding it by saving
\* the list or by being cut.
LEMMA RulesStep ==
  ASSUME TypeOK, MarkedRuleIsKept, ListsKept, [Next]_vars
  PROVE  MarkedRuleIsKept' /\ ListsKept'
<1>1. /\ stage \in [Passes -> Stages] /\ fresh \in [Passes -> SUBSET Rules]
      /\ list \in [Passes -> Seq(Rules)] /\ learned \in Seq(Rules)
      /\ KeepRules \in Nat /\ Loop \in Passes
  BY Bounds DEF TypeOK, PassType
<1>2. \A p \in Passes : /\ Promoting(p) => KeptIn(list[p]) /\ fresh[p] \subseteq In(list[p])
                        /\ ~Promoting(p) => fresh[p] = {}
  BY DEF ListsKept
<1>3. KeptIn(learned)
  BY DEF MarkedRuleIsKept
\* A pass that begins to promote reads the saved list.
<1>4. ASSUME NEW p \in Passes, ~Promoting(p), marked' \subseteq marked,
             list' = [list EXCEPT ![p] = learned], UNCHANGED <<learned, fresh, risked>>,
             \A q \in Passes \ {p} : stage'[q] = stage[q]
      PROVE  MarkedRuleIsKept' /\ ListsKept'
  <2>1. \A q : KeptIn(q) => KeptIn(q)'
    BY <1>4 DEF KeptIn
  <2>2. KeptIn(learned)'
    BY <1>3, <1>4 DEF KeptIn
  <2>3. ASSUME NEW q \in Passes
        PROVE  IF Promoting(q)' THEN KeptIn(list[q])' /\ fresh'[q] \subseteq In(list'[q])
               ELSE fresh'[q] = {}
    <3>1. CASE q = p
      <4>1. list'[q] = learned' /\ fresh'[q] = {}
        BY <1>1, <1>2, <1>4, <3>1
      <4> QED  BY <2>2, <4>1 DEF KeptIn
    <3>2. CASE q # p
      <4>1. list'[q] = list[q] /\ fresh'[q] = fresh[q] /\ (Promoting(q)' <=> Promoting(q))
        BY <1>1, <1>4, <3>2 DEF Promoting
      <4>2. KeptIn(list[q]) => KeptIn(list[q])'
        BY <1>4, <4>1 DEF KeptIn
      <4> QED  BY <1>2, <4>1, <4>2
    <3> QED  BY <3>1, <3>2
  <2> QED  BY <2>2, <2>3 DEF MarkedRuleIsKept, ListsKept
<1>5. CASE Mine
  <2>1. /\ ~Promoting(Loop) /\ marked' \subseteq marked
        /\ list' = [list EXCEPT ![Loop] = learned] /\ UNCHANGED <<learned, fresh, risked>>
        /\ \A q \in Passes \ {Loop} : stage'[q] = stage[q]
    BY <1>1, <1>5 DEF Mine, Goto, ReadRules, Promoting, history
  <2> QED  BY <1>1, <1>4, <2>1
<1>6. ASSUME NEW p \in Passes, Governed(p)
      PROVE  MarkedRuleIsKept' /\ ListsKept'
  <2>1. /\ ~Promoting(p) /\ marked' = marked
        /\ list' = [list EXCEPT ![p] = learned] /\ UNCHANGED <<learned, fresh, risked>>
        /\ \A q \in Passes \ {p} : stage'[q] = stage[q]
    BY <1>1, <1>6 DEF Governed, Goto, ReadRules, Promoting, history
  <2> QED  BY <1>4, <2>1
<1>7. ASSUME NEW p \in Passes, NEW r \in Rules, MarkRule(p, r)
      PROVE  MarkedRuleIsKept' /\ ListsKept'
  <2>1. /\ marked' = marked \cup {r} /\ fresh' = [fresh EXCEPT ![p] = @ \cup {r}]
        /\ list' = [list EXCEPT ![p] = Append(@, r)] /\ Promoting(p)
        /\ UNCHANGED <<learned, stage, risked>>
    BY <1>7 DEF MarkRule, history
  <2>2. UNION {fresh'[q] : q \in Passes} = {r} \cup UNION {fresh[q] : q \in Passes}
    BY <1>1, <2>1
  <2>3. KeptIn(learned)'
    BY <1>3, <2>1, <2>2 DEF KeptIn
  <2>4. ASSUME NEW q \in Passes
        PROVE  IF Promoting(q)' THEN KeptIn(list[q])' /\ fresh'[q] \subseteq In(list'[q])
               ELSE fresh'[q] = {}
    <3>1. CASE q = p
      <4>1. list'[q] = Append(list[p], r) /\ fresh'[q] = fresh[p] \cup {r}
        BY <1>1, <2>1, <3>1
      <4>2. /\ In(list'[q]) = In(list[p]) \cup {r}
            /\ Len(list'[q]) = Len(list[p]) + 1 /\ Len(list[p]) \in Nat
        BY <1>1, <4>1, Appended
      <4>3. Len(list'[q]) < KeepRules => Len(list[p]) < KeepRules
        BY <1>1, <4>2
      <4>4. KeptIn(list[p]) /\ fresh[p] \subseteq In(list[p])
        BY <1>2, <2>1
      <4>5. KeptIn(list[q])'
        BY <2>1, <2>2, <4>2, <4>3, <4>4 DEF KeptIn
      <4>6. Promoting(q)'
        BY <2>1, <3>1 DEF Promoting
      <4> QED  BY <4>1, <4>2, <4>4, <4>5, <4>6
    <3>2. CASE q # p
      <4>1. list'[q] = list[q] /\ fresh'[q] = fresh[q] /\ (Promoting(q)' <=> Promoting(q))
        BY <1>1, <2>1, <3>2 DEF Promoting
      <4>2. KeptIn(list[q]) => KeptIn(list[q])'
        BY <2>1, <2>2, <4>1 DEF KeptIn
      <4> QED  BY <1>2, <4>1, <4>2
    <3> QED  BY <3>1, <3>2
  <2> QED  BY <2>3, <2>4 DEF MarkedRuleIsKept, ListsKept
<1>8. ASSUME NEW p \in Passes, SaveRules(p)
      PROVE  MarkedRuleIsKept' /\ ListsKept'
  <2>1. /\ Promoting(p) /\ marked' = marked
        /\ learned' = IF fresh[p] = {} THEN learned ELSE EndOf(p)
        /\ risked' = IF \E q \in Passes \ {p} : Promoting(q)
                     THEN risked \cup fresh[p] ELSE risked
        /\ list' = [list EXCEPT ![p] = <<>>] /\ fresh' = [fresh EXCEPT ![p] = {}]
        /\ stage' = [stage EXCEPT ![p] = IF stage[p] = "mined" THEN "idle" ELSE "seed"]
    BY <1>8 DEF SaveRules, Goto
  <2>2. UNION {fresh[q] : q \in Passes} \subseteq fresh[p] \cup UNION {fresh'[q] : q \in Passes}
    <3>1. \A q \in Passes : fresh[q] \subseteq fresh[p] \cup fresh'[q]
      BY <1>1, <2>1
    <3> QED  BY <3>1
  <2>3. KeptIn(list[p]) /\ fresh[p] \subseteq In(list[p])
    BY <1>2, <2>1
  <2>4. KeptIn(learned)'
    <3>1. CASE fresh[p] = {}
      BY <1>3, <2>1, <2>2, <3>1 DEF KeptIn
    <3>2. CASE fresh[p] # {}
      <4>1. learned' = EndOf(p)
        BY <2>1, <3>2
      <4>2. Len(learned') < KeepRules =>
              Len(list[p]) < KeepRules /\ In(list[p]) \subseteq In(learned')
        BY <4>1, EndIs
      <4>3. risked \subseteq risked'
        BY <2>1
      <4> QED  BY <2>1, <2>2, <2>3, <4>2, <4>3 DEF KeptIn
    <3> QED  BY <3>1, <3>2
  <2>5. ASSUME NEW q \in Passes
        PROVE  IF Promoting(q)' THEN KeptIn(list[q])' /\ fresh'[q] \subseteq In(list'[q])
               ELSE fresh'[q] = {}
    <3>1. CASE q = p
      <4>1. fresh'[q] = {}
        BY <1>1, <2>1, <3>1
      <4>2. ~Promoting(q)'
        BY <1>1, <2>1, <3>1 DEF Promoting
      <4> QED  BY <4>1, <4>2
    <3>2. CASE q # p
      <4>1. list'[q] = list[q] /\ fresh'[q] = fresh[q] /\ (Promoting(q)' <=> Promoting(q))
        BY <1>1, <2>1, <3>2 DEF Promoting
      <4>2. ASSUME Promoting(q), KeptIn(list[q])
            PROVE  KeptIn(list[q])'
        <5>1. fresh[p] \cup risked \subseteq risked'
          BY <2>1, <3>2, <4>2
        <5> QED  BY <2>1, <2>2, <4>1, <4>2, <5>1 DEF KeptIn
      <4> QED  BY <1>2, <4>1, <4>2
    <3> QED  BY <3>1, <3>2
  <2> QED  BY <2>4, <2>5 DEF MarkedRuleIsKept, ListsKept
<1>9. ASSUME NEW P \in SUBSET Passes, Cut(P)
      PROVE  MarkedRuleIsKept' /\ ListsKept'
  <2>1. /\ stage' = [p \in Passes |-> IF p \in P THEN "idle" ELSE stage[p]]
        /\ list' = [p \in Passes |-> IF p \in P THEN <<>> ELSE list[p]]
        /\ fresh' = [p \in Passes |-> IF p \in P THEN {} ELSE fresh[p]]
        /\ risked' = risked \cup UNION {fresh[p] : p \in P}
        /\ UNCHANGED <<marked, learned>>
    BY <1>9 DEF Cut
  <2>2. risked \cup UNION {fresh[q] : q \in Passes}
          \subseteq risked' \cup UNION {fresh'[q] : q \in Passes}
    <3>1. \A q \in Passes : fresh[q] \subseteq risked' \cup fresh'[q]
      BY <2>1
    <3> QED  BY <2>1, <3>1
  <2>3. KeptIn(learned)'
    BY <1>3, <2>1, <2>2 DEF KeptIn
  <2>4. ASSUME NEW q \in Passes
        PROVE  IF Promoting(q)' THEN KeptIn(list[q])' /\ fresh'[q] \subseteq In(list'[q])
               ELSE fresh'[q] = {}
    <3>1. CASE q \in P
      BY <2>1, <3>1 DEF Promoting
    <3>2. CASE q \notin P
      <4>1. list'[q] = list[q] /\ fresh'[q] = fresh[q] /\ (Promoting(q)' <=> Promoting(q))
        BY <2>1, <3>2 DEF Promoting
      <4>2. KeptIn(list[q]) => KeptIn(list[q])'
        BY <2>1, <2>2, <4>1 DEF KeptIn
      <4> QED  BY <1>2, <4>1, <4>2
    <3> QED  BY <3>1, <3>2
  <2> QED  BY <2>3, <2>4 DEF MarkedRuleIsKept, ListsKept
<1>10. ASSUME UNCHANGED <<marked, learned, list, fresh, risked>>,
              \A q \in Passes : Promoting(q)' <=> Promoting(q)
       PROVE  MarkedRuleIsKept' /\ ListsKept'
  BY <1>2, <1>3, <1>10 DEF KeptIn, MarkedRuleIsKept, ListsKept
<1>11. ASSUME NEW p \in Passes, ~Promoting(p), fresh' = fresh, list' = list,
              \E x \in Stages \ {"promote", "mined"} : Goto(p, x),
              UNCHANGED <<marked, learned, risked>>
       PROVE  MarkedRuleIsKept' /\ ListsKept'
  <2>1. \A q \in Passes : Promoting(q)' <=> Promoting(q)
    BY <1>1, <1>11 DEF Goto, Promoting
  <2> QED  BY <1>10, <1>11, <2>1
<1>12. CASE UNCHANGED <<marked, learned, stage, list, fresh, risked>>
  BY <1>10, <1>12 DEF Promoting
<1> QED  BY <1>5, <1>6, <1>7, <1>8, <1>9, <1>11, <1>12, RuleChanges

\* A second two passes hold, or one holds that has an outcome, is on record.
LEMMA RacesStep ==
  ASSUME TypeOK, RacesSeen, [Next]_vars
  PROVE  RacesSeen'
<1>1. DOMAIN batch = Passes /\ \A p \in Passes : IsTable(batch[p])
  BY DEF TypeOK, PassType
<1>2. ASSUME NEW p \in Passes, StartPass(p)
      PROVE  RacesSeen'
  <2>1. PICK B : /\ IsTable(B) /\ DOMAIN B \cap DOMAIN outcome = {}
                 /\ batch' = [batch EXCEPT ![p] = B]
                 /\ raced' = raced \cup
                      UNION {DOMAIN B \cap DOMAIN batch[q] : q \in Passes \ {p}}
    BY <1>2, StartIs
  <2>2. outcome' = outcome
    BY <1>2 DEF StartPass, evidence
  <2>3. batch'[p] = B /\ \A q \in Passes \ {p} : batch'[q] = batch[q]
    BY <1>1, <2>1
  <2>4. raced \subseteq raced' /\ \A q \in Passes \ {p} : DOMAIN B \cap DOMAIN batch[q] \subseteq raced'
    BY <2>1
  <2>5. ASSUME NEW x \in Passes
        PROVE  DOMAIN batch'[x] \cap DOMAIN outcome' \subseteq raced'
    BY <2>1, <2>2, <2>3, <2>4 DEF RacesSeen
  <2>6. ASSUME NEW x \in Passes, NEW y \in Passes \ {x}
        PROVE  DOMAIN batch'[x] \cap DOMAIN batch'[y] \subseteq raced'
    <3>1. CASE x = p
      BY <2>3, <2>4, <3>1
    <3>2. CASE y = p
      BY <2>3, <2>4, <3>2
    <3>3. CASE x # p /\ y # p
      <4>1. DOMAIN batch[x] \cap DOMAIN batch[y] \subseteq raced
        BY DEF RacesSeen
      <4> QED  BY <2>3, <2>4, <3>3, <4>1
    <3> QED  BY <3>1, <3>2, <3>3
  <2> QED  BY <2>5, <2>6 DEF RacesSeen
<1>3. ASSUME NEW p \in Passes, LabelSignals(p)
      PROVE  RacesSeen'
  <2>1. DOMAIN outcome' = DOMAIN outcome \cup DOMAIN batch[p]
        /\ batch' = [batch EXCEPT ![p] = Nothing] /\ raced' = raced
    BY <1>3 DEF LabelSignals, history
  <2>2. DOMAIN batch'[p] = {} /\ \A q \in Passes \ {p} : batch'[q] = batch[q]
    BY <1>1, <2>1 DEF Nothing
  <2>3. ASSUME NEW x \in Passes
        PROVE  DOMAIN batch'[x] \cap DOMAIN outcome' \subseteq raced'
    <3>1. CASE x = p
      BY <2>2, <3>1
    <3>2. CASE x # p
      <4>1. DOMAIN batch[x] \cap DOMAIN outcome \subseteq raced
            /\ DOMAIN batch[x] \cap DOMAIN batch[p] \subseteq raced
        BY <3>2 DEF RacesSeen
      <4> QED  BY <2>1, <2>2, <3>2, <4>1
    <3> QED  BY <3>1, <3>2
  <2>4. ASSUME NEW x \in Passes, NEW y \in Passes \ {x}
        PROVE  DOMAIN batch'[x] \cap DOMAIN batch'[y] \subseteq raced'
    <3>1. DOMAIN batch[x] \cap DOMAIN batch[y] \subseteq raced
      BY DEF RacesSeen
    <3> QED  BY <2>1, <2>2, <3>1
  <2> QED  BY <2>3, <2>4 DEF RacesSeen
<1>4. ASSUME NEW P, Cut(P)
      PROVE  RacesSeen'
  <2>1. batch' = [p \in Passes |-> IF p \in P THEN Nothing ELSE batch[p]]
        /\ outcome' = outcome /\ raced' = raced
    BY <1>4 DEF Cut, evidence
  <2>2. \A p \in Passes : DOMAIN batch'[p] \subseteq DOMAIN batch[p]
    BY <2>1 DEF Nothing
  <2> QED  BY <2>1, <2>2 DEF RacesSeen
<1>5. CASE UNCHANGED <<outcome, batch, raced>>
  BY <1>5 DEF RacesSeen
<1> QED  BY <1>2, <1>3, <1>4, <1>5, LabelChanges

\* At first there is no evidence, nobody but the core has capital, and no pass
\* runs.
LEMMA InitLearning ==
  ASSUME Init
  PROVE  LearningInv
<1>1. EvidenceType
  <2>1. ledger \in Seq(Row) /\ shadows \in Seq(Shadow)
    BY EmptySeq DEF Init
  <2> QED  BY <2>1, Bounds, EmptyList DEF Init, EvidenceType
<1>2. GovernType
  BY Bounds DEF Init, GovernType, States
<1>3. PassType
  BY EmptyList DEF Init, PassType, Stages
<1>4. TypeOK
  BY <1>1, <1>2, <1>3, EmptyList, Bounds DEF Init, TypeOK
<1>5. Evidenced /\ Counted /\ Earned
  BY Bounds DEF Init, Evidenced, Counted, Earned
<1>6. MarkedRuleIsKept /\ ListsKept
  BY DEF Init, MarkedRuleIsKept, KeptIn, ListsKept, Promoting
<1>7. RacesSeen
  BY DEF Init, RacesSeen, Nothing
<1> QED  BY <1>4, <1>5, <1>6, <1>7 DEF LearningInv

-----------------------------------------------------------------------------
\* The inductive invariant of the learning passes, however many run at once and
\* wherever they are cut.
THEOREM LearningInvariance == Spec => []LearningInv
<1>1. Init => LearningInv
  BY InitLearning
<1>2. LearningInv /\ [Next]_vars => LearningInv'
  BY TypeStep, EvidencedStep, CountedStep, EarnedStep, RulesStep, RacesStep DEF LearningInv
<1> QED  BY <1>1, <1>2, PTL DEF Spec

\* No capital without evidence: outside the grandfather set a strategy with
\* capital has its shadow signals, and its labelled signals or closed trades, also
\* after demotion and return, and when several passes judge it on rows they read
\* before (evaluate_lifecycle_transitions).
THEOREM CapitalAfterEvidence == Spec => []CapitalNeedsEvidence
<1>1. LearningInv => CapitalNeedsEvidence
  BY DEF LearningInv, CapitalNeedsEvidence, Evidenced, Funded
<1> QED  BY <1>1, LearningInvariance, PTL

\* A rule marked as promoted is saved, about to be, or was put at risk in one of
\* two ways: its pass was cut between the mark and the save, or another pass held
\* an older list when it was saved (promote_discovery_rules).
THEOREM RulesAreKept == Spec => []MarkedRuleIsKept
<1>1. LearningInv => MarkedRuleIsKept
  BY DEF LearningInv
<1> QED  BY <1>1, LearningInvariance, PTL

\* Full capital takes MinTrades trades of the present stay, or a pass that read
\* the strategy before another one moved it (_transition).
THEOREM FullCapitalIsEarned == Spec => FullIsEarned
<1>1. LearningInv /\ [Next]_vars =>
        [\A s \in Strategies :
           life[s] # "full" /\ life'[s] = "full" =>
             stay[s] >= MinTrades \/ \E p \in Passes : <<p, s>> \in stale]_vars
  <2> SUFFICES ASSUME LearningInv, [Next]_vars, NEW s \in Strategies,
                      life[s] # "full", life'[s] = "full"
               PROVE  stay[s] >= MinTrades \/ \E p \in Passes : <<p, s>> \in stale
    OBVIOUS
  <2>1. TypeOK /\ Earned
    BY DEF LearningInv
  <2>2. PICK p \in Passes, t \in Strategies : EvaluateLifecycle(p, t) /\ Transition(p, t)
    BY <2>1, LifeIs
  <2>3. life' = [life EXCEPT ![t] = Target[view[p][t]]] /\ life \in [Strategies -> States]
    BY <2>1, <2>2 DEF Transition, TypeOK, GovernType
  <2>4. t = s /\ Target[view[p][s]] = "full"
    BY <2>3
  <2>5. view[p][s] \in States
    BY <2>1, <2>2, <2>4, EvaluateIs
  <2>6. view[p][s] = "probation"
    BY <2>4, <2>5 DEF Target, States
  <2> QED  BY <2>1, <2>6 DEF Earned
<1> QED  BY <1>1, LearningInvariance, PTL DEF Spec, FullIsEarned

\* The label of a second is final, but for seconds two passes had read before
\* either wrote, and whom it is credited to even then (label_strategy_signals).
THEOREM LabelsStay == Spec => LabelsAreFinal
<1>1. LearningInv /\ [Next]_vars =>
        [\A t \in DOMAIN outcome :
           /\ t \in DOMAIN outcome' /\ outcome'[t].who = outcome[t].who
           /\ outcome'[t] = outcome[t] \/ t \in raced]_vars
  <2> SUFFICES ASSUME LearningInv, [Next]_vars, NEW t \in DOMAIN outcome
               PROVE  /\ t \in DOMAIN outcome' /\ outcome'[t].who = outcome[t].who
                      /\ outcome'[t] = outcome[t] \/ t \in raced
    OBVIOUS
  <2>1. TypeOK /\ RacesSeen
    BY DEF LearningInv
  <2>2. ASSUME NEW p \in Passes, LabelSignals(p)
        PROVE  /\ t \in DOMAIN outcome' /\ outcome'[t].who = outcome[t].who
               /\ outcome'[t] = outcome[t] \/ t \in raced
    <3>1. /\ t \in DOMAIN outcome'
          /\ outcome'[t] = IF t \notin DOMAIN batch[p] THEN outcome[t]
                           ELSE [batch[p][t] EXCEPT !.who = outcome[t].who]
      BY <2>2 DEF LabelSignals
    <3>2. CASE t \notin DOMAIN batch[p]
      BY <3>1, <3>2
    <3>3. CASE t \in DOMAIN batch[p]
      <4>1. t \in raced
        BY <2>1, <3>3 DEF RacesSeen
      <4>2. batch[p][t] \in Out
        BY <2>1, <3>3 DEF TypeOK, PassType, IsTable
      <4>3. outcome'[t].who = outcome[t].who
        BY <3>1, <3>3, <4>2 DEF Out
      <4> QED  BY <3>1, <4>1, <4>3
    <3> QED  BY <3>2, <3>3
  <2>3. ASSUME NEW p \in Passes, StartPass(p)
        PROVE  outcome' = outcome
    BY <2>3 DEF StartPass, evidence
  <2>4. ASSUME NEW P, Cut(P)
        PROVE  outcome' = outcome
    BY <2>4 DEF Cut, evidence
  <2> QED  BY <2>2, <2>3, <2>4, LabelChanges
<1> QED  BY <1>1, LearningInvariance, PTL DEF Spec, LabelsAreFinal

-----------------------------------------------------------------------------
(* Training and promotion of weights (ModelPromotion).                      *)

\* Types after a step of a trainer or of the engine around it.
LEMMA WeightsTypeStep ==
  ASSUME PromotionType, Numbered, [PromotionNext]_promotionVars
  PROVE  PromotionType'
<1> USE PromotionAssumption DEF PromotionType, files, agent, today, job, verdicts, MoveTo, Over,
            Points, File, Weights, Trainers, PromotionAssumption
<1>1. ASSUME NEW p \in Trainers, Begin(p) PROVE PromotionType'
  BY <1>1 DEF Begin
<1>2. ASSUME NEW p \in Trainers, TrainSB3(p) \/ TrainNumpy(p) PROVE PromotionType'
  <2>1. Made(p)
    BY <1>2 DEF TrainSB3, TrainNumpy
  <2>2. count' = count + 1 /\ count' \in Weights
    BY <2>1 DEF Made
  <2>3. at' \in [Trainers -> Points] /\ made' \in [Trainers -> File]
    BY <2>1, <2>2 DEF Made
  <2>4. live' \in File /\ zip' \in File
    BY <1>2, <2>2 DEF TrainSB3, TrainNumpy
  <2> QED  BY <2>1, <2>2, <2>3, <2>4 DEF Made
<1>3. ASSUME NEW p \in Trainers, TrainSkipped(p) PROVE PromotionType'
  BY <1>3 DEF TrainSkipped
<1>12. ASSUME NEW p \in Trainers, Compare(p) PROVE PromotionType'
  <2>1. made[p] \in Weights
    BY <1>12 DEF Compare, Numbered
  <2> QED  BY <1>12, <2>1 DEF Compare
<1>13. ASSUME NEW P \in SUBSET Trainers, Cuts(P), UNCHANGED agent \/ Load(None)
       PROVE  PromotionType'
  <2>1. {made[p] : p \in {p \in P : at[p] = "reject"}} \subseteq rejected
    BY <1>13 DEF Numbered
  <2>2. /\ at' \in [Trainers -> Points] /\ made' \in [Trainers -> File]
        /\ base' \in [Trainers -> File]
    BY <1>13 DEF Cuts
  <2> QED  BY <1>13, <2>1, <2>2 DEF Cuts, Load
<1>4. ASSUME NEW p \in Trainers, Accept(p) PROVE PromotionType'
  BY <1>4 DEF Accept
<1>5. ASSUME NEW p \in Trainers, Reject(p) PROVE PromotionType'
  BY <1>5 DEF Reject, Numbered
<1>6. ASSUME NEW p \in Trainers, AfterRoutine(p) PROVE PromotionType'
  BY <1>6 DEF AfterRoutine
<1>7. CASE PostSkips \/ NewDay
  BY <1>7 DEF PostSkips, NewDay
<1>8. CASE AfterTrade
  BY <1>8 DEF AfterTrade, Load
<1>9. CASE HotSwap
  BY <1>9 DEF HotSwap
<1>10. CASE RestartEngine \/ \E p \in Trainers : Fails(p)
  BY <1>10, <1>13 DEF RestartEngine, Fails, OfEngine
<1>11. CASE UNCHANGED promotionVars
  BY <1>11 DEF promotionVars
<1> QED
  BY <1>1, <1>2, <1>3, <1>4, <1>5, <1>6, <1>7, <1>8, <1>9, <1>10, <1>11, <1>12
     DEF PromotionNext, Train

\* Weights get the next number, and only those.
LEMMA NumberedStep ==
  ASSUME PromotionType, Numbered, [PromotionNext]_promotionVars
  PROVE  Numbered'
<1> USE DEF Numbered, files, agent, today, job, verdicts, MoveTo, Over, File, Weights, Trainers
<1>1. /\ count \in Nat /\ None \notin Nat
      /\ at \in [Trainers -> Points] /\ made \in [Trainers -> File]
  BY PromotionAssumption DEF PromotionType, PromotionAssumption
<1>2. ASSUME NEW p \in Trainers, Begin(p) PROVE Numbered'
  BY <1>1, <1>2 DEF Begin
<1>3. ASSUME NEW p \in Trainers, TrainSB3(p) \/ TrainNumpy(p) PROVE Numbered'
  <2>1. Made(p)
    BY <1>3 DEF TrainSB3, TrainNumpy
  <2>2. count' = count + 1 /\ made' = [made EXCEPT ![p] = count']
        /\ UNCHANGED <<stable, rejected>>
    BY <2>1 DEF Made
  <2>3. 0 .. count \subseteq 0 .. count' /\ count' \in 0 .. count' /\ count' # None
    BY <1>1, <2>2
  <2>4. live' \in {live, count'}
    BY <1>3 DEF TrainSB3, TrainNumpy
  <2>5. \A q \in Trainers : q # p => at'[q] = at[q] /\ made'[q] = made[q]
    BY <1>1, <2>1, <2>2 DEF Made
  <2>6. made'[p] = count'
    BY <1>1, <2>2
  <2>7. at'[p] \in {"accept", "compare"}
    BY <1>1, <2>1 DEF Made
  <2> QED  BY <2>2, <2>3, <2>4, <2>5, <2>6, <2>7
<1>4. ASSUME NEW p \in Trainers, TrainSkipped(p) \/ Compare(p)
      PROVE  Numbered'
  BY <1>1, <1>4 DEF TrainSkipped, Compare
<1>5. ASSUME NEW p \in Trainers, Accept(p) PROVE Numbered'
  BY <1>1, <1>5 DEF Accept
<1>6. ASSUME NEW p \in Trainers, Reject(p) PROVE Numbered'
  BY <1>1, <1>6 DEF Reject
<1>7. ASSUME NEW p \in Trainers, AfterRoutine(p) PROVE Numbered'
  BY <1>1, <1>7 DEF AfterRoutine
<1>8. CASE PostSkips \/ NewDay \/ HotSwap \/ UNCHANGED promotionVars
  BY <1>8 DEF PostSkips, NewDay, HotSwap, promotionVars
<1>9. CASE AfterTrade
  BY <1>1, <1>9 DEF AfterTrade
<1>10. ASSUME NEW P \in SUBSET Trainers, Cuts(P) PROVE Numbered'
  <2>1. /\ at' = [p \in Trainers |-> IF p \in P THEN "idle" ELSE at[p]]
        /\ made' = [p \in Trainers |-> IF p \in P THEN None ELSE made[p]]
        /\ live' = live /\ stable' = stable /\ count' = count /\ rejected' = rejected
    BY <1>10 DEF Cuts
  <2>2. \A q \in Trainers : /\ q \in P => at'[q] = "idle" /\ made'[q] = None
                            /\ q \notin P => at'[q] = at[q] /\ made'[q] = made[q]
    BY <2>1
  <2> QED  BY <2>1, <2>2
<1>11. CASE RestartEngine \/ \E p \in Trainers : Fails(p)
  BY <1>10, <1>11 DEF RestartEngine, Fails, OfEngine
<1> QED
  BY <1>2, <1>3, <1>4, <1>5, <1>6, <1>7, <1>8, <1>9, <1>11 DEF PromotionNext, Train

\* While trainings do not overlap, the stable file is what the one under way
\* began with, and the rejected candidates are gone.
AloneOK == overlap \/ (OneTrainer /\ Snapshot /\ Gone)

(* No step lets a second trainer in while one is at work.                   *)
LEMMA AloneStep ==
  ASSUME PromotionType, Numbered, AloneOK, [PromotionNext]_promotionVars
  PROVE  AloneOK'
<1> SUFFICES ASSUME ~overlap' PROVE (OneTrainer /\ Snapshot /\ Gone)'
  BY DEF AloneOK
<1> USE DEF OneTrainer, Snapshot, Gone, InHand, files, agent, today, job, verdicts, MoveTo, Over,
            Trainers
<1>1. /\ count \in Nat /\ None \notin Nat /\ MaxTrainings \in Nat
      /\ at \in [Trainers -> Points] /\ made \in [Trainers -> File]
      /\ base \in [Trainers -> File] /\ overlap \in BOOLEAN
  BY PromotionAssumption DEF PromotionType, PromotionAssumption, Weights
<1>2. /\ live \in 0 .. count \cup {None} /\ stable \in 0 .. count \cup {None}
      /\ rejected \subseteq 0 .. count /\ None \notin rejected
  <2>1. None \notin 0 .. count
    BY <1>1
  <2>2. {live, stable} \subseteq 0 .. count \cup {None} /\ rejected \subseteq 0 .. count
    BY DEF Numbered
  <2> QED  BY <2>1, <2>2
<1>3. overlap \/ (OneTrainer /\ Snapshot /\ Gone)
  BY DEF AloneOK
<1>4. ASSUME NEW p \in Trainers, Begin(p)
      PROVE  (OneTrainer /\ Snapshot /\ Gone)'
  <2>1. /\ ~overlap /\ \A q \in Trainers \ {p} : at[q] = "idle"
        /\ at' = [at EXCEPT ![p] = "train"] /\ base' = [base EXCEPT ![p] = live]
        /\ stable' = (IF live # None THEN live ELSE stable)
        /\ at[p] = "idle" /\ UNCHANGED <<live, rejected, spared>>
        /\ made' = [made EXCEPT ![p] = None]
    BY <1>4 DEF Begin
  <2>2. InHand = {} /\ Gone
    BY <1>3, <2>1
  <2>3. {live, stable} \cap (rejected \ spared) = {}
    BY <2>2
  <2>4. OneTrainer' /\ Snapshot'
    BY <1>1, <1>3, <2>1
  <2>5. Gone'
    BY <2>1, <2>3
  <2> QED  BY <2>4, <2>5
<1>5. ASSUME NEW p \in Trainers, TrainSB3(p) \/ TrainNumpy(p)
      PROVE  (OneTrainer /\ Snapshot /\ Gone)'
  <2>1. Made(p)
    BY <1>5 DEF TrainSB3, TrainNumpy
  <2>2. /\ at[p] = "train" /\ count' = count + 1 /\ made' = [made EXCEPT ![p] = count']
        /\ at' = [at EXCEPT ![p] = IF p = "trade" \/ stable = None THEN "accept" ELSE "compare"]
        /\ UNCHANGED <<stable, base, rejected, spared, overlap>>
    BY <2>1 DEF Made
  <2>3. ~overlap /\ \A q \in Trainers \ {p} : at[q] = "idle"
    BY <1>3, <2>2
  <2>4. count' \notin 0 .. count /\ count' # None
    BY <1>1, <2>2
  <2>5. live' = live \/ live' = count'
    BY <1>5 DEF TrainSB3, TrainNumpy
  <2>6. stable # count'
    BY <1>2, <2>4
  <2>7. OneTrainer' /\ Snapshot'
    BY <1>1, <1>2, <1>3, <2>2, <2>3, <2>4, <2>5, <2>6
  <2>8. {live, stable} \cap (rejected \ spared) = {}
    <3>1. InHand = {} /\ Gone
      BY <1>3, <2>2, <2>3
    <3> QED  BY <3>1
  <2>9. Gone'
    BY <1>2, <2>2, <2>4, <2>5, <2>8
  <2> QED  BY <2>7, <2>9
<1>6. ASSUME NEW p \in Trainers, TrainSkipped(p)
      PROVE  (OneTrainer /\ Snapshot /\ Gone)'
  BY <1>1, <1>3, <1>6 DEF TrainSkipped
\* The verdict falls on what is live at most, not on what is stable.
<1>13. ASSUME NEW p \in Trainers, Compare(p)
       PROVE  (OneTrainer /\ Snapshot /\ Gone)'
  <2>1. /\ at[p] = "compare" /\ UNCHANGED <<live, stable, made, base, overlap, spared>>
        /\ \/ at' = [at EXCEPT ![p] = "accept"] /\ rejected' = rejected
           \/ at' = [at EXCEPT ![p] = "reject"] /\ rejected' = rejected \cup {made[p]}
    BY <1>13 DEF Compare
  <2>2. ~overlap /\ \A q \in Trainers \ {p} : at[q] = "idle"
    BY <1>3, <2>1
  <2>3. stable # None /\ stable # made[p]
    BY <1>3, <2>1, <2>2
  <2>4. OneTrainer' /\ Snapshot'
    BY <1>1, <1>3, <2>1, <2>2
  <2>5. Gone'
    BY <1>1, <1>3, <2>1, <2>2, <2>3
  <2> QED  BY <2>4, <2>5
\* A training that is cut before it reverts spares its candidate.
<1>14. ASSUME NEW P \in SUBSET Trainers, Cuts(P)
       PROVE  (OneTrainer /\ Snapshot /\ Gone)'
  <2>1. /\ at' = [p \in Trainers |-> IF p \in P THEN "idle" ELSE at[p]]
        /\ made' = [p \in Trainers |-> IF p \in P THEN None ELSE made[p]]
        /\ base' = [p \in Trainers |-> IF p \in P THEN None ELSE base[p]]
        /\ spared' = spared \cup {made[p] : p \in {p \in P : at[p] = "reject"}}
        /\ UNCHANGED <<live, stable, rejected, overlap>>
    BY <1>14 DEF Cuts
  <2>2. ~overlap /\ OneTrainer /\ Snapshot /\ Gone
    BY <1>3, <2>1
  <2>3. OneTrainer' /\ Snapshot'
    BY <1>1, <2>1, <2>2
  <2>4. InHand \subseteq InHand' \cup spared'
    BY <1>1, <2>1
  <2>5. Gone'
    <3> HIDE DEF InHand
    <3> QED  BY <2>1, <2>2, <2>4
  <2> QED  BY <2>3, <2>5
<1>7. ASSUME NEW p \in Trainers, Accept(p)
      PROVE  (OneTrainer /\ Snapshot /\ Gone)'
  <2>1. /\ at[p] = "accept" /\ at' = [at EXCEPT ![p] = "after"]
        /\ stable' = (IF live # None THEN live ELSE stable)
        /\ UNCHANGED <<live, made, base, rejected, spared, overlap>>
    BY <1>7 DEF Accept
  <2>2. ~overlap /\ \A q \in Trainers \ {p} : at[q] = "idle"
    BY <1>3, <2>1
  <2>3. InHand = {} /\ Gone
    BY <1>3, <2>1, <2>2
  <2>4. {live, stable} \cap (rejected \ spared) = {}
    BY <2>3
  <2>5. OneTrainer' /\ Snapshot'
    BY <1>1, <1>3, <2>1, <2>2
  <2>6. Gone'
    BY <2>1, <2>4
  <2> QED  BY <2>5, <2>6
<1>8. ASSUME NEW p \in Trainers, Reject(p)
      PROVE  (OneTrainer /\ Snapshot /\ Gone)'
  <2>1. /\ at[p] = "reject" /\ at' = [at EXCEPT ![p] = "after"]
        /\ live' = (IF stable # None THEN stable ELSE live)
        /\ UNCHANGED <<stable, made, base, overlap, rejected, spared>>
    BY <1>8 DEF Reject
  <2>2. ~overlap /\ \A q \in Trainers \ {p} : at[q] = "idle"
    BY <1>3, <2>1
  <2>3. stable # None /\ stable # made[p]
    BY <1>3, <2>1, <2>2
  <2> QED  BY <1>1, <1>3, <2>1, <2>2, <2>3
<1>9. ASSUME NEW p \in Trainers, AfterRoutine(p)
      PROVE  (OneTrainer /\ Snapshot /\ Gone)'
  BY <1>1, <1>3, <1>9 DEF AfterRoutine
<1>10. CASE PostSkips \/ NewDay \/ HotSwap \/ UNCHANGED promotionVars
  BY <1>3, <1>10 DEF PostSkips, NewDay, HotSwap, promotionVars
<1>11. CASE AfterTrade
  BY <1>1, <1>3, <1>11 DEF AfterTrade
<1>12. CASE RestartEngine \/ \E p \in Trainers : Fails(p)
  BY <1>12, <1>14 DEF RestartEngine, Fails, OfEngine
<1> QED
  BY <1>4, <1>5, <1>6, <1>7, <1>8, <1>9, <1>10, <1>11, <1>12, <1>13 DEF PromotionNext, Train

\* The first weights were rejected by nobody.
LEMMA InitPromotion ==
  ASSUME PromotionInit
  PROVE  PromotionInv
<1>1. PromotionType
  <2>1. 0 \in Weights /\ 0 \in File /\ None \in File
    BY PromotionAssumption DEF PromotionAssumption, File, Weights
  <2>2. live \in File /\ policy = live
    BY <2>1 DEF PromotionInit
  <2>3. at \in [Trainers -> Points]
    BY DEF PromotionInit, Points
  <2> QED  BY <2>1, <2>2, <2>3 DEF PromotionInit, PromotionType
<1>2. Numbered
  BY PromotionAssumption DEF PromotionInit, Numbered, PromotionAssumption
<1>3. OneTrainer /\ Snapshot /\ Gone
  BY DEF PromotionInit, OneTrainer, Snapshot, Gone
<1> QED  BY <1>1, <1>2, <1>3 DEF PromotionInv

\* The inductive invariant of training and promotion.
THEOREM PromotionInvariance == PromotionSpec => []PromotionInv
<1>1. PromotionInit => PromotionInv
  BY InitPromotion
<1>2. PromotionInv /\ [PromotionNext]_promotionVars => PromotionInv'
  BY WeightsTypeStep, NumberedStep, AloneStep DEF PromotionInv, AloneOK
<1> QED  BY <1>1, <1>2, PTL DEF PromotionSpec

\* Without a second training at the same time a rejected candidate never becomes
\* the stable copy, and is live only until its own training has reverted, unless
\* that training was cut between the verdict and the revert (revert_to_stable).
THEOREM RejectedStaysOut == PromotionSpec => []RejectedIsGone
<1>1. PromotionInv => RejectedIsGone
  BY DEF PromotionInv, RejectedIsGone
<1> QED  BY <1>1, PromotionInvariance, PTL

\* Reverting gives back what the training began with (snapshot_stable_policy).
THEOREM RevertGivesBack == PromotionSpec => RevertRestores
<1>1. PromotionInv /\ [PromotionNext]_promotionVars =>
        [\A p \in Trainers :
           Reject(p) /\ ~overlap /\ base[p] # None => live' = base[p]]_promotionVars
  BY DEF PromotionInv, Snapshot, Reject
<1> QED  BY <1>1, PromotionInvariance, PTL DEF PromotionSpec, RevertRestores
=============================================================================
