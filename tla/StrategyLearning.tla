---------------------------- MODULE StrategyLearning ----------------------------
(***************************************************************************)
(* How signals become evidence, evidence becomes capital, and what the     *)
(* learning passes do with both: the signal ledger and the shadow trades,  *)
(* the labels put on them later, the lifecycle that grants a strategy its  *)
(* capital, the mined rules that are promoted and the transitions handed   *)
(* to the reinforcement learner.                                           *)
(*                                                                         *)
(* A pass (refresh_all_learning) runs inside the event loop; after the     *)
(* close the post-market routine runs one in a thread of its own, and the  *)
(* trainer's process one more.  Nothing keeps two of them apart: each      *)
(* reads and writes in commits of its own, and the engine's events come    *)
(* between those of a pass that is not on the event loop.  The fitness     *)
(* figures of a strategy (Sortino, Calmar, binomial edge) are open         *)
(* choices; the counts they need are kept.  The engine fuses one event a   *)
(* second; a row's return is named by the row that earned it.  Every       *)
(* signal is a BUY; the sale that closes a position is a step of its own.  *)
(***************************************************************************)
EXTENDS Integers, Sequences, FiniteSets

CONSTANTS
  Strategies,     \* strategies the registry runs
  Core,           \* those of _GRANDFATHER_FULL: full from the first boot
  Rules,          \* mined rules that pass the promotion tests
  Passes,         \* who runs a learning pass
  Loop,           \* the one that runs it on the event loop
  MinSignals,     \* LIFECYCLE_CANDIDACY_MIN_SIGNALS
  MinTrades,      \* LIFECYCLE_PROBATION_MIN_TRADES
  LossLimit,      \* LIFECYCLE_STRUCTURAL_LOSS_DEMOTE
  MinClosed,      \* STRATEGY_STATS_MIN_SAMPLES: fewer say nothing
  FirstSamples,   \* samples the gate out of candidacy asks for
  MinSamples,     \* samples every other gate asks for
  LossSamples,    \* samples a demotion for losses asks for
  SeedLimit,      \* rows seed_rl_from_strategy_signals takes in one pass
  KeepRules,      \* learned rules kept in settings
  MinAge,         \* seconds before a signal is labelled
  MaxClosed,      \* bound: closed trades counted for a strategy
  MaxNow          \* bound: seconds; signals fire before the last one

ASSUME LearningAssumption ==
  /\ IsFiniteSet(Strategies) /\ Core \subseteq Strategies /\ IsFiniteSet(Rules)
  /\ Loop \in Passes
  /\ {MinSignals, MinTrades, LossLimit, MinClosed, FirstSamples, MinSamples,
      LossSamples, SeedLimit, KeepRules, MinAge, MaxClosed, MaxNow} \subseteq Nat

States == {"candidacy", "probation", "full", "demoted"}
Funded == {"probation", "full"}
Stages == {"idle", "label", "review", "govern", "promote", "mined", "seed"}

VARIABLES
  now,       \* the clock, in seconds
  up,        \* the engine's process runs
  ledger,    \* strategy_ledger: rows [at, who, ran], oldest first
  shadows,   \* shadow_trades: rows [at, who], oldest first
  outcome,   \* strategy_signal_outcomes: second -> [who, ret, labelled]
  seedTs,    \* settings.strategy_rl_seed_ts
  pushed,    \* returns handed to the RL buffer, as [at, who]
  life,      \* strategy_lifecycle.state
  heard,     \* strategy_lifecycle.shadow_signals, up to MinSignals
  trades,    \* strategy_lifecycle.probation_trades, up to MinTrades
  losses,    \* structural losses of the last 14 days, up to LossLimit
  sold,      \* strategy_pnl.trade_count, up to MaxClosed
  marked,    \* strategy_discovery.promoted = 1
  learned,   \* settings.learned_custom_rules, oldest first
  stage,     \* of a pass: what it does next
  batch,     \* of a pass: the outcomes it is about to write
  view,      \* of a pass: the states it read and has not judged yet
  todo,      \* of a pass: the rules it read as not promoted
  list,      \* of a pass: the learned rules it read, and its own
  fresh,     \* of a pass: rules it marked and has not saved
  stay,      \* history: trades of a strategy since its last transition
  stale,     \* history: <<p, s>>, s moved since p read its state
  raced,     \* history: seconds two passes had read before either wrote
  risked     \* history: rules marked by a pass that was cut, or saved
             \* while another pass held the list it had read before

evidence == <<ledger, shadows, outcome>>
govern   == <<life, heard, trades, losses, sold, stay>>
memory   == <<batch, view, todo, list, fresh>>
history  == <<stale, raced, risked>>
vars == <<now, up, evidence, seedTs, pushed, govern, marked, learned, stage,
          memory, history>>

Row    == [at : 0 .. MaxNow, who : Strategies, ran : BOOLEAN]
Shadow == [at : 0 .. MaxNow, who : Strategies]
Out    == [who : Strategies, ret : Strategies, labelled : 0 .. MaxNow]

Nothing == [t \in {} |-> 0]

\* A table of outcomes, keyed by the second.
IsTable(f) == DOMAIN f \subseteq 0 .. MaxNow /\ \A t \in DOMAIN f : f[t] \in Out

In(q) == {q[i] : i \in DOMAIN q}

EvidenceType ==
  /\ now \in 0 .. MaxNow /\ up \in BOOLEAN
  /\ ledger \in Seq(Row) /\ shadows \in Seq(Shadow) /\ IsTable(outcome)
  /\ seedTs \in -1 .. MaxNow /\ pushed \subseteq Shadow

GovernType ==
  /\ life \in [Strategies -> States]
  /\ heard \in [Strategies -> 0 .. MinSignals]
  /\ trades \in [Strategies -> 0 .. MinTrades]
  /\ losses \in [Strategies -> 0 .. LossLimit]
  /\ sold \in [Strategies -> 0 .. MaxClosed]
  /\ stay \in [Strategies -> 0 .. MinTrades]

PassType ==
  /\ stage \in [Passes -> Stages]
  /\ DOMAIN batch = Passes /\ \A p \in Passes : IsTable(batch[p])
  /\ view \in [Passes -> [Strategies -> States \cup {"none"}]]
  /\ todo \in [Passes -> SUBSET Rules] /\ fresh \in [Passes -> SUBSET Rules]
  /\ list \in [Passes -> Seq(Rules)]

TypeOK ==
  /\ EvidenceType /\ GovernType /\ PassType
  /\ marked \subseteq Rules /\ learned \in Seq(Rules) /\ Len(learned) <= KeepRules
  /\ stale \subseteq Passes \X Strategies
  /\ raced \subseteq 0 .. MaxNow /\ risked \subseteq Rules

UpTo(n, cap) == IF n < cap THEN n ELSE cap

Bump(f, S, cap) == [s \in Strategies |-> IF s \in S THEN UpTo(f[s] + 1, cap) ELSE f[s]]

\* The rows of S in some order of the registry.
Rows(S, ran) == {q \in [1 .. Cardinality(S) -> [at : {now}, who : S, ran : {ran}]] :
                   \A s \in S : \E i \in DOMAIN q : q[i].who = s}

Logged(S) == {q \in [1 .. Cardinality(S) -> [at : {now}, who : S]] :
                \A s \in S : \E i \in DOMAIN q : q[i].who = s}

-----------------------------------------------------------------------------
(* The engine.                                                              *)

Busy == now = MaxNow \/ \E i \in DOMAIN ledger : ledger[i].at = now

\* fuse finds no signal whose strategy has capital: every one is a shadow
\* trade, and on_event records them in the ledger as not executed.
NothingFused(S) ==
  /\ ~Busy /\ S # {} /\ \A s \in S : life[s] \notin Funded
  /\ \E q \in Rows(S, FALSE) : ledger' = ledger \o q
  /\ \E q \in Logged(S) : shadows' = shadows \o q
  /\ heard' = Bump(heard, S, MinSignals)
  /\ UNCHANGED <<outcome, life, trades, losses, sold, stay>>

\* fuse picks c among the funded signals, the others become shadow trades,
\* and the vetoes let c trade or not.  A trade of a strategy on probation is
\* counted.
Fused(S, c) ==
  /\ ~Busy /\ c \in S /\ life[c] \in Funded
  /\ \E ran \in BOOLEAN :
       /\ \E q \in Rows(S \ {c}, FALSE) :
            ledger' = ledger \o Append(q, [at |-> now, who |-> c, ran |-> ran])
       /\ trades' = IF ran /\ life[c] = "probation"
                    THEN Bump(trades, {c}, MinTrades) ELSE trades
       /\ stay' = IF ran THEN Bump(stay, {c}, MinTrades) ELSE stay
  /\ \E q \in Logged(S \ {c}) : shadows' = shadows \o q
  /\ heard' = Bump(heard, S \ {c}, MinSignals)
  /\ UNCHANGED <<outcome, life, losses, sold>>

\* A sale closes a position and is counted for the strategy that sold.  A loss
\* is charged to it too, structural when the costs explain less than 40 % of
\* it or a stop slipped.
Closes(s) ==
  /\ sold' = Bump(sold, {s}, MaxClosed)
  /\ losses' \in {losses, Bump(losses, {s}, LossLimit)}
  /\ UNCHANGED <<evidence, life, heard, trades, stay>>

\* Events are handled on the event loop, so never within a pass that runs there.
Engine ==
  /\ up /\ stage[Loop] = "idle"
  /\ \/ \E S \in SUBSET Strategies : NothingFused(S) \/ \E c \in S : Fused(S, c)
     \/ \E s \in Strategies : Closes(s)
  /\ UNCHANGED <<now, up, seedTs, pushed, marked, learned, stage, memory, history>>

\* Losses leave the window of structural_loss_count.
LossesAge(s) ==
  /\ losses[s] > 0
  /\ losses' = [losses EXCEPT ![s] = 0]
  /\ UNCHANGED <<now, up, evidence, seedTs, pushed, life, heard, trades, sold,
                 stay, marked, learned, stage, memory, history>>

Tick ==
  /\ now < MaxNow /\ now' = now + 1
  /\ UNCHANGED <<up, evidence, seedTs, pushed, govern, marked, learned, stage,
                 memory, history>>

-----------------------------------------------------------------------------
(* Statistics over the labelled rows.                                       *)

\* The join of the two tables is on the second alone.
Sampled(s, onlyRun) ==
  {i \in DOMAIN ledger : ledger[i].who = s /\ ledger[i].at \in DOMAIN outcome
                         /\ (onlyRun => ledger[i].ran)}

\* The executed signals if there are MinClosed of them, else all signals, and
\* the closed trades when even those are too few.
SampleCount(s) ==
  LET ran == Cardinality(Sampled(s, TRUE))
      any == Cardinality(Sampled(s, FALSE))
      n   == IF ran >= MinClosed THEN ran ELSE any
  IN  IF n < MinClosed /\ sold[s] >= MinClosed /\ sold[s] > 0 THEN sold[s] ELSE n

-----------------------------------------------------------------------------
(* A learning pass, commit by commit.                                       *)

Goto(p, at) == stage' = [stage EXCEPT ![p] = at]

\* Mutant: rows of a labelled second are labelled again.
DueAgain(row) == row.at + MinAge <= now

Due(row) == row.at + MinAge <= now /\ row.at \notin DOMAIN outcome

\* The unlabelled rows of both tables are read into one batch keyed by the
\* second: the first row of a second names its strategy, the last one its
\* return.  A row with no price yet is passed over.
StartPass(p) ==
  /\ stage[p] = "idle" /\ (p = Loop => up) /\ Goto(p, "label")
  /\ LET all == ledger \o shadows
     IN  \E priced \in SUBSET {i \in DOMAIN all : Due(all[i])} :
           LET of(t)    == {i \in priced : all[i].at = t}
               seconds  == {all[i].at : i \in priced}
               First(t) == CHOOSE i \in of(t) : \A j \in of(t) : i <= j
               Last(t)  == CHOOSE i \in of(t) : \A j \in of(t) : j <= i
           IN  /\ batch' = [batch EXCEPT ![p] =
                     [t \in seconds |-> [who |-> all[First(t)].who,
                                         ret |-> all[Last(t)].who, labelled |-> now]]]
               /\ raced' = raced \cup
                     UNION {seconds \cap DOMAIN batch[q] : q \in Passes \ {p}}
  /\ UNCHANGED <<now, up, evidence, seedTs, pushed, govern, marked, learned,
                 view, todo, list, fresh, stale, risked>>

\* The batch is written in one transaction.  A second that has an outcome by
\* now keeps its strategy and gets the new return and time (ON CONFLICT).
LabelSignals(p) ==
  /\ stage[p] = "label" /\ Goto(p, "review")
  /\ outcome' = [t \in DOMAIN outcome \cup DOMAIN batch[p] |->
       IF t \notin DOMAIN batch[p] THEN outcome[t]
       ELSE IF t \notin DOMAIN outcome THEN batch[p][t]
       ELSE [batch[p][t] EXCEPT !.who = outcome[t].who]]
  /\ batch' = [batch EXCEPT ![p] = Nothing]
  /\ UNCHANGED <<now, up, ledger, shadows, seedTs, pushed, govern, marked,
                 learned, view, todo, list, fresh, history>>

\* The lifecycle rows are read once, states and counts; rows whose counts are
\* short are not moved.
Ready(s) ==
  /\ life[s] = "candidacy" => heard[s] >= MinSignals
  /\ life[s] = "probation" => trades[s] >= MinTrades

Review(p) ==
  /\ stage[p] = "review" /\ Goto(p, "govern")
  /\ view' = [view EXCEPT ![p] =
       [s \in Strategies |-> IF Ready(s) THEN life[s] ELSE "none"]]
  /\ UNCHANGED <<now, up, evidence, seedTs, pushed, govern, marked, learned,
                 batch, todo, list, fresh, history>>

\* Mutant: promoted to probation on the count of signals alone.
PassesUngated(v, s) == v = "candidacy" \/ SampleCount(s) >= MinSamples

\* _passes_promotion_gate, and the demotion on a bad record: each asks for a
\* number of samples.
PassesGate(v, s) ==
  SampleCount(s) >= (IF v = "candidacy" THEN FirstSamples ELSE MinSamples)

\* Mutant: more losses than the limit.
MustDemoteLate(v, s) ==
  v = "full" /\ losses[s] > LossLimit /\ SampleCount(s) >= LossSamples

MustDemote(v, s) ==
  v = "full" /\ losses[s] >= LossLimit /\ SampleCount(s) >= LossSamples

Target == [candidacy |-> "probation", probation |-> "full", full |-> "demoted",
           demoted |-> "probation"]

\* Mutant: the trades of the last stay are kept.
TransitionKeeping(p, s) ==
  /\ life' = [life EXCEPT ![s] = Target[view[p][s]]]
  /\ trades' = trades /\ stay' = [stay EXCEPT ![s] = 0]

\* _transition writes over whatever the row says by now: the new state, and
\* probation_trades back to zero.
Transition(p, s) ==
  /\ life' = [life EXCEPT ![s] = Target[view[p][s]]]
  /\ trades' = [trades EXCEPT ![s] = 0] /\ stay' = [stay EXCEPT ![s] = 0]

\* evaluate_lifecycle_transitions judges one row it read by the statistics of
\* the moment and commits.
EvaluateLifecycle(p, s) ==
  /\ stage[p] = "govern" /\ view[p][s] # "none"
  /\ LET v == view[p][s]
     IN  \/ /\ PassesGate(v, s) \/ MustDemote(v, s)
            /\ Transition(p, s)
            /\ stale' = (stale \ {<<p, s>>}) \cup
                 {<<q, s>> : q \in {q \in Passes \ {p} : view[q][s] # "none"}}
         \/ /\ ~MustDemote(v, s)
            /\ stale' = stale \ {<<p, s>>} /\ UNCHANGED <<life, trades, stay>>
  /\ view' = [view EXCEPT ![p][s] = "none"]
  /\ UNCHANGED <<now, up, evidence, seedTs, pushed, heard, losses, sold,
                 marked, learned, stage, batch, todo, list, fresh, raced, risked>>

\* promote_discovery_rules reads the rules not promoted and the saved list.
ReadRules(p, unmarked) ==
  /\ todo' = [todo EXCEPT ![p] = unmarked]
  /\ list' = [list EXCEPT ![p] = learned]

Governed(p) ==
  /\ stage[p] = "govern" /\ \A s \in Strategies : view[p][s] = "none"
  /\ Goto(p, "promote") /\ ReadRules(p, Rules \ marked)
  /\ UNCHANGED <<now, up, evidence, seedTs, pushed, govern, marked, learned,
                 batch, view, fresh, history>>

\* discovery_loop, on the event loop: rules mined again come back as rows that
\* are not promoted, and promotion follows.
Mine ==
  /\ up /\ stage[Loop] = "idle" /\ Goto(Loop, "mined")
  /\ \E found \in SUBSET Rules \ {{}} :
       marked' = marked \ found /\ ReadRules(Loop, Rules \ marked')
  /\ UNCHANGED <<now, up, evidence, seedTs, pushed, govern, learned, batch, view,
                 fresh, history>>

Promoting(p) == stage[p] \in {"promote", "mined"}

\* A rule that survives the tests is marked in a commit of its own ...
MarkRule(p, r) ==
  /\ Promoting(p)
  /\ r \in todo[p] \ In(list[p])
  /\ marked' = marked \cup {r} /\ fresh' = [fresh EXCEPT ![p] = @ \cup {r}]
  /\ list' = [list EXCEPT ![p] = Append(@, r)]
  /\ UNCHANGED <<now, up, evidence, seedTs, pushed, govern, learned, stage,
                 batch, view, todo, history>>

\* Mutant: the pass saves its own rules alone.
EndOfOwn(p) == SelectSeq(list[p], LAMBDA r : r \in fresh[p])

\* The end of a list that fits.
EndOf(p) ==
  LET n == Len(list[p])
  IN  SubSeq(list[p], (IF n > KeepRules THEN n - KeepRules ELSE 0) + 1, n)

\* ... and if there was one the list read before is written, with the new ones,
\* over the saved one.
SaveRules(p) ==
  /\ Promoting(p)
  /\ Goto(p, IF stage[p] = "mined" THEN "idle" ELSE "seed")
  /\ learned' = IF fresh[p] = {} THEN learned ELSE EndOf(p)
  /\ risked' = IF \E q \in Passes \ {p} : Promoting(q)
               THEN risked \cup fresh[p] ELSE risked
  /\ todo' = [todo EXCEPT ![p] = {}] /\ list' = [list EXCEPT ![p] = <<>>]
  /\ fresh' = [fresh EXCEPT ![p] = {}]
  /\ UNCHANGED <<now, up, evidence, seedTs, pushed, govern, marked, batch, view,
                 stale, raced>>

\* Outcomes labelled after the last seeding, oldest label first, SeedLimit of
\* them; the mark moves to the newest label taken.
SeedRL(p) ==
  /\ stage[p] = "seed" /\ Goto(p, "idle")
  /\ LET new   == {t \in DOMAIN outcome : outcome[t].labelled > seedTs}
         Before(t) == {u \in new : \/ outcome[u].labelled < outcome[t].labelled
                                   \/ outcome[u].labelled = outcome[t].labelled /\ u < t}
         taken == {t \in new : Cardinality(Before(t)) < SeedLimit}
     IN  /\ pushed' = pushed \cup {[at |-> t, who |-> outcome[t].ret] : t \in taken}
         /\ seedTs' = IF taken = {} THEN seedTs
                      ELSE CHOOSE n \in {outcome[t].labelled : t \in taken} :
                             \A t \in taken : outcome[t].labelled <= n
  /\ UNCHANGED <<now, up, evidence, govern, marked, learned, memory, history>>

\* Passes end where they stand: what they held in memory is gone.
Cut(P) ==
  /\ stage' = [p \in Passes |-> IF p \in P THEN "idle" ELSE stage[p]]
  /\ batch' = [p \in Passes |-> IF p \in P THEN Nothing ELSE batch[p]]
  /\ view' = [p \in Passes |-> IF p \in P THEN [s \in Strategies |-> "none"] ELSE view[p]]
  /\ todo' = [p \in Passes |-> IF p \in P THEN {} ELSE todo[p]]
  /\ list' = [p \in Passes |-> IF p \in P THEN <<>> ELSE list[p]]
  /\ fresh' = [p \in Passes |-> IF p \in P THEN {} ELSE fresh[p]]
  /\ stale' = stale \ (P \X Strategies)
  /\ risked' = risked \cup UNION {fresh[p] : p \in P}
  /\ UNCHANGED <<now, evidence, seedTs, pushed, govern, marked, learned, raced>>

\* An exception ends a pass, or the trainer's process dies.
PassFails(p) == stage[p] # "idle" /\ Cut({p}) /\ UNCHANGED up

\* The engine's process dies, and with it the passes of its threads.
Crash ==
  /\ up /\ up' = FALSE
  /\ \E P \in SUBSET Passes : Loop \in P /\ Cut(P)

Restart ==
  /\ ~up /\ up' = TRUE
  /\ UNCHANGED <<now, evidence, seedTs, pushed, govern, marked, learned, stage,
                 memory, history>>

-----------------------------------------------------------------------------
Init ==
  /\ now = 0 /\ up = TRUE /\ ledger = <<>> /\ shadows = <<>>
  /\ outcome = Nothing /\ seedTs = -1 /\ pushed = {}
  /\ life = [s \in Strategies |-> IF s \in Core THEN "full" ELSE "candidacy"]
  /\ heard = [s \in Strategies |-> 0] /\ trades = [s \in Strategies |-> 0]
  /\ losses = [s \in Strategies |-> 0] /\ sold = [s \in Strategies |-> 0]
  /\ stay = [s \in Strategies |-> 0]
  /\ marked = {} /\ learned = <<>>
  /\ stage = [p \in Passes |-> "idle"] /\ batch = [p \in Passes |-> Nothing]
  /\ view = [p \in Passes |-> [s \in Strategies |-> "none"]]
  /\ todo = [p \in Passes |-> {}] /\ list = [p \in Passes |-> <<>>]
  /\ fresh = [p \in Passes |-> {}]
  /\ stale = {} /\ raced = {} /\ risked = {}

\* What refresh_all_learning does, and the promotion of discovery_loop.
Pass(p) ==
  \/ StartPass(p) \/ LabelSignals(p) \/ Review(p) \/ Governed(p)
  \/ \E s \in Strategies : EvaluateLifecycle(p, s)
  \/ \E r \in Rules : MarkRule(p, r)
  \/ SaveRules(p) \/ SeedRL(p)

Next ==
  \/ Tick \/ Engine \/ Mine \/ Crash \/ Restart
  \/ \E p \in Passes : Pass(p) \/ PassFails(p)
  \/ \E s \in Strategies : LossesAge(s)

\* Whoever runs passes keeps starting them (every five minutes, after every
\* close), a pass waits for nothing, and the supervisor starts an engine that
\* stopped.
Spec ==
  Init /\ [][Next]_vars /\ WF_vars(Restart) /\ \A p \in Passes : WF_vars(Pass(p))

-----------------------------------------------------------------------------
\* Evidence before capital: a strategy outside the grandfather set has capital
\* only with MinSignals shadow signals and FirstSamples labelled signals or
\* closed trades, also when later passes count fewer samples than the gate saw,
\* and when two of them judge it at once (evaluate_lifecycle_transitions,
\* strategy_performance).
HasRecord(s) ==
  /\ heard[s] >= MinSignals
  /\ Cardinality(Sampled(s, FALSE)) >= FirstSamples \/ sold[s] >= FirstSamples

CapitalNeedsEvidence ==
  TypeOK /\ \A s \in Strategies \ Core : life[s] \in Funded => HasRecord(s)

\* Full capital is earned anew on every probation: trades of an earlier stay do
\* not count, whatever way the strategy came back (_transition's reset).  Only a
\* pass that read the state before another one moved the strategy can grant it
\* on what it read.
FullIsEarned ==
  [][\A s \in Strategies :
       life[s] # "full" /\ life'[s] = "full" =>
         stay[s] >= MinTrades \/ \E p \in Passes : <<p, s>> \in stale]_vars

\* A labelled second keeps its label, also when a later pass finds rows of it
\* that could not be priced before (ledger_ts NOT IN).  Only two passes that both
\* read the second before either wrote it write it twice, and the strategy it is
\* credited to stays the same even then (ON CONFLICT DO UPDATE).
LabelsAreFinal ==
  [][\A t \in DOMAIN outcome :
       /\ t \in DOMAIN outcome' /\ outcome'[t].who = outcome[t].who
       /\ outcome'[t] = outcome[t] \/ t \in raced]_vars

\* While the list is not full, a rule marked as promoted is in it or about to be
\* saved, but for two ways to lose it: its pass was cut between the mark and the
\* save, or it was saved while another pass held the list it had read before
\* (promote_discovery_rules).
KeptIn(q) ==
  Len(q) < KeepRules => marked \subseteq In(q) \cup risked \cup UNION {fresh[p] : p \in Passes}

MarkedRuleIsKept == KeptIn(learned)

\* Why they hold.  Evidence is never lost once a strategy has left candidacy, and
\* what a pass read of a strategy is backed by it.
Evidenced ==
  \A s \in Strategies \ Core :
    /\ life[s] # "candidacy" => HasRecord(s)
    /\ \A p \in Passes : /\ view[p][s] = "candidacy" => heard[s] >= MinSignals
                         /\ view[p][s] \notin {"none", "candidacy"} => HasRecord(s)

\* The counter of probation trades counts none that the present stay has not
\* seen, and who read it as long enough was right, or the strategy has moved.
Counted == \A s \in Strategies : trades[s] <= stay[s]

Earned ==
  \A p \in Passes, s \in Strategies :
    view[p][s] = "probation" => stay[s] >= MinTrades \/ <<p, s>> \in stale

\* A pass at work on the rules could save its list now, and its own rules are on
\* it.
ListsKept ==
  \A p \in Passes : IF Promoting(p) THEN KeptIn(list[p]) /\ fresh[p] \subseteq In(list[p])
                    ELSE fresh[p] = {}

\* What is about to be written has no outcome yet, and nobody else has it in hand,
\* or it was raced for.
RacesSeen ==
  \A p \in Passes :
    /\ DOMAIN batch[p] \cap DOMAIN outcome \subseteq raced
    /\ \A q \in Passes \ {p} : DOMAIN batch[p] \cap DOMAIN batch[q] \subseteq raced

LearningInv ==
  /\ TypeOK /\ Evidenced /\ Counted /\ Earned
  /\ MarkedRuleIsKept /\ ListsKept /\ RacesSeen

\* Structural losses end in demotion: a strategy with full capital, a record and
\* LossLimit of them loses it at the next pass, if they do not age out first and
\* the engine, or the passes before they have judged, do not fail for ever.
LossesDemote ==
  []<><<Crash \/ \E p \in Passes : stage[p] \in {"label", "review", "govern"} /\ PassFails(p)>>_vars \/
  \A s \in Strategies :
    life[s] = "full" /\ losses[s] >= LossLimit /\ SampleCount(s) >= LossSamples
      ~> (life[s] # "full" \/ losses[s] < LossLimit)

\* seed_rl_from_strategy_signals "learns from every fired signal": when the
\* seeding is past a second, what every signal of it returned has been pushed.
LearnsFromEverySignal ==
  \A i \in DOMAIN ledger :
    ledger[i].at \in DOMAIN outcome /\ outcome[ledger[i].at].labelled <= seedTs
      => [at |-> ledger[i].at, who |-> ledger[i].who] \in pushed
=============================================================================
