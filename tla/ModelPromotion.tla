----------------------------- MODULE ModelPromotion -----------------------------
(***************************************************************************)
(* Training and promotion of the reinforcement learner's weights: the      *)
(* guarded training (snapshot, train in place, shadow backtest, keep or    *)
(* revert), who runs it (the engine after a trade, the post-market         *)
(* routine, the command line), the day mark that skips it, the per-regime  *)
(* copies and what the running agent has loaded.                           *)
(*                                                                         *)
(* Three trainers share the files and no lock: "trade" and "post" are      *)
(* threads of the engine, "cli" is a process of its own.  Weights are the  *)
(* number of the training that made them, 0 what was there before.  The    *)
(* verdict of the backtest is an open choice.  With SB3 a training writes  *)
(* sb3_ppo.zip and leaves policy.npz, the file the guard copies, alone; it *)
(* falls back to policy.npz when it fails.  Between any two steps of a     *)
(* training an exception or the death of its process may end it; a file is *)
(* copied or saved in one step.                                            *)
(*                                                                         *)
(* Init, Next and Spec carry the component's name: LearningProofs extends  *)
(* this module together with another.                                      *)
(***************************************************************************)
EXTENDS Integers, FiniteSets

CONSTANTS
  SB3,           \* stable_baselines3 is there and RL_USE_SB3 is on
  MaxTrainings,  \* bound: trainings that make weights
  None

ASSUME PromotionAssumption ==
  SB3 \in BOOLEAN /\ MaxTrainings \in Nat /\ None \notin Nat

Trainers == {"trade", "post", "cli"}
OfEngine == {"trade", "post"}
Weights  == 0 .. MaxTrainings
File     == Weights \cup {None}
Points   == {"idle", "train", "compare", "accept", "reject", "after"}

VARIABLES
  live,      \* policy.npz
  stable,    \* policy_stable.npz
  zip,       \* sb3_ppo.zip
  regime,    \* regimes/<bucket>/policy.npz, one bucket
  at,        \* trainer -> the next step of guarded_train_and_promote
  made,      \* trainer -> the weights its training made
  base,      \* history: trainer -> policy.npz when it began
  policy,    \* the agent: RLAgent._policy
  sb3,       \* the agent: RLAgent._sb3_model
  trained,   \* settings.rl_train_day is today
  closed,    \* settings.postmarket_routine_day is today
  count,     \* weights made so far
  rejected,  \* history: weights a backtest turned down
  spared,    \* history: those whose training was cut before the revert
  overlap    \* history: two trainings were under way at once

files == <<live, stable, zip, regime>>
agent == <<policy, sb3>>
today == <<trained, closed>>
job   == <<at, made, base>>
verdicts == <<rejected, spared>>
promotionVars == <<files, agent, today, job, count, verdicts, overlap>>

PromotionType ==
  /\ live \in File /\ stable \in File /\ zip \in File /\ regime \in File
  /\ at \in [Trainers -> Points]
  /\ made \in [Trainers -> File] /\ base \in [Trainers -> File]
  /\ policy \in File /\ sb3 \in File
  /\ trained \in BOOLEAN /\ closed \in BOOLEAN
  /\ count \in Weights /\ overlap \in BOOLEAN
  /\ rejected \subseteq Weights /\ spared \subseteq rejected

MoveTo(p, q) == at' = [at EXCEPT ![p] = q]

\* Trainings that are over: what they had in memory is gone.
Over(P) ==
  /\ at' = [p \in Trainers |-> IF p \in P THEN "idle" ELSE at[p]]
  /\ made' = [p \in Trainers |-> IF p \in P THEN None ELSE made[p]]
  /\ base' = [p \in Trainers |-> IF p \in P THEN None ELSE base[p]]

\* RLAgent.act: the zip, when one was loaded, before the policy.
ActsOn == IF sb3 # None THEN sb3 ELSE policy

\* RLAgent._load_policy: with a zip the old policy stays where it is.
Load(old) ==
  /\ sb3' = (IF SB3 THEN zip ELSE None)
  /\ policy' = (IF SB3 /\ zip # None THEN old ELSE live)

-----------------------------------------------------------------------------
\* Who may begin: after a trade always, the routine once a day and not when
\* the day's training is marked, the command line whenever it is called.
MayBegin(p) ==
  p = "post" => ~closed /\ ~trained

\* Mutant: the snapshot is taken only when there is none.
BeginOnce(p) ==
  /\ at[p] = "idle" /\ MayBegin(p) /\ MoveTo(p, "train")
  /\ stable' = (IF stable = None THEN live ELSE stable)
  /\ base' = [base EXCEPT ![p] = live]
  /\ made' = [made EXCEPT ![p] = None]
  /\ overlap' = (overlap \/ \E q \in Trainers \ {p} : at[q] # "idle")
  /\ UNCHANGED <<live, zip, regime, agent, today, count, verdicts>>

\* snapshot_stable_policy, the first thing a training does.
Begin(p) ==
  /\ at[p] = "idle" /\ MayBegin(p) /\ MoveTo(p, "train")
  /\ stable' = (IF live # None THEN live ELSE stable)
  /\ base' = [base EXCEPT ![p] = live]
  /\ made' = [made EXCEPT ![p] = None]
  /\ overlap' = (overlap \/ \E q \in Trainers \ {p} : at[q] # "idle")
  /\ UNCHANGED <<live, zip, regime, agent, today, count, verdicts>>

\* The routine finds the day marked by a training after a trade: no training,
\* no backtest, the day is done.
PostSkips ==
  /\ at["post"] = "idle" /\ ~closed /\ trained /\ closed' = TRUE
  /\ UNCHANGED <<files, agent, trained, job, count, verdicts, overlap>>

Made(p) ==
  /\ at[p] = "train" /\ count < MaxTrainings /\ count' = count + 1
  /\ made' = [made EXCEPT ![p] = count']
  /\ MoveTo(p, IF p = "trade" \/ stable = None THEN "accept" ELSE "compare")
  /\ UNCHANGED <<stable, regime, agent, today, base, verdicts, overlap>>

\* train_sb3 goes on from the zip and saves the zip.
TrainSB3(p) == SB3 /\ Made(p) /\ zip' = count' /\ UNCHANGED live

\* train_ppo goes on from policy.npz and saves policy.npz.
TrainNumpy(p) == Made(p) /\ live' = count' /\ UNCHANGED zip

\* Too few transitions: nothing is made, nothing marked.
TrainSkipped(p) ==
  /\ at[p] = "train"
  /\ IF p = "trade" THEN Over({p}) ELSE MoveTo(p, "after") /\ UNCHANGED <<made, base>>
  /\ UNCHANGED <<files, agent, today, count, verdicts, overlap>>

\* compare_policies replays policy_stable.npz and policy.npz as they are now:
\* the verdict.  What follows from it is done later.
Compare(p) ==
  /\ at[p] = "compare"
  /\ \/ MoveTo(p, "accept") /\ UNCHANGED verdicts
     \/ MoveTo(p, "reject") /\ rejected' = rejected \cup {made[p]} /\ UNCHANGED spared
  /\ UNCHANGED <<files, agent, today, made, base, count, overlap>>

Accept(p) ==
  /\ at[p] = "accept" /\ MoveTo(p, "after")
  /\ stable' = (IF live # None THEN live ELSE stable)
  /\ trained' = TRUE
  /\ UNCHANGED <<live, zip, regime, agent, closed, made, base, count, verdicts, overlap>>

\* Mutant: the stable copy is made of the candidate, as after a good verdict.
RejectKeeps(p) ==
  /\ at[p] = "reject" /\ MoveTo(p, "after")
  /\ stable' = (IF live # None THEN live ELSE stable)
  /\ trained' = TRUE
  /\ UNCHANGED <<live, zip, regime, agent, closed, made, base, count, verdicts, overlap>>

\* revert_to_stable.
Reject(p) ==
  /\ at[p] = "reject" /\ MoveTo(p, "after")
  /\ live' = (IF stable # None THEN stable ELSE live)
  /\ trained' = TRUE
  /\ UNCHANGED <<stable, zip, regime, agent, closed, made, base, count, verdicts, overlap>>

\* After a trade the agent reloads.
AfterTrade ==
  /\ at["trade"] = "after" /\ Over({"trade"})
  /\ Load(policy)
  /\ UNCHANGED <<files, today, count, verdicts, overlap>>

\* The routine copies policy.npz to the regimes, fine-tuned or not, and closes
\* the day; the command line does neither, the first or both.  No reload.
AfterRoutine(p) ==
  /\ p # "trade" /\ at[p] = "after" /\ Over({p})
  /\ \E copies, closes \in BOOLEAN :
       /\ closes => copies
       /\ p = "post" => closes
       /\ regime' = (IF copies /\ live # None THEN live ELSE regime)
       /\ closed' = (closes \/ closed)
  /\ UNCHANGED <<live, stable, zip, agent, trained, count, verdicts, overlap>>

\* A training ends where it stands: the files stay as they are.
Cuts(P) ==
  /\ Over(P)
  /\ spared' = spared \cup {made[p] : p \in {p \in P : at[p] = "reject"}}
  /\ UNCHANGED <<files, today, count, rejected, overlap>>

\* An exception, which the caller logs, or the command line's process dies.
Fails(p) ==
  /\ at[p] # "idle" /\ Cuts({p}) /\ UNCHANGED agent

\* hot_swap_regime_policy, 08:45: the regime's weights, or policy.npz.
HotSwap ==
  /\ policy' = (IF regime # None THEN regime ELSE live)
  /\ UNCHANGED <<files, sb3, today, job, count, verdicts, overlap>>

\* The engine's process dies with its threads and starts again.
RestartEngine ==
  /\ Cuts(OfEngine) /\ Load(None)

NewDay ==
  /\ trained' = FALSE /\ closed' = FALSE
  /\ UNCHANGED <<files, agent, job, count, verdicts, overlap>>

-----------------------------------------------------------------------------
PromotionInit ==
  /\ live \in {0, None} /\ stable = None /\ regime = None /\ zip = None
  /\ at = [p \in Trainers |-> "idle"]
  /\ made = [p \in Trainers |-> None] /\ base = [p \in Trainers |-> None]
  /\ policy = live /\ sb3 = None
  /\ trained = FALSE /\ closed = FALSE
  /\ count = 0 /\ rejected = {} /\ spared = {} /\ overlap = FALSE

Train(p) == TrainSB3(p) \/ TrainNumpy(p) \/ TrainSkipped(p)

PromotionNext ==
  \/ \E p \in Trainers : \/ Begin(p) \/ Train(p) \/ Compare(p) \/ Fails(p)
                         \/ Accept(p) \/ Reject(p) \/ AfterRoutine(p)
  \/ PostSkips \/ AfterTrade \/ HotSwap \/ RestartEngine \/ NewDay

PromotionSpec == PromotionInit /\ [][PromotionNext]_promotionVars

-----------------------------------------------------------------------------
\* A rejected candidate is never taken for stable, and it is in policy.npz no
\* longer than its own training takes to revert, but for what two trainings at
\* once can do, and for a training cut between the verdict and the revert: its
\* candidate stays live, and the next snapshot makes it stable
\* (guarded_train_and_promote, revert_to_stable).
InHand == {made[p] : p \in {p \in Trainers : at[p] = "reject"}}

Gone ==
  /\ stable \notin rejected \ spared
  /\ live \in rejected \ spared => live \in InHand

RejectedIsGone == PromotionType /\ (overlap \/ Gone)

\* Reverting restores the weights the training began with, also after an
\* earlier training was cut between writing its candidate and judging it
\* (snapshot_stable_policy before every training).
RevertRestores ==
  [][\A p \in Trainers :
       Reject(p) /\ ~overlap /\ base[p] # None => live' = base[p]]_promotionVars

\* Why: weights are numbered by the trainings that ended, and while one trains
\* alone the stable file is the snapshot it began with, never its candidate.
Numbered ==
  /\ {live, stable} \subseteq 0 .. count \cup {None} /\ rejected \subseteq 0 .. count
  /\ \A p \in Trainers : made[p] \in 0 .. count \cup {None}
  /\ \A p \in Trainers : at[p] \in {"compare", "reject"} => made[p] # None
  /\ \A p \in Trainers : at[p] = "reject" => made[p] \in rejected

OneTrainer == \A p, q \in Trainers : at[p] # "idle" /\ at[q] # "idle" => p = q

Snapshot ==
  \A p \in Trainers :
    /\ at[p] \in {"train", "compare", "reject"} /\ base[p] # None => stable = base[p]
    /\ at[p] \in {"compare", "reject"} => stable \notin {None, made[p]}

PromotionInv ==
  /\ PromotionType /\ Numbered
  /\ overlap \/ (OneTrainer /\ Snapshot /\ Gone)

\* "Shadow backtest - revert if candidate regresses": what a training made and
\* its backtest turned down is not what the agent acts on.
RejectedNeverActs == ActsOn \notin rejected
=============================================================================
