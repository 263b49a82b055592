# BharatQuant in TLA+

BharatQuant (`src/`) is an event-driven trading agent for the Indian exchange
NSE. One Python process, the engine, turns market events into orders on paper
or at the broker Kite; a second process, the dashboard, halts it, approves
budgets and buys by hand; a third, the supervisor, keeps both running. All
write one SQLite database. This directory holds TLA+ modules translated from
that code, TLC configurations for small instances, and TLAPS proofs for all
instances.

Paths below are relative to `src/src/` unless they start with `src/`.

## 1. Inventory

| part | state it keeps | operations | hard behaviour | module |
|---|---|---|---|---|
| Pollers `ingest/`, `feeds/session_watcher.py` | what each has seen, in memory | fetch, mark, record, publish | a write fails between mark and event; a malformed row stops a poll; a burst repeats rows; a restart forgets everything | Ingest, Delivery |
| Feeds `feeds/kite_ticker.py`, `feeds/feed_watchdog.py`, `ops/kite_token_watcher.py`, `ops/auth_recovery.py`, `ops/token_refresh.py` | websocket, token verdicts, file time | connect, watch, reconnect, login | two handles of one feed, cached verdicts, debounce against retry, a start that fails after the stop | KiteFeed |
| Bars and recording `feeds/bar_aggregator.py`, `data/tick_recorder.py` | open bars, histories, two buffers | tick, flush | a flush before the bucket is over, late ticks, failed commits | Bars |
| Regime `agent/regime_classifier.py`, `agent/regime_change_detector.py` | label, pending label and count | classify, tilt, shock, persist | four writers of one label | Regime, Bars |
| Context `agent/context_updater.py`, `strategies/base.py` | last flows, GIFT, macro, VIX, ranges | one update per event | stale halves of two sources | MarketData |
| Strategies `strategies/` | two flags, ranges and returns in the context | `on_event` | rules that contradict each other or never fire | Signals |
| Event bus `events/bus.py` | one queue, handlers per type | `publish`, `run` | one handler at a time; an exception drops the event | all |
| Execution engine `engine/execution_engine.py` | the deploy lock; reads the books | gates, dispatch, vetoes, BUY, SELL | strategies are awaited between the gates and the order | ExecutionEngine, LiveOrders |
| Fusion and vetoes `agent/router.py`, `agent/signal_combiner.py` | signals of the last 500 ms | fuse, veto | an exit merges with entries; a hedge passes by most vetoes | ExecutionEngine, MarketData |
| Position monitor `exec/position_monitor.py`, `ops/mis_squareoff.py` | peaks, day of the last square-off | tick, 15:10 and close exits | exits share the cooldown of entries | ExecutionEngine |
| Live orders `exec/live_broker.py`, `exec/pending_orders.py`, `exec/order_fill_handler.py`, `exec/broker_sl.py` | `pending_orders`, `trades`, `cash_ledger`, `fifo_lots`, `positions` | place, record, settle, SL-M backup | fills lost or repeated, lost replies, one commit per table | LiveOrders, Settlement |
| Paper books `accounting/fifo_lots.py`, `ops/manual_trade.py`, `ops/panic_halt.py` | lots, rows, trades, cash | buy, sell, panic | engine and dashboard threads between each other's commits | PaperLedger |
| Reconciliation `ops/reconciliation.py` | mismatch streak | repair every few minutes | interleaves with fills in flight; cannot repair a short | LiveOrders |
| Kill switch `ops/kill_switch.py` | `settings.trading_halted` | halt, resume | set while a handler is past the check | LiveOrders, PaperLedger |
| Daily budget `ops/budget_gate.py` | maximum, rolled pool, days, the pending request | check, stipend, rollover, request, approve, expire | two processes, two commits per update | BudgetGate, BudgetApproval |
| Learning and lifecycle `intelligence/strategy_learning.py`, `agent/strategy_lifecycle.py` | ledger, shadows, labels, states, rules | label, evaluate, mine, save, seed | passes that overlap and are cut, each reading first and writing later | StrategyLearning |
| Model training `rl/training_guardrails.py` | policy files, day marks | snapshot, train, judge, revert | three trainers, no lock | ModelPromotion |
| Supervisor `ops/market_supervisor.py` | pid files, heartbeat, restart flag | start, stop, adopt | processes die between two looks | Supervisor |
| Suggestions `ops/manual_trade.py`, `api/dashboard.py` | `user_suggestions` | create, propose, resolve | waits for an outcome that cannot come | MarketData |

`PROJECT.json` lists every part with its status, those not modelled too, and
every hazard with its line.

### How the parts interact
Pollers and feed publish to the bus. For each event the context updater writes
the market context, the engine asks the strategies, the router picks and vetoes,
and the deploy section buys or sells; the aggregator turns ticks into bars that
go to the end of the same bus, and a recorder writes both in tasks of its own.
Dashboard and engine share tables only. The supervisor sees processes, pid
files and one heartbeat row.

## 2. Modules

### Data in: Ingest, Delivery, Signals, Regime, Bars, MarketData
`Ingest` describes each poller by the order of its mark, record and event and by
its memory (`Pollers`); `PollAll`, `PollFails`, `PreopenCut`, `BulkBurst`,
`PollSpeaks`, `SpeaksCut` are its polls, `Appears` a new row at the source,
`Vanishes` one that a list drops. A row is what the key of its poller tells
apart: symbol, date and forty characters of the description for the RSS feed,
symbol, quantity, date and client for a bulk deal, the first row and the length
for the participants' table. A row may be malformed (`bad`; `Misread` names the
sources whose poller minds): it raises before it is marked, at every poll that
finds it listed, so that rows behind it are not `Reached`; bulk deals are made
numbers of all at once, so that one bad row stops all; the pre-open batch is
marked first and then cut where a price is no number. `BulkBurst` begins with an
empty memory: what it publishes again is counted in `again`, not in `sent`.

`Delivery` is the abstract specification: in one life the poller of a row
publishes it at most once, a burst repeats the deals once each, nothing
malformed goes out, and a failed write loses one row. `MarketData` composes
Ingest with the context (`Updated`), all rule strategies
(`Signals!RuleSignals`), their writes into the context (`Written`), the router's
pool (`Pool`, `Regime!Whitelist`) and the owner's suggestions (`Suggest`,
`Suggested`, `Resolve`): `Handle` is one event of the bus, in the order of the
subscriptions. It implements `Delivery` under the refinement mapping `RowKind`,
`RowTimes`, `RowsDone`, with the polls and faults used as its bursts and faults
(the property `RowsAsPromised`).

`Signals` has one operator per rule strategy: which events it listens to, under
which condition of event and context it buys, sells or hedges. Conditions over
histories and tables are facts `f` of the environment. `Regime` has both
classifiers, the tilt by flows, the shock, the persistence and the whitelist.

`Bars` is the aggregator for three intervals (`BarsOnTick`, `FlushAll`,
`Emit` for what a bar publishes, `Learn` for what its histories become), the
recorder with its two buffers (`Record`, `Flush`, `FlushFails`, `FlushLoop`)
and the regime refreshed by bars, flows and session changes (`Refresh`,
`Premarket`). A flush emits the symbols in the order of a dictionary, which is
that of their first ticks: `EmitOpened` takes any order. The recorder's tasks
run when the bus has nothing to handle, because the bus does not suspend
before. `ghost` and the number `n` of a bar's ticks only observe.

### ExecutionEngine
From an event to a paper trade. The state is the positions table (`held`, and
one bit of price, `low`), the gates (`cooling`, `halted`, `slumber`,
`benched`), the bus with the events the engine sends itself, and the clocks
(`phase` is the program's idea of the session, `day` the exchange's). Handlers:
`OnTick`, `HandleExit`, `HandleSnapshot`, `HandleClose`, `HandleSignal`,
`HandleHedge`, `Breaker`; beside the bus: `Snapshot`, `SquareOff`, `Poll`,
`Learn`, `Halt`, `Slumber`, `Restart`; the world: `Cool`, `Move`, `Exchange`.
`MayEnter` collects the vetoes of a BUY; `SellFor`, `BuyFor`, `NetBuy` are the
three things fusion makes of a signal. A handler is one action because in paper
trading `on_event` does not yield between its checks and its trade. Sizes, cost,
RL and correlation vetoes are open choices (`Pass`). Positions are the engine's
own entries: the dashboard's manual buys (`manual_trade.py`) ask for no limit of
positions and are not in this module.

### LiveOrders
The life of a live order: the broker's view (`status`, `qty`, `stop`, `net`),
the engine (`bus`, `up`, `pc`, `cur`, `sig`) and the tables (`row`, `trades`,
`cash`, `booked`, `lots`, `pos`, `deployed`, `halted`, `streak`, `cooling`). A
handler is cut at its commits and at the await of the dispatch: `Decide`,
`Submit`/`SubmitTimesOut`, `RecordPending`, `MarkPlaced`; `BeginSettle`,
`SettleTrade`, `SettleCash`, `OpenLot` or `CloseLots`/`ReducePosition`,
`MarkFilled`; `HandleUnsettled`, `HandleStopFill`. `Reconcile` interleaves where
the handler awaits; `Crash` and `Restart` come between any two commits. A share
costs one rupee without fees; lots are a sum per symbol; limit chase is off, as
by default. The dashboard's manual buys, which run in live mode too
(`manual_trade.py` does not ask for the mode), are not in this module; nothing is
proved here about the daily cap, which they would share.

`Settlement` is the abstract specification of the books: per order, whether it
is new, open, dead, complete or settled (`LifeOf`), how often it was paid and
applied, and how often the engine was cut short. `SettleCash` implements its
`Pay`, `OpenLot` and a `CloseLots` that finds its lots `Apply`, `MarkFilled`
`Settle`, `Submit` and `SubmitTimesOut` `Send`, the broker's `BrokerFill` and
`BrokerReject` `Answer`, `Crash` `CutShort`; all other steps do nothing it
speaks of.

### PaperLedger
The same tables on paper with the engine and any number of request threads of
the dashboard (`Threads`), each of which panics or buys by hand; a manual buy may
name any quantity that the cash and `can_deploy` (`MaxOrder`) let through. Every
commit is an action; what is written was read before, outside
of a transaction. `torn` remembers symbols on which two actors worked at once or
an operation was cut short (`Die`: a commit fails, or a process dies, the
dashboard with all its threads): the properties say what still holds on the others.

### BudgetGate and BudgetApproval
`BudgetGate`: `CheckBuy`, `RecordBuy`, `ConsumeRolled`, `HandleFill` are the
deploy section and the paper fill that comes back over the bus; `CheckManual`,
`RecordManual` the dashboard's buy; `CreditPool`/`CreditDay` and
`RollPool`/`RollDay` the two commits of stipend and rollover. `BudgetApproval`
cuts a request for a higher maximum at the commits of `set_setting`: expiry,
request, approval and rejection are programs of steps per process, each of which
a crash may cut. An approval may come at any time and may name an amount of its
own (`Named`), as `/api/budget/approve` allows.

### StrategyLearning
`Fused` and `NothingFused` are what one second of signals leaves in the ledger
and the shadow trades, `Closes` what a closed trade does. Any number of learning
passes (`Passes`) may overlap; the one called `Loop` runs on the event loop, so
the engine handles nothing while it is under way, the others run in threads or
processes of their own. `StartPass`, `LabelSignals`, `Review`,
`EvaluateLifecycle`, `Governed`, `MarkRule`, `SaveRules`, `SeedRL` are its commits
in order, `Mine` the discovery loop. What a pass read and has not written yet is
in `batch` (outcomes), `view` (states), `todo` and `list` (rules, `ReadRules`):
the write goes by that, whatever another pass has committed meanwhile.
`SampleCount` is the program's choice between executed signals, all signals and
closed trades, with the thresholds of the promotions and of the demotion apart.
Passes are cut one by one (`PassFails`) or with the engine (`Crash`). `stale`,
`raced` and `risked` only remember where two passes met. Fitness figures are open
choices, the counts they need are kept.

### ModelPromotion
Weights are the number of the training that made them. `Begin`, `TrainSB3`,
`TrainNumpy`, `TrainSkipped`, `Compare`, `Accept`, `Reject`, `Fails` are
`guarded_train_and_promote` for three trainers over the files; `HotSwap`,
`AfterTrade` and `RestartEngine` what the agent loads. The verdict falls in `Compare`
(`rejected`); the revert is a later step, `Reject`, and a training cut between
the two leaves its candidate where it is (`spared`). A file is copied or saved in
one step: torn files are not modelled.

### Supervisor and KiteFeed
`Supervisor` cuts a poll of `run_supervisor` at its looks at the operating
system; processes are up, dying or hung. `KiteFeed` has the token, the stored
feed and the one the recovery starts beside it, the verdicts cached by engine
and supervisor, and what restarts a feed: watchdog, a new token file, the end of
a screen (`ScreenDone`), the recovery. A start may fail after a good verdict
(`MaxMisses`): the token file cannot be read, no instrument is known, or fetching
the instruments raises, which at boot ends the engine (`BootFails`). Logins leave the restart flag
that both modules have.

### Proof and MC modules
`LiveOrdersProofs`, `BudgetGateProofs`, `BudgetApprovalProofs`,
`ExecutionEngineProofs`, `PaperLedgerProofs`, `MarketDataProofs` and
`BarsProofs` extend the module they are named for, `LearningProofs` extends
StrategyLearning. Three extend a second component and prove about it too:
`ExecutionEngineProofs` Supervisor, `LearningProofs` ModelPromotion, `BarsProofs`
KiteFeed; there Init, Next and Spec are named for the component
(`SupervisorSpec`, `PromotionSpec`, `FeedSpec`). `MC*` declare the model values
and the constants that are functions or sets of records.

## 3. Runs

| run | shows |
|---|---|
| `live` | crash consistency of a settlement (`CommitPrefix`), the refinement of Settlement (`SettlesAsPromised`), no fill before its order is recorded (`NoEarlyFill`), at most one order under a halt (`HaltLetsOneThrough`), the inductive invariant, and that the books come to agree with the broker (`BooksConverge`) or a short halts trading (`ShortLeadsToHalt`) |
| `budget` | the ceiling up to slippage (`EngineKeepsCap`), up to one stale order per manual buy (`OverspendBounded`), stipend and rollover once a day but for crashes (`OncePerDay`) |
| `approval` | the engine alone waits for the timeout (`EngineAloneWaits`), no request blocks later ones for ever (`PendingResolved`) |
| `engine` | the positions the engine opens stay bounded (`PositionsBounded`), entries pass all gates (`EntriesGated`), a stop is acted on (`ArmedStopActs`) |
| `ledger` | rows, lots and trades agree outside of torn symbols (`RowsLotsAndTradesAgree`), trades explain the cash (`TradesExplainCash`), N dashboard threads and the engine overdraw it by N orders at most (`OverdraftBounded`), a sale of a clean row finds its lots (`SalesOfCleanRowsSucceed`) |
| `learning` | capital needs evidence (`CapitalNeedsEvidence`), full capital is earned anew (`FullIsEarned`), labels are final (`LabelsAreFinal`), a promoted rule is kept (`MarkedRuleIsKept`), losses demote (`LossesDemote`); with two passes at once, and each but for a race it names: a state read before another pass moved it, a second both had read, a rule of a pass cut or of lists that overlapped |
| `model` | a rejected candidate is gone from the files (`RejectedIsGone`), a revert restores what the training began with (`RevertRestores`), both but for overlapping trainings; the first also but for a candidate whose training was cut between verdict and revert, which stays live and which the next snapshot makes stable |
| `supervisor` | no second engine (`OneEngine`), a healthy engine is left alone (`HealthyIsLeftAlone`), the stack comes back (`StackComesBack`) |
| `feed` | a live feed is lost only to a failed check of the token or a failed start (`KeepsTicking`), ticks come back where the watchdog is armed (`TicksComeBack`) |
| `bars` | every tick in one bar (`EveryTickInOneBar`), no tick written twice (`RecordedOnce`), a regime changes on repeated evidence (`RegimeNeedsRepeats`) |
| `market` | while trading is on paper, flows, GIFT and macro figures never make the index both a buy and a sale (`FlowsSpeakWithOneVoice`), the pollers implement Delivery through malformed rows, bursts and failed writes (`RowsAsPromised`), a row that stays listed and can be reached is published in the end (`ArrivesAtLast`) |
| `market_user` | finding: a suggestion never competes (section 5) |

Type invariants are conjuncts of the first invariant of a run (`IInv`,
`BudgetInv`, `ApprovalInv`, `CapitalNeedsEvidence`, `RejectedIsGone`,
`RowsLotsAndTradesAgree`, `OneEngine`, `EveryTickInOneBar`,
`FlowsSpeakWithOneVoice`); that of ExecutionEngine is proved.

### Bounds and why they are enough
- `live`: one symbol, since no handler looks at two; a BUY and a SELL order of
  up to two shares, so that a repair, a partial sale and a short occur; one
  crash, one lost reply, one repeated update, one panic (`MaxQty`,
  `MaxCrashes`, `MaxTimeouts`, `MaxDups`, `MaxPanics`), each at any point.
- `budget`: amounts of one or two rupees against a ceiling of one to three, a
  slippage and a fee of one, two days (`MaxDays`) for what is carried over, two
  clients because two stale checks add up, one crash (`MaxCrashes`). The clients
  are symmetric: no property names one, and all are safety properties.
- `approval`: two requests, one under and one over the clamp, a client that names
  none, 0 or an amount over it, one crash. A third request adds nothing: only one is on file.
- `engine`: two stocks and one position allowed, so that one entry makes the
  next one too many; `MaxBus` = 1 event waiting when another is published, and
  more after a square-off.
- `ledger`: two symbols, two lots each (`MaxLots`), orders of one share and cash
  for one, two threads, one panic (`MaxHalts`), one cut: a sale over two lots, a
  panic over two rows, and three buyers for the last rupee occur. The threads are
  symmetric.
- `learning`: one strategy outside the grandfather set, two rules, two passes, on
  the event loop and beside it, three seconds (`MaxNow` = 2), thresholds of one
  (two samples for every gate but the first, `MinSamples`): what matters is the
  order of commits and counts, not their size. The constraint `Apart` explores
  either rules or capital, which share nothing but the order of a pass's steps.
  Two strategies are past ten million states; the proofs are for any number.
- `model`: three trainings (`MaxTrainings`), one for each trainer; a third may
  snapshot what a cut one left.
- `supervisor`: three process numbers (`Pids`), used again when free, three
  faults (`MaxFaults`) and one hang (`MaxHangs`).
- `feed`: three faults (`MaxFaults`), two failed checks of a valid token
  (`MaxFlakes`) and two failed starts (`MaxMisses`).
- `bars`: four slots (`MaxSlot`), bars of one, two and four of them, two prices,
  thresholds of the classifiers scaled to what four ticks reach (`MinReturns`,
  `MinCloses`, `TrailRows`, `PersistBars`). `Plans` lets one kind of thing
  happen often in each behaviour: many ticks, two symbols, a fault around the
  recorder, or news around the regime. At most one event waits when another
  comes.
- `market`: `Plans` gives every source a behaviour of its own with two rows and
  a fault (bulk deals two bursts as well, the RSS feed three rows, so that one is
  before and one behind a malformed one), and lets those that meet in the context come together; `MaxRows` is
  three, `Backlog` one event. Contents lie on both sides of the strategies'
  thresholds; facts are a strong and a weak market; three clocks.

Deadlock is checked except where ticks, days, rows or orders are used up
(`bars`, `market`, `learning`, `ledger`, and the configurations that say so).

### Fairness
- LiveOrders: a handler that began goes on (one coroutine, one bus), the
  process is restarted (the supervisor), the head of a first-in first-out queue
  is not passed over for ever, the reconciliation timer fires again and again.
  Nothing is assumed of the user, of crashes, or of what the broker loses.
- BudgetApproval: an operation that began goes on unless it crashes, the
  heartbeat polls again and again, time passes.
- ExecutionEngine: orders age (`Cool`). A tick that would be sold on and comes
  again and again is once handled between two orders: ticks come by the second
  and an order blocks the next for thirty. Nothing is assumed of entries, the
  learning loop, the dashboard or the price.
- PaperLedger: an order or a panic that began goes on.
- StrategyLearning: whoever runs passes keeps starting them and a pass waits for
  nothing; a stopped engine is started. `LossesDemote` excepts endless crashes and
  passes that fail for ever before they have judged.
- Supervisor: it polls, systemd restarts it, a process that got SIGTERM and is
  not hung exits, heartbeats come and grow old.
- KiteFeed: the engine's tasks and the supervisor take their steps, caches and
  debounce run out, the ticker library reconnects. Nobody has to log in, and no
  screen has to end: an engine whose watchdog is not armed is the exception of
  `TicksComeBack`.
- MarketData: some poller that has something to publish polls, and the bus takes
  its first event. Each poller is a task with a timer of its own, so the code is
  fairer; the weaker assumption suffices.

## 4. Proofs

All theorems hold for every value of the constants under the named
assumptions: finite sets of symbols, clients, strategies, rules and process
numbers, natural numbers, nothing about their size. Each inductive invariant was
checked by TLC before it was proved: `IInv`, `BudgetInv` and `ApprovalInv` in
the runs, the others (`LedgerInv`, `LearningInv`, `PromotionInv`, `IngestInv`,
`MarketInv`, `SupervisorInv`, `FeedInv`; of `Bars` `OrderInv`, `ExtremesInv` and
`RepeatsInv`) as further invariants of the configurations `MCPaperLedger`,
`MCStrategyLearning`, `MCModelPromotion` (with `SB3` true and false),
`MCMarketData`, `MCSupervisor`, `MCKiteFeed` and `MCBars`; they stand at the end of their modules and
are not repeated in the runs, which check what they imply.

- `LiveOrders` (`LiveOrdersAssumption`): `IInv` is inductive (`Invariance`);
  from it `TypeCorrect`, `CommitsInOrder`, `BookedOnce`, `FillsAreExpected`,
  `HaltIsPrompt`. None of the five is inductive alone: that a fill
  is booked once needs that the handler holds the row it read and that a FILLED
  row is never settled again (`HandlerInv`, `BookInv`), that it is expected
  needs where the fills in the bus come from (`OriginInv`). The proof goes by
  conjunct and, in each, by action. `SettlementIsImplemented` proves the
  refinement `SettlesAsPromised` step by step (`PlaceSettles`, `OthersSettle`,
  `SettleSettles`): the guards of `Pay`, `Apply` and `Settle` are what
  `BookInv`, `OnceInv` and `PaidInv` say of the commit the handler is about to
  make, and `CompleteInv` that only completed orders get there. `BookedOnce`
  follows from the refinement as well; it is stated on its own, without a run.
- `BudgetGate` (`BudgetGateAssumption`): `BudgetInv` is inductive
  (`BudgetInvariance`); from it `BudgetTypes`, `EngineCap`, `StipendOnce` and
  `OverspendIsBounded`. The cap needs what the engine has checked and not yet
  recorded (`CapInv`); once a day needs how marks, credits and crashes are
  counted (`OnceInv`). With manual buys the purchases alone are no invariant: a
  buy that was checked will be recorded whatever happens meanwhile, so
  `SpendInv` adds to them what the orders under way may still cost: either all of
  it, with the engine's (`Pending`), is within the ceiling and the slippage, or
  for some client it is within one order for each client more, counting that
  client's order as it is (`Load`) and a whole order for every other.
- `BudgetApproval` (`BudgetApprovalAssumption`): `ApprovalInv` is inductive
  (`ApprovalInvariance`); from it `ApprovalTypes` and `EngineAlone`. The bounds
  are all that can be said of what is granted: a client may name any amount, with
  or without a request, and the request granted need not be the one shown.
- `ExecutionEngine` (`EngineAssumption`): `Stepped` names the six things a step
  can do to the positions (`StepKinds`, one case per action); on it rest
  `Bound` (`PositionsBounded` with the type of the table is inductive) and
  `Gates`. `Types` is proved action by action.
- `Supervisor` (`SupervisorAssumption`; at the end of `ExecutionEngineProofs`):
  `SupervisorInv` (`SupervisorInvariance`) speaks of processes that
  exist, dying and hung ones included, because that is what a start looks for:
  SIGTERM ends none (`KilledExist`) and a start makes none beside one
  (`StartIsSole`). From it `NoSecondEngine`; `HealthyStays` goes through the
  steps that may signal an engine.
- `PaperLedger` (`LedgerAssumption`): `LedgerInv` is inductive
  (`LedgerInvariance`). `BooksAgree` states what holds of a symbol nobody is at
  work on; in between, `Sound` says at each step of the one order under way how
  far rows, lots and trades are apart, and that it still sells the whole row it
  read and the shares it planned, from which `CleanSalesSucceed` follows.
  `LoneSound` reduces it to the one actor that is at work on the symbol.
  `TradesExplain` and `OverdraftIsOneOrderEach` come from `CashInv`, which looks at
  the cash as it will be when the buys under way are paid: a buy is checked
  against the cash of that moment, so that one order of each other buyer is all
  that can be missing (`OthersUnpaid`).
- `StrategyLearning` (`LearningAssumption`): `LearningInv` is inductive
  (`LearningInvariance`), for any number of overlapping passes.
  `CapitalNeedsEvidence` is not: a demoted strategy comes back on its samples
  alone and its signals are not counted again, so `Evidenced` keeps the record
  for whatever has left candidacy and for what any pass read; `Counted` bounds the
  counter of probation trades by the present stay, and `Earned` says the same of a
  state read earlier, or that another pass has moved the strategy since;
  `ListsKept` says that every pass at work on the rules could save its list now,
  and `RacesSeen` that seconds in the hands of two passes are known as raced. From
  them `CapitalAfterEvidence`, `RulesAreKept`, and the action properties
  `FullCapitalIsEarned` and `LabelsStay`, each with the exception its property
  names.
- `ModelPromotion` (`PromotionAssumption`; in the second half of
  `LearningProofs`): `PromotionInv` is inductive (`PromotionInvariance`). While trainings do not
  overlap there is one trainer (`OneTrainer`), and the stable file is the
  snapshot it began with and not its candidate (`Snapshot`); candidates are new
  because they are numbered (`Numbered`); one that was turned down is live only
  while its own training is about to revert (`Gone`, `InHand`), unless that was
  cut (`spared`). From it `RejectedStaysOut` and the action property
  `RevertGivesBack`. Without `spared` the first is false, as TLC confirms.
- `Bars` (`BarsAssumption`, `RegimeAssumption`): `BarsInv` is inductive
  (`BarsInvariance`), and `EveryTickOnce`, `LoggedOnce`, `ExtremesAreSilent` and
  `ChangesAreBacked` are its four parts. The third is no requirement but a defect
  (section 5), and no run checks it. `EveryTickInOneBar` holds with the
  types alone, once a symbol is known to have all three bars open or none
  (`BarsOK`). That the log rises needs the whole way of a tick: what is in the
  log comes before the buffer, that before the tasks, these before the bus
  (`Lined`). That breakouts stay silent needs that a bar carries its own
  extremes while it waits (`Plausible`). `RepeatsInv` says what a count of
  pending labels is worth: as many labels of that name stand at the end of the
  history, or all since one that took over from NEUTRAL and left an older count
  (`Backed`). `PushFacts` is what a bounded deque keeps; `TickStep`, `FlushStep`
  and `RefreshStep` are the three things the handlers are made of.
- `KiteFeed` (`FeedAssumption`; in the second part of `BarsProofs`): `FeedInv`
  is inductive (`FeedInvariance`). Nothing it says is visible in `KeepsTicking`: a bad verdict may stay cached while the token becomes valid
  again, and the watchdog believes it; that no feed is connected then, unless a
  check of a valid token failed, is what makes `TickingIsKept` hold, but for a
  start that fails after a good verdict, when the old feed is already stopped. `CheckKeeps`
  is the shape the four handlers share that look at the token.
- `Ingest` and `MarketData` (`IngestAssumption`, `MarketAssumption`):
  `IngestInv` is inductive (`PollersRemember`): of what is still listed a poller
  remembers all it sent or gave up, which is why a memory of one row suffices
  where the source shows one figure (`Listing`). `PollersDeliver` proves the
  refinement: under `RowKind`, `RowTimes` and `RowsDone` (together `Sight`) every
  step of MarketData is a step of `Delivery` or none. `AscendingType` shows that
  sorting by rank takes every new row once; a poll is then `Polled(src, P, Q, M)`:
  rows published, rows marked and
  the row whose write failed, for all pollers alike (`PollAllIs`,
  `PollFailsIs`), and `PolledSends` maps it to `Sends` or `SendsSome`. `CutGivesUp`
  maps the cut pre-open batch to `GivesUp`, `BurstRepeats` a burst to `Bursts`
  (the poll of a source without a memory is a burst of nothing), `AppearsIsNew` a
  new row to `Appears`, and a restart is `NewLife`; everything the bus does
  changes nothing of `Delivery` (`StepKinds`).
  Behind the bus `MarketInvariance` types the whole context. It rests on what
  `Sane` says of the sources' events: their figures are numbers, a missing key
  counts as 0 (`payload.get(key, 0)`), and the model's bias is in -1 .. 1, where
  `_parse_bias` cuts it. `Proposals` goes through the 65 strategies one by one:
  all but four are silent on flows, GIFT and macro figures. Of the four
  `fii_regime` hedges another symbol and `global_risk_beta` is silent on paper;
  that the thresholds of the other two exclude each other on one context is
  `RulesAgree`, from which `OneVoiceOnFlows` follows whatever the router keeps.
  `Voices` says it of what is proposed, not only of what is kept: the router's
  choice plays no part.

`PaperLedgerProofs` begins with what the proofs need of sums over finite sets: a
sum over a set with one more member (`SumRemove`), of functions that differ at
one member (`SumChange`), over an interval (`SumUpTo`), and bounds (`SumBelow`).
The library's induction theorems take an operator as a parameter and cannot be
used; `SubsetInduction` and `InductionUpTo` state induction for a set of subsets
and of numbers instead, by a smallest counterexample, and that is how the sum,
which the community modules fold over a `CHOOSE`, is shown to exist and to be
unique. The events of a poll are such a fold too; `GatherAll` and `GatherType` of
`MarketDataProofs` show that it exists and what it is a sequence of.

Only model-checked:

- everything under fairness (`BooksConverge`, `ShortLeadsToHalt`,
  `PendingResolved`, `ArmedStopActs`, `LossesDemote`, `StackComesBack`,
  `TicksComeBack`, `ArrivesAtLast`): the prover has neither liveness nor
  ENABLED.

## 5. Findings and known disagreements

`market_user` is a run of its own: `candidacy_signals.py:297` says a suggestion
"competes in fuse() like any other strategy", and no regime's whitelist lists
`user_suggested`.

TLC also refutes the following under the configurations named, which belong to
no run; each states what a doc or comment of the program says.

| cfg | property | what happens |
|---|---|---|
| MCLiveOrdersCap | `HardCap` | orders in flight pass the daily cap together: `can_deploy` counts trades only |
| MCLiveOrdersPanic | `PanicFlattens` | a live panic sells in the books only |
| MCBudgetGateLeftover | `LeftoverIsDeployable` | the rolled pool is charged the day's overflow again at every order |
| MCBudgetGateSpent | `SpentIsGone` | the rollover runs at the first close seen, which an early start sees at once |
| MCBudgetApprovalEarly | `DropsAfterTimeout` | a page served between two commits drops a new request |
| MCBudgetApprovalShown | `ShownIsGranted` | another request than the one shown is granted |
| MCExecutionEngineHedge | `EntriesOnlyWhenOpen` | a hedge buys while the exchange is closed |
| MCExecutionEngineStop | `StopLossActs` | enough stops demote the guard, and stops no longer act |
| MCStrategyLearningSignals | `LearnsFromEverySignal` | outcomes are keyed by the second: one signal of it is kept |
| MCModelPromotionActs | `RejectedNeverActs` | SB3 weights are not reverted, and the agent loads them |
| MCKiteFeedStale | `StaleReconnects` | an engine whose first feed was refused never arms the watchdog; only the end of a screen starts a feed then |

A defect that is proved, and that no run checks, since runs check what the
program should do: `turtle_breakout.py:1` says "Donchian / Turtle breakout on
BAR_CLOSE", `bar_aggregator.py:232` "Literature-ready features: Donchian", and
`src/tests/test_strategies.py:260-274` expects a BUY on a close over `high_20`,
with features made by hand. The aggregator's `high_20` and `low_20` include the
bar that closes, so no close is beyond them: `turtle_breakout` and
`liquidity_sweep` never signal (`ExtremesAreSilent`).

Seen while modelling, and part of the modules: a pending suggestion whose symbol
has no bar never expires; `nifty_buy_the_dip`, `cash_futures_basis`, `circuit_band_flow` and
`promoter_pledge_signal` read what nothing publishes; a pending regime outlives
an adoption from NEUTRAL; `gift_basis_convergence` sells where `gift_gap` buys;
`session_open` and `session_vwap` keep the first price of the process; a flush
and a late tick make two daily bars of one day; a failed flush ends the flush
loop; the akshare poller ends with its first failed write; in the live phase
(`Paper` false) `global_risk_beta` sells the index on macro figures on which
`macro_confluence` buys it (us -60, crude -20, VIX 10, GIFT 50, inflows 600), so
`FlowsSpeakWithOneVoice` is stated for the paper phase.

## 6. Not modelled

`PROJECT.json` gives the reason for each part. In short: floating-point scores
(weights, confidences, sizing, portfolio limits, RL, backtests) are open choices
where a module meets them; HTTP clients, pages, alerts, backups and reports are
I/O. In modelled parts: limit chase (off by default), option hedges, tax labels,
watch lists of the context, which payload makes a strategy raise, manual buys in
LiveOrders and ExecutionEngine, the second SESSION_CLOSE after a phase that could
not be read (`session_watcher.py:70`), and policy files torn by a copy that is cut.

## 7. Plan

Next, in this order:

1. LimitChase, and the rails of mixed rows in PaperLedger.
2. A composition of ExecutionEngine's gates with LiveOrders' settlement, and an
   abstract specification of PaperLedger's books as Settlement is one of the
   live ones.
