------------------------ MODULE ExecutionEngineProofs ------------------------
(* Proofs about ExecutionEngine: its types, the bound on the positions and   *)
(* the gates of every new one, for any stocks, strategies and limits.  At    *)
(* the end, the Supervisor that keeps the engine's process: there is never a *)
(* second one, and a healthy one is left alone.                              *)
EXTENDS ExecutionEngine, Supervisor, FiniteSetTheorems, SequenceTheorems, TLAPS

\* Every disjunct of Next names its symbol from Symbols.
LEMMA StocksAreSymbols == Stocks \subseteq Symbols /\ Etf \in Symbols
  BY DEF Symbols

\* Every step either leaves the positions of the stocks as they are or smaller,
\* or is a BUY of one symbol that passed the gates.
Entered(s) ==
  /\ \E rail \in Rails : Buy(s, rail)
  /\ \E x \in Strategies : MayEnter(x)
  /\ ~halted

Stepped ==
  \/ UNCHANGED books
  \/ \E s \in Symbols : Sell(s)
  \/ \E s \in Symbols : Entered(s)
  \/ Buy(Etf, "CNC")
  \/ held' = [s \in Symbols |-> Flat] /\ low' = [s \in Symbols |-> FALSE]
  \/ \E s \in Symbols : held' = held /\ low' = [low EXCEPT ![s] = ~low[s]]

(* Every step of the engine is of one of the kinds the proofs below tell    *)
(* apart.                                                                   *)
LEMMA StepKinds == [Next]_vars => Stepped
<1> SUFFICES ASSUME [Next]_vars PROVE Stepped
  OBVIOUS
<1> USE DEF Stepped
<1>0. ASSUME NEW s \in Symbols, SellFor(s, Guard) \/ NetBuy(s) \/ Pass
      PROVE  Stepped
  BY <1>0 DEF SellFor, NetBuy, Pass, Entered, Strategies
<1>1. ASSUME NEW s \in Symbols, OnTick(s) PROVE Stepped
  BY <1>0, <1>1 DEF OnTick
<1>2. ASSUME NEW s \in Symbols, HandleExit(s) PROVE Stepped
  BY <1>0, <1>2 DEF HandleExit
<1>3. ASSUME NEW s \in Symbols, Move(s) PROVE Stepped
  BY <1>3 DEF Move
<1>4. ASSUME NEW s \in Stocks, HandleSnapshot(s) PROVE Stepped
  <2>1. CASE Pass
    BY <2>1 DEF Pass
  <2>2. CASE ~halted /\ MayEnter(Fast) /\ Buy(s, "MIS")
    BY <2>2, StocksAreSymbols, EngineAssumption DEF Entered, Strategies, Rails
  <2> QED
    BY <1>4, <2>1, <2>2 DEF HandleSnapshot
<1>5. ASSUME NEW s \in Stocks, NEW x \in Entrants, HandleSignal(s, x) PROVE Stepped
  <2>1. CASE \E rail \in Rails : BuyFor(s, x, rail)
    BY <2>1, StocksAreSymbols DEF BuyFor, Entered, Strategies
  <2>2. CASE NetBuy(s)
    BY <2>2, <1>0, StocksAreSymbols
  <2>3. CASE SellFor(s, x)
    BY <2>3, StocksAreSymbols DEF SellFor
  <2> QED
    BY <1>5, <2>1, <2>2, <2>3 DEF HandleSignal
<1>6. ASSUME NEW s \in Stocks, Snapshot(s) PROVE Stepped
  BY <1>6 DEF Snapshot
<1>7. CASE HandleClose
  BY <1>7 DEF HandleClose
<1>8. CASE HandleHedge
  BY <1>8 DEF HandleHedge
<1>9. CASE Breaker
  BY <1>9 DEF Breaker
<1>10. CASE SquareOff
  BY <1>10 DEF SquareOff
<1>11. CASE Poll \/ Learn \/ Cool \/ Halt \/ Slumber \/ Exchange \/ Restart
  BY <1>11 DEF Poll, Learn, Cool, Halt, Slumber, Exchange, Restart
<1>12. CASE UNCHANGED vars
  BY <1>12 DEF vars
<1> QED
  BY <1>1, <1>2, <1>3, <1>4, <1>5, <1>6, <1>7, <1>8, <1>9, <1>10, <1>11, <1>12 DEF Next

-----------------------------------------------------------------------------
\* The positions table keeps its type: the part of TypeOK the bound needs.
Rows == held \in [Symbols -> Rails \cup {Flat}]

(* No step breaks the agreement of rows and lots.                           *)
LEMMA RowsStep == Rows /\ Stepped => Rows'
<1> SUFFICES ASSUME Rows, Stepped PROVE Rows'
  OBVIOUS
<1> USE DEF Rows, Rails
<1>1. ASSUME NEW s \in Symbols, Sell(s) PROVE Rows'
  BY <1>1 DEF Sell
<1>2. ASSUME NEW s \in Symbols, Entered(s) PROVE Rows'
  BY <1>2 DEF Entered, Buy
<1>3. CASE Buy(Etf, "CNC")
  BY <1>3 DEF Buy
<1>4. CASE held' = [s \in Symbols |-> Flat]
  BY <1>4
<1>5. CASE held' = held
  BY <1>5
<1> QED
  BY <1>1, <1>2, <1>3, <1>4, <1>5 DEF Stepped, books

\* The inductive invariant of the bound.
BoundInv == Rows /\ PositionsBounded

(* The symbols held are finitely many, so they can be counted.              *)
LEMMA OpenStocks == IsFiniteSet(Open) /\ IsFiniteSet(Open \ {Etf})
<1>1. IsFiniteSet(Symbols)
  BY EngineAssumption, FS_AddElement DEF Symbols
<1> QED
  BY <1>1, FS_Subset DEF Open

\* A set of positions that shrinks beside the ETF keeps the bound.
LEMMA Shrinks ==
  ASSUME PositionsBounded, Open' \ {Etf} \subseteq Open \ {Etf}
  PROVE  PositionsBounded'
<1>1. /\ Cardinality(Open' \ {Etf}) <= Cardinality(Open \ {Etf})
      /\ Cardinality(Open' \ {Etf}) \in Nat /\ Cardinality(Open \ {Etf}) \in Nat
  BY OpenStocks, FS_Subset, FS_CardinalityType
<1> QED
  BY <1>1, EngineAssumption DEF PositionsBounded

(* No step takes the engine past its bound on positions.                    *)
LEMMA BoundStep == BoundInv /\ [Next]_vars => BoundInv'
<1> SUFFICES ASSUME BoundInv, [Next]_vars PROVE PositionsBounded'
  BY StepKinds, RowsStep DEF BoundInv
<1> USE DEF BoundInv, Rows
<1>1. ASSUME NEW s \in Symbols, Sell(s) PROVE PositionsBounded'
  <2>1. Open' \ {Etf} \subseteq Open \ {Etf}
    BY <1>1 DEF Sell, Open
  <2> QED
    BY <2>1, Shrinks
<1>2. ASSUME NEW s \in Symbols, Entered(s) PROVE PositionsBounded'
  <2>1. Cardinality(Open) < MaxPositions
    BY <1>2 DEF Entered, MayEnter, BelowMaxPositions
  <2>2. Open' \ {Etf} \subseteq Open \cup {s}
    BY <1>2 DEF Entered, Buy, Open
  <2>3. /\ IsFiniteSet(Open \cup {s})
        /\ Cardinality(Open \cup {s}) <= Cardinality(Open) + 1
        /\ Cardinality(Open) \in Nat
    <3>1. IsFiniteSet(Open) /\ Cardinality(Open) \in Nat
      BY OpenStocks, FS_CardinalityType
    <3>2. /\ IsFiniteSet(Open \cup {s})
          /\ \/ Cardinality(Open \cup {s}) = Cardinality(Open)
             \/ Cardinality(Open \cup {s}) = Cardinality(Open) + 1
      BY <3>1, FS_AddElement
    <3> QED
      BY <3>1, <3>2
  <2>4. /\ Cardinality(Open' \ {Etf}) <= Cardinality(Open \cup {s})
        /\ Cardinality(Open' \ {Etf}) \in Nat
        /\ Cardinality(Open \cup {s}) \in Nat
    BY <2>2, <2>3, FS_Subset, FS_CardinalityType
  <2> QED
    BY <2>1, <2>3, <2>4, EngineAssumption DEF PositionsBounded
<1>3. CASE Buy(Etf, "CNC")
  <2>1. Open' \ {Etf} \subseteq Open \ {Etf}
    BY <1>3 DEF Buy, Open
  <2> QED
    BY <2>1, Shrinks
<1>4. CASE held' = [s \in Symbols |-> Flat]
  <2>1. Open' \ {Etf} \subseteq Open \ {Etf}
    BY <1>4 DEF Open
  <2> QED
    BY <2>1, Shrinks
<1>5. CASE held' = held
  BY <1>5, Shrinks DEF Open
<1> QED
  BY <1>1, <1>2, <1>3, <1>4, <1>5, StepKinds DEF Stepped, books

\* Whatever events interleave, the engine's own entries hold at most
\* MaxPositions symbols beside the hedge.
THEOREM Bound == Spec => []PositionsBounded
<1>1. Init => BoundInv
  <2> SUFFICES ASSUME Init PROVE BoundInv
    OBVIOUS
  <2>1. Rows
    BY DEF Init, Rows
  <2>2. Open \ {Etf} = {}
    BY DEF Init, Open
  <2> QED
    BY <2>1, <2>2, FS_EmptySet, EngineAssumption DEF BoundInv, PositionsBounded
<1>2. BoundInv => PositionsBounded
  BY DEF BoundInv
<1> QED
  BY <1>1, <1>2, BoundStep, PTL DEF Spec

-----------------------------------------------------------------------------
\* A stock is entered only through the gates of MayEnter, and only while
\* trading is not halted: every other step leaves a flat stock flat.
THEOREM Gates == Spec => EntriesGated
<1>1. Rows /\ [Next]_vars =>
        \A s \in Stocks : held[s] = Flat /\ held'[s] # Flat =>
          phase = "OPEN" /\ ~slumber /\ ~halted /\ ~cooling
  <2> SUFFICES ASSUME Rows, [Next]_vars, NEW s \in Stocks,
                      held[s] = Flat, held'[s] # Flat
               PROVE  phase = "OPEN" /\ ~slumber /\ ~halted /\ ~cooling
    OBVIOUS
  <2>e. s \in Symbols /\ s # Etf
    BY EngineAssumption, StocksAreSymbols
  <2> USE DEF Rows
  <2>1. ASSUME NEW r \in Symbols, Sell(r) PROVE FALSE
    BY <2>1, <2>e DEF Sell
  <2>2. ASSUME Buy(Etf, "CNC") PROVE FALSE
    BY <2>2, <2>e DEF Buy
  <2>3. ASSUME held' = [r \in Symbols |-> Flat] PROVE FALSE
    BY <2>3, <2>e
  <2>4. ASSUME held' = held PROVE FALSE
    BY <2>4
  <2>5. PICK r \in Symbols : Entered(r)
    BY <2>1, <2>2, <2>3, <2>4, StepKinds DEF Stepped, books
  <2> QED
    BY <2>5 DEF Entered, MayEnter, MayOrder
<1>2. Init => Rows
  BY DEF Init, Rows
<1>3. Rows /\ [Next]_vars => Rows'
  BY StepKinds, RowsStep
<1> QED
  BY <1>1, <1>2, <1>3, PTL DEF Spec, EntriesGated

-----------------------------------------------------------------------------
(* Types                                                                     *)

(* The orders the engine publishes are events of the bus.                   *)
LEMMA OrdersAreEvents ==
  ASSUME NEW q \in Orders(ExitsOfMIS)
  PROVE  q \in Seq(Events)
<1>1. IsFiniteSet(ExitsOfMIS)
  <2>1. IsFiniteSet(Symbols)
    BY EngineAssumption, FS_AddElement DEF Symbols
  <2>2. IsFiniteSet({r \in Symbols : held[r] = "MIS"})
    BY <2>1, FS_Subset
  <2> QED
    <3> DEFINE M == {r \in Symbols : held[r] = "MIS"}
               f == [r \in M |-> Exit(r)]
    <3>1. f \in Surjection(M, ExitsOfMIS)
      BY DEF ExitsOfMIS, Surjection
    <3> QED
      BY <2>2, <3>1, FS_Surjection
<1>2. Cardinality(ExitsOfMIS) \in Nat
  BY <1>1, FS_CardinalityType
<1>3. q \in [1..Cardinality(ExitsOfMIS) -> ExitsOfMIS]
  BY DEF Orders
<1>4. ExitsOfMIS \subseteq Events
  BY DEF ExitsOfMIS, Events
<1>5. q \in [1..Cardinality(ExitsOfMIS) -> Events]
  BY <1>3, <1>4
<1> QED
  BY <1>2, <1>5, SeqDef

(* Publishing and dispatching leave a bus of events.                        *)
LEMMA BusKeepsType ==
  ASSUME bus \in Seq(Events)
  PROVE  /\ \A e \in Events : Append(bus, e) \in Seq(Events)
         /\ bus # <<>> => Tail(bus) \in Seq(Events)
         /\ \A q \in Orders(ExitsOfMIS) : bus \o q \in Seq(Events)
         /\ bus # <<>> => \A q \in Orders(ExitsOfMIS) : Tail(bus) \o q \in Seq(Events)
  BY OrdersAreEvents

\* A trade keeps the types of the books and of the cooldown.
LEMMA TradeKeepsType ==
  ASSUME TypeOK, NEW s \in Symbols,
         Sell(s) \/ (\E rail \in Rails : Buy(s, rail)) \/ Pass
  PROVE  held' \in [Symbols -> Rails \cup {Flat}] /\ low' \in [Symbols -> BOOLEAN]
         /\ cooling' \in BOOLEAN
<1> USE DEF TypeOK, Rails
<1>1. CASE Sell(s)
  BY <1>1 DEF Sell
<1>2. ASSUME NEW rail \in Rails, Buy(s, rail)
      PROVE  held' \in [Symbols -> Rails \cup {Flat}] /\ low' \in [Symbols -> BOOLEAN]
             /\ cooling' \in BOOLEAN
  BY <1>2 DEF Buy
<1>3. CASE Pass
  BY <1>3 DEF Pass, books
<1> QED
  BY <1>1, <1>2, <1>3

(* No step takes a variable out of its type.                                *)
LEMMA TypesStep == TypeOK /\ [Next]_vars => TypeOK'
<1> SUFFICES ASSUME TypeOK, [Next]_vars PROVE TypeOK'
  OBVIOUS
<1> USE DEF TypeOK
<1>b. bus \in Seq(Events)
  OBVIOUS
<1>1. ASSUME NEW s \in Symbols, OnTick(s) PROVE TypeOK'
  <2>1. Sell(s) \/ (\E rail \in Rails : Buy(s, rail)) \/ Pass
    BY <1>1 DEF OnTick, SellFor, NetBuy
  <2>2. bus' \in Seq(Events)
    BY <1>1, <1>b, BusKeepsType DEF OnTick, Append1, Events
  <2> QED
    BY <1>1, <2>1, <2>2, TradeKeepsType DEF OnTick, clock
<1>2. ASSUME NEW s \in Symbols, HandleExit(s) PROVE TypeOK'
  <2>1. Sell(s) \/ (\E rail \in Rails : Buy(s, rail)) \/ Pass
    BY <1>2 DEF HandleExit, SellFor, NetBuy
  <2>2. bus' \in Seq(Events)
    BY <1>2, <1>b, BusKeepsType DEF HandleExit
  <2> QED
    BY <1>2, <2>1, <2>2, TradeKeepsType DEF HandleExit, clock
<1>3. ASSUME NEW s \in Symbols, Move(s) PROVE TypeOK'
  BY <1>3 DEF Move, gates, clock
<1>4. ASSUME NEW s \in Stocks, HandleSnapshot(s) PROVE TypeOK'
  <2>1. Sell(s) \/ (\E rail \in Rails : Buy(s, rail)) \/ Pass
    BY <1>4 DEF HandleSnapshot, Rails
  <2>2. bus' \in Seq(Events)
    BY <1>4, <1>b, BusKeepsType DEF HandleSnapshot
  <2> QED
    BY <1>4, <2>1, <2>2, TradeKeepsType, StocksAreSymbols DEF HandleSnapshot, clock
<1>5. ASSUME NEW s \in Stocks, NEW x \in Entrants, HandleSignal(s, x) PROVE TypeOK'
  <2>1. Sell(s) \/ (\E rail \in Rails : Buy(s, rail)) \/ Pass
    BY <1>5 DEF HandleSignal, SellFor, BuyFor, NetBuy
  <2> QED
    BY <1>5, <2>1, TradeKeepsType, StocksAreSymbols DEF HandleSignal, clock
<1>6. ASSUME NEW s \in Stocks, Snapshot(s) PROVE TypeOK'
  <2>1. bus' \in Seq(Events)
    BY <1>6, <1>b, BusKeepsType DEF Snapshot, Append1, Events
  <2> QED
    BY <1>6, <2>1 DEF Snapshot, books, gates, clock
<1>7. CASE HandleClose
  <2>1. bus' \in Seq(Events)
    BY <1>7, <1>b, BusKeepsType DEF HandleClose
  <2> QED
    BY <1>7, <2>1 DEF HandleClose, books, gates, clock
<1>8. CASE HandleHedge
  <2>1. \E rail \in Rails : Buy(Etf, rail)
    BY <1>8 DEF HandleHedge, Rails
  <2> QED
    BY <1>8, <2>1, TradeKeepsType, StocksAreSymbols DEF HandleHedge, clock
<1>9. CASE Breaker
  BY <1>9 DEF Breaker, books, clock
<1>10. CASE SquareOff
  <2>1. bus' \in Seq(Events)
    BY <1>10, <1>b, BusKeepsType DEF SquareOff
  <2> QED
    BY <1>10, <2>1 DEF SquareOff, books, gates
<1>11. CASE Poll
  <2>1. bus' \in Seq(Events)
    BY <1>11, <1>b, BusKeepsType DEF Poll, Append1, Events
  <2>2. phase' \in Phases
    BY <1>11 DEF Poll, Phases
  <2> QED
    BY <1>11, <2>1, <2>2 DEF Poll, books, gates
<1>12. CASE Learn
  BY <1>12 DEF Learn, books, clock
<1>13. CASE Cool \/ Halt \/ Slumber
  BY <1>13 DEF Cool, Halt, Slumber, books, clock
<1>14. CASE Exchange
  BY <1>14 DEF Exchange, After, books, gates
<1>15. CASE Restart
  BY <1>15 DEF Restart, Phases, books, gates
<1>16. CASE UNCHANGED vars
  BY <1>16 DEF vars, books, gates, clock
<1> QED
  BY <1>1, <1>2, <1>3, <1>4, <1>5, <1>6, <1>7, <1>8, <1>9, <1>10, <1>11, <1>12,
     <1>13, <1>14, <1>15, <1>16 DEF Next

\* Every variable keeps its type, for any stocks, strategies and limits.
THEOREM Types == Spec => []TypeOK
<1>1. Init => TypeOK
  <2> SUFFICES ASSUME Init PROVE TypeOK
    OBVIOUS
  <2>1. benched \subseteq Strategies
    BY DEF Init, Strategies
  <2>2. bus \in Seq(Events)
    BY DEF Init
  <2> QED
    BY <2>1, <2>2 DEF Init, TypeOK, Phases
<1> QED
  BY <1>1, TypesStep, PTL DEF Spec
-------------------------------------------------------------------------------
(* The supervisor that keeps the engine's process running.                    *)

Table == [Modules -> [Pids -> Life]]
Files == [Modules -> Pids \cup {None}]

\* SIGTERM ends no process by itself, so it changes none's existence.
LEMMA KilledExist ==
  ASSUME proc \in Table, NEW m \in Modules, NEW K
  PROVE  /\ Killed(m, K) \in [Pids -> Life]
         /\ \A p \in Pids : Killed(m, K)[p] # "none" <=> proc[m][p] # "none"
BY DEF Table, Killed, Life

\* A start of one module leaves the other's processes alone, makes no second
\* process of its own, and keeps the types.
LEMMA StartIsSole ==
  ASSUME NEW procs \in Table, NEW pidfiles \in Files,
         NEW m \in Modules, NEW s \in Started(m, procs, pidfiles)
  PROVE  /\ s.procs \in Table /\ s.pidfiles \in Files
         /\ \A x \in Modules : OneAlive(x, procs) => OneAlive(x, s.procs)
<1> USE DEF Table, Files, OneAlive, AliveIn
<1>1. CASE pidfiles[m] \in AliveIn(m, procs)
  BY <1>1 DEF Started
<1>2. CASE pidfiles[m] \notin AliveIn(m, procs) /\ AliveIn(m, procs) # {}
  <2>1. PICK p \in AliveIn(m, procs) :
          s = [procs |-> procs, pidfiles |-> [pidfiles EXCEPT ![m] = p]]
    BY <1>2 DEF Started
  <2> QED
    BY <2>1
<1>3. CASE pidfiles[m] \notin AliveIn(m, procs) /\ AliveIn(m, procs) = {}
  <2>1. PICK p \in Pids :
          /\ \A x \in Modules : procs[x][p] = "none"
          /\ s = [procs |-> [procs EXCEPT ![m][p] = "up"], pidfiles |-> [pidfiles EXCEPT ![m] = p]]
    BY <1>3 DEF Started, New
  <2>2. \A q \in Pids : procs[m][q] = "none"
    BY <1>3
  <2>3. /\ s.procs \in Table /\ s.pidfiles \in Files
        /\ \A q \in Pids : s.procs[m][q] # "none" => q = p
        /\ \A x \in Modules \ {m} : s.procs[x] = procs[x]
    BY <2>1, <2>2 DEF Life
  <2> QED
    BY <2>3
<1> QED
  BY <1>1, <1>2, <1>3

\* No step makes a second engine, but for the one that starts one by hand.
LEMMA SoleStep ==
  ASSUME SupervisorInv, [SupervisorNext]_supervisorVars
  PROVE  SupervisorInv'
<1> USE DEF files, count, Goto
<1>1. /\ proc \in Table /\ file \in Files /\ young \in BOOLEAN /\ beat \in BOOLEAN
      /\ flag \in BOOLEAN /\ at \in Polls /\ saw \in BOOLEAN /\ outside \in BOOLEAN
      /\ faults \in 0 .. MaxFaults /\ hangs \in 0 .. MaxHangs
      /\ "engine" \in Modules /\ "dashboard" \in Modules
      /\ MaxFaults \in Nat /\ MaxHangs \in Nat
  BY SupervisorAssumption DEF SupervisorInv, SupervisorType, SupervisorAssumption, Table, Files, Modules
<1>2. ~outside => OneAlive("engine", proc)
  BY DEF SupervisorInv
<1> DEFINE Kept == /\ proc' \in Table
                   /\ OneAlive("engine", proc) => OneAlive("engine", proc')
           Rest == /\ file' \in Files /\ young' \in BOOLEAN /\ beat' \in BOOLEAN
                   /\ flag' \in BOOLEAN /\ at' \in Polls /\ saw' \in BOOLEAN
                   /\ outside' \in BOOLEAN
                   /\ faults' \in 0 .. MaxFaults /\ hangs' \in 0 .. MaxHangs
<1>3. ASSUME Kept, Rest, outside' = outside PROVE SupervisorInv'
  BY <1>2, <1>3 DEF SupervisorInv, SupervisorType, Table, Files
<1>4. \A m \in Modules : Checked(m) \in Files
  BY <1>1 DEF Checked, Files
<1>5. CASE Look
  BY <1>1, <1>3, <1>4, <1>5 DEF Look, Running, Polls
<1>6. ASSUME NEW m \in Modules, NEW K,
             proc' = [proc EXCEPT ![m] = Killed(m, K)]
      PROVE  Kept
  <2>1. /\ Killed(m, K) \in [Pids -> Life]
        /\ \A p \in Pids : Killed(m, K)[p] # "none" <=> proc[m][p] # "none"
    BY <1>1, KilledExist
  <2>2. proc' \in Table
    BY <1>1, <1>6, <2>1 DEF Table
  <2>3. \A p \in Pids : proc'["engine"][p] # "none" <=> proc["engine"][p] # "none"
    BY <1>1, <1>6, <2>1 DEF Table
  <2> QED
    BY <2>2, <2>3 DEF OneAlive, AliveIn
<1>7. CASE TendEngine
  <2>1. Kept
    <3>1. CASE proc' = proc
      BY <1>1, <3>1
    <3>2. CASE \E K : proc' = [proc EXCEPT !["engine"] = Killed("engine", K)]
      BY <1>1, <1>6, <3>2
    <3> QED
      BY <1>7, <3>1, <3>2 DEF TendEngine, Stop
  <2>2. Rest
    BY <1>1, <1>7 DEF TendEngine, Stop, Polls, Files
  <2>3. outside' = outside
    BY <1>7 DEF TendEngine
  <2> QED
    BY <1>3, <2>1, <2>2, <2>3
<1>8. CASE NoEngine
  BY <1>1, <1>3, <1>8 DEF NoEngine, Polls
<1>9. CASE StartEngine
  <2>1. PICK s \in Started("engine", proc, file) : proc' = s.procs /\ file' = s.pidfiles
    BY <1>9 DEF StartEngine
  <2>2. Kept /\ file' \in Files
    BY <1>1, <2>1, StartIsSole
  <2>3. Rest /\ outside' = outside
    BY <1>1, <1>9, <2>2 DEF StartEngine, Polls, Running
  <2> QED
    BY <1>3, <2>2, <2>3
<1>10. CASE StartStack
  <2>1. PICK e \in Started("engine", proc, file) :
          \E d \in Started("dashboard", e.procs, e.pidfiles) :
             proc' = d.procs /\ file' = d.pidfiles
    BY <1>10 DEF StartStack
  <2>2. /\ e.procs \in Table /\ e.pidfiles \in Files
        /\ OneAlive("engine", proc) => OneAlive("engine", e.procs)
    BY <1>1, <2>1, StartIsSole
  <2>3. PICK d \in Started("dashboard", e.procs, e.pidfiles) :
             proc' = d.procs /\ file' = d.pidfiles
    BY <2>1
  <2>4. Kept /\ file' \in Files
    BY <1>1, <2>2, <2>3, StartIsSole
  <2>5. Rest /\ outside' = outside
    BY <1>1, <1>10, <2>4 DEF StartStack, Polls, Running
  <2> QED
    BY <1>3, <2>4, <2>5
<1>11. CASE EnsureDashboard
  <2>1. Kept /\ file' \in Files
    <3>1. CASE UNCHANGED <<proc, file>>
      BY <1>1, <3>1
    <3>2. CASE UNCHANGED file /\ proc' = [proc EXCEPT !["dashboard"] = Killed("dashboard", Pids)]
      BY <1>1, <1>6, <3>2
    <3>3. ASSUME NEW s \in Started("dashboard", proc, file),
                 proc' = s.procs /\ file' = s.pidfiles
          PROVE  Kept /\ file' \in Files
      BY <1>1, <3>3, StartIsSole
    <3> QED
      BY <1>11, <3>1, <3>2, <3>3 DEF EnsureDashboard
  <2>2. Rest /\ outside' = outside
    BY <1>1, <1>11, <2>1 DEF EnsureDashboard, Polls
  <2> QED
    BY <1>3, <2>1, <2>2
<1>12. CASE Recover
  BY <1>1, <1>3, <1>4, <1>12 DEF Recover, Polls
<1>13. CASE Bootstrap
  <2>1. /\ \A m \in Modules : Killed(m, Pids) \in [Pids -> Life]
        /\ \A m \in Modules : \A p \in Pids :
             Killed(m, Pids)[p] # "none" <=> proc[m][p] # "none"
    BY <1>1, KilledExist
  <2>2. proc' = [m \in Modules |-> Killed(m, Pids)]
    BY <1>13 DEF Bootstrap
  <2>3. Kept
    BY <1>1, <2>1, <2>2 DEF Table, OneAlive, AliveIn
  <2>4. Rest /\ outside' = outside
    BY <1>1, <1>13 DEF Bootstrap, Polls, Files
  <2> QED
    BY <1>3, <2>3, <2>4
<1>14. ASSUME NEW m \in Modules, NEW p \in Pids, NEW to \in Life,
              proc[m][p] # "none", proc' = [proc EXCEPT ![m][p] = to]
       PROVE  Kept
  <2>1. proc' \in Table
    BY <1>1, <1>14 DEF Table
  <2>2. \A q \in Pids : proc'["engine"][q] # "none" => proc["engine"][q] # "none"
    BY <1>1, <1>14 DEF Table
  <2> QED
    BY <2>1, <2>2 DEF OneAlive, AliveIn
<1>15. ASSUME Fault PROVE faults' \in 0 .. MaxFaults
  BY <1>1, <1>15 DEF Fault
<1>16. ASSUME NEW m \in Modules, NEW p \in Pids, ProcessExits(m, p) PROVE SupervisorInv'
  <2>1. Kept
    BY <1>14, <1>16 DEF ProcessExits, Life
  <2> QED
    BY <1>1, <1>3, <1>16, <2>1 DEF ProcessExits
<1>17. ASSUME NEW m \in Modules, NEW p \in Pids, Crash(m, p) PROVE SupervisorInv'
  <2>1. Kept
    BY <1>14, <1>17 DEF Crash, Life
  <2> QED
    BY <1>1, <1>3, <1>15, <1>17, <2>1 DEF Crash
<1>18. ASSUME NEW p \in Pids, Hang(p) PROVE SupervisorInv'
  <2>1. Kept
    BY <1>1, <1>14, <1>18 DEF Hang, Life
  <2>2. hangs' \in 0 .. MaxHangs
    BY <1>1, <1>18 DEF Hang
  <2> QED
    BY <1>1, <1>3, <1>18, <2>1, <2>2 DEF Hang
<1>19. ASSUME NEW p \in Pids, StartedOutside(p) PROVE SupervisorInv'
  <2>1. proc' \in Table /\ outside' = TRUE
    BY <1>1, <1>19 DEF StartedOutside, Table, Life
  <2>2. Rest
    BY <1>1, <1>15, <1>19, <2>1 DEF StartedOutside
  <2> QED
    BY <2>1, <2>2 DEF SupervisorInv, SupervisorType, Table, Files
<1>20. CASE Beat \/ BeatAges \/ GraceEnds
  BY <1>1, <1>3, <1>20 DEF Beat, BeatAges, GraceEnds
<1>21. CASE Login \/ SupervisorDies
  BY <1>1, <1>3, <1>15, <1>21 DEF Login, SupervisorDies, Polls
<1>22. CASE SupervisorStarts
  BY <1>1, <1>3, <1>22 DEF SupervisorStarts, Polls
<1>23. CASE UNCHANGED supervisorVars
  BY <1>1, <1>3, <1>23 DEF supervisorVars
<1> QED
  BY <1>5, <1>7, <1>8, <1>9, <1>10, <1>11, <1>12, <1>13, <1>16, <1>17, <1>18, <1>19,
     <1>20, <1>21, <1>22, <1>23 DEF SupervisorNext, SupervisorPoll, Environment

\* Types, and the one engine, for any process numbers and any number of faults.
THEOREM SupervisorInvariance == SupervisorSpec => []SupervisorInv
<1>1. SupervisorInit => SupervisorInv
  <2> SUFFICES ASSUME SupervisorInit PROVE SupervisorInv
    OBVIOUS
  <2>1. SupervisorType
    <3>1. MaxFaults \in Nat /\ MaxHangs \in Nat
      BY SupervisorAssumption DEF SupervisorAssumption
    <3>2. 0 \in 0 .. MaxFaults /\ 0 \in 0 .. MaxHangs
      BY <3>1
    <3>3. /\ proc \in [Modules -> [Pids -> Life]]
          /\ file \in [Modules -> Pids \cup {None}]
      BY DEF SupervisorInit, Life
    <3> QED
      BY <3>2, <3>3 DEF SupervisorInit, SupervisorType, Polls
  <2>2. \A p \in Pids : proc["engine"][p] = "none"
    BY DEF SupervisorInit, Modules
  <2> QED
    BY <2>1, <2>2 DEF SupervisorInv, OneAlive, AliveIn
<1>2. SupervisorInv /\ [SupervisorNext]_supervisorVars => SupervisorInv'
  BY SoleStep
<1> QED
  BY <1>1, <1>2, PTL DEF SupervisorSpec

\* Whatever dies and whenever, supervisor included, no second engine is ever
\* started beside one that still exists (_start_process, _bootstrap_stack).
THEOREM NoSecondEngine == SupervisorSpec => []OneEngine
<1>1. SupervisorInv => OneEngine
  <2> SUFFICES ASSUME SupervisorInv PROVE OneEngine
    OBVIOUS
  <2>1. ASSUME ~outside PROVE Cardinality(Alive("engine")) <= 1
    <3>1. \A p, q \in Alive("engine") : p = q
      BY <2>1 DEF SupervisorInv, OneAlive, Alive
    <3>2. CASE Alive("engine") = {}
      BY <3>2, FS_EmptySet
    <3>3. ASSUME NEW p \in Alive("engine") PROVE Cardinality(Alive("engine")) <= 1
      <4>1. Alive("engine") = {p}
        BY <3>1, <3>3
      <4> QED
        BY <4>1, FS_Singleton
    <3> QED
      BY <3>2, <3>3
  <2> QED
    BY <2>1 DEF OneEngine, SupervisorInv
<1> QED
  BY <1>1, SupervisorInvariance, PTL

\* A healthy engine is only ever killed for the restart flag, for a second
\* engine, or by a supervisor that bootstraps (_ensure_engine_running).
THEOREM HealthyStays == SupervisorSpec => HealthyIsLeftAlone
<1> DEFINE Spared == \A p \in Pids :
       proc["engine"][p] = "up" /\ proc'["engine"][p] = "dying" /\ beat
         => at = "boot" \/ flag \/ Cardinality(Alive("engine")) > 1
<1>1. SupervisorInv /\ [SupervisorNext]_supervisorVars => Spared
  <2> SUFFICES ASSUME SupervisorInv, [SupervisorNext]_supervisorVars, NEW p \in Pids,
                      proc["engine"][p] = "up", proc'["engine"][p] = "dying", beat
               PROVE  at = "boot" \/ flag \/ Cardinality(Alive("engine")) > 1
    OBVIOUS
  <2>1. /\ proc \in Table /\ file \in Files
        /\ "engine" \in Modules /\ "dashboard" \in Modules
    BY DEF SupervisorInv, SupervisorType, Table, Files, Modules
  <2>2. proc' # proc
    OBVIOUS
  <2>3. \A procs \in Table, pidfiles \in Files : \A m \in Modules :
          \A s \in Started(m, procs, pidfiles) :
             procs["engine"][p] # "none" => s.procs["engine"][p] = procs["engine"][p]
    BY <2>1 DEF Started, New, Table, AliveIn
  <2>4. ~StartEngine
    BY <2>1, <2>3 DEF StartEngine
  <2>5. ~StartStack
    <3>1. SUFFICES ASSUME StartStack PROVE FALSE
      OBVIOUS
    <3>2. PICK e \in Started("engine", proc, file) :
            \E d \in Started("dashboard", e.procs, e.pidfiles) :
               proc' = d.procs /\ file' = d.pidfiles
      BY <3>1 DEF StartStack
    <3>3. /\ e.procs \in Table /\ e.pidfiles \in Files
          /\ e.procs["engine"][p] = "up"
      BY <2>1, <2>3, <3>2, StartIsSole
    <3> QED
      BY <2>1, <2>3, <3>2, <3>3
  <2>6. ~EnsureDashboard
    <3>1. CASE proc' = [proc EXCEPT !["dashboard"] = Killed("dashboard", Pids)]
      BY <2>1, <3>1 DEF Table
    <3>2. CASE \E s \in Started("dashboard", proc, file) : proc' = s.procs
      BY <2>1, <2>3, <3>2
    <3> QED
      BY <2>2, <3>1, <3>2 DEF EnsureDashboard
  <2>7. TendEngine => flag \/ Cardinality(Alive("engine")) > 1
    BY <2>2 DEF TendEngine, Stale, Stop
  <2>8. Bootstrap => at = "boot"
    BY DEF Bootstrap
  <2>9. ASSUME NEW m \in Modules, NEW q \in Pids, ProcessExits(m, q) \/ Crash(m, q) PROVE FALSE
    <3>1. proc' = [proc EXCEPT ![m][q] = "none"]
      BY <2>9 DEF ProcessExits, Crash
    <3>2. proc'["engine"][p] \in {proc["engine"][p], "none"}
      BY <2>1, <3>1 DEF Table
    <3> QED
      BY <3>2
  <2>10. \A q \in Pids : ~Hang(q) /\ ~StartedOutside(q)
    BY <2>1 DEF Hang, StartedOutside, Table
  <2>11. ~(Look \/ NoEngine \/ Recover \/ UNCHANGED supervisorVars)
    BY <2>2 DEF Look, NoEngine, Recover, supervisorVars
  <2>12. ~(Beat \/ BeatAges \/ GraceEnds \/ Login \/ SupervisorDies \/ SupervisorStarts)
    BY <2>2 DEF Beat, BeatAges, GraceEnds, Login, SupervisorDies, SupervisorStarts
  <2> QED
    BY <2>4, <2>5, <2>6, <2>7, <2>8, <2>9, <2>10, <2>11, <2>12
       DEF SupervisorNext, SupervisorPoll, Environment
<1> QED
  BY <1>1, SupervisorInvariance, PTL DEF SupervisorSpec, HealthyIsLeftAlone
===============================================================================
