------------------------------ MODULE PaperLedger ------------------------------
(***************************************************************************)
(* The paper books: FIFO lots, position rows, trades and cash in one       *)
(* SQLite file, written by the engine (buys, sales, the panic sale of the  *)
(* drawdown limit) and by the dashboard's process, whose request threads   *)
(* run the panic button and manual buys, at the same time.                 *)
(*                                                                         *)
(* Every write is a commit of its own and every value written was read     *)
(* before, outside of a transaction.  A share costs 1 and there are no     *)
(* fees, so money and shares add up.  Live orders have their own module.   *)
(***************************************************************************)
EXTENDS Integers, Sequences, FiniteSets, Functions

CONSTANTS
  Symbols,
  Threads,    \* request threads of the dashboard
  Start,      \* cash in the beginning
  MaxOrder,   \* shares one buy may take: what can_deploy lets one order cost
  MaxLots,    \* bound: lots opened per symbol
  MaxHalts    \* bound: panics

ASSUME LedgerAssumption ==
  /\ IsFiniteSet(Symbols) /\ Symbols # {}
  /\ IsFiniteSet(Threads) /\ "engine" \notin Threads
  /\ {Start, MaxOrder, MaxLots, MaxHalts} \subseteq Nat

Actors == {"engine"} \cup Threads
Steps  == {"rest", "buy", "pay", "lot",
           "halted", "next", "pick", "take", "row", "cut", "record", "credit"}

VARIABLES
  lots,     \* fifo_lots.remaining_qty: symbol -> quantities by id, oldest first
  row,      \* positions.qty by symbol; 0: no row
  net,      \* trades: shares bought less shares sold, by symbol
  cash,     \* cash_ledger: the sum of its rows
  halt,     \* settings: the kill switch
  at,       \* actor -> the commit it does next
  job,      \* actor -> the order it works on
  plan,     \* actor -> remainders by lot that its sale has worked out
  keep,     \* actor -> quantity its sale will leave in the row
  todo,     \* actor -> rows its panic still has to sell
  panics,   \* panics so far
  dead,     \* history: an operation was cut short
  torn      \* history: symbols two actors were at work on at once, or one was cut short on

books == <<lots, row, net, cash>>
work  == <<at, job, plan, keep, todo>>
vars  == <<books, halt, work, panics, dead, torn>>

Buying  == {"buy", "pay", "lot"}
Selling == {"pick", "take", "row", "cut", "record", "credit"}
Order   == [sym : Symbols, qty : Nat]

TypeOK ==
  /\ lots \in [Symbols -> Seq(0 .. MaxOrder)]
  /\ row \in [Symbols -> Nat]
  /\ net \in [Symbols -> Int] /\ cash \in Int /\ halt \in BOOLEAN
  /\ at \in [Actors -> Steps]
  /\ job \in [Actors -> Order] /\ todo \in [Actors -> SUBSET Order]
  /\ DOMAIN plan = Actors
  /\ \A a \in Actors : \A i \in DOMAIN plan[a] : plan[a][i] \in 0 .. MaxOrder
  /\ keep \in [Actors -> Nat]
  /\ panics \in 0 .. MaxHalts /\ dead \in BOOLEAN /\ torn \subseteq Symbols

\* The symbols a works on, or has listed to work on.
Touched(a) ==
  {r.sym : r \in todo[a]} \cup
  (IF at[a] \in Buying \cup Selling THEN {job[a].sym} ELSE {})

Clashing == {s \in Symbols : \E a, b \in Actors :
               a # b /\ s \in Touched(a) /\ s \in Touched(b)}

\* Symbols whose books nobody disturbed.
Clean == Symbols \ (torn \cup Clashing)

\* The next commit of a; a clash of this state is remembered.
Goto(a, step) == at' = [at EXCEPT ![a] = step] /\ torn' = torn \cup Clashing

Held(s)    == SumFunction(lots[s])
Monus(m, n) == IF m > n THEN m - n ELSE 0

NoPlan == [i \in {} |-> 0]
NoJob  == [sym |-> CHOOSE s \in Symbols : TRUE, qty |-> 0]

-----------------------------------------------------------------------------
(* Buying: the cash was checked, then trade, cash and lot are committed.    *)

\* Mutant: the cash is not looked at.
BeginBuyBlind(a, s, n) ==
  /\ at[a] = "rest" /\ ~halt /\ n <= MaxOrder
  /\ Len(lots[s]) + Cardinality({b \in Actors : at[b] \in Buying /\ job[b].sym = s}) < MaxLots
  /\ job' = [job EXCEPT ![a] = [sym |-> s, qty |-> n]] /\ Goto(a, "buy")
  /\ UNCHANGED <<books, halt, plan, keep, todo, panics, dead>>

\* Neither the engine nor a manual buy starts while the halt is set.  Both check
\* the cash, and both ask can_deploy; a manual buy may name any quantity.
BeginBuy(a, s, n) ==
  /\ at[a] = "rest" /\ ~halt
  /\ n <= MaxOrder /\ n <= cash
  /\ Len(lots[s]) + Cardinality({b \in Actors : at[b] \in Buying /\ job[b].sym = s}) < MaxLots
  /\ job' = [job EXCEPT ![a] = [sym |-> s, qty |-> n]]
  /\ Goto(a, "buy")
  /\ UNCHANGED <<books, halt, plan, keep, todo, panics, dead>>

\* db.record_trade, for a buy and for a sale.
RecordTrade(a) ==
  LET j == job[a]
  IN  \/ /\ at[a] = "buy" /\ Goto(a, "pay")
         /\ net' = [net EXCEPT ![j.sym] = @ + j.qty]
      \/ /\ at[a] = "record" /\ Goto(a, "credit")
         /\ net' = [net EXCEPT ![j.sym] = @ - j.qty]
  /\ UNCHANGED <<lots, row, cash, halt, job, plan, keep, todo, panics, dead>>

Pay(a) ==
  /\ at[a] = "pay" /\ Goto(a, "lot") /\ cash' = cash - job[a].qty
  /\ UNCHANGED <<lots, row, net, halt, job, plan, keep, todo, panics, dead>>

\* Mutant: the row is replaced.
OpenLotOver(a) ==
  /\ at[a] = "lot" /\ Goto(a, "rest")
  /\ LET j == job[a]
     IN  /\ lots' = [lots EXCEPT ![j.sym] = Append(@, j.qty)]
         /\ row' = [row EXCEPT ![j.sym] = j.qty]
  /\ job' = [job EXCEPT ![a] = NoJob]
  /\ UNCHANGED <<net, cash, halt, plan, keep, todo, panics, dead>>

\* open_lot, one transaction: the lot and the row.
OpenLot(a) ==
  /\ at[a] = "lot" /\ Goto(a, "rest")
  /\ LET j == job[a]
     IN  /\ lots' = [lots EXCEPT ![j.sym] = Append(@, j.qty)]
         /\ row' = [row EXCEPT ![j.sym] = @ + j.qty]
  /\ job' = [job EXCEPT ![a] = NoJob]
  /\ UNCHANGED <<net, cash, halt, plan, keep, todo, panics, dead>>

-----------------------------------------------------------------------------
(* Selling: close_lots_fifo reads the lots, writes them, reads the row and  *)
(* writes it; then come the trade and the cash.                             *)

\* A sale of the engine takes the whole row.
BeginSale(s) ==
  /\ at["engine"] = "rest" /\ ~halt /\ row[s] > 0
  /\ job' = [job EXCEPT !["engine"] = [sym |-> s, qty |-> row[s]]]
  /\ Goto("engine", "pick")
  /\ UNCHANGED <<books, halt, plan, keep, todo, panics, dead>>

\* What is left of each lot that still has shares after q went, oldest first.
FIFO(ls, q) ==
  [i \in {k \in DOMAIN ls : ls[k] > 0} |->
     Monus(ls[i], Monus(q, SumFunctionOnSet(ls, 1 .. i - 1)))]

\* The lots are read and their remainders worked out.  Rows of a sale of more
\* than they hold are consumed as well: keep is used to remember the shortfall.
PickLots(a) ==
  /\ at[a] = "pick" /\ Goto(a, "take")
  /\ plan' = [plan EXCEPT ![a] = FIFO(lots[job[a].sym], job[a].qty)]
  /\ keep' = [keep EXCEPT ![a] = Monus(job[a].qty, Held(job[a].sym))]
  /\ UNCHANGED <<books, halt, job, todo, panics, dead>>

\* The remainders are committed; only then a sale of more than the lots hold
\* raises, and a panic stops at that row.
TakeLots(a) ==
  /\ at[a] = "take"
  /\ lots' = [lots EXCEPT ![job[a].sym] =
       [i \in DOMAIN @ |->
          IF i \in DOMAIN plan[a] THEN plan[a][i] ELSE @[i]]]
  /\ \/ keep[a] = 0 /\ Goto(a, "row") /\ UNCHANGED <<job, todo>>
     \/ /\ keep[a] > 0 /\ Goto(a, "rest")
        /\ job' = [job EXCEPT ![a] = NoJob] /\ todo' = [todo EXCEPT ![a] = {}]
  /\ plan' = [plan EXCEPT ![a] = NoPlan] /\ keep' = [keep EXCEPT ![a] = 0]
  /\ UNCHANGED <<row, net, cash, halt, panics, dead>>

\* The row's quantity is read, if the row is still there ...
ReadRow(a) ==
  /\ at[a] = "row"
  /\ LET q == row[job[a].sym]
     IN  /\ Goto(a, IF q = 0 THEN "record" ELSE "cut")
         /\ keep' = [keep EXCEPT ![a] = Monus(q, job[a].qty)]
  /\ UNCHANGED <<books, halt, job, plan, todo, panics, dead>>

\* Mutant: a row that comes to nothing stays.
CutRowKeeps(a) ==
  /\ at[a] = "cut" /\ Goto(a, "record")
  /\ row' = [row EXCEPT ![job[a].sym] = IF keep[a] = 0 THEN @ ELSE keep[a]]
  /\ keep' = [keep EXCEPT ![a] = 0]
  /\ UNCHANGED <<lots, net, cash, halt, job, plan, todo, panics, dead>>

\* ... and written back, or the row deleted.
CutRow(a) ==
  /\ at[a] = "cut" /\ Goto(a, "record")
  /\ row' = [row EXCEPT ![job[a].sym] = IF @ = 0 THEN 0 ELSE keep[a]]
  /\ keep' = [keep EXCEPT ![a] = 0]
  /\ UNCHANGED <<lots, net, cash, halt, job, plan, todo, panics, dead>>

\* Mutant: the proceeds of what the row still holds.
CreditRow(a) ==
  /\ at[a] = "credit" /\ Goto(a, "next") /\ cash' = cash + row[job[a].sym]
  /\ job' = [job EXCEPT ![a] = NoJob]
  /\ UNCHANGED <<lots, row, net, halt, plan, keep, todo, panics, dead>>

\* db.add_cash; a panic goes on with its next row.
Credit(a) ==
  /\ at[a] = "credit" /\ Goto(a, "next") /\ cash' = cash + job[a].qty
  /\ job' = [job EXCEPT ![a] = NoJob]
  /\ UNCHANGED <<lots, row, net, halt, plan, keep, todo, panics, dead>>

-----------------------------------------------------------------------------
(* panic_halt_and_squareoff, from the button or the drawdown limit.         *)

SetHalt(a) ==
  /\ at[a] = "rest" /\ panics < MaxHalts
  /\ a = "engine" => ~halt
  /\ halt' = TRUE /\ panics' = panics + 1 /\ Goto(a, "halted")
  /\ UNCHANGED <<books, job, plan, keep, todo, dead>>

ListRows(a) ==
  /\ at[a] = "halted" /\ Goto(a, "next")
  /\ todo' = [todo EXCEPT ![a] =
       {[sym |-> s, qty |-> row[s]] :
          s \in {x \in Symbols : row[x] > 0}}]
  /\ UNCHANGED <<books, halt, job, plan, keep, panics, dead>>

NextRow(a) ==
  /\ at[a] = "next"
  /\ \/ todo[a] = {} /\ Goto(a, "rest") /\ UNCHANGED <<job, todo>>
     \/ \E r \in todo[a] :
          /\ todo' = [todo EXCEPT ![a] = @ \ {r}]
          /\ job' = [job EXCEPT ![a] = r] /\ Goto(a, "pick")
  /\ UNCHANGED <<books, halt, plan, keep, panics, dead>>

Resume ==
  /\ halt /\ halt' = FALSE
  /\ UNCHANGED <<books, work, panics, dead, torn>>

\* The operations of cut end short: a commit of one fails, or their process dies,
\* the dashboard's with all its threads.  What they had not committed is gone.
\* Bound: once.
Die(cut) ==
  /\ ~dead /\ \E a \in cut : at[a] # "rest"
  /\ dead' = TRUE
  /\ torn' = torn \cup Clashing \cup
       UNION {Touched(a) \ {r.sym : r \in todo[a]} : a \in cut}
  /\ at' = [a \in Actors |-> IF a \in cut THEN "rest" ELSE at[a]]
  /\ plan' = [a \in Actors |-> IF a \in cut THEN NoPlan ELSE plan[a]]
  /\ keep' = [a \in Actors |-> IF a \in cut THEN 0 ELSE keep[a]]
  /\ job' = [a \in Actors |-> IF a \in cut THEN NoJob ELSE job[a]]
  /\ todo' = [a \in Actors |-> IF a \in cut THEN {} ELSE todo[a]]
  /\ UNCHANGED <<books, halt, panics>>

-----------------------------------------------------------------------------
Init ==
  /\ lots = [s \in Symbols |-> <<>>]
  /\ row = [s \in Symbols |-> 0]
  /\ net = [s \in Symbols |-> 0] /\ cash = Start /\ halt = FALSE
  /\ at = [a \in Actors |-> "rest"]
  /\ job = [a \in Actors |-> NoJob]
  /\ plan = [a \in Actors |-> NoPlan] /\ keep = [a \in Actors |-> 0]
  /\ todo = [a \in Actors |-> {}] /\ panics = 0 /\ dead = FALSE /\ torn = {}

Sale(a) ==
  \/ PickLots(a) \/ TakeLots(a) \/ ReadRow(a) \/ CutRow(a)
  \/ Credit(a) \/ NextRow(a) \/ ListRows(a)

Cuts == {{a} : a \in Actors} \cup {Threads}

Buy(a) == Pay(a) \/ OpenLot(a)

Next ==
  \/ \E a \in Actors : \/ RecordTrade(a) \/ Buy(a) \/ Sale(a) \/ SetHalt(a)
                       \/ \E s \in Symbols, n \in 1 .. MaxOrder : BeginBuy(a, s, n)
  \/ \E s \in Symbols : BeginSale(s)
  \/ \E cut \in Cuts : Die(cut)
  \/ Resume

\* Once begun, an order or a panic goes on by itself.
Spec ==
  /\ Init /\ [][Next]_vars
  /\ \A a \in Actors : WF_vars(RecordTrade(a) \/ Buy(a) \/ Sale(a))

-----------------------------------------------------------------------------
Share(a, s, steps) == IF at[a] \in steps /\ job[a].sym = s THEN job[a].qty ELSE 0

\* What the orders under way on s at one of these steps add up to.
At(s, steps) == SumFunction([a \in Actors |-> Share(a, s, steps)])

Due(a, step) == IF at[a] = step THEN job[a].qty ELSE 0

AllDue(step) == SumFunction([a \in Actors |-> Due(a, step)])

\* A symbol no two actors were at work on at once and no operation was cut short
\* on has its row, its lots and its trades in step, but for the order under way
\* (open_lot, close_lots_fifo, record_trade).
RowsLotsAndTradesAgree ==
  /\ TypeOK
  /\ \A s \in Clean :
       /\ row[s] = net[s] - At(s, {"pay", "lot"}) - At(s, {"record"})
       /\ Held(s) = row[s] - At(s, {"row", "cut"})

\* The trades explain the cash, also when several threads and processes write at
\* once: only an operation cut short between the two commits can part them
\* (record_trade, add_cash).
TradesExplainCash ==
  ~dead => cash = Start + AllDue("pay") - AllDue("credit") - SumFunction(net)

\* The engine and every thread of the dashboard check the cash before they pay,
\* and not again: together they overdraw it by one order for each buyer but the
\* last to check (execute_manual_paper_buy, _qty_for).
OverdraftBounded == cash >= -(Cardinality(Threads) * MaxOrder)

\* A sale can fail for want of lots only on a symbol that two actors were at
\* work on, or one was cut short on (close_lots_fifo raises after its commit).
SalesOfCleanRowsSucceed ==
  \A a \in Actors : at[a] = "take" /\ keep[a] > 0 => job[a].sym \notin Clean

-----------------------------------------------------------------------------
(* The inductive invariant.                                                 *)

\* What an actor does: a buy is no larger than an order may be; a panic lists
\* each row once and sells what it took from its list.
WorkOf(a) ==
  /\ at[a] \in Buying => job[a].qty <= MaxOrder
  /\ todo[a] # {} => at[a] \in Selling \cup {"next"}
  /\ \A r, q \in todo[a] : r.sym = q.sym => r = q
  /\ at[a] \in Selling => \A r \in todo[a] : r.sym # job[a].sym

WorkInv == \A a \in Actors : WorkOf(a)

\* The books of one undisturbed symbol, and that what is being sold is the
\* whole row, still as it was read.
Sound(s) ==
  /\ row[s] = net[s] - At(s, {"pay", "lot"}) - At(s, {"record"})
  /\ Held(s) = row[s] - At(s, {"row", "cut"})
  /\ \A a \in Actors :
       /\ \A r \in todo[a] : r.sym = s => r.qty = row[s]
       /\ at[a] \in Selling /\ job[a].sym = s =>
            /\ at[a] \in {"pick", "take", "row", "cut"} => job[a].qty = row[s]
            /\ at[a] = "take" => plan[a] = FIFO(lots[s], job[a].qty)
            /\ at[a] \in {"take", "cut"} => keep[a] = 0

CleanInv == \A s \in Clean : Sound(s)

\* The cash once the buys under way are paid.
Unpaid(a) == IF at[a] \in {"buy", "pay"} THEN job[a].qty ELSE 0

AllUnpaid == SumFunction([a \in Actors |-> Unpaid(a)])

CashInv ==
  /\ cash - AllUnpaid >= -(Cardinality(Threads) * MaxOrder)
  /\ TradesExplainCash

LedgerInv == TypeOK /\ WorkInv /\ CleanInv /\ CashInv
=============================================================================
