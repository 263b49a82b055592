---------------------------- MODULE MarketDataProofs ----------------------------
(***************************************************************************)
(* The pollers implement Delivery, for every source list, plan and         *)
(* backlog: IngestInv is inductive, it gives every row one of the states   *)
(* of Delivery, and each step of MarketData is a step of Delivery on them  *)
(* or leaves them alone.  Behind the bus, for every content of the         *)
(* sources: the context stays typed, and the rules on the index agree on   *)
(* events of flows while trading is on paper.                              *)
(***************************************************************************)
EXTENDS MarketData, FiniteSetTheorems, FunctionTheorems, SequenceTheorems,
        WellFoundedInduction, TLAPS

-----------------------------------------------------------------------------
(* The operators a poll is built from.                                      *)

\* The rank of a member, the number of smaller ones, is one of 0 .. n-1 and
\* different for different members: so every place of Ascending is taken.
LEMMA AscendingType ==
  ASSUME NEW S, IsFiniteSet(S), S \subseteq Nat
  PROVE  Ascending(S) \in Seq(S)
<1> DEFINE n    == Cardinality(S)
           Below(x) == {y \in S : y < x}
           rank == [x \in S |-> Cardinality(Below(x))]
<1>1. n \in Nat
  BY FS_CardinalityType
<1>2. ASSUME NEW x \in S
      PROVE  IsFiniteSet(Below(x)) /\ Cardinality(Below(x)) \in 0 .. (n - 1)
  <2>1. Below(x) \in SUBSET (S \ {x})
    OBVIOUS
  <2>2. IsFiniteSet(S \ {x}) /\ Cardinality(S \ {x}) = n - 1
    BY FS_RemoveElement
  <2>3. IsFiniteSet(Below(x)) /\ Cardinality(Below(x)) <= n - 1
    BY <2>1, <2>2, FS_Subset
  <2>4. Cardinality(Below(x)) \in Nat
    BY <2>3, FS_CardinalityType
  <2> QED  BY <1>1, <2>3, <2>4
<1>3. ASSUME NEW x \in S, NEW y \in S, x < y
      PROVE  Cardinality(Below(x)) < Cardinality(Below(y))
  <2>0. x \in Nat /\ y \in Nat /\ \A z \in S : z \in Nat
    OBVIOUS
  <2>a. \A z \in S : z < x => z < y
    BY <1>3, <2>0
  <2>b. ~(x < x)
    BY <2>0
  <2>1. Below(x) \in SUBSET Below(y) /\ x \in Below(y) /\ x \notin Below(x)
    BY <1>3, <2>a, <2>b
  <2>2. IsFiniteSet(Below(x)) /\ IsFiniteSet(Below(y))
    BY <1>2
  <2>3. Cardinality(Below(x)) <= Cardinality(Below(y)) /\ Cardinality(Below(x)) # Cardinality(Below(y))
    BY <2>1, <2>2, FS_Subset
  <2>4. Cardinality(Below(x)) \in Nat /\ Cardinality(Below(y)) \in Nat
    BY <2>2, FS_CardinalityType
  <2> QED  BY <2>3, <2>4
<1>4. rank \in Injection(S, 0 .. (n - 1))
  <2>1. rank \in [S -> 0 .. (n - 1)]
    BY <1>2
  <2>2. ASSUME NEW x \in S, NEW y \in S, x # y
        PROVE  rank[x] # rank[y]
    <3>1. x < y \/ y < x
      BY <2>2
    <3>2. rank[x] < rank[y] \/ rank[y] < rank[x]
      BY <3>1, <1>3
    <3>3. rank[x] \in Int /\ rank[y] \in Int
      BY <2>1
    <3> QED  BY <3>2, <3>3
  <2> QED  BY <2>1, <2>2 DEF Injection, IsInjective
<1>5. IsFiniteSet(0 .. (n - 1)) /\ Cardinality(0 .. (n - 1)) = n
  <2> HIDE DEF n
  <2>1. n - 1 \in Int
    BY <1>1
  <2>2. /\ IsFiniteSet(0 .. (n - 1))
        /\ Cardinality(0 .. (n - 1)) = IF 0 > n - 1 THEN 0 ELSE n - 1 - 0 + 1
    BY <2>1, FS_Interval
  <2> QED  BY <1>1, <2>2
<1>6. rank \in Surjection(S, 0 .. (n - 1))
  BY <1>4, <1>5, FS_Injection
<1>7. ASSUME NEW i \in 1 .. n
      PROVE  (CHOOSE x \in S : Cardinality(Below(x)) = i - 1) \in S
  <2>1. i - 1 \in 0 .. (n - 1)
    BY <1>1
  <2>2. PICK x \in S : rank[x] = i - 1
    BY <1>6, <2>1 DEF Surjection
  <2> QED  BY <2>2
<1>8. Ascending(S) = [i \in 1 .. n |-> CHOOSE x \in S : Cardinality(Below(x)) = i - 1]
  BY DEF Ascending
<1> HIDE DEF n, Below
<1>9. Ascending(S) \in [1 .. n -> S]
  BY <1>7, <1>8
<1> QED  BY <1>1, <1>9, SeqDef

\* Of a sequence over S the first n entries: the same entries, all in S.
LEMMA FirstEntries ==
  ASSUME NEW S, NEW r \in Seq(S), NEW n \in 0 .. Len(r)
  PROVE  Members(SubSeq(r, 1, n)) = {r[j] : j \in 1 .. n}
         /\ Members(SubSeq(r, 1, n)) \subseteq S
<1> DEFINE q == SubSeq(r, 1, n)
<1>1. Len(r) \in Nat
  BY LenProperties
<1>2. q \in Seq(S) /\ Len(q) = n /\ \A j \in 1 .. n : q[j] = r[j]
  BY <1>1, SubSeqProperties
<1>3. DOMAIN q = 1 .. n
  BY <1>2, LenProperties
<1>4. \A j \in 1 .. n : r[j] \in S
  BY <1>1, ElementOfSeq
<1> HIDE DEF q
<1>5. Members(q) = {r[j] : j \in 1 .. n}
  BY <1>2, <1>3 DEF Members
<1> QED  BY <1>4, <1>5 DEF q

\* A sequence over S as a function: what its domain is.
LEMMA SeqDomain ==
  ASSUME NEW S, NEW s \in Seq(S)
  PROVE  Len(s) \in Nat /\ DOMAIN s = 1 .. Len(s) /\ \A j \in 1 .. Len(s) : s[j] \in S
BY LenProperties, ElementOfSeq

\* A function on 1 .. n as a sequence.
LEMMA FunctionSeq ==
  ASSUME NEW S, NEW n \in Nat, NEW f \in [1 .. n -> S]
  PROVE  f \in Seq(S) /\ Len(f) = n
<1>1. f \in Seq(S)
  BY SeqDef
<1>2. Len(f) \in Nat /\ 1 .. Len(f) = 1 .. n
  BY <1>1, LenProperties
<1>3. Len(f) = n
  <2>1. \A i \in Nat \ {0} : i \in 1 .. n <=> i \in 1 .. Len(f)
    BY <1>2
  <2>2. CASE n < Len(f)
    BY <1>2, <2>1, <2>2
  <2>3. CASE Len(f) < n
    BY <1>2, <2>1, <2>3
  <2> QED  BY <1>2, <2>2, <2>3
<1> QED  BY <1>1, <1>3

-----------------------------------------------------------------------------
(* Polls, as far as rows go.                                                *)

\* The rows of a source in good shape that are listed and not in seen.
Well(src, seen) == {id \in shown[src] \ seen : ~rows[id].bad}

\* P is published, Q marked, and the write of M failed.
Polled(src, P, Q, M) ==
  /\ src \in Kept /\ P \subseteq Q /\ Q \ P \subseteq M /\ M \subseteq Q
  /\ Q \subseteq Well(src, marked[src]) /\ Q # {}
  /\ marked' = [marked EXCEPT ![src] = (IF src \in LastOnly THEN {} ELSE @) \cup Q]
  /\ sent' = [id \in DOMAIN sent |-> sent[id] + (IF id \in P THEN 1 ELSE 0)]
  /\ blocked' = blocked \cup M
  /\ UNCHANGED <<rows, shown, again, plan>>

\* The invariant, unfolded: what a list and a memory may hold.
LEMMA RowsTyped ==
  ASSUME IngestInv
  PROVE  /\ Len(rows) \in Nat /\ DOMAIN rows = 1 .. Len(rows) /\ \A id \in DOMAIN rows : rows[id] \in Row
         /\ DOMAIN sent = DOMAIN rows /\ \A id \in DOMAIN rows : sent[id] \in 0 .. 1
         /\ DOMAIN again = DOMAIN rows /\ \A id \in DOMAIN rows : again[id] \in Nat
         /\ shown \in [Kept -> SUBSET DOMAIN rows] /\ marked \in [Kept -> SUBSET DOMAIN rows]
         /\ blocked \subseteq DOMAIN rows
<1>1. rows \in Seq(Row) /\ sent \in Seq(0 .. 1) /\ again \in Seq(Nat)
  BY DEF IngestInv, IngestType
<1>2. Len(sent) = Len(rows) /\ Len(again) = Len(rows)
  BY DEF IngestInv, IngestType
<1>3. /\ shown \in [Kept -> SUBSET DOMAIN rows] /\ marked \in [Kept -> SUBSET DOMAIN rows]
      /\ blocked \subseteq DOMAIN rows
  BY DEF IngestInv, IngestType
<1>4. Len(rows) \in Nat /\ DOMAIN rows = 1 .. Len(rows) /\ \A id \in DOMAIN rows : rows[id] \in Row
  BY <1>1, SeqDomain
<1>5. DOMAIN sent = DOMAIN rows /\ \A id \in DOMAIN rows : sent[id] \in 0 .. 1
  BY <1>1, <1>2, <1>4, SeqDomain
<1>6. DOMAIN again = DOMAIN rows /\ \A id \in DOMAIN rows : again[id] \in Nat
  BY <1>1, <1>2, <1>4, SeqDomain
<1> QED  BY <1>3, <1>4, <1>5, <1>6

\* What a poller finds new, whatever it has seen: in good shape, all of it.
LEMMA FreshOf ==
  ASSUME IngestInv, NEW src \in Kept, NEW seen
  PROVE  Fresh(src, seen) \in Seq(Well(src, seen))
<1> DEFINE S == {id \in shown[src] \ seen : Reached(src, id)}
           W == Well(src, seen)
<1>1. Len(rows) \in Nat /\ shown[src] \subseteq 1 .. Len(rows)
  BY RowsTyped
<1>2. \A id \in 1 .. Len(rows) : ~(id < id)
  BY <1>1
<1>3. S \subseteq W
  BY <1>1, <1>2 DEF Reached, Well
<1>4. S \subseteq 1 .. Len(rows) /\ IsFiniteSet(1 .. Len(rows))
  BY <1>1, FS_Interval
<1>5. IsFiniteSet(S) /\ S \subseteq Nat
  BY <1>1, <1>4, FS_Subset
<1> HIDE DEF S, W
<1>6. Ascending(S) \in Seq(S)
  BY <1>5, AscendingType
<1>7. Ascending(S) \in Seq(W)
  <2>1. Len(Ascending(S)) \in Nat /\ Ascending(S) \in [1 .. Len(Ascending(S)) -> S]
    BY <1>6, LenProperties
  <2>2. Ascending(S) \in [1 .. Len(Ascending(S)) -> W]
    BY <1>3, <2>1
  <2> QED  BY <2>1, <2>2, SeqDef
<1> QED  BY <1>7 DEF S, W, Fresh

\* The same for what it remembers.
LEMMA FreshType ==
  ASSUME IngestInv, NEW src \in Kept
  PROVE  Fresh(src, marked[src]) \in Seq(Well(src, marked[src]))
BY FreshOf

\* Taking n rows of which k are published.
LEMMA TakeIs ==
  ASSUME NEW src \in Kept, NEW r, NEW n \in 1 .. Len(r), NEW k \in {n - 1, n},
         r \in Seq(Well(src, marked[src])), NEW M,
         M = {r[n]} \/ (M = {} /\ k = n),
         Take(src, r, n, k), blocked' = blocked \cup M
  PROVE  Polled(src, Members(SubSeq(r, 1, k)), Members(SubSeq(r, 1, n)), M)
<1> DEFINE S == Well(src, marked[src])
           P == Members(SubSeq(r, 1, k))
           Q == Members(SubSeq(r, 1, n))
<1>1. Len(r) \in Nat
  BY LenProperties
<1>2. n \in 0 .. Len(r) /\ k \in 0 .. Len(r) /\ n \in 1 .. n
  BY <1>1
<1> HIDE DEF S
<1>r. r \in Seq(S)
  BY DEF S
<1>3. P = {r[j] : j \in 1 .. k} /\ Q = {r[j] : j \in 1 .. n} /\ Q \subseteq S
  BY <1>2, <1>r, FirstEntries
<1>4. \A j \in 1 .. n : j \in 1 .. k \/ j = n
  BY <1>2
<1>5. \A j \in 1 .. k : j \in 1 .. n
  BY <1>2
<1>6. P \subseteq Q /\ Q \ P \subseteq {r[n]} /\ r[n] \in Q /\ (k = n => P = Q)
  BY <1>2, <1>3, <1>4, <1>5
<1>7. Q \ P \subseteq M /\ M \subseteq Q
  BY <1>6
<1>8. marked' = [marked EXCEPT ![src] = (IF src \in LastOnly THEN {} ELSE @) \cup Q]
  <2>1. n > 0
    BY <1>1
  <2>2. marked' = Mark(src, r, n)
    BY DEF Take
  <2> QED  BY <2>1, <2>2 DEF Mark
<1>9. sent' = [id \in DOMAIN sent |-> sent[id] + (IF id \in P THEN 1 ELSE 0)]
  BY DEF Take, In
<1>10. UNCHANGED <<rows, shown, again, plan>>
  BY DEF Take
<1>11. Q # {}
  BY <1>2, <1>6
<1> HIDE DEF P, Q
<1>12. Polled(src, P, Q, M)
  BY <1>3, <1>6, <1>7, <1>8, <1>9, <1>10, <1>11 DEF Polled, S
<1> QED  BY <1>12 DEF P, Q

\* A poll that goes well publishes all it marks.
LEMMA PollAllIs ==
  ASSUME IngestInv, NEW src, PollAll(src)
  PROVE  /\ \E Q : Polled(src, Q, Q, {})
         /\ UNCHANGED used
<1> DEFINE r == Fresh(src, marked[src])
<1>1. src \in Kept /\ Take(src, r, Len(r), Len(r)) /\ blocked' = blocked /\ UNCHANGED used
  BY DEF PollAll
<1>2. r \in Seq(Well(src, marked[src]))
  BY <1>1, FreshType
<1> HIDE DEF r
<1>3. r # << >>
  BY <1>1 DEF Take
<1>4. Len(r) \in 1 .. Len(r) /\ Len(r) \in {Len(r) - 1, Len(r)}
  BY <1>2, <1>3, EmptySeq, LenProperties
<1>5. blocked' = blocked \cup {}
  BY <1>1
<1>6. Polled(src, Members(SubSeq(r, 1, Len(r))), Members(SubSeq(r, 1, Len(r))), {})
  BY <1>1, <1>2, <1>4, <1>5, TakeIs
<1> QED  BY <1>1, <1>6

\* One that fails misses at most the row whose write failed.
LEMMA PollFailsIs ==
  ASSUME IngestInv, NEW src, PollFails(src)
  PROVE  /\ \E P, Q, m : Polled(src, P, Q, {m})
         /\ Use("fault")
<1> DEFINE r == Fresh(src, marked[src])
<1>1. PICK n \in DOMAIN r :
        /\ src \in Writers \ dead /\ Use("fault")
        /\ Take(src, r, n, IF src \in RecordFirst THEN n - 1 ELSE n)
        /\ blocked' = blocked \cup {r[n]}
  BY DEF PollFails
<1>2. src \in Kept
  BY <1>1 DEF Writers
<1>3. r \in Seq(Well(src, marked[src]))
  BY <1>2, FreshType
<1> HIDE DEF r
<1> DEFINE k == IF src \in RecordFirst THEN n - 1 ELSE n
<1>4. n \in 1 .. Len(r) /\ k \in {n - 1, n}
  BY <1>3, LenProperties
<1>5. Take(src, r, n, k)
  BY <1>1
<1> HIDE DEF k
<1>6. Polled(src, Members(SubSeq(r, 1, k)), Members(SubSeq(r, 1, n)), {r[n]})
  BY <1>1, <1>2, <1>3, <1>4, <1>5, TakeIs
<1> QED  BY <1>1, <1>6

\* Neither of them breaks the invariant: what it marks was sent or stopped, and
\* what it drops from a memory of one row is not listed any more.
LEMMA PolledKeeps ==
  ASSUME IngestInv, NEW src, NEW P, NEW Q, NEW M, Polled(src, P, Q, M),
         used' \in [row : Nat, poll : Nat, fault : Nat], used'.row = used.row
  PROVE  IngestInv'
<1>1. /\ src \in Kept /\ P \subseteq Q /\ Q \ P \subseteq M /\ M \subseteq Q
      /\ Q \subseteq shown[src] \ marked[src] /\ Q # {}
      /\ marked' = [marked EXCEPT ![src] = (IF src \in LastOnly THEN {} ELSE @) \cup Q]
      /\ sent' = [id \in DOMAIN sent |-> sent[id] + (IF id \in P THEN 1 ELSE 0)]
      /\ blocked' = blocked \cup M
      /\ rows' = rows /\ shown' = shown /\ plan' = plan /\ again' = again
  BY DEF Polled, Well
<1>2. /\ shown \in [Kept -> SUBSET DOMAIN rows] /\ marked \in [Kept -> SUBSET DOMAIN rows]
      /\ blocked \subseteq DOMAIN rows /\ sent \in Seq(0 .. 1) /\ Len(sent) = Len(rows)
      /\ rows \in Seq(Row) /\ again \in Seq(Nat) /\ Len(again) = Len(rows)
  BY DEF IngestInv, IngestType
<1>3. DOMAIN sent = DOMAIN rows /\ Len(sent) \in Nat /\ DOMAIN sent = 1 .. Len(sent)
      /\ \A id \in DOMAIN rows : sent[id] \in 0 .. 1
  BY <1>2, RowsTyped
<1>4. /\ \A s \in Kept : \A id \in marked[s] : sent[id] = 1 \/ id \in blocked
      /\ \A s \in Kept : \A id \in shown[s] : sent[id] = 1 \/ id \in blocked => id \in marked[s]
  BY DEF IngestInv, Remembered
<1>5. /\ \A s \in Kept : \A id \in shown[s] \cup marked[s] : rows[id].src = s
      /\ \A s \in LastOnly : \A a, b \in shown[s] : a = b
  BY DEF IngestInv, Listing
<1>6. Q \subseteq DOMAIN rows /\ \A id \in Q : sent[id] = 0 /\ id \notin blocked /\ rows[id].src = src
  BY <1>1, <1>2, <1>3, <1>4, <1>5
<1>7. \A id \in DOMAIN rows : sent'[id] = IF id \in P THEN 1 ELSE sent[id]
  BY <1>1, <1>3, <1>6
<1>8. IngestType'
  <2>1. sent' \in [1 .. Len(sent) -> 0 .. 1]
    BY <1>1, <1>3, <1>6
  <2>2. sent' \in Seq(0 .. 1) /\ Len(sent') = Len(sent)
    BY <2>1, <1>3, FunctionSeq
  <2>3. marked' \in [Kept -> SUBSET DOMAIN rows]
    BY <1>1, <1>2, <1>6
  <2>4. blocked' \subseteq DOMAIN rows
    BY <1>1, <1>2, <1>6
  <2>5. plan' \in Plans
    BY <1>1 DEF IngestInv, IngestType
  <2> QED  BY <1>1, <1>2, <2>2, <2>3, <2>4, <2>5 DEF IngestType
<1>9. Listing'
  <2>1. \A s \in Kept : marked'[s] = IF s # src THEN marked[s]
                                     ELSE (IF src \in LastOnly THEN {} ELSE marked[s]) \cup Q
    BY <1>1, <1>2
  <2>2. \A s \in Kept : \A id \in shown[s] \cup marked'[s] : rows[id].src = s
    BY <1>5, <1>6, <2>1
  <2> QED  BY <1>1, <1>5, <2>2 DEF Listing, IngestInv
<1>10. Remembered'
  <2> SUFFICES ASSUME NEW s \in Kept
               PROVE  /\ \A id \in marked'[s] : sent'[id] = 1 \/ id \in blocked'
                      /\ \A id \in shown[s] : sent'[id] = 1 \/ id \in blocked' => id \in marked'[s]
    BY <1>1 DEF Remembered
  <2>1. marked'[s] = IF s # src THEN marked[s]
                     ELSE (IF src \in LastOnly THEN {} ELSE marked[s]) \cup Q
    BY <1>1, <1>2
  <2>2. \A id \in marked'[s] : sent'[id] = 1 \/ id \in blocked'
    BY <1>1, <1>2, <1>4, <1>6, <1>7, <2>1
  <2>3. ASSUME NEW id \in shown[s], sent'[id] = 1 \/ id \in blocked'
        PROVE  id \in marked'[s]
    <3>1. id \in DOMAIN rows /\ rows[id].src = s
      BY <1>2, <1>5
    <3>2. CASE id \in Q
      BY <3>1, <3>2, <1>6, <2>1
    <3>3. CASE id \notin Q
      <4>1. sent[id] = 1 \/ id \in blocked
        BY <1>1, <1>7, <2>3, <3>1, <3>3
      <4>2. id \in marked[s]
        BY <1>4, <4>1
      <4>3. ~(s = src /\ src \in LastOnly)
        BY <1>1, <1>5, <3>3
      <4> QED  BY <2>1, <4>2, <4>3
    <3> QED  BY <3>2, <3>3
  <2> QED  BY <2>2, <2>3
<1> QED  BY <1>8, <1>9, <1>10 DEF IngestInv

-----------------------------------------------------------------------------
(* The invariant of the pollers.                                            *)

\* Using up a bound.
LEMMA UseIs ==
  ASSUME IngestInv, NEW what \in {"row", "poll", "fault"}, Use(what)
  PROVE  /\ used' \in [row : Nat, poll : Nat, fault : Nat]
         /\ used'.row = IF what = "row" THEN used.row + 1 ELSE used.row
         /\ used'.poll = IF what = "poll" THEN used.poll + 1 ELSE used.poll
         /\ used'.fault = IF what = "fault" THEN used.fault + 1 ELSE used.fault
         /\ used.row \in Nat /\ used'.row <= plan.row
<1>1. used \in [row : Nat, poll : Nat, fault : Nat] /\ used.row <= plan.row
  BY DEF IngestInv, IngestType, Listing
<1>2. plan.row \in Nat
  BY IngestAssumption DEF IngestAssumption, IngestInv, IngestType
<1>3. used[what] < plan[what] /\ used' = [used EXCEPT ![what] = @ + 1]
  BY DEF Use
<1>4. CASE what = "row"
  BY <1>1, <1>2, <1>3, <1>4
<1>5. CASE what = "poll"
  BY <1>1, <1>2, <1>3, <1>5
<1>6. CASE what = "fault"
  BY <1>1, <1>2, <1>3, <1>6
<1> QED  BY <1>4, <1>5, <1>6

\* Lists that lose rows and gain none.
Thinned == shown' \in [Kept -> SUBSET DOMAIN rows] /\ \A src \in Kept : shown'[src] \subseteq shown[src]

\* Steps that leave rows and memories alone, whatever the bursts.
LEMMA RowsAlone ==
  ASSUME IngestInv, Thinned, UNCHANGED <<rows, marked, sent, blocked, plan>>,
         again' \in Seq(Nat), Len(again') = Len(again),
         used' \in [row : Nat, poll : Nat, fault : Nat],
         used.row <= used'.row, used'.row <= plan.row
  PROVE  IngestInv'
<1>1. IngestType'
  BY DEF IngestInv, IngestType, Thinned
<1>2. Len(rows) \in Nat
  BY RowsTyped
<1>3. Len(rows) <= used.row /\ used.row \in Nat
  BY DEF IngestInv, IngestType, Listing
<1>4. Len(rows) <= used'.row
  BY <1>2, <1>3
<1>5. Listing'
  <2>1. \A src \in Kept : \A id \in shown'[src] \cup marked'[src] : rows'[id].src = src
    BY DEF IngestInv, Listing, Thinned
  <2>2. \A src \in LastOnly : \A a, b \in shown'[src] : a = b
    BY DEF IngestInv, Listing, Thinned, LastOnly
  <2> QED  BY <1>4, <2>1, <2>2 DEF Listing
<1>6. Remembered'
  BY DEF IngestInv, Remembered, Thinned
<1> QED  BY <1>1, <1>5, <1>6 DEF IngestInv

\* Lists stay as they are.
LEMMA NothingThinned ==
  ASSUME IngestInv, UNCHANGED shown
  PROVE  Thinned
BY DEF IngestInv, IngestType, Thinned

\* A burst, as far as rows go: deals in good shape, once each.
BurstOf(S) ==
  /\ S \subseteq Well("bulk", {}) /\ UNCHANGED <<rows, shown, marked, sent, blocked, plan>>
  /\ again' = [id \in DOMAIN again |-> again[id] + (IF id \in S THEN 1 ELSE 0)]

LEMMA BulkIsKept == "bulk" \in Kept
BY DEF Kept, Sources, Pollers, BulkDeals, Poller

LEMMA PreopenIsLast == "preopen" \in LastOnly /\ "preopen" \in Kept
BY DEF LastOnly, Kept, Sources, Pollers, Preopen, Poller

LEMMA BurstIs ==
  ASSUME IngestInv, BulkBurst
  PROVE  (\E S : BurstOf(S)) /\ Use("poll")
<1> DEFINE r == Fresh("bulk", {})
<1>1. PICK n \in 0 .. Len(r) : again' = [id \in DOMAIN again |-> again[id] + In(id, r, n)]
  BY DEF BulkBurst
<1>2. r \in Seq(Well("bulk", {}))
  BY FreshOf, BulkIsKept
<1> HIDE DEF r
<1>3. Members(SubSeq(r, 1, n)) \subseteq Well("bulk", {})
  BY <1>2, FirstEntries
<1>4. UNCHANGED <<rows, shown, marked, sent, blocked, plan>> /\ Use("poll")
  BY DEF BulkBurst
<1>5. BurstOf(Members(SubSeq(r, 1, n)))
  BY <1>1, <1>3, <1>4 DEF BurstOf, In
<1> QED  BY <1>4, <1>5

LEMMA BurstKeeps ==
  ASSUME IngestInv, NEW S, BurstOf(S), Use("poll")
  PROVE  IngestInv'
<1>1. UNCHANGED <<rows, shown, marked, sent, blocked, plan>>
  BY DEF BurstOf
<1>2. Len(rows) \in Nat /\ DOMAIN again = 1 .. Len(rows) /\ \A id \in 1 .. Len(rows) : again[id] \in Nat
  BY RowsTyped
<1>3. again' \in [1 .. Len(rows) -> Nat]
  BY <1>2 DEF BurstOf
<1>4. again' \in Seq(Nat) /\ Len(again') = Len(rows)
  BY <1>2, <1>3, FunctionSeq
<1>5. Len(again) = Len(rows)
  BY DEF IngestInv, IngestType
<1>6. used' \in [row : Nat, poll : Nat, fault : Nat] /\ used'.row = used.row
      /\ used.row \in Nat /\ used'.row <= plan.row
  BY UseIs
<1>7. used.row <= used'.row
  BY <1>6
<1> QED  BY <1>1, <1>4, <1>5, <1>6, <1>7, NothingThinned, RowsAlone

\* The pre-open batch given up at row id.
CutAt(id) ==
  /\ id \in shown["preopen"] \ marked["preopen"] /\ rows[id].bad
  /\ marked' = [marked EXCEPT !["preopen"] = {id}] /\ blocked' = blocked \cup {id}
  /\ UNCHANGED <<rows, shown, sent, again, plan, used>>

LEMMA CutIs ==
  ASSUME PreopenCut
  PROVE  \E id : CutAt(id)
BY DEF PreopenCut, CutAt

\* The row it remembers is the only one of the list, and it was given up.
LEMMA CutKeeps ==
  ASSUME IngestInv, NEW id, CutAt(id)
  PROVE  IngestInv'
<1>1. /\ id \in shown["preopen"]
      /\ marked' = [marked EXCEPT !["preopen"] = {id}] /\ blocked' = blocked \cup {id}
      /\ UNCHANGED <<rows, shown, sent, again, plan, used>>
  BY DEF CutAt
<1>2. /\ shown \in [Kept -> SUBSET DOMAIN rows] /\ marked \in [Kept -> SUBSET DOMAIN rows]
      /\ blocked \subseteq DOMAIN rows
  BY RowsTyped
<1>3. id \in DOMAIN rows
  BY <1>1, <1>2, PreopenIsLast
<1>4. \A s \in Kept : marked'[s] = IF s = "preopen" THEN {id} ELSE marked[s]
  BY <1>1, <1>2
<1>5. /\ \A s \in Kept : \A j \in shown[s] \cup marked[s] : rows[j].src = s
      /\ \A s \in LastOnly : \A a, b \in shown[s] : a = b
  BY DEF IngestInv, Listing
<1>6. rows[id].src = "preopen"
  BY <1>1, <1>5, PreopenIsLast
<1>7. IngestType'
  <2>1. marked' \in [Kept -> SUBSET DOMAIN rows] /\ blocked' \subseteq DOMAIN rows
    BY <1>1, <1>2, <1>3
  <2> QED  BY <1>1, <2>1 DEF IngestInv, IngestType
<1>8. Listing'
  <2>1. \A s \in Kept : \A j \in shown[s] \cup marked'[s] : rows[j].src = s
    BY <1>4, <1>5, <1>6
  <2> QED  BY <1>1, <1>5, <2>1 DEF IngestInv, Listing
<1>9. Remembered'
  <2>1. \A s \in Kept :
          /\ \A j \in marked[s] : sent[j] = 1 \/ j \in blocked
          /\ \A j \in shown[s] : sent[j] = 1 \/ j \in blocked => j \in marked[s]
    BY DEF IngestInv, Remembered
  <2>2. \A s \in Kept : \A j \in marked'[s] : sent[j] = 1 \/ j \in blocked'
    BY <1>1, <1>4, <2>1
  <2>3. ASSUME NEW s \in Kept, NEW j \in shown[s], sent[j] = 1 \/ j \in blocked'
        PROVE  j \in marked'[s]
    <3>1. CASE s = "preopen"
      BY <1>1, <1>4, <1>5, <3>1, PreopenIsLast
    <3>2. CASE s # "preopen"
      BY <1>1, <1>4, <1>5, <1>6, <2>1, <2>3, <3>2
    <3> QED  BY <3>1, <3>2
  <2> QED  BY <1>1, <2>2, <2>3 DEF Remembered
<1> QED  BY <1>7, <1>8, <1>9 DEF IngestInv

\* A new row was neither published nor stopped, and nobody has marked it.
LEMMA AppearsKeeps ==
  ASSUME IngestInv, NEW src \in Kept, Appears(src)
  PROVE  IngestInv'
<1> DEFINE id  == Len(rows) + 1
<1>1. /\ rows \in Seq(Row) /\ sent \in Seq(0 .. 1) /\ Len(sent) = Len(rows)
      /\ again \in Seq(Nat) /\ Len(again) = Len(rows)
      /\ shown \in [Kept -> SUBSET DOMAIN rows] /\ marked \in [Kept -> SUBSET DOMAIN rows]
      /\ blocked \subseteq DOMAIN rows /\ plan \in Plans
  BY DEF IngestInv, IngestType
<1>2. Len(rows) \in Nat /\ DOMAIN rows = 1 .. Len(rows) /\ DOMAIN sent = 1 .. Len(rows)
  BY <1>1, SeqDomain
<1>3. PICK events \in Contents[src], bad \in BOOLEAN :
        rows' = Append(rows, [src |-> src, events |-> events, bad |-> bad])
  BY DEF Appears
<1>4. [src |-> src, events |-> events, bad |-> bad] \in Row
  BY <1>3 DEF Row
<1>5. /\ rows' \in Seq(Row) /\ Len(rows') = id /\ DOMAIN rows' = 1 .. id
      /\ rows'[id].src = src /\ \A j \in 1 .. Len(rows) : rows'[j] = rows[j]
  <2> DEFINE new == [src |-> src, events |-> events, bad |-> bad]
  <2>1. new \in Row /\ rows' = Append(rows, new) /\ new.src = src
    BY <1>3, <1>4
  <2> HIDE DEF new
  <2>2. rows' \in Seq(Row) /\ Len(rows') = id
        /\ rows'[id] = new /\ \A j \in 1 .. Len(rows) : rows'[j] = rows[j]
    BY <1>1, <1>2, <2>1, AppendProperties
  <2> QED  BY <2>1, <2>2, SeqDomain
<1>6. shown' = [shown EXCEPT ![src] = (IF src \in LastOnly THEN {} ELSE @) \cup {id}]
  BY <1>5 DEF Appears
<1>7. sent' = Append(sent, 0) /\ UNCHANGED <<marked, blocked, plan>> /\ Use("row")
  BY DEF Appears
<1>8. /\ sent' \in Seq(0 .. 1) /\ Len(sent') = id /\ sent'[id] = 0
      /\ \A j \in 1 .. Len(rows) : sent'[j] = sent[j]
  BY <1>1, <1>2, <1>7, AppendProperties
<1>a. again' \in Seq(Nat) /\ Len(again') = id
  BY <1>1, <1>2, AppendProperties DEF Appears
<1>9. /\ used' \in [row : Nat, poll : Nat, fault : Nat] /\ used'.row = used.row + 1
      /\ used.row \in Nat /\ used'.row <= plan.row
  BY <1>7, UseIs
<1>10. 1 .. Len(rows) \subseteq 1 .. id /\ id \in 1 .. id /\ id \notin 1 .. Len(rows)
  BY <1>2
<1>11. IngestType'
  <2>1. shown' \in [Kept -> SUBSET (1 .. id)] /\ marked' \in [Kept -> SUBSET (1 .. id)]
        /\ blocked' \subseteq 1 .. id
    BY <1>1, <1>2, <1>6, <1>7, <1>10
  <2> QED  BY <2>1, <1>1, <1>5, <1>7, <1>8, <1>9, <1>a DEF IngestType
<1>12. Listing'
  <2>1. /\ \A s \in Kept : \A j \in shown[s] \cup marked[s] : rows[j].src = s
        /\ \A s \in LastOnly : \A a, b \in shown[s] : a = b
        /\ Len(rows) <= used.row
    BY DEF IngestInv, Listing
  <2>2. \A s \in Kept : shown'[s] = IF s # src THEN shown[s]
                                    ELSE (IF src \in LastOnly THEN {} ELSE shown[s]) \cup {id}
    BY <1>1, <1>6
  <2>3. ASSUME NEW s \in Kept, NEW j \in shown'[s] \cup marked[s]
        PROVE  rows'[j].src = s
    <3>1. CASE j \in shown[s] \cup marked[s]
      <4>1. j \in 1 .. Len(rows) /\ rows[j].src = s
        BY <1>1, <1>2, <2>1, <3>1
      <4> QED  BY <1>5, <4>1
    <3>2. CASE j = id /\ s = src
      BY <1>5, <3>2
    <3> QED  BY <2>2, <3>1, <3>2
  <2>4. ASSUME NEW s \in LastOnly, NEW a \in shown'[s], NEW b \in shown'[s] PROVE a = b
    <3>1. s \in Kept
      BY DEF LastOnly
    <3>2. CASE s # src
      BY <2>1, <2>2, <3>1, <3>2
    <3>3. CASE s = src
      BY <2>2, <3>1, <3>3
    <3> QED  BY <3>2, <3>3
  <2>5. Len(rows') <= used'.row
    BY <1>2, <1>5, <1>9, <2>1
  <2> QED  BY <1>7, <1>9, <2>3, <2>4, <2>5 DEF Listing
<1>13. Remembered'
  <2>1. \A s \in Kept :
          /\ \A j \in marked[s] : sent[j] = 1 \/ j \in blocked
          /\ \A j \in shown[s] : sent[j] = 1 \/ j \in blocked => j \in marked[s]
    BY DEF IngestInv, Remembered
  <2>2. \A s \in Kept : marked[s] \subseteq 1 .. Len(rows) /\ shown[s] \subseteq 1 .. Len(rows)
    BY <1>1, <1>2
  <2>3. \A s \in Kept : shown'[s] \subseteq shown[s] \cup {id}
    BY <1>1, <1>6
  <2>4. id \notin blocked /\ sent'[id] # 1
    BY <1>1, <1>2, <1>8, <1>10
  <2> QED  BY <1>7, <1>8, <2>1, <2>2, <2>3, <2>4 DEF Remembered
<1> QED  BY <1>11, <1>12, <1>13 DEF IngestInv

\* A new process has sent and marked nothing.
LEMMA ForgetKeeps ==
  ASSUME IngestInv, ForgetIngest, Use("fault")
  PROVE  IngestInv'
<1>1. /\ shown \in [Kept -> SUBSET DOMAIN rows] /\ plan \in Plans /\ rows \in Seq(Row)
  BY DEF IngestInv, IngestType
<1>2. Len(rows) \in Nat /\ DOMAIN sent = 1 .. Len(rows) /\ DOMAIN again = 1 .. Len(rows)
  BY RowsTyped
<1>3. /\ marked' = [s \in Kept |-> {}] /\ blocked' = {} /\ UNCHANGED <<rows, shown, plan>>
      /\ sent' = [id \in DOMAIN sent |-> 0] /\ again' = [id \in DOMAIN again |-> 0]
  BY DEF ForgetIngest
<1>4. sent' \in [1 .. Len(rows) -> 0 .. 1] /\ again' \in [1 .. Len(rows) -> Nat]
  BY <1>2, <1>3
<1>5. sent' \in Seq(0 .. 1) /\ Len(sent') = Len(rows)
  BY <1>2, <1>4, FunctionSeq
<1>a. again' \in Seq(Nat) /\ Len(again') = Len(rows)
  BY <1>2, <1>4, FunctionSeq
<1>6. used' \in [row : Nat, poll : Nat, fault : Nat] /\ used'.row = used.row
  BY UseIs
<1>7. IngestType'
  BY <1>1, <1>3, <1>5, <1>6, <1>a DEF IngestType
<1>8. Listing'
  BY <1>3, <1>6 DEF IngestInv, Listing
<1>9. Remembered'
  <2>1. \A s \in Kept : shown[s] \subseteq 1 .. Len(rows)
    BY RowsTyped
  <2>2. \A id \in 1 .. Len(rows) : sent'[id] # 1
    BY <1>2, <1>3
  <2> QED  BY <1>3, <2>1, <2>2 DEF Remembered
<1> QED  BY <1>7, <1>8, <1>9 DEF IngestInv

-----------------------------------------------------------------------------
(* The refinement.                                                          *)

KindOf(row) == IF row.bad THEN "malformed" ELSE IF row.src = "bulk" THEN "deal" ELSE "other"

\* What Delivery sees of the rows; through with are those that were published
\* or given up.
LEMMA SightIs ==
  IngestInv =>
    /\ DOMAIN rows \subseteq 1 .. MaxRows /\ MaxRows \in Nat
    /\ RowKind = [id \in 1 .. MaxRows |-> IF id \in DOMAIN rows THEN KindOf(rows[id]) ELSE "none"]
    /\ RowTimes = [id \in 1 .. MaxRows |-> IF id \in DOMAIN rows THEN sent[id] + again[id] ELSE 0]
    /\ RowsDone = {id \in DOMAIN rows : sent[id] = 1 \/ id \in blocked}
<1> SUFFICES ASSUME IngestInv
             PROVE  /\ DOMAIN rows \subseteq 1 .. MaxRows /\ MaxRows \in Nat
                    /\ RowKind = [id \in 1 .. MaxRows |->
                                    IF id \in DOMAIN rows THEN KindOf(rows[id]) ELSE "none"]
                    /\ RowTimes = [id \in 1 .. MaxRows |->
                                    IF id \in DOMAIN rows THEN sent[id] + again[id] ELSE 0]
                    /\ RowsDone = {id \in DOMAIN rows : sent[id] = 1 \/ id \in blocked}
  OBVIOUS
<1>1. Len(rows) \in Nat /\ DOMAIN rows = 1 .. Len(rows)
      /\ \A id \in DOMAIN rows : sent[id] \in 0 .. 1 /\ rows[id] \in Row
  BY RowsTyped
<1>2. MaxRows \in Nat /\ Len(rows) <= MaxRows
  <2>1. plan.row \in Nat /\ plan.row <= MaxRows /\ MaxRows \in Nat
    BY IngestAssumption, MarketAssumption
       DEF IngestAssumption, MarketAssumption, IngestInv, IngestType
  <2>2. Len(rows) <= used.row /\ used.row <= plan.row /\ used.row \in Nat
    BY DEF IngestInv, IngestType, Listing
  <2> QED  BY <1>1, <2>1, <2>2
<1>3. DOMAIN rows \subseteq 1 .. MaxRows
  BY <1>1, <1>2
<1>4. \A id \in 1 .. MaxRows : id > Len(rows) <=> id \notin DOMAIN rows
  BY <1>1, <1>2
<1>5. RowKind = [id \in 1 .. MaxRows |-> IF id \in DOMAIN rows THEN KindOf(rows[id]) ELSE "none"]
  BY <1>4 DEF RowKind, KindOf
<1>6. RowTimes = [id \in 1 .. MaxRows |-> IF id \in DOMAIN rows THEN sent[id] + again[id] ELSE 0]
  BY <1>4 DEF RowTimes
<1>7. ASSUME NEW id \in DOMAIN rows
      PROVE  (id \in marked[rows[id].src] \cup blocked \/ sent[id] > 0)
               <=> (sent[id] = 1 \/ id \in blocked)
  <2>1. rows[id].src \in Kept
    BY <1>1 DEF Row
  <2>2. id \in marked[rows[id].src] => sent[id] = 1 \/ id \in blocked
    BY <2>1 DEF IngestInv, Remembered
  <2>3. sent[id] > 0 <=> sent[id] = 1
    BY <1>1
  <2> QED  BY <2>2, <2>3
<1>8. RowsDone = {id \in DOMAIN rows : sent[id] = 1 \/ id \in blocked}
  BY <1>7 DEF RowsDone
<1> QED  BY <1>2, <1>3, <1>5, <1>6, <1>8

\* The same after a step.
LEMMA SightNext ==
  ASSUME IngestInv'
  PROVE  /\ RowKind' = [id \in 1 .. MaxRows |-> IF id \in DOMAIN rows' THEN KindOf(rows'[id]) ELSE "none"]
         /\ RowTimes' = [id \in 1 .. MaxRows |-> IF id \in DOMAIN rows' THEN sent'[id] + again'[id] ELSE 0]
         /\ RowsDone' = {id \in DOMAIN rows' : sent'[id] = 1 \/ id \in blocked'}
<1>1. (IngestInv =>
    /\ DOMAIN rows \subseteq 1 .. MaxRows /\ MaxRows \in Nat
    /\ RowKind = [id \in 1 .. MaxRows |-> IF id \in DOMAIN rows THEN KindOf(rows[id]) ELSE "none"]
    /\ RowTimes = [id \in 1 .. MaxRows |-> IF id \in DOMAIN rows THEN sent[id] + again[id] ELSE 0]
    /\ RowsDone = {id \in DOMAIN rows : sent[id] = 1 \/ id \in blocked})'
  BY SightIs, PTL
<1> QED  BY <1>1

\* A row in good shape that its poller has not taken is one Delivery may send.
LEMMA WellIsOpen ==
  ASSUME IngestInv, NEW src \in Kept, NEW id \in Well(src, marked[src])
  PROVE  /\ id \in DOMAIN rows /\ id \in D!Open /\ rows[id].src = src
         /\ sent[id] = 0 /\ id \notin blocked /\ id \in 1 .. MaxRows
<1>1. id \in shown[src] /\ id \notin marked[src] /\ ~rows[id].bad
  BY DEF Well
<1>2. id \in DOMAIN rows /\ id \in 1 .. MaxRows /\ sent[id] \in 0 .. 1
  BY <1>1, RowsTyped, SightIs
<1>3. sent[id] = 0 /\ id \notin blocked
  BY <1>1, <1>2 DEF IngestInv, Remembered
<1>4. id \notin RowsDone
  BY <1>3, SightIs
<1>5. RowKind[id] \in {"deal", "other"}
  BY <1>1, <1>2, SightIs DEF KindOf
<1>6. rows[id].src = src
  BY <1>1 DEF IngestInv, Listing
<1> QED  BY <1>2, <1>3, <1>4, <1>5, <1>6 DEF D!Open

\* A poll publishes rows that are open, and is through with those and with the
\* one whose write failed.
LEMMA PolledSends ==
  ASSUME IngestInv, IngestInv', NEW src, NEW P, NEW Q, NEW M, Polled(src, P, Q, M)
  PROVE  /\ P \in SUBSET D!Open /\ M \in SUBSET D!Open
         /\ D!Publishes(P) /\ RowsDone' = RowsDone \cup P \cup M /\ RowKind' = RowKind
<1>1. /\ src \in Kept /\ P \subseteq Q /\ Q \ P \subseteq M /\ M \subseteq Q
      /\ Q \subseteq Well(src, marked[src])
      /\ sent' = [id \in DOMAIN sent |-> sent[id] + (IF id \in P THEN 1 ELSE 0)]
      /\ blocked' = blocked \cup M /\ rows' = rows /\ again' = again
  BY DEF Polled
<1>2. \A id \in Q : /\ id \in DOMAIN rows /\ id \in D!Open
                    /\ sent[id] = 0 /\ id \notin blocked /\ id \in 1 .. MaxRows
  BY <1>1, WellIsOpen
<1>3. DOMAIN sent = DOMAIN rows /\ \A id \in DOMAIN rows : sent[id] \in 0 .. 1 /\ again[id] \in Nat
  BY RowsTyped
<1>4. \A id \in DOMAIN rows : sent'[id] = IF id \in P THEN 1 ELSE sent[id]
  BY <1>1, <1>2, <1>3
<1>5. \A id \in DOMAIN rows :
        sent'[id] + again'[id] = IF id \in P THEN sent[id] + again[id] + 1 ELSE sent[id] + again[id]
  BY <1>1, <1>2, <1>3, <1>4
<1>6. RowTimes' = [id \in 1 .. MaxRows |-> IF id \in P THEN RowTimes[id] + 1 ELSE RowTimes[id]]
  <2>1. RowTimes = [id \in 1 .. MaxRows |-> IF id \in DOMAIN rows THEN sent[id] + again[id] ELSE 0]
    BY SightIs
  <2>2. RowTimes' = [id \in 1 .. MaxRows |-> IF id \in DOMAIN rows THEN sent'[id] + again'[id] ELSE 0]
    BY <1>1, SightNext
  <2>3. \A id \in 1 .. MaxRows : id \notin DOMAIN rows => id \notin P
    BY <1>1, <1>2
  <2> QED  BY <1>5, <2>1, <2>2, <2>3
<1>7. RowsDone' = RowsDone \cup P \cup M
  <2>1. RowsDone = {id \in DOMAIN rows : sent[id] = 1 \/ id \in blocked}
    BY SightIs
  <2>2. RowsDone' = {id \in DOMAIN rows : sent'[id] = 1 \/ id \in blocked'}
    BY <1>1, SightNext
  <2>3. P \subseteq DOMAIN rows /\ M \subseteq DOMAIN rows
    BY <1>1, <1>2
  <2> QED  BY <1>1, <1>4, <2>1, <2>2, <2>3
<1>8. RowKind' = RowKind
  BY <1>1, SightIs, SightNext
<1> QED  BY <1>1, <1>2, <1>6, <1>7, <1>8 DEF D!Publishes

\* Rows, marks and publications as before: so are what Delivery sees of them.
LEMMA SightSame ==
  ASSUME UNCHANGED <<rows, marked, sent, again, blocked>>
  PROVE  UNCHANGED <<RowKind, RowTimes, RowsDone>>
BY DEF RowKind, RowTimes, RowsDone

\* A row that appears is a row of Delivery that appears.
LEMMA AppearsIsNew ==
  ASSUME IngestInv, IngestInv', NEW src \in Kept, Appears(src)
  PROVE  D!Appears
<1> DEFINE new == Len(rows) + 1
<1>1. PICK events \in Contents[src], bad \in BOOLEAN :
        rows' = Append(rows, [src |-> src, events |-> events, bad |-> bad])
  BY DEF Appears
<1> DEFINE row == [src |-> src, events |-> events, bad |-> bad]
<1>2. sent' = Append(sent, 0) /\ again' = Append(again, 0) /\ blocked' = blocked /\ Use("row")
  BY DEF Appears
<1>3. /\ rows \in Seq(Row) /\ sent \in Seq(0 .. 1) /\ again \in Seq(Nat)
      /\ Len(sent) = Len(rows) /\ Len(again) = Len(rows)
  BY DEF IngestInv, IngestType
<1>4. Len(rows) \in Nat /\ DOMAIN rows = 1 .. Len(rows) /\ blocked \subseteq 1 .. Len(rows)
  BY RowsTyped
<1>5. row \in Row /\ rows' = Append(rows, row) /\ KindOf(row) \in {"deal", "other", "malformed"}
  BY <1>1 DEF Row, KindOf
<1> HIDE DEF row
<1>6. /\ DOMAIN rows' = 1 .. new /\ rows'[new] = row
      /\ \A id \in 1 .. Len(rows) : rows'[id] = rows[id]
  <2>1. rows' \in Seq(Row) /\ Len(rows') = new
        /\ rows'[new] = row /\ \A id \in 1 .. Len(rows) : rows'[id] = rows[id]
    BY <1>3, <1>4, <1>5, AppendProperties
  <2> QED  BY <2>1, SeqDomain
<1>7. /\ sent'[new] = 0 /\ \A id \in 1 .. Len(rows) : sent'[id] = sent[id]
      /\ again'[new] = 0 /\ \A id \in 1 .. Len(rows) : again'[id] = again[id]
  BY <1>2, <1>3, <1>4, AppendProperties
<1>8. new \notin 1 .. Len(rows) /\ 1 .. new = 1 .. Len(rows) \cup {new}
  BY <1>4
<1>9. new \in 1 .. MaxRows
  <2>1. (IngestInv => DOMAIN rows \subseteq 1 .. MaxRows)'
    BY SightIs, PTL
  <2> QED  BY <1>6, <1>8, <2>1
<1> HIDE DEF new
<1>10. RowKind' = [RowKind EXCEPT ![new] = KindOf(row)] /\ RowKind[new] = "none"
  <2>1. RowKind = [id \in 1 .. MaxRows |-> IF id \in 1 .. Len(rows) THEN KindOf(rows[id]) ELSE "none"]
    BY <1>4, SightIs
  <2>2. RowKind' = [id \in 1 .. MaxRows |-> IF id \in 1 .. new THEN KindOf(rows'[id]) ELSE "none"]
    BY <1>6, SightNext
  <2> QED  BY <1>6, <1>8, <1>9, <2>1, <2>2
<1>11. RowTimes' = RowTimes
  <2>1. RowTimes = [id \in 1 .. MaxRows |-> IF id \in 1 .. Len(rows) THEN sent[id] + again[id] ELSE 0]
    BY <1>4, SightIs
  <2>2. RowTimes' = [id \in 1 .. MaxRows |-> IF id \in 1 .. new THEN sent'[id] + again'[id] ELSE 0]
    BY <1>6, SightNext
  <2>3. \A id \in 1 .. MaxRows : (IF id \in 1 .. new THEN sent'[id] + again'[id] ELSE 0)
          = (IF id \in 1 .. Len(rows) THEN sent[id] + again[id] ELSE 0)
    BY <1>7, <1>8
  <2> QED  BY <2>1, <2>2, <2>3
<1>12. RowsDone' = RowsDone
  <2>1. RowsDone = {id \in 1 .. Len(rows) : sent[id] = 1 \/ id \in blocked}
    BY <1>4, SightIs
  <2>2. RowsDone' = {id \in 1 .. new : sent'[id] = 1 \/ id \in blocked}
    BY <1>2, <1>6, SightNext
  <2> QED  BY <1>4, <1>7, <1>8, <2>1, <2>2
<1>13. used'.poll = used.poll /\ used'.fault = used.fault
  BY <1>2, UseIs
<1> QED  BY <1>5, <1>9, <1>10, <1>11, <1>12, <1>13 DEF D!Appears

\* A pre-open batch with a malformed part is given up.
LEMMA CutGivesUp ==
  ASSUME IngestInv, IngestInv', NEW id, CutAt(id)
  PROVE  D!GivesUp
<1>1. /\ id \in shown["preopen"] /\ rows[id].bad /\ blocked' = blocked \cup {id}
      /\ UNCHANGED <<rows, sent, again, used>>
  BY DEF CutAt
<1>2. id \in DOMAIN rows /\ id \in 1 .. MaxRows
  BY <1>1, RowsTyped, PreopenIsLast, SightIs
<1>3. RowKind' = RowKind /\ RowTimes' = RowTimes /\ RowKind[id] = "malformed"
  BY <1>1, <1>2, SightIs, SightNext DEF KindOf
<1>4. RowsDone' = RowsDone \cup {id}
  <2>1. RowsDone = {j \in DOMAIN rows : sent[j] = 1 \/ j \in blocked}
    BY SightIs
  <2>2. RowsDone' = {j \in DOMAIN rows : sent[j] = 1 \/ j \in blocked'}
    BY <1>1, SightNext
  <2> QED  BY <1>1, <1>2, <2>1, <2>2
<1> QED  BY <1>1, <1>2, <1>3, <1>4 DEF D!GivesUp

\* A burst repeats deals only.
LEMMA BurstRepeats ==
  ASSUME IngestInv, IngestInv', NEW S, BurstOf(S), Use("poll")
  PROVE  D!Bursts
<1>1. /\ S \subseteq Well("bulk", {}) /\ UNCHANGED <<rows, shown, marked, sent, blocked, plan>>
      /\ again' = [id \in DOMAIN again |-> again[id] + (IF id \in S THEN 1 ELSE 0)]
  BY DEF BurstOf
<1>2. /\ \A id \in DOMAIN rows : sent[id] \in 0 .. 1 /\ again[id] \in Nat
      /\ DOMAIN again = DOMAIN rows
  BY RowsTyped
<1>3. ASSUME NEW id \in S
      PROVE  id \in DOMAIN rows /\ id \in D!Deals
  <2>1. id \in shown["bulk"] /\ ~rows[id].bad
    BY <1>1 DEF Well
  <2>2. id \in DOMAIN rows /\ rows[id].src = "bulk"
    BY <2>1, BulkIsKept, RowsTyped DEF IngestInv, Listing
  <2>3. id \in 1 .. MaxRows /\ RowKind[id] = "deal"
    BY <2>1, <2>2, SightIs DEF KindOf
  <2> QED  BY <2>2, <2>3 DEF D!Deals
<1>4. \A id \in DOMAIN rows :
        sent[id] + again'[id] = IF id \in S THEN sent[id] + again[id] + 1 ELSE sent[id] + again[id]
  BY <1>1, <1>2
<1>5. D!Publishes(S)
  <2>1. RowTimes = [id \in 1 .. MaxRows |-> IF id \in DOMAIN rows THEN sent[id] + again[id] ELSE 0]
    BY SightIs
  <2>2. RowTimes' = [id \in 1 .. MaxRows |-> IF id \in DOMAIN rows THEN sent[id] + again'[id] ELSE 0]
    BY <1>1, SightNext
  <2> QED  BY <1>3, <1>4, <2>1, <2>2 DEF D!Publishes
<1>6. RowKind' = RowKind /\ RowsDone' = RowsDone
  BY <1>1 DEF RowKind, RowsDone
<1>7. used'.poll = used.poll + 1 /\ used'.fault = used.fault
  BY UseIs
<1> QED  BY <1>3, <1>5, <1>6, <1>7 DEF D!Bursts

-----------------------------------------------------------------------------
(* Steps.                                                                   *)

RowsStay ==
  /\ Thinned /\ UNCHANGED <<rows, marked, sent, again, blocked, plan>>
  /\ UNCHANGED used \/ Use("poll") \/ Use("row")

\* What a step of MarketData is to the rows of its sources: the bus, the
\* context and the owner's suggestions do not touch them.
LEMMA StepKinds ==
  ASSUME IngestInv, [Next]_vars
  PROVE  \/ \E src \in Kept : Appears(src)
         \/ \E src \in Kept : PollAll(src) \/ PollFails(src)
         \/ PreopenCut
         \/ BulkBurst
         \/ RowsStay
         \/ ForgetIngest /\ Use("fault")
<1>1. CASE Polls
  <2>1. CASE \E src \in Sources \ Kept : PollSpeaks(src)
    BY <2>1, NothingThinned DEF PollSpeaks, Speak, RowsStay
  <2>2. CASE SpeaksCut
    BY <2>2, NothingThinned DEF SpeaksCut, Speak, RowsStay
  <2>3. ASSUME NEW src \in Kept, Vanishes(src)
        PROVE  RowsStay
    <3>1. PICK id \in shown[src] : shown' = [shown EXCEPT ![src] = @ \ {id}]
      BY <2>3 DEF Vanishes
    <3>2. shown \in [Kept -> SUBSET DOMAIN rows]
      BY RowsTyped
    <3>3. Thinned
      BY <3>1, <3>2 DEF Thinned
    <3> QED  BY <2>3, <3>3 DEF Vanishes, RowsStay, memory
  <2> QED  BY <1>1, <2>1, <2>2, <2>3 DEF Polls
<1>2. CASE Handle
  BY <1>2, NothingThinned DEF Handle, RowsStay
<1>3. CASE Suggest
  BY <1>3, NothingThinned DEF Suggest, RowsStay, memory
<1>4. CASE Resolve
  BY <1>4, NothingThinned DEF Resolve, RowsStay, ingest, memory
<1>5. CASE Restart
  BY <1>5 DEF Restart
<1>6. CASE UNCHANGED vars
  BY <1>6, NothingThinned DEF vars, RowsStay, ingest, memory
<1> QED  BY <1>1, <1>2, <1>3, <1>4, <1>5, <1>6 DEF Next

\* No row has appeared yet.
LEMMA InitKeeps ==
  ASSUME Init
  PROVE  IngestInv
<1>1. /\ plan \in Plans /\ rows = << >> /\ sent = << >> /\ again = << >> /\ blocked = {}
      /\ shown = [s \in Kept |-> {}] /\ marked = [s \in Kept |-> {}]
      /\ used = [row |-> 0, poll |-> 0, fault |-> 0]
  BY DEF Init, InitIngest
<1>2. rows \in Seq(Row) /\ again \in Seq(Nat) /\ Len(again) = 0
      /\ sent \in Seq(0 .. 1) /\ Len(rows) = 0 /\ Len(sent) = 0
  BY <1>1, EmptySeq
<1>3. used \in [row : Nat, poll : Nat, fault : Nat]
  BY <1>1
<1>4. IngestType
  BY <1>1, <1>2, <1>3 DEF IngestType
<1>5. plan.row \in Nat
  BY <1>1, IngestAssumption DEF IngestAssumption
<1>6. Listing
  BY <1>1, <1>2, <1>5 DEF Listing, LastOnly
<1>7. Remembered
  BY <1>1 DEF Remembered
<1> QED  BY <1>4, <1>6, <1>7 DEF IngestInv

\* Every step keeps the invariant.
LEMMA StepKeeps ==
  ASSUME IngestInv, [Next]_vars
  PROVE  IngestInv'
<1>1. used \in [row : Nat, poll : Nat, fault : Nat] /\ used.row <= plan.row
  BY DEF IngestInv, IngestType, Listing
<1>2. CASE \E src \in Kept : Appears(src)
  BY <1>2, AppearsKeeps
<1>3. ASSUME NEW src \in Kept, PollAll(src)
      PROVE  IngestInv'
  BY <1>1, <1>3, PollAllIs, PolledKeeps
<1>4. ASSUME NEW src \in Kept, PollFails(src)
      PROVE  IngestInv'
  <2>1. PICK P, Q, m : Polled(src, P, Q, {m})
    BY <1>4, PollFailsIs
  <2>2. used' \in [row : Nat, poll : Nat, fault : Nat] /\ used'.row = used.row
    BY <1>4, PollFailsIs, UseIs
  <2> QED  BY <2>1, <2>2, PolledKeeps
<1>5. CASE RowsStay
  <2>1. /\ used' \in [row : Nat, poll : Nat, fault : Nat]
        /\ used.row <= used'.row /\ used'.row <= plan.row
    <3>1. CASE UNCHANGED used
      BY <1>1, <1>5, <3>1 DEF RowsStay
    <3>2. CASE Use("poll")
      BY <1>1, <3>2, UseIs
    <3>3. CASE Use("row")
      BY <1>1, <3>3, UseIs
    <3> QED  BY <1>5, <3>1, <3>2, <3>3 DEF RowsStay
  <2>2. again' \in Seq(Nat) /\ Len(again') = Len(again)
    BY <1>5 DEF RowsStay, IngestInv, IngestType
  <2> QED  BY <1>5, <2>1, <2>2, RowsAlone DEF RowsStay
<1>6. CASE ForgetIngest /\ Use("fault")
  BY <1>6, ForgetKeeps
<1>7. CASE PreopenCut
  BY <1>7, CutIs, CutKeeps
<1>8. CASE BulkBurst
  BY <1>8, BurstIs, BurstKeeps
<1> QED  BY <1>2, <1>3, <1>4, <1>5, <1>6, <1>7, <1>8, StepKinds

Sight == <<RowKind, RowTimes, RowsDone, used.poll, used.fault>>

\* Every step is one of Delivery: a poll sends, a failed one sends some and
\* is through with one more at most, a burst repeats deals, a pre-open batch may
\* be given up, a new process is a new life; a poll without a memory is a burst
\* of nothing, and the rest changes nothing Delivery speaks of.
LEMMA StepDelivers ==
  ASSUME IngestInv, IngestInv', [Next]_vars
  PROVE  [D!Next]_Sight
<1>1. used \in [row : Nat, poll : Nat, fault : Nat]
  BY DEF IngestInv, IngestType
<1>2. CASE \E src \in Kept : Appears(src)
  BY <1>2, AppearsIsNew DEF D!Next
<1>3. ASSUME NEW src \in Kept, PollAll(src)
      PROVE  D!Sends
  <2>1. PICK Q : Polled(src, Q, Q, {})
    BY <1>3, PollAllIs
  <2>2. Q \in SUBSET D!Open /\ D!Publishes(Q) /\ RowsDone' = RowsDone \cup Q /\ RowKind' = RowKind
    <3>1. /\ Q \in SUBSET D!Open /\ D!Publishes(Q)
          /\ RowsDone' = RowsDone \cup Q \cup {} /\ RowKind' = RowKind
      BY <2>1, PolledSends
    <3> QED  BY <3>1
  <2>3. UNCHANGED <<used.poll, used.fault>>
    BY <1>3, PollAllIs
  <2> QED  BY <2>2, <2>3 DEF D!Sends
<1>4. ASSUME NEW src \in Kept, PollFails(src)
      PROVE  D!SendsSome
  <2>1. PICK P, Q, m : Polled(src, P, Q, {m})
    BY <1>4, PollFailsIs
  <2>2. /\ P \in SUBSET D!Open /\ m \in D!Open /\ D!Publishes(P)
        /\ RowsDone' = RowsDone \cup P \cup {m} /\ RowKind' = RowKind
    <3>1. /\ P \in SUBSET D!Open /\ {m} \in SUBSET D!Open /\ D!Publishes(P)
          /\ RowsDone' = RowsDone \cup P \cup {m} /\ RowKind' = RowKind
      BY <2>1, PolledSends
    <3> QED  BY <3>1
  <2>3. used'.fault = used.fault + 1 /\ used'.poll = used.poll
    BY <1>4, PollFailsIs, UseIs
  <2> QED  BY <2>2, <2>3 DEF D!SendsSome
<1>5. CASE RowsStay
  <2>1. UNCHANGED <<RowKind, RowTimes, RowsDone>>
    BY <1>5, SightSame DEF RowsStay
  <2>2. CASE used'.poll = used.poll /\ used'.fault = used.fault
    BY <2>1, <2>2 DEF Sight
  <2>3. CASE Use("poll")
    <3>1. used'.poll = used.poll + 1 /\ used'.fault = used.fault
      BY <2>3, UseIs
    <3>2. RowTimes = [r \in 1 .. MaxRows |-> RowTimes[r]]
      BY DEF RowTimes
    <3>3. D!Publishes({})
      BY <2>1, <3>2 DEF D!Publishes
    <3> QED  BY <2>1, <3>1, <3>3 DEF D!Bursts, D!Next
  <2>4. CASE Use("row")
    BY <2>2, <2>4, UseIs
  <2> QED  BY <1>5, <2>2, <2>3, <2>4 DEF RowsStay
<1>6. CASE ForgetIngest /\ Use("fault")
  <2>1. used'.fault = used.fault + 1 /\ used'.poll = used.poll
    BY <1>6, UseIs
  <2>2. /\ rows' = rows /\ blocked' = {}
        /\ sent' = [id \in DOMAIN sent |-> 0] /\ again' = [id \in DOMAIN again |-> 0]
    BY <1>6 DEF ForgetIngest
  <2>3. DOMAIN sent = DOMAIN rows /\ DOMAIN again = DOMAIN rows
    BY RowsTyped
  <2>4. \A id \in DOMAIN rows : sent'[id] = 0 /\ again'[id] = 0
    BY <2>2, <2>3
  <2>a. /\ RowTimes' = [id \in 1 .. MaxRows |-> IF id \in DOMAIN rows THEN sent'[id] + again'[id] ELSE 0]
        /\ RowsDone' = {id \in DOMAIN rows : sent'[id] = 1 \/ id \in blocked'}
    BY <2>2, SightNext
  <2>5. RowTimes' = [r \in 1 .. MaxRows |-> 0]
    <3>1. \A id \in 1 .. MaxRows : (IF id \in DOMAIN rows THEN sent'[id] + again'[id] ELSE 0) = 0
      BY <2>4
    <3> QED  BY <2>a, <3>1
  <2>6. RowsDone' = {} /\ RowKind' = RowKind
    <3>1. RowsDone' = {}
      BY <2>2, <2>4, <2>a
    <3>2. RowKind' = RowKind
      BY <2>2 DEF RowKind
    <3> QED  BY <3>1, <3>2
  <2> QED  BY <2>1, <2>5, <2>6 DEF D!NewLife, D!Next
<1>7. CASE PreopenCut
  BY <1>7, CutIs, CutGivesUp DEF D!Next
<1>8. CASE BulkBurst
  BY <1>8, BurstIs, BurstRepeats DEF D!Next
<1> QED  BY <1>2, <1>3, <1>4, <1>5, <1>6, <1>7, <1>8, StepKinds DEF D!Next

-----------------------------------------------------------------------------
\* In every behaviour the pollers' memories agree with what they published: the
\* poller of a row publishes it at most once in a life (sent is 0 or 1), and
\* what is listed and remembered was published or given up.
THEOREM PollersRemember == Spec => []IngestInv
<1>1. Init => IngestInv
  BY InitKeeps
<1>2. IngestInv /\ [Next]_vars => IngestInv'
  BY StepKeeps
<1> QED  BY <1>1, <1>2, PTL DEF Spec

\* The pollers implement Delivery: the poller of a row publishes it at most once
\* in one life of the engine, each burst repeats deals once each and no other
\* row, no malformed row goes out, and one failed write loses one row.
THEOREM PollersDeliver == Spec => RowsAsPromised
<1>1. Init => D!Init
  <2> SUFFICES ASSUME Init PROVE D!Init
    OBVIOUS
  <2>1. rows = << >> /\ used.fault = 0 /\ used.poll = 0
    BY DEF Init, InitIngest
  <2>2. DOMAIN rows = {}
    BY <2>1
  <2>3. IngestInv
    BY InitKeeps
  <2>4. /\ RowKind = [r \in 1 .. MaxRows |-> "none"] /\ RowTimes = [r \in 1 .. MaxRows |-> 0]
        /\ RowsDone = {}
    BY <2>2, <2>3, SightIs
  <2> QED  BY <2>1, <2>4 DEF D!Init
<1>2. IngestInv /\ IngestInv' /\ [Next]_vars => [D!Next]_Sight
  BY StepDelivers
<1> QED  BY <1>1, <1>2, PollersRemember, PTL DEF Spec, RowsAsPromised, D!Spec, Sight

-----------------------------------------------------------------------------
(* What goes on the bus: Events gathers the lists of the rows that a poll   *)
(* takes, by recursion over sets of their places.  That the recursion has a *)
(* solution is proved first.                                                *)

\* Of a set of numbers that is not empty there is a least one.
LEMMA Least ==
  ASSUME NEW T, T \subseteq Nat, T # {}
  PROVE  \E m \in T : \A k \in T : ~(k < m)
<1>1. \E m \in T : \A k \in T : ~(<<k, m>> \in OpToRel(<, Nat))
  BY NatLessThanWellFounded, WFMin
<1> QED  BY <1>1 DEF OpToRel

\* Of a set of numbers up to n, what is largest.
LEMMA Largest ==
  ASSUME NEW n \in Nat, NEW T \in SUBSET (1 .. n), T # {}
  PROVE  Max(T) \in T /\ \A x \in T : Max(T) >= x
<1> DEFINE U == {n - x : x \in T}
<1>1. U \subseteq Nat /\ U # {}
  <2>1. \A x \in T : x \in 1 .. n
    OBVIOUS
  <2>2. \A x \in T : n - x \in Nat
    BY <2>1
  <2> QED  BY <2>2
<1> HIDE DEF U
<1>2. PICK u \in U : \A k \in U : ~(k < u)
  BY <1>1, Least
<1> USE DEF U
<1>3. PICK x \in T : u = n - x
  OBVIOUS
<1>4. ASSUME NEW y \in T
      PROVE  x >= y
  <2>1. n - y \in U
    OBVIOUS
  <2>2. ~(n - y < n - x)
    BY <1>2, <1>3, <2>1
  <2>3. x \in 1 .. n /\ y \in 1 .. n
    OBVIOUS
  <2> QED  BY <2>2, <2>3
<1> QED  BY <1>3, <1>4 DEF Max

\* The events of the row at place i of r.
Piece(r, i) == From(r[i], rows[r[i]].events)

\* g gathers the pieces of every set of places in S.
Gathers(r, S, g) ==
  g = [T \in SUBSET S |-> IF T = {} THEN << >> ELSE g[T \ {Max(T)}] \o Piece(r, Max(T))]

\* The fold as such a function.
LEMMA EventsDef ==
  ASSUME NEW r, NEW n
  PROVE  Events(r, n) =
           (CHOOSE g : Gathers(SubSeq(r, 1, n), DOMAIN SubSeq(r, 1, n), g))[DOMAIN SubSeq(r, 1, n)]
BY DEF Events, FoldLeft, MapThenFoldSet, Gathers, Piece

\* There is such a g: for one place more, the last, a piece goes behind.
LEMMA GatherOneMore ==
  ASSUME NEW r, NEW n \in Nat, NEW g, Gathers(r, 1 .. n, g)
  PROVE  \E h : Gathers(r, 1 .. n + 1, h)
<1> DEFINE h == [T \in SUBSET (1 .. n + 1) |->
                   IF n + 1 \in T THEN g[T \ {n + 1}] \o Piece(r, n + 1) ELSE g[T]]
<1>1. \A T \in SUBSET (1 .. n + 1) : n + 1 \notin T => T \in SUBSET (1 .. n)
  OBVIOUS
<1>2. \A T \in SUBSET (1 .. n + 1) : T \ {n + 1} \in SUBSET (1 .. n)
  OBVIOUS
<1>3. ASSUME NEW T \in SUBSET (1 .. n + 1)
      PROVE  h[T] = IF T = {} THEN << >> ELSE h[T \ {Max(T)}] \o Piece(r, Max(T))
  <2>1. CASE n + 1 \in T
    <3>1. Max(T) = n + 1
      <4>1. n + 1 \in Nat /\ T # {}
        BY <2>1
      <4>2. Max(T) \in T /\ \A x \in T : Max(T) >= x
        BY <4>1, Largest
      <4>3. Max(T) \in 1 .. n + 1 /\ Max(T) >= n + 1
        BY <2>1, <4>2
      <4> QED  BY <4>3
    <3>2. h[T \ {n + 1}] = g[T \ {n + 1}]
      BY <1>2
    <3> QED  BY <2>1, <3>1, <3>2
  <2>2. CASE n + 1 \notin T
    <3>1. T \in SUBSET (1 .. n) /\ h[T] = g[T]
      BY <1>1, <2>2
    <3>2. g[T] = IF T = {} THEN << >> ELSE g[T \ {Max(T)}] \o Piece(r, Max(T))
      BY <3>1 DEF Gathers
    <3>3. n + 1 \notin T \ {Max(T)} /\ T \ {Max(T)} \in SUBSET (1 .. n + 1)
      BY <2>2
    <3>4. h[T \ {Max(T)}] = g[T \ {Max(T)}]
      BY <3>3
    <3> QED  BY <3>1, <3>2, <3>4
  <2> QED  BY <2>1, <2>2
<1>4. h = [T \in SUBSET (1 .. n + 1) |-> h[T]]
  OBVIOUS
<1> HIDE DEF h
<1>5. h = [T \in SUBSET (1 .. n + 1) |->
             IF T = {} THEN << >> ELSE h[T \ {Max(T)}] \o Piece(r, Max(T))]
  BY <1>3, <1>4
<1>6. Gathers(r, 1 .. n + 1, h)
  BY <1>5 DEF Gathers
<1> QED  BY <1>6

\* So there is one for any number of places, by a smallest counterexample.
LEMMA GatherAll ==
  ASSUME NEW r, NEW n \in Nat
  PROVE  \E g : Gathers(r, 1 .. n, g)
<1> DEFINE Bad == {k \in Nat : ~\E g : Gathers(r, 1 .. k, g)}
<1> SUFFICES ASSUME Bad # {} PROVE FALSE
  OBVIOUS
<1>1. Bad \subseteq Nat
  OBVIOUS
<1> HIDE DEF Bad
<1>2. PICK m \in Bad : \A k \in Bad : ~(k < m)
  BY <1>1, Least
<1> USE DEF Bad
<1>3. m # 0
  <2>1. Gathers(r, 1 .. 0, [T \in {{}} |-> << >>])
    <3>1. SUBSET (1 .. 0) = {{}}
      OBVIOUS
    <3> QED  BY <3>1 DEF Gathers
  <2> QED  BY <2>1
<1>4. m - 1 \in Nat /\ m - 1 < m /\ (m - 1) + 1 = m
  BY <1>3
<1>5. PICK g : Gathers(r, 1 .. m - 1, g)
  BY <1>2, <1>4
<1>6. \E h : Gathers(r, 1 .. (m - 1) + 1, h)
  BY <1>4, <1>5, GatherOneMore
<1> QED  BY <1>4, <1>6

\* What is gathered is a sequence of what the pieces are sequences of.
LEMMA GatherType ==
  ASSUME NEW r, NEW n \in Nat, NEW g, Gathers(r, 1 .. n, g), NEW E,
         \A i \in 1 .. n : Piece(r, i) \in Seq(E)
  PROVE  g[1 .. n] \in Seq(E)
<1> DEFINE Bad == {k \in 0 .. n : g[1 .. k] \notin Seq(E)}
<1> SUFFICES ASSUME Bad # {} PROVE FALSE
  OBVIOUS
<1>1. Bad \subseteq Nat
  OBVIOUS
<1> HIDE DEF Bad
<1>2. PICK m \in Bad : \A k \in Bad : ~(k < m)
  BY <1>1, Least
<1> USE DEF Bad
<1>3. \A T \in SUBSET (1 .. n) :
        g[T] = IF T = {} THEN << >> ELSE g[T \ {Max(T)}] \o Piece(r, Max(T))
  BY DEF Gathers
<1>4. m # 0
  <2>1. 1 .. 0 = {} /\ {} \in SUBSET (1 .. n)
    OBVIOUS
  <2>2. g[{}] = << >> /\ << >> \in Seq(E)
    BY <1>3, <2>1, EmptySeq
  <2>3. g[1 .. m] \notin Seq(E)
    OBVIOUS
  <2> QED  BY <2>1, <2>2, <2>3
<1>5. m \in 1 .. n /\ 1 .. m \in SUBSET (1 .. n) /\ m \in 1 .. m
  BY <1>4
<1>6. Max(1 .. m) = m
  <2> HIDE DEF Bad
  <2>0. m \in Nat
    BY <1>1
  <2>1. 1 .. m \in SUBSET (1 .. m) /\ 1 .. m # {}
    BY <1>5
  <2>2. Max(1 .. m) \in 1 .. m /\ \A x \in 1 .. m : Max(1 .. m) >= x
    BY <2>0, <2>1, Largest
  <2> QED  BY <1>5, <2>2
<1>7. (1 .. m) \ {m} = 1 .. m - 1 /\ m - 1 \in 0 .. n /\ m - 1 < m
  BY <1>5
<1>8. g[1 .. m - 1] \in Seq(E)
  BY <1>2, <1>7
<1>9. g[1 .. m] = g[1 .. m - 1] \o Piece(r, m)
  BY <1>3, <1>5, <1>6, <1>7
<1> QED  BY <1>5, <1>8, <1>9, ConcatProperties

\* The events of listed rows are a sequence of what goes on the bus.
LEMMA EventsType ==
  ASSUME NEW E, NEW S, NEW r \in Seq(S), NEW n \in 0 .. Len(r),
         \A id \in S : From(id, rows[id].events) \in Seq(E)
  PROVE  Events(r, n) \in Seq(E)
<1> DEFINE q == SubSeq(r, 1, n)
<1>1. Len(r) \in Nat
  BY LenProperties
<1>2. q \in Seq(S) /\ Len(q) = n
  BY <1>1, SubSeqProperties
<1>3. n \in Nat /\ DOMAIN q = 1 .. n /\ \A i \in 1 .. n : q[i] \in S
  BY <1>2, SeqDomain
<1>4. Events(r, n) = (CHOOSE g : Gathers(q, 1 .. n, g))[1 .. n]
  BY <1>3, EventsDef
<1> HIDE DEF q
<1>5. Gathers(q, 1 .. n, CHOOSE g : Gathers(q, 1 .. n, g))
  BY <1>3, GatherAll
<1>6. \A i \in 1 .. n : Piece(q, i) \in Seq(E)
  BY <1>3 DEF Piece
<1> QED  BY <1>3, <1>4, <1>5, <1>6, GatherType

\* The bus holds events of the sources.
Entry == [row : Nat, e : Shown]

\* A list of a source as it goes on the bus.
LEMMA FromType ==
  ASSUME NEW row \in Nat, NEW src \in Sources, NEW list \in Contents[src]
  PROVE  /\ From(row, list) \in Seq(Entry)
         /\ From(row, <<Head(list)>>) \in Seq(Entry)
<1>1. list \in Seq(Members(list)) /\ list # << >> /\ Members(list) \subseteq Shown
  BY MarketAssumption, IngestAssumption DEF MarketAssumption, IngestAssumption, Shown
<1>2. /\ Len(list) \in Nat /\ DOMAIN list = 1 .. Len(list)
      /\ \A j \in 1 .. Len(list) : list[j] \in Shown
  BY <1>1, SeqDomain
<1>3. From(row, list) \in [1 .. Len(list) -> Entry]
  BY <1>2 DEF From, Entry
<1>4. Head(list) \in Shown
  BY <1>1
<1>5. From(row, <<Head(list)>>) \in [1 .. 1 -> Entry]
  BY <1>4 DEF From, Entry
<1> QED  BY <1>2, <1>3, <1>5, FunctionSeq

\* And as far as it goes on the bus.
LEMMA FromFirst ==
  ASSUME NEW row \in Nat, NEW src \in Sources, NEW list \in Contents[src], NEW n \in 0 .. Len(list)
  PROVE  From(row, SubSeq(list, 1, n)) \in Seq(Entry)
<1>1. list \in Seq(Members(list)) /\ Members(list) \subseteq Shown
  BY MarketAssumption DEF MarketAssumption, Shown
<1>2. Len(list) \in Nat /\ \A j \in 1 .. Len(list) : list[j] \in Shown
  BY <1>1, SeqDomain
<1> DEFINE q == SubSeq(list, 1, n)
<1>3. q \in Seq(Members(list)) /\ Len(q) = n /\ \A j \in 1 .. n : q[j] = list[j]
  BY <1>1, <1>2, SubSeqProperties
<1> HIDE DEF q
<1>4. n \in Nat /\ DOMAIN q = 1 .. n /\ \A j \in 1 .. n : q[j] \in Shown
  BY <1>1, <1>2, <1>3, SeqDomain
<1>5. From(row, q) \in [1 .. n -> Entry]
  BY <1>4 DEF From, Entry
<1>6. From(row, q) \in Seq(Entry)
  BY <1>4, <1>5, FunctionSeq
<1> QED  BY <1>6 DEF q

\* What a listed row stands for.
LEMMA ListOf ==
  ASSUME IngestInv, NEW src \in Kept, NEW id \in shown[src]
  PROVE  id \in Nat /\ \E s \in Sources : rows[id].events \in Contents[s]
<1>1. id \in Nat /\ rows[id] \in Row
  BY RowsTyped
<1>2. PICK s \in Kept : rows[id].events \in Contents[s]
  BY <1>1 DEF Row
<1>3. s \in Sources
  BY DEF Kept
<1> QED  BY <1>1, <1>2, <1>3

\* Polls put events of their rows behind what waits.
LEMMA TakeType ==
  ASSUME IngestInv, bus \in Seq(Entry), NEW src \in Kept, NEW seen,
         NEW n \in 0 .. Len(Fresh(src, seen)),
         bus' = bus \o Events(Fresh(src, seen), n)
  PROVE  bus' \in Seq(Entry)
<1> DEFINE r == Fresh(src, seen)
<1>1. r \in Seq(Well(src, seen))
  BY FreshOf
<1>2. ASSUME NEW id \in Well(src, seen)
      PROVE  From(id, rows[id].events) \in Seq(Entry)
  <2>1. id \in shown[src]
    BY DEF Well
  <2>2. id \in Nat /\ \E s \in Sources : rows[id].events \in Contents[s]
    BY <2>1, ListOf
  <2> QED  BY <2>2, FromType
<1> HIDE DEF r
<1>3. Events(r, n) \in Seq(Entry)
  BY <1>1, <1>2, EventsType DEF r
<1> QED  BY <1>3, ConcatProperties DEF r

\* Every step keeps the bus typed.
LEMMA BusKeeps ==
  ASSUME IngestInv, bus \in Seq(Entry), [Next]_vars
  PROVE  bus' \in Seq(Entry)
<1>1. ASSUME NEW src \in Kept, Appears(src)
      PROVE  bus' \in Seq(Entry)
  BY <1>1 DEF Appears
<1>2. ASSUME NEW src \in Kept, PollAll(src)
      PROVE  bus' \in Seq(Entry)
  <2> DEFINE r == Fresh(src, marked[src])
  <2>1. bus' = bus \o Events(r, Len(r))
    BY <1>2 DEF PollAll, Take
  <2>2. Len(r) \in 0 .. Len(r)
    BY FreshType, LenProperties
  <2> QED  BY <2>1, <2>2, TakeType
<1>3. ASSUME NEW src \in Kept, PollFails(src)
      PROVE  bus' \in Seq(Entry)
  <2> DEFINE r == Fresh(src, marked[src])
  <2>1. PICK n \in DOMAIN r : Take(src, r, n, IF src \in RecordFirst THEN n - 1 ELSE n)
    BY <1>3 DEF PollFails
  <2> DEFINE k == IF src \in RecordFirst THEN n - 1 ELSE n
  <2>2. r \in Seq(Well(src, marked[src]))
    BY FreshType
  <2>3. k \in 0 .. Len(r)
    <3> HIDE DEF r
    <3>1. n \in 1 .. Len(r) /\ Len(r) \in Nat
      BY <2>2, SeqDomain
    <3> QED  BY <3>1
  <2>4. bus' = bus \o Events(r, k)
    BY <2>1 DEF Take
  <2> QED  BY <2>3, <2>4, TakeType
<1>4. ASSUME NEW src \in Sources \ Kept, PollSpeaks(src)
      PROVE  bus' \in Seq(Entry)
  <2>1. PICK events \in Contents[src] : bus' = bus \o From(0, events)
    BY <1>4 DEF PollSpeaks, Speak
  <2>2. From(0, events) \in Seq(Entry)
    BY <2>1, FromType
  <2> QED  BY <2>1, <2>2, ConcatProperties
<1>5. CASE SpeaksCut
  <2>0. PICK src \in Sources : \E events \in Contents[src] : Speak(src, <<Head(events)>>)
    BY <1>5 DEF SpeaksCut
  <2>1. PICK events \in Contents[src] : bus' = bus \o From(0, <<Head(events)>>)
    BY <2>0 DEF Speak
  <2>2. From(0, <<Head(events)>>) \in Seq(Entry)
    BY <2>1, FromType
  <2> QED  BY <2>1, <2>2, ConcatProperties
<1>6. CASE BulkBurst
  <2> DEFINE r == Fresh("bulk", {})
  <2>1. PICK n \in 0 .. Len(r) : bus' = bus \o Events(r, n)
    BY <1>6 DEF BulkBurst
  <2> QED  BY <2>1, BulkIsKept, TakeType
<1>7. CASE Handle
  <2>1. bus # << >> /\ bus' = Tail(bus)
    BY <1>7 DEF Handle
  <2> QED  BY <2>1
<1>8. CASE Suggest \/ Resolve \/ UNCHANGED vars
  BY <1>8 DEF Suggest, Resolve, vars, ingest, memory
<1>9. CASE Restart
  BY <1>9, EmptySeq DEF Restart, ForgetIngest
<1>10. ASSUME NEW src \in Kept, Vanishes(src)
       PROVE  bus' \in Seq(Entry)
  BY <1>10 DEF Vanishes, memory
<1>11. CASE PreopenCut
  <2>0. PICK id \in shown["preopen"] :
          \E n \in 0 .. Len(rows[id].events) - 1 : bus' = bus \o From(id, SubSeq(rows[id].events, 1, n))
    BY <1>11 DEF PreopenCut
  <2>1. PICK n \in 0 .. Len(rows[id].events) - 1 : bus' = bus \o From(id, SubSeq(rows[id].events, 1, n))
    BY <2>0
  <2>2. id \in Nat
    BY ListOf, PreopenIsLast
  <2>3. PICK s \in Sources : rows[id].events \in Contents[s]
    BY ListOf, PreopenIsLast
  <2> DEFINE list == rows[id].events
  <2>4. n \in 0 .. Len(list)
    <3>1. list \in Seq(Members(list))
      BY <2>3, MarketAssumption DEF MarketAssumption
    <3> HIDE DEF list
    <3>2. Len(list) \in Nat
      BY <3>1, LenProperties
    <3>3. n \in 0 .. Len(list) - 1
      BY <2>1 DEF list
    <3> QED  BY <3>2, <3>3
  <2>5. From(id, SubSeq(list, 1, n)) \in Seq(Entry)
    BY <2>2, <2>3, <2>4, FromFirst
  <2> QED  BY <2>1, <2>5, ConcatProperties
<1> QED  BY <1>1, <1>2, <1>3, <1>4, <1>5, <1>6, <1>7, <1>8, <1>9, <1>10, <1>11 DEF Next, Polls

-----------------------------------------------------------------------------
(* The context.                                                             *)

\* What a source may show is sane.
LEMMA ShownSane == \A e \in Shown : Sane(e)
<1> SUFFICES ASSUME NEW e \in Shown PROVE Sane(e)
  OBVIOUS
<1>1. PICK src \in Sources : \E list \in Contents[src] : e \in Members(list)
  BY DEF Shown
<1>2. PICK list \in Contents[src] : e \in Members(list)
  BY <1>1
<1>3. PICK j \in DOMAIN list : e = list[j]
  BY <1>2 DEF Members
<1> QED  BY <1>3, MarketAssumption DEF MarketAssumption

\* The index of fear and greed stays in its range.
LEMMA FearGreedType ==
  ASSUME NEW c \in Context
  PROVE  FearGreed(c) \in 0 .. 100
<1>1. /\ c.vix \in Int /\ c.fii \in Int /\ c.gift \in Int /\ c.llm \in -100 .. 100
      /\ c.client \in Int /\ c.fiiOi \in Int
  BY DEF Context
<1> DEFINE volatility == IF c.vix <= 0 THEN 50 ELSE Clamp(0, 100 - ((c.vix - 11) * 38) \div 10, 100)
           flows  == 50 + (28 * Clamp(-800, c.fii, 800)) \div 800
           gift   == Clamp(0, 50 + (22 * c.gift) \div 100, 100)
           bias   == 50 + (35 * c.llm) \div 100
           retail == 50 - (18 * Clamp(-5000000, c.client - c.fiiOi, 5000000)) \div 5000000
<1>2. volatility \in 0 .. 100
  <2>1. 100 - ((c.vix - 11) * 38) \div 10 \in Int
    BY <1>1
  <2> QED  BY <2>1 DEF Clamp
<1>3. flows \in 22 .. 78
  <2>1. Clamp(-800, c.fii, 800) \in -800 .. 800
    BY <1>1 DEF Clamp
  <2>2. \A x \in -800 .. 800 : (28 * x) \div 800 \in -28 .. 28
    OBVIOUS
  <2> QED  BY <2>1, <2>2
<1>4. gift \in 0 .. 100
  <2>1. 50 + (22 * c.gift) \div 100 \in Int
    BY <1>1
  <2> QED  BY <2>1 DEF Clamp
<1>5. bias \in 15 .. 85
  BY <1>1
<1>6. retail \in 32 .. 68
  <2> DEFINE x == Clamp(-5000000, c.client - c.fiiOi, 5000000)
  <2>1. x \in Int /\ -5000000 <= x /\ x <= 5000000
    BY <1>1 DEF Clamp
  <2> HIDE DEF x
  <2>2. (18 * x) \div 5000000 \in Int /\ -18 <= (18 * x) \div 5000000 /\ (18 * x) \div 5000000 <= 18
    BY <2>1
  <2> QED  BY <2>2 DEF x
<1>7. FearGreed(c) = (30 * volatility + 25 * flows + 15 * (gift + bias + retail)) \div 100
  BY DEF FearGreed
<1> HIDE DEF volatility, flows, gift, bias, retail
<1> QED  BY <1>2, <1>3, <1>4, <1>5, <1>6, <1>7

\* The index leaves the rest of the context as it is.
LEMMA AwareType ==
  ASSUME NEW c \in Context
  PROVE  Aware(c) \in Context
<1>1. FearGreed(c) \in 0 .. 100
  BY FearGreedType
<1> QED  BY <1>1 DEF Aware, Context

\* A label that waits is one of the classifier's, tilted or not.
LEMMA RefreshedType ==
  ASSUME NEW c \in Context, NEW label \in MarketLabels, NEW tilt \in BOOLEAN
  PROVE  Refreshed(c, label, tilt) \in Context
<1> DEFINE raw == IF tilt THEN Nudge(label, c.fii) ELSE label
           old == [regime |-> c.regime, pending |-> c.pending, count |-> c.count]
           new == Persist(old, raw, FALSE)
<1>1. label \in Labels
  BY MarketAssumption DEF MarketAssumption, Labels
<1>2. NormalRegime(label) \in Labels
  BY <1>1 DEF NormalRegime, Labels, Buckets
<1>3. raw \in Labels
  BY <1>1, <1>2 DEF Nudge, Labels, Buckets
<1>4. old \in [regime : Labels, pending : Labels \cup {"none"}, count : Nat]
  BY DEF Context
<1> HIDE DEF raw, old
<1>5. new \in [regime : Labels, pending : Labels \cup {"none"}, count : Nat]
  <2> DEFINE St == [regime : Labels, pending : Labels \cup {"none"}, count : Nat]
             count == IF old.pending = raw THEN old.count + 1 ELSE 1
  <2>1. count \in Nat
    BY <1>4
  <2> HIDE DEF count
  <2>2. /\ [old EXCEPT !.regime = raw] \in St
        /\ [old EXCEPT !.pending = "none", !.count = 0] \in St
        /\ [old EXCEPT !.pending = raw, !.count = count] \in St
        /\ [regime |-> raw, pending |-> "none", count |-> 0] \in St
    BY <1>3, <1>4, <2>1
  <2> HIDE DEF St
  <2>3. new \in St
    BY <2>2 DEF Persist, count
  <2> QED  BY <2>3 DEF St
<1>6. Refreshed(c, label, tilt) =
        [c EXCEPT !.regime = new.regime, !.pending = new.pending, !.count = new.count]
  BY DEF Refreshed, raw, old
<1> HIDE DEF new
<1> QED  BY <1>5, <1>6 DEF Context

\* What the updater makes of an event.
LEMMA UpdatedType ==
  ASSUME NEW c \in Context, NEW e, Sane(e), NEW label \in MarketLabels
  PROVE  Updated(c, e, label) \in Context
<1>0. /\ e.price \in Int /\ Get(e, "bias", 0) \in -100 .. 100
      /\ Get(e, "fii", 0) \in Int /\ Get(e, "dii", 0) \in Int /\ Get(e, "gift", 0) \in Int
      /\ Get(e, "us", 0) \in Int /\ Get(e, "crude", 0) \in Int /\ Get(e, "usd", 0) \in Int
      /\ Get(e, "vix", 0) \in Int /\ Get(e, "client", 0) \in Int /\ Get(e, "fiiOi", 0) \in Int
  BY DEF Sane, Figures
<1>1. CASE e.type \in {"PRE_OPEN", "OPEN", "CLOSE"}
  <2>1. Updated(c, e, label) = Refreshed(Aware(c), label, FALSE)
    BY <1>1 DEF Updated
  <2> QED  BY <2>1, AwareType, RefreshedType
<1>2. CASE e.type = "BAR_5M"
  <2>1. Updated(c, e, label) = Refreshed(c, label, TRUE)
    BY <1>2 DEF Updated
  <2> QED  BY <2>1, RefreshedType
<1>3. CASE e.type = "FII_DII"
  <2> DEFINE d == [c EXCEPT !.fii = Get(e, "fii", 0), !.dii = Get(e, "dii", 0)]
  <2>1. Updated(c, e, label) = Refreshed(d, label, TRUE)
    BY <1>3 DEF Updated
  <2>2. d \in Context
    BY <1>0 DEF Context
  <2> HIDE DEF d
  <2> QED  BY <2>1, <2>2, RefreshedType
<1>4. CASE e.type = "GIFT"
  <2>1. Updated(c, e, label) = [c EXCEPT !.gift = Get(e, "gift", 0)]
    BY <1>4 DEF Updated
  <2> QED  BY <1>0, <2>1 DEF Context
<1>5. CASE e.type = "MACRO"
  <2> DEFINE vix == IF Get(e, "vix", 0) # 0 THEN e.p.vix ELSE c.vix
  <2>1. Updated(c, e, label) =
          [c EXCEPT !.us = Get(e, "us", 0), !.crude = Get(e, "crude", 0),
                    !.usd = Get(e, "usd", 0), !.vix = vix]
    BY <1>5 DEF Updated
  <2>2. vix \in Int
    BY <1>0 DEF Get, Context
  <2> HIDE DEF vix
  <2> DEFINE d1 == [c EXCEPT !.us = Get(e, "us", 0), !.crude = Get(e, "crude", 0)]
             d2 == [d1 EXCEPT !.usd = Get(e, "usd", 0), !.vix = vix]
  <2>3. d1 \in Context
    BY <1>0 DEF Context
  <2>4. Updated(c, e, label) = d2
    BY <2>1
  <2> HIDE DEF d1
  <2>5. d2 \in Context
    BY <1>0, <2>2, <2>3 DEF Context
  <2> QED  BY <2>4, <2>5
<1>6. CASE e.type = "LLM"
  <2> DEFINE d == [c EXCEPT !.llm = Get(e, "bias", 0)]
  <2>1. Updated(c, e, label) = Aware(d)
    BY <1>6 DEF Updated
  <2>2. d \in Context
    BY <1>0 DEF Context
  <2> HIDE DEF d
  <2> QED  BY <2>1, <2>2, AwareType
<1>7. CASE e.type = "IV"
  <2> DEFINE d == [c EXCEPT !.vix = Get(e, "vix", 0)]
  <2>1. Updated(c, e, label) = Aware(d)
    BY <1>7 DEF Updated
  <2>2. d \in Context
    BY <1>0 DEF Context
  <2> HIDE DEF d
  <2> QED  BY <2>1, <2>2, AwareType
<1>8. CASE e.type = "PREOPEN_PRICE"
  <2>1. Updated(c, e, label) =
          [c EXCEPT !.orbHi[e.sym] = e.price, !.orbLo[e.sym] = e.price, !.open[e.sym] = e.price]
    BY <1>8 DEF Updated
  <2> DEFINE d1 == [c EXCEPT !.orbHi[e.sym] = e.price, !.orbLo[e.sym] = e.price]
             d2 == [d1 EXCEPT !.open[e.sym] = e.price]
  <2>2. d1 \in Context
    BY <1>0 DEF Context
  <2>3. Updated(c, e, label) = d2
    BY <2>1
  <2> HIDE DEF d1
  <2>4. d2 \in Context
    BY <1>0, <2>2 DEF Context
  <2> QED  BY <2>3, <2>4
<1>9. CASE e.type = "PARTICIPANT"
  <2>1. Updated(c, e, label) = [c EXCEPT !.client = Get(e, "client", 0), !.fiiOi = Get(e, "fiiOi", 0)]
    BY <1>9 DEF Updated
  <2> QED  BY <1>0, <2>1 DEF Context
<1>10. CASE e.type = "TICK"
  <2>1. Updated(c, e, label) =
          [c EXCEPT !.open[e.sym] = IF @ # 0 THEN @ ELSE IF c.orbLo[e.sym] # 0 THEN c.orbLo[e.sym]
                                    ELSE e.price,
                    !.vwap[e.sym] = IF @ # 0 THEN @ ELSE e.price]
    BY <1>10 DEF Updated
  <2>2. c.open \in [Symbols -> Int] /\ c.vwap \in [Symbols -> Int] /\ c.orbLo \in [Symbols -> Int]
    BY DEF Context
  <2>3. [c.open EXCEPT ![e.sym] = IF @ # 0 THEN @ ELSE IF c.orbLo[e.sym] # 0 THEN c.orbLo[e.sym]
                                    ELSE e.price] \in [Symbols -> Int]
    BY <1>0, <2>2
  <2>4. [c.vwap EXCEPT ![e.sym] = IF @ # 0 THEN @ ELSE e.price] \in [Symbols -> Int]
    BY <1>0, <2>2
  <2> QED  BY <2>1, <2>3, <2>4 DEF Context
<1>11. CASE e.type \notin {"PRE_OPEN", "OPEN", "CLOSE", "BAR_5M", "FII_DII", "GIFT", "MACRO",
                           "LLM", "IV", "PREOPEN_PRICE", "PARTICIPANT", "TICK"}
  <2>1. Updated(c, e, label) = c
    BY <1>11 DEF Updated
  <2> QED  BY <2>1
<1> QED  BY <1>1, <1>2, <1>3, <1>4, <1>5, <1>6, <1>7, <1>8, <1>9, <1>10, <1>11

\* What the strategies write.
LEMMA WrittenType ==
  ASSUME NEW c \in Context, NEW e, Sane(e), NEW f
  PROVE  Written(e, c, f) \in Context
<1> DEFINE c1 == IF e.type = "BAR_5M" THEN Widened(e, c) ELSE c
           c2 == Flagged(e, c1, f)
           c3 == Rotated(e, c2)
<1>1. c1 \in Context
  <2>1. CASE e.type = "BAR_5M"
    <3>1. e.p.high \in Int /\ e.p.low \in Int
      BY <2>1 DEF Sane
    <3> DEFINE hi == IF c.orbHi[e.sym] > e.p.high THEN c.orbHi[e.sym] ELSE e.p.high
               lo == IF c.orbLo[e.sym] # 0 /\ c.orbLo[e.sym] < e.p.low THEN c.orbLo[e.sym] ELSE e.p.low
    <3>2. c.orbHi \in [Symbols -> Int] /\ c.orbLo \in [Symbols -> Int]
      BY DEF Context
    <3>3. [c.orbHi EXCEPT ![e.sym] = hi] \in [Symbols -> Int]
          /\ [c.orbLo EXCEPT ![e.sym] = lo] \in [Symbols -> Int]
      BY <3>1, <3>2
    <3> DEFINE H == [c.orbHi EXCEPT ![e.sym] = hi]
               L == [c.orbLo EXCEPT ![e.sym] = lo]
    <3>4. Widened(e, c) = [c EXCEPT !.orbHi = H, !.orbLo = L]
      BY DEF Widened
    <3>5. H \in [Symbols -> Int] /\ L \in [Symbols -> Int]
      BY <3>3
    <3> HIDE DEF H, L
    <3>6. [c EXCEPT !.orbHi = H, !.orbLo = L] \in Context
      BY <3>5 DEF Context
    <3>7. c1 = Widened(e, c)
      BY <2>1
    <3> QED  BY <3>4, <3>6, <3>7
  <2>2. CASE e.type # "BAR_5M"
    BY <2>2
  <2> HIDE DEF c1
  <2> QED  BY <2>1, <2>2
<1>2. c2 \in Context
  <2> HIDE DEF c1
  <2> QED  BY <1>1 DEF Flagged, Context
<1>3. c3 \in Context
  <2> HIDE DEF c2
  <2>1. <<Get(e, "ret5", 0)>> \in Seq(Int)
    BY DEF Sane, Figures
  <2> QED  BY <1>2, <2>1 DEF Rotated, Context
<1>4. RegimeWritten(e, c) \in Labels
  BY DEF RegimeWritten, Labels, Context
<1>5. Written(e, c, f) = [c3 EXCEPT !.regime = RegimeWritten(e, c)]
  BY DEF Written
<1> HIDE DEF c3
<1> QED  BY <1>3, <1>4, <1>5 DEF Context

-----------------------------------------------------------------------------
(* What the strategies say.                                                 *)

\* Every signal proposes to buy, to sell or to hedge; aside: and none is made on
\* events that carry flows.
Spoken(S)   == \A s \in S : s.act \in Acts
Aside(e, S) == Spoken(S) /\ (e.type \in Flowing => S = {})

\* Sets of signals, put together.
LEMMA SpokenSets ==
  /\ Spoken({})
  /\ \A S, T : Spoken(S) /\ Spoken(T) => Spoken(S \cup T)
  /\ \A id, sym, act : act \in Acts => Spoken({Signal(id, sym, act)})
BY DEF Spoken, Signal

\* The forms a proposal takes.
LEMMA PickSpoken ==
  ASSUME NEW id, NEW sym, NEW buy, NEW sell
  PROVE  Spoken(Pick(id, sym, buy, sell))
BY SpokenSets DEF Pick, Acts

\* On the symbol of the event, if it has one.
LEMMA OnSymbolSpoken ==
  ASSUME NEW id, NEW e, NEW buy, NEW sell
  PROVE  Spoken(OnSymbol(id, e, buy, sell))
BY SpokenSets, PickSpoken DEF OnSymbol

\* A hedge, or nothing.
LEMMA HedgeSpoken == ASSUME NEW id, NEW sym, NEW when PROVE Spoken(Hedge(id, sym, when))
BY SpokenSets DEF Hedge, Acts

\* A strategy that does not listen to flows is aside.
LEMMA OnSpoken ==
  ASSUME NEW types, NEW e, NEW S, Spoken(S)
  PROVE  Spoken(On(types, e, S)) /\ (types \cap Flowing = {} => Aside(e, On(types, e, S)))
BY SpokenSets DEF On, Aside

\* The two halves of a strategy that listens to two kinds of events.
LEMMA AsideBoth ==
  ASSUME NEW e, NEW S, NEW T, Aside(e, S), Aside(e, T)
  PROVE  Aside(e, S \cup T)
BY SpokenSets DEF Aside

\* Four strategies listen to flows, all others are aside.
LEMMA Proposals ==
  ASSUME NEW e, NEW c, NEW f, NEW k, NEW paper
  PROVE  /\ Spoken(RuleSignals(e, c, f, k, paper))
         /\ e.type \in Flowing =>
              RuleSignals(e, c, f, k, paper) =
                MacroConfluence(e, c) \cup GiftFiiSync(e, c)
                  \cup GlobalRiskBeta(e, paper) \cup FiiRegime(e)
<1> USE SpokenSets, PickSpoken, OnSymbolSpoken, HedgeSpoken, OnSpoken, AsideBoth DEF Acts, Flowing
<1>1. Spoken(MacroConfluence(e, c))  BY DEF MacroConfluence
<1>2. Spoken(GiftFiiSync(e, c))  BY DEF GiftFiiSync
<1>3. Aside(e, GiftGap(e, c))  BY DEF GiftGap
<1>4. Aside(e, GiftBasisConvergence(e, c))  BY DEF GiftBasisConvergence
<1>5. Aside(e, UsOvernightFollow(e, c))  BY DEF UsOvernightFollow
<1>6. Aside(e, MondayEffect(e, c, k))  BY DEF MondayEffect
<1>7. Aside(e, TurnaroundTuesday(e, c, k))  BY DEF TurnaroundTuesday
<1>8. Aside(e, SipFlowSeasonality(e, k))  BY DEF SipFlowSeasonality
<1>9. Spoken(GlobalRiskBeta(e, paper))  BY DEF GlobalRiskBeta
<1>10. Spoken(FiiRegime(e))  BY DEF FiiRegime
<1>11. Aside(e, NiftyBuyTheDip(e, c))  BY DEF NiftyBuyTheDip
<1>12. Aside(e, SentimentRegime(e, c, f, k))  BY DEF SentimentRegime
<1>13. Aside(e, OptionsGreeks(e, c, f))  BY DEF OptionsGreeks
<1>14. Aside(e, CashFuturesBasis(e))  BY DEF CashFuturesBasis
<1>15. Aside(e, ShortTermReversal(e))  BY DEF ShortTermReversal
<1>16. Aside(e, TurtleBreakout(e))  BY DEF TurtleBreakout
<1>17. Aside(e, QualityMomentum(e, c, f))  BY DEF QualityMomentum
<1>18. Aside(e, VolumeBreakout(e, f))  BY DEF VolumeBreakout
<1>19. Aside(e, BollingerSqueeze(e, f))  BY DEF BollingerSqueeze
<1>20. Aside(e, DualMomentumPro(e, f))  BY DEF DualMomentumPro
<1>21. Aside(e, VwapVolumeConfirm(e, c, f))  BY DEF VwapVolumeConfirm
<1>22. Aside(e, AdaptiveAlpha(e, c, f))  BY DEF AdaptiveAlpha
<1>23. Aside(e, StrategyLab(e, c, f))  BY DEF StrategyLab
<1>24. Aside(e, SectorRotation(e, c, f))  BY DEF SectorRotation
<1>25. Aside(e, CrabelNr7(e, f))  BY DEF CrabelNr7
<1>26. Aside(e, MomentumConsensus(e, c, f))  BY DEF MomentumConsensus
<1>27. Aside(e, EmaCrossRsi(e, f))  BY DEF EmaCrossRsi
<1>28. Aside(e, AthBreakout(e, c, f))  BY DEF AthBreakout
<1>29. Aside(e, IndiaPowerHour(e, c, f, k))  BY DEF IndiaPowerHour
<1>30. Aside(e, IndiaOpeningDrive(e, f, k))  BY DEF IndiaOpeningDrive
<1>31. Aside(e, IndiaDualRotation(e, c))  BY DEF IndiaDualRotation
<1>32. Aside(e, FiiDivergence(e, c, f))  BY DEF FiiDivergence
<1>33. Aside(e, CrudeEnergyBeta(e, c, f))  BY DEF CrudeEnergyBeta
<1>34. Aside(e, RsiRegimeAdaptive(e, c, f))  BY DEF RsiRegimeAdaptive
<1>35. Aside(e, ConnorsIbs(e, c, f))  BY DEF ConnorsIbs
<1>36. Aside(e, ZScoreReversion(e, c, f))  BY DEF ZScoreReversion
<1>37. Aside(e, LiquiditySweep(e))  BY DEF LiquiditySweep
<1>38. Aside(e, IndiaLunchFade(e, c, f, k))  BY DEF IndiaLunchFade
<1>39. Aside(e, LowerHighsFade(e, f))  BY DEF LowerHighsFade
<1>40. Aside(e, ExpiryWeekCaution(e, f, k))  BY DEF ExpiryWeekCaution
<1>41. Aside(e, PairsStatArb(e, f))  BY DEF PairsStatArb
<1>42. Aside(e, AsmGsmEntry(e, f))  BY DEF AsmGsmEntry
<1>43. Aside(e, Proximity52wHigh(e, f))  BY DEF Proximity52wHigh
<1>44. Aside(e, LowVolAnomaly(e, f))  BY DEF LowVolAnomaly
<1>45. Aside(e, DeliveryConviction(e, f))  BY DEF DeliveryConviction
<1>46. Aside(e, CustomGapFade(e, c, f))  BY DEF CustomGapFade
<1>47. Aside(e, OpeningRange(e, c))  BY DEF OpeningRange
<1>48. Aside(e, AffordableMomentum(e, c, f, paper))  BY DEF AffordableMomentum
<1>49. Aside(e, VwapReversion(e, c))  BY DEF VwapReversion
<1>50. Aside(e, ExpiryGamma(e, c, k))  BY DEF ExpiryGamma
<1>51. Aside(e, IvPremiumSell(e, c, f))  BY DEF IvPremiumSell
<1>52. Aside(e, CircuitBandFlow(e))  BY DEF CircuitBandFlow
<1>53. Aside(e, BulkAccumulation(e))  BY DEF BulkAccumulation
<1>54. Aside(e, BulkDistribution(e))  BY DEF BulkDistribution
<1>55. Aside(e, InsiderCluster(e))  BY DEF InsiderCluster
<1>56. Aside(e, InstitutionalFlow(e))  BY DEF InstitutionalFlow
<1>57. Aside(e, PromoterPledge(e))  BY DEF PromoterPledge
<1>58. Aside(e, EarningsVol(e, c))  BY DEF EarningsVol
<1>59. Aside(e, CalendarActivity(e, c, k))  BY DEF CalendarActivity
<1>60. Aside(e, IndexReconstitution(e))  BY DEF IndexReconstitution
<1>61. Aside(e, FoBanUnwind(e))  BY DEF FoBanUnwind
<1>62. Aside(e, PeadContinuation(e))  BY DEF PeadContinuation
<1>63. Aside(e, RegulatoryCatalyst(e))  BY DEF RegulatoryCatalyst
<1>64. Aside(e, CombinedMomentum(e, c, f))
  <2> DEFINE buy == f.r3m > 200 /\ f.r3m > f.r1m /\ f.rsi < 72 /\ c.fii > -2000
             said == Pick("combined_momentum", e.sym, buy, FALSE)
  <2> HIDE DEF buy
  <2>1. Spoken(said)
    OBVIOUS
  <2> HIDE DEF said
  <2>2. Aside(e, On({"BAR_5M"}, e, said))
    BY <2>1
  <2> QED  BY <2>2 DEF CombinedMomentum, said, buy
<1>65. Aside(e, RetailContrarianFade(e, c))
  <2> DEFINE net == IF c.client # 0 THEN c.client ELSE Get(e, "client", 0)
             sym == IF e.sym = "" THEN Index ELSE e.sym
             buy == net < -1500
             sell == net > 1500
             said == Pick("retail_contrarian_fade", sym, buy, sell)
  <2> HIDE DEF sym, buy, sell
  <2>1. Spoken(said)
    OBVIOUS
  <2> HIDE DEF said
  <2>2. Aside(e, On({"PARTICIPANT", "BAR_1D"}, e, said))
    BY <2>1
  <2> QED  BY <2>2 DEF RetailContrarianFade, said, sym, buy, sell, net
<1> HIDE DEF Acts, Flowing
<1> QED
  BY <1>1, <1>2, <1>3, <1>4, <1>5, <1>6, <1>7, <1>8, <1>9, <1>10, <1>11, <1>12, <1>13,
     <1>14, <1>15, <1>16, <1>17, <1>18, <1>19, <1>20, <1>21, <1>22, <1>23, <1>24, <1>25,
     <1>26, <1>27, <1>28, <1>29, <1>30, <1>31, <1>32, <1>33, <1>34, <1>35, <1>36, <1>37,
     <1>38, <1>39, <1>40, <1>41, <1>42, <1>43, <1>44, <1>45, <1>46, <1>47, <1>48, <1>49,
     <1>50, <1>51, <1>52, <1>53, <1>54, <1>55, <1>56, <1>57, <1>58, <1>59, <1>60, <1>61,
     <1>62, <1>63, <1>64, <1>65
     DEF RuleSignals, Aside, Spoken

-----------------------------------------------------------------------------
(* One voice.                                                               *)

\* A set whose members are all the same has one at most.
LEMMA AtMostOne ==
  ASSUME NEW S, \A a, b \in S : a = b
  PROVE  Cardinality(S) <= 1
<1>1. CASE S = {}
  BY <1>1, FS_EmptySet
<1>2. CASE S # {}
  <2>1. PICK a \in S : TRUE
    BY <1>2
  <2>2. S = {a}
    BY <2>1
  <2>3. Cardinality(S) = 1
    BY <2>2, FS_Singleton
  <2> QED  BY <2>3
<1> QED  BY <1>1, <1>2

\* On flows the rules that listen agree about the index: macro_confluence buys
\* on inflows above 200 and sells on a score no inflow lets come about, while
\* gift_fii_sync buys on inflows and sells on outflows; the other two propose
\* nothing on the index.
LEMMA RulesAgree ==
  ASSUME NEW c \in Context, NEW e, NEW f, NEW k, e.type \in Flowing,
         NEW s \in RuleSignals(e, c, f, k, TRUE), NEW t \in RuleSignals(e, c, f, k, TRUE),
         s.sym = Index, t.sym = Index
  PROVE  s.act = t.act
<1>1. /\ c.gift \in Int /\ c.fii \in Int /\ c.us \in Int /\ c.crude \in Int
      /\ c.usd \in Int /\ c.vix \in Int
  BY DEF Context
<1> DEFINE MC == MacroConfluence(e, c)
           GF == GiftFiiSync(e, c)
           MCBuys  == Score(c) >= 35 /\ c.gift > 10 /\ c.fii > 200
           MCSells == Score(c) <= -35
           GFBuys  == c.gift > 25 /\ c.fii > 0
           GFSells == c.gift < -25 /\ c.fii < -200
<1>2. \A x \in MC : \/ x.act = "BUY" /\ MCBuys
                    \/ x.act = "SELL" /\ MCSells
  BY DEF MacroConfluence, On, Pick, Signal
<1>3. \A x \in GF : \/ x.act = "BUY" /\ GFBuys
                    \/ x.act = "SELL" /\ GFSells
  BY DEF GiftFiiSync, On, Pick, Signal
<1>4. GlobalRiskBeta(e, TRUE) = {}
  BY DEF GlobalRiskBeta, On, Pick
<1>5. \A x \in FiiRegime(e) : x.sym # Index
  BY DEF FiiRegime, On, Hedge, Signal, Index
<1>6. s \in MC \cup GF /\ t \in MC \cup GF
  <2>1. RuleSignals(e, c, f, k, TRUE) = MC \cup GF \cup GlobalRiskBeta(e, TRUE) \cup FiiRegime(e)
    BY Proposals
  <2> HIDE DEF MC, GF
  <2> QED  BY <1>4, <1>5, <2>1
<1>7. /\ ~(MCBuys /\ MCSells) /\ ~(GFBuys /\ GFSells) /\ ~(MCBuys /\ GFSells)
      /\ ~(GFBuys /\ MCSells)
  BY <1>1 DEF Score
<1> HIDE DEF MC, GF, MCBuys, MCSells, GFBuys, GFSells
<1> QED  BY <1>2, <1>3, <1>6, <1>7

\* A new context is typed.
LEMMA NewContextType == NewContext \in Context
<1>1. "NEUTRAL" \in Labels /\ << >> \in Seq(Int)
  BY EmptySeq DEF Labels
<1> QED  BY <1>1 DEF NewContext, Context

\* That what is asked agrees is enough: the router adds nothing.
LEMMA VoicesSuffice ==
  ASSUME IngestInv, ContextInv, Voices
  PROVE  FlowsSpeakWithOneVoice
<1>1. ctx.regime \in Labels /\ ctx.pending \in Labels \cup {"none"} /\ ctx.fg \in 0 .. 100
  BY DEF ContextInv, Context
<1>2. \A i \in DOMAIN desk : desk[i].status \in {"pending", "evaluating"} \cup Outcomes
  <2>1. desk \in Seq(Suggestion)
    BY DEF ContextInv
  <2>2. \A i \in DOMAIN desk : desk[i] \in Suggestion
    BY <2>1, SeqDomain
  <2> QED  BY <2>2 DEF Suggestion
<1>3. TypeOK
  <2>1. Len(sent) = Len(rows) /\ blocked \subseteq DOMAIN rows
    BY DEF IngestInv, IngestType
  <2>2. UNION {marked[s] : s \in Kept} \subseteq DOMAIN rows
    BY DEF IngestInv, IngestType
  <2> QED  BY <1>1, <1>2, <2>1, <2>2 DEF TypeOK, Voices
<1>4. ASSUME Paper, heard.type \in Flowing
      PROVE  Cardinality({s.act : s \in {t \in heard.kept : t.sym = Index}}) <= 1
  <2> DEFINE S == {s.act : s \in {t \in heard.kept : t.sym = Index}}
  <2>1. \A a, b \in S : a = b
    BY <1>4 DEF Voices
  <2> HIDE DEF S
  <2>2. Cardinality(S) <= 1
    BY <2>1, AtMostOne
  <2> QED  BY <2>2 DEF S
<1> QED  BY <1>3, <1>4 DEF FlowsSpeakWithOneVoice

\* The router leaves no signal that was not proposed.
LEMMA PoolLeaves == ASSUME NEW sigs, NEW regime PROVE Pool(sigs, regime) \subseteq sigs
BY DEF Pool

\* What the owner has suggested is typed; suggestions come on bars alone.
LEMMA UserSpoken ==
  ASSUME ContextInv, NEW e
  PROVE  /\ Suggested(e) \subseteq DOMAIN desk
         /\ Spoken({Signal("user_suggested", desk[i].sym, desk[i].act) : i \in Suggested(e)})
         /\ e.type \in Flowing => Suggested(e) = {}
<1>1. Suggested(e) \subseteq DOMAIN desk /\ (e.type \in Flowing => Suggested(e) = {})
  BY DEF Suggested, Pending, Flowing
<1>2. \A i \in DOMAIN desk : desk[i] \in Suggestion
  BY SeqDomain DEF ContextInv
<1>3. \A i \in DOMAIN desk : desk[i].act \in Acts
  BY <1>2 DEF Suggestion, Acts
<1> QED  BY <1>1, <1>3 DEF Spoken, Signal

\* One event: the context stays typed, and the rules agree.
LEMMA HandleKeeps ==
  ASSUME IngestInv, ContextInv, Handle
  PROVE  ContextInv' /\ Voices'
<1> DEFINE e == Head(bus).e
<1>1. bus \in Seq(Entry) /\ bus # << >> /\ bus' = Tail(bus)
  BY DEF Handle, ContextInv, Entry
<1>2. e \in Shown
  <2>1. Len(bus) \in Nat /\ Len(bus) # 0 /\ Head(bus) = bus[1]
    BY <1>1, EmptySeq, LenProperties
  <2>2. bus[1] \in Entry
    BY <1>1, <2>1, ElementOfSeq
  <2> QED  BY <2>1, <2>2 DEF Entry
<1>3. Sane(e)
  BY <1>2, ShownSane
<1> HIDE DEF e
<1>4. PICK label \in MarketLabels, f \in Facts :
        LET c    == Updated(ctx, e, label)
            user == Suggested(e)
            sigs == IF fast /\ e.type = "TICK" THEN {}
                    ELSE RuleSignals(e, c, f, clock, Paper)
                           \cup {Signal("user_suggested", desk[i].sym, desk[i].act) : i \in user}
            new  == Written(e, c, f)
            kept == Pool(sigs, new.regime)
        IN  /\ ctx' = new
            /\ heard' = [type |-> e.type, asked |-> sigs, kept |-> kept]
            /\ desk' = [i \in DOMAIN desk |->
                  IF i \notin user THEN desk[i]
                  ELSE [desk[i] EXCEPT !.status = "evaluating",
                          !.kept = \E s \in kept : s.by = "user_suggested"]]
  BY DEF Handle, e
<1> DEFINE c    == Updated(ctx, e, label)
           user == Suggested(e)
           own  == {Signal("user_suggested", desk[i].sym, desk[i].act) : i \in user}
           rule == RuleSignals(e, c, f, clock, Paper)
           sigs == IF fast /\ e.type = "TICK" THEN {} ELSE rule \cup own
           new  == Written(e, c, f)
           kept == Pool(sigs, new.regime)
<1>5. ctx' = new /\ heard' = [type |-> e.type, asked |-> sigs, kept |-> kept]
  BY <1>4
<1>6. desk' = [i \in DOMAIN desk |->
         IF i \notin user THEN desk[i]
         ELSE [desk[i] EXCEPT !.status = "evaluating",
                 !.kept = \E s \in kept : s.by = "user_suggested"]]
  BY <1>4
<1>7. c \in Context
  BY <1>3, UpdatedType DEF ContextInv
<1>8. new \in Context
  <2> HIDE DEF c
  <2> QED  BY <1>3, <1>7, WrittenType
<1>9. Spoken(own) /\ (e.type \in Flowing => own = {}) /\ user \subseteq DOMAIN desk
  BY UserSpoken
<1>10. Spoken(rule)
  BY Proposals
<1>11. Spoken(sigs) /\ kept \subseteq sigs
  <2> HIDE DEF rule, own
  <2> QED  BY <1>9, <1>10, PoolLeaves, SpokenSets
<1>12. ASSUME Paper, e.type \in Flowing
       PROVE  \A s, t \in sigs : s.sym = Index /\ t.sym = Index => s.act = t.act
  <2>1. sigs \subseteq RuleSignals(e, c, f, clock, TRUE)
    <3>1. Paper = TRUE
      BY <1>12, MarketAssumption DEF MarketAssumption
    <3>2. own = {}
      BY <1>9, <1>12
    <3> HIDE DEF own, c
    <3> QED  BY <3>1, <3>2
  <2> HIDE DEF sigs, c
  <2> SUFFICES ASSUME NEW s \in sigs, NEW t \in sigs, s.sym = Index, t.sym = Index
               PROVE  s.act = t.act
    OBVIOUS
  <2>2. s \in RuleSignals(e, c, f, clock, TRUE) /\ t \in RuleSignals(e, c, f, clock, TRUE)
    BY <2>1
  <2>3. c \in Context /\ e.type \in Flowing
    BY <1>7, <1>12
  <2> HIDE DEF e, user, own, rule, new, kept
  <2> QED  BY <2>2, <2>3, RulesAgree
<1>13. desk' \in Seq(Suggestion)
  <2> DEFINE said == \E s \in kept : s.by = "user_suggested"
  <2>1. said \in BOOLEAN
    OBVIOUS
  <2>2. desk \in Seq(Suggestion)
    BY DEF ContextInv
  <2>3. Len(desk) \in Nat /\ DOMAIN desk = 1 .. Len(desk)
        /\ \A i \in 1 .. Len(desk) : desk[i] \in Suggestion
    BY <2>2, SeqDomain
  <2> HIDE DEF user, said
  <2>4. \A d \in Suggestion : [d EXCEPT !.status = "evaluating", !.kept = said] \in Suggestion
    BY <2>1 DEF Suggestion
  <2>5. desk' = [i \in 1 .. Len(desk) |->
          IF i \notin user THEN desk[i] ELSE [desk[i] EXCEPT !.status = "evaluating", !.kept = said]]
    BY <1>6, <2>3 DEF said
  <2>6. desk' \in [1 .. Len(desk) -> Suggestion]
    BY <2>3, <2>4, <2>5
  <2> QED  BY <2>3, <2>6, FunctionSeq
<1>14. bus' \in Seq(Entry)
  BY <1>1
<1> HIDE DEF new, sigs, kept
<1>15. ContextInv'
  BY <1>5, <1>8, <1>13, <1>14 DEF ContextInv, Entry
<1>16. heard'.asked = sigs /\ heard'.kept = kept /\ heard'.type = e.type
  BY <1>5
<1> QED  BY <1>11, <1>12, <1>15, <1>16 DEF Voices, Spoken

\* Every other step leaves the context alone, or starts anew.
LEMMA ContextKeeps ==
  ASSUME IngestInv, ContextInv, Voices, [Next]_vars
  PROVE  ContextInv' /\ Voices'
<1>1. bus' \in Seq(Entry)
  BY BusKeeps DEF ContextInv, Entry
<1>2. CASE Handle
  BY <1>2, HandleKeeps
<1>3. CASE Suggest
  <2>1. PICK s \in Symbols, act \in {"BUY", "SELL"} :
          desk' = Append(desk, [sym |-> s, act |-> act, status |-> "pending", kept |-> FALSE])
    BY <1>3 DEF Suggest
  <2>2. [sym |-> s, act |-> act, status |-> "pending", kept |-> FALSE] \in Suggestion
    BY DEF Suggestion
  <2>3. desk' \in Seq(Suggestion)
    BY <2>1, <2>2, AppendProperties DEF ContextInv
  <2>4. ctx' = ctx /\ heard' = heard
    BY <1>3 DEF Suggest
  <2> QED  BY <1>1, <2>3, <2>4 DEF ContextInv, Entry, Voices
<1>4. CASE Resolve
  <2>1. PICK i \in DOMAIN desk, outcome \in Outcomes : desk' = [desk EXCEPT ![i].status = outcome]
    BY <1>4 DEF Resolve
  <2>2. desk \in Seq(Suggestion)
    BY DEF ContextInv
  <2>3. Len(desk) \in Nat /\ DOMAIN desk = 1 .. Len(desk)
        /\ \A j \in 1 .. Len(desk) : desk[j] \in Suggestion
    BY <2>2, SeqDomain
  <2>4. [desk[i] EXCEPT !.status = outcome] \in Suggestion
    BY <2>1, <2>3 DEF Suggestion
  <2>5. desk' \in [1 .. Len(desk) -> Suggestion]
    BY <2>1, <2>3, <2>4
  <2>6. desk' \in Seq(Suggestion)
    BY <2>3, <2>5, FunctionSeq
  <2>7. ctx' = ctx /\ heard' = heard
    BY <1>4 DEF Resolve
  <2> QED  BY <1>1, <2>6, <2>7 DEF ContextInv, Entry, Voices
<1>5. CASE Restart
  <2>1. ctx' = NewContext /\ heard' = Silence /\ desk' = desk
    BY <1>5 DEF Restart
  <2>2. ContextInv'
    BY <1>1, <2>1, NewContextType DEF ContextInv, Entry
  <2> QED  BY <2>1, <2>2 DEF Voices, Silence, Flowing
<1>6. CASE (Polls /\ UNCHANGED <<ctx, heard, desk, clock, fast>>) \/ UNCHANGED vars
  <2>1. ctx' = ctx /\ heard' = heard /\ desk' = desk
    BY <1>6 DEF vars
  <2> QED  BY <1>1, <2>1 DEF ContextInv, Entry, Voices
<1> QED  BY <1>2, <1>3, <1>4, <1>5, <1>6 DEF Next

\* The context of a new process is new, and nothing has been heard.
LEMMA ContextStarts ==
  ASSUME Init
  PROVE  ContextInv /\ Voices
<1>1. bus = << >> /\ desk = << >> /\ ctx = NewContext /\ heard = Silence
  BY DEF Init, InitIngest
<1>2. ContextInv
  BY <1>1, NewContextType, EmptySeq DEF ContextInv
<1> QED  BY <1>1, <1>2 DEF Voices, Silence, Flowing

\* The context, the bus and the desk stay typed, and the rules agree.
THEOREM MarketInvariance == Spec => []MarketInv
<1>1. Init => ContextInv /\ Voices
  BY ContextStarts
<1>2. IngestInv /\ ContextInv /\ Voices /\ [Next]_vars => (ContextInv /\ Voices)'
  BY ContextKeeps
<1> QED  BY <1>1, <1>2, PollersRemember, PTL DEF Spec, MarketInv

\* While trading is on paper no event of flows makes the rules on the index
\* propose to buy it and to sell it, whatever order the sources come in.
THEOREM OneVoiceOnFlows == Spec => []FlowsSpeakWithOneVoice
<1>1. MarketInv => FlowsSpeakWithOneVoice
  BY VoicesSuffice DEF MarketInv
<1> QED  BY <1>1, MarketInvariance, PTL
=============================================================================
