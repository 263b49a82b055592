--------------------------------- MODULE Ingest ---------------------------------
(***************************************************************************)
(* The pollers of ingest/ and the session watcher: what a source shows,    *)
(* what its poller remembers to have seen, and what reaches the bus.  A    *)
(* poll is one step from the end of its fetch: publishing never suspends   *)
(* and a transaction is synchronous.  What differs is the order of the     *)
(* mark, the record and the event, and what a failed write leaves behind.  *)
(***************************************************************************)
EXTENDS Integers, Sequences, SequencesExt, FiniteSets

CONSTANTS
  Contents,   \* for each source, the lists of events one of its rows stands for
  Plans,      \* bound: which sources show something, and how many rows appear,
              \* polls without a memory and bursts run, and writes or processes fail
  Backlog     \* bound: events that wait when a poll publishes

\* What a poller does with a row that is new to it.  order: it marks the row,
\* then records it and publishes, or publishes and records; "mute": it marks and
\* publishes, and records nothing.  memory: every key it has seen, the last one
\* alone, or none: then every poll publishes what it finds, behind its record,
\* before it, or without one.
Poller(order, memory, types) == [order |-> order, memory |-> memory, types |-> types]

FiiDii        == Poller("publish", "last", {"FII_DII"})
AkshareFii    == Poller("publish", "last", {"FII_DII"})
GiftNifty     == Poller("publish", "last", {"GIFT"})
Preopen       == Poller("publish", "last", {"PREOPEN_PRICE"})
Insider       == Poller("publish", "all",  {"INSIDER"})
BulkDeals     == Poller("record",  "all",  {"BLOCK", "MF"})
BseFilings    == Poller("record",  "all",  {"BSE"})
CorpRss       == Poller("record",  "all",  {"NEWS"})
Calendar(type) == Poller("record", "all",  {type})
ParticipantOi == Poller("record",  "last", {"PARTICIPANT"})
Session       == Poller("mute",    "last", {"PRE_OPEN", "OPEN", "CLOSE"})
FuturesOi     == Poller("record",  "none", {"FUT_OI"})
Shareholding  == Poller("record",  "none", {"SHARES"})
Fundamentals  == Poller("record",  "none", {"NEWS"})
\* The date it keeps is that of the poll, its rows have the last session's.
Delivered     == Poller("record",  "none", {"VOLUME"})
OptionIv      == Poller("record",  "none", {"IV"})
GlobalMacro   == Poller("publish", "none", {"MACRO", "IV"})
LlmBias       == Poller("publish", "none", {"LLM"})
\* Ticks, and the bars and crosses of Bars.
Ticker        == Poller("mute", "none", {"TICK", "VWAP_CROSS", "BAR_5M", "BAR_1D"})

Pollers == [
  fii |-> FiiDii, akshare |-> AkshareFii, gift |-> GiftNifty, preopen |-> Preopen,
  insider |-> Insider, bulk |-> BulkDeals, bse |-> BseFilings, rss |-> CorpRss,
  corp |-> Calendar("CORP"), board |-> Calendar("BOARD"), calendar |-> Calendar("CALENDAR"),
  participant |-> ParticipantOi, session |-> Session, futures |-> FuturesOi,
  shareholding |-> Shareholding, screener |-> Fundamentals, delivery |-> Delivered,
  options |-> OptionIv, macro |-> GlobalMacro, llm |-> LlmBias, ticker |-> Ticker]

Sources == DOMAIN Pollers
Kept    == {s \in Sources : Pollers[s].memory # "none"}
LastOnly    == {s \in Kept : Pollers[s].memory = "last"}
\* Sources whose poller stumbles over a malformed row.
Misread     == Kept \ {"participant", "session"}
RecordFirst == {s \in Kept : Pollers[s].order = "record"}
Writers     == {s \in Kept : Pollers[s].order # "mute"}

ASSUME IngestAssumption ==
  /\ DOMAIN Contents = Sources /\ Backlog \in Nat
  /\ \A src \in Sources : \A list \in Contents[src] :
       list # << >> /\ {list[j].type : j \in DOMAIN list} \subseteq Pollers[src].types
  /\ Plans \subseteq [sources : SUBSET (Sources \cup {"desk"}), row : Nat, poll : Nat, fault : Nat]

VARIABLES
  rows,     \* the rows that have appeared: source, events, whether malformed
  shown,    \* the rows each source lists now
  marked,   \* the rows each poller has seen in this life
  dead,     \* the pollers whose task has ended
  bus,      \* events that wait, with the row they come from (0: none)
  sent,     \* history: how often its poller published each row in this life
  again,    \* history: how often bursts published it in this life
  blocked,  \* history: rows given up in this life: the write failed, or a part of
            \* the batch was malformed
  plan,     \* the bounds of this behaviour
  used      \* rows, polls and faults so far

memory == <<marked, dead, bus, sent, again, blocked>>
ingest == <<rows, shown, memory, plan, used>>

Use(what) == used[what] < plan[what] /\ used' = [used EXCEPT ![what] = @ + 1]

From(row, events) == [j \in DOMAIN events |-> [row |-> row, e |-> events[j]]]

\* Events of the rows r[1], .., r[n], in order.
Events(r, n) == FoldLeft(LAMBDA acc, id : acc \o From(id, rows[id].events), << >>, SubSeq(r, 1, n))

\* In the order of the source, which is that of their numbers.
Ascending(S) ==
  [i \in 1 .. Cardinality(S) |-> CHOOSE x \in S : Cardinality({y \in S : y < x}) = i - 1]

Members(s) == {s[j] : j \in DOMAIN s}

-----------------------------------------------------------------------------
\* A row appears, in good shape or not; a source with one figure replaces what
\* it showed.
Appears(src) ==
  /\ src \in plan.sources \cap Kept /\ Use("row")
  /\ \E events \in Contents[src], bad \in BOOLEAN :
        /\ bad => src \in Misread
        /\ rows' = Append(rows, [src |-> src, events |-> events, bad |-> bad])
  /\ shown' = [shown EXCEPT ![src] = (IF src \in LastOnly THEN {} ELSE @) \cup {Len(rows')}]
  /\ sent' = Append(sent, 0) /\ again' = Append(again, 0)
  /\ UNCHANGED <<marked, dead, bus, blocked, plan>>

\* A list drops a row.
Vanishes(src) ==
  /\ \E id \in shown[src] : shown' = [shown EXCEPT ![src] = @ \ {id}]
  /\ UNCHANGED <<rows, memory, plan, used>>

\* No malformed row keeps a poll of its source from reaching row id: the first
\* one raises before it is marked, at every poll that finds it listed, and that
\* ends the poll; the bulk deals are made numbers of before any is looked at.
Reached(src, id) ==
  \A b \in shown[src] : rows[b].bad => src # "bulk" /\ id < b

\* The rows a poll takes: those listed, not seen yet, and reached.
Fresh(src, seen) == Ascending({id \in shown[src] \ seen : Reached(src, id)})

\* Mutant: the whole list is marked before its first row is written.
MarkAhead(src, r, n) == [marked EXCEPT ![src] = @ \cup Members(r)]

\* The mark is set row by row, before the row's write.
Mark(src, r, n) ==
  [marked EXCEPT ![src] = (IF src \in LastOnly /\ n > 0 THEN {} ELSE @) \cup Members(SubSeq(r, 1, n))]

\* Whether id is among the first n of r, as a number.
In(id, r, n) == IF id \in Members(SubSeq(r, 1, n)) THEN 1 ELSE 0

\* A poll of a source that lists rows r, of which the first n are taken and
\* the first k published.
Take(src, r, n, k) ==
  /\ Len(bus) <= Backlog /\ r # << >>
  /\ marked' = Mark(src, r, n)
  /\ bus' = bus \o Events(r, k)
  /\ sent' = [id \in DOMAIN sent |-> sent[id] + In(id, r, k)]
  /\ UNCHANGED <<rows, shown, again, plan>>

PollAll(src) ==
  LET r == Fresh(src, marked[src])
  IN  /\ src \in Kept \ dead /\ Take(src, r, Len(r), Len(r))
      /\ UNCHANGED <<dead, blocked, used>>

\* Mutant: a poll that fails ends its task.
PollFailsForGood(src) ==
  LET r == Fresh(src, marked[src])
  IN  \E n \in DOMAIN r :
        /\ src \in Writers \ dead /\ Use("fault")
        /\ Take(src, r, n, IF src \in RecordFirst THEN n - 1 ELSE n)
        /\ blocked' = blocked \cup {r[n]}
        /\ dead' = dead \cup {src}

\* The write behind row n fails and ends the poll: a row recorded first is not
\* published, and not looked at again.  Akshare's poller handles no exception.
PollFails(src) ==
  LET r == Fresh(src, marked[src])
  IN  \E n \in DOMAIN r :
        /\ src \in Writers \ dead /\ Use("fault")
        /\ Take(src, r, n, IF src \in RecordFirst THEN n - 1 ELSE n)
        /\ blocked' = blocked \cup {r[n]}
        /\ dead' = IF src = "akshare" THEN dead \cup {src} ELSE dead

\* The pre-open batch is marked as a whole and published row by row: at a price
\* that is no number the rest is given up for the session.
PreopenCut ==
  /\ Len(bus) <= Backlog /\ "preopen" \notin dead
  /\ \E id \in shown["preopen"] \ marked["preopen"] :
       /\ rows[id].bad
       /\ \E n \in 0 .. Len(rows[id].events) - 1 : bus' = bus \o From(id, SubSeq(rows[id].events, 1, n))
       /\ marked' = [marked EXCEPT !["preopen"] = {id}] /\ blocked' = blocked \cup {id}
  /\ UNCHANGED <<rows, shown, dead, sent, again, plan, used>>

\* run_bulk_burst_once at the publication windows: a memory of its own, so what
\* the poller has published goes out again, up to a write that fails.
BulkBurst ==
  LET r == Fresh("bulk", {})
  IN  /\ Len(bus) <= Backlog /\ "bulk" \in plan.sources /\ Use("poll")
      /\ \E n \in 0 .. Len(r) :
           /\ bus' = bus \o Events(r, n)
           /\ again' = [id \in DOMAIN again |-> again[id] + In(id, r, n)]
      /\ UNCHANGED <<rows, shown, marked, dead, sent, blocked, plan>>

-----------------------------------------------------------------------------
\* Pollers without a memory.
Speak(src, events) ==
  /\ src \in plan.sources /\ Len(bus) <= Backlog /\ Use("poll")
  /\ bus' = bus \o From(0, events)
  /\ UNCHANGED <<rows, shown, marked, dead, sent, again, blocked, plan>>

\* A poller that records first publishes nothing when its write fails.
PollSpeaks(src) == \E events \in Contents[src] : Speak(src, events)

\* The macro poll publishes its bundle, writes it, then publishes the VIX; the
\* hourly bias is published before it is written.
SpeaksCut ==
  \E src \in {s \in Sources \ Kept : Pollers[s].order = "publish"} : \E events \in Contents[src] : Speak(src, <<Head(events)>>)

InitIngest ==
  /\ plan \in Plans
  /\ rows = << >> /\ shown = [s \in Kept |-> {}] /\ marked = [s \in Kept |-> {}]
  /\ dead = {} /\ bus = << >> /\ sent = << >> /\ again = << >> /\ blocked = {}
  /\ used = [row |-> 0, poll |-> 0, fault |-> 0]

\* A new process has seen nothing.
ForgetIngest ==
  /\ marked' = [s \in Kept |-> {}] /\ dead' = {} /\ bus' = << >>
  /\ sent' = [id \in DOMAIN sent |-> 0] /\ again' = [id \in DOMAIN again |-> 0] /\ blocked' = {}
  /\ UNCHANGED <<rows, shown, plan>>

Polls ==
  \/ \E src \in Kept : Appears(src) \/ PollAll(src) \/ PollFails(src)
  \/ \E src \in Kept \ LastOnly : Vanishes(src)
  \/ \E src \in Sources \ Kept : PollSpeaks(src)
  \/ SpeaksCut \/ PreopenCut \/ BulkBurst

-----------------------------------------------------------------------------
(* What holds of every poll, and why no row goes out twice.                 *)

Row == [src : Kept, events : UNION {Contents[src] : src \in Kept}, bad : BOOLEAN]

IngestType ==
  /\ plan \in Plans /\ used \in [row : Nat, poll : Nat, fault : Nat]
  /\ rows \in Seq(Row)
  /\ sent \in Seq(0 .. 1) /\ Len(sent) = Len(rows)
  /\ again \in Seq(Nat) /\ Len(again) = Len(rows)
  /\ shown \in [Kept -> SUBSET DOMAIN rows] /\ marked \in [Kept -> SUBSET DOMAIN rows]
  /\ blocked \subseteq DOMAIN rows

\* Rows are listed and marked under their own source, a source with one figure
\* lists at most one, and the plan bounds their number.
Listing ==
  /\ \A src \in Kept : \A id \in shown[src] \cup marked[src] : rows[id].src = src
  /\ \A src \in LastOnly : \A a, b \in shown[src] : a = b
  /\ Len(rows) <= used.row /\ used.row <= plan.row

\* What a poller remembers was published, and in good shape, or given up, and of
\* what is still listed it remembers all that was; only deals go out in bursts.
Remembered ==
  \A src \in Kept :
    /\ \A id \in marked[src] : sent[id] = 1 \/ id \in blocked
    /\ \A id \in shown[src] : sent[id] = 1 \/ id \in blocked => id \in marked[src]

IngestInv == IngestType /\ Listing /\ Remembered
=============================================================================
