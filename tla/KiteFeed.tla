-------------------------------- MODULE KiteFeed --------------------------------
(***************************************************************************)
(* The broker's token and the tick feed of the engine: token file and      *)
(* restart flag written by logins, the cached verdicts on the token, the   *)
(* watch of the token file, the watchdog, the health poll and the recovery *)
(* from authentication failures.  The supervisor (the rest of it is in its *)
(* own module) looks after the token too, and restarts the engine.         *)
(*                                                                         *)
(* Init, Next and Spec carry the feed's name: BarsProofs extends this      *)
(* module together with another.                                           *)
(***************************************************************************)
EXTENDS Integers

CONSTANTS
  MaxFlakes,  \* bound: checks of a valid token that fail
  MaxMisses,  \* bound: starts of a feed that fail though the verdict was good
  MaxFaults   \* bound: crashes, cuts, resets of the token, logins in the morning

ASSUME FeedAssumption == {MaxFlakes, MaxMisses, MaxFaults} \subseteq Nat

Link  == {"none", "live", "cut", "dead"}   \* dead: its token has expired
Cache == {"none", "ok", "bad"}             \* _token_cache, 60 seconds

VARIABLES
  token,      \* the token in the file is valid
  headless,   \* the credentials of a headless login are configured
  flag,       \* engine_restart.flag exists
  on,         \* the engine: "down", "boot" or "running"
  feed,       \* the feed _restart_feed knows
  extra,      \* the feed started by the recovery, which it does not know
  armed,      \* the watchdog may restart the feed
  changed,    \* the token file has a new time
  cache,      \* the engine's verdict
  due,        \* an authentication event is on the bus
  gap,        \* the last restart of the feed is younger than 30 seconds
  supCache,   \* the supervisor's verdict
  faults, flakes, misses

links == <<feed, extra, armed>>
memory == <<changed, cache, due, gap>>
feedVars == <<token, headless, flag, on, links, memory, supCache, faults, flakes, misses>>

Running == on = "running"
Ticking == "live" \in {feed, extra}
Fault   == faults < MaxFaults /\ faults' = faults + 1
Miss    == misses < MaxMisses /\ misses' = misses + 1

-----------------------------------------------------------------------------
(* The pieces the handlers share.                                           *)

\* check_token(live=True) with verdict c cached: the cached one, else the
\* broker's, where a request that fails counts as a bad token.
Checks(c, ok) ==
  \/ c # "none" /\ ok = (c = "ok") /\ UNCHANGED flakes
  \/ c = "none" /\ ok = token /\ UNCHANGED flakes
  \/ c = "none" /\ token /\ ~ok /\ flakes < MaxFlakes /\ flakes' = flakes + 1

Cached(ok) == IF ok THEN "ok" ELSE "bad"

\* A feed connected with the token of the file.
Connected == IF token THEN "live" ELSE "dead"

\* _start_kite_feed after the verdict: no feed and TOKEN_EXPIRED, or a feed,
\* which the broker may refuse, or neither, when the token file cannot be read, no
\* instrument is known, or fetching the instruments raises.
StartFeed(ok) ==
  \/ /\ feed' = IF ok THEN Connected ELSE "none"
     /\ due' = (due \/ ~ok \/ ~token) /\ UNCHANGED misses
  \/ ok /\ Miss /\ feed' = "none" /\ UNCHANGED due

\* Mutant: the feed that runs is taken for connected and kept.
RestartKeepsOld(ok) ==
  /\ gap' = TRUE
  /\ feed' = IF ok /\ feed = "none" THEN Connected ELSE feed
  /\ due' = (due \/ ~ok \/ ~token) /\ UNCHANGED misses

\* Mutant: stopped before the debounce.
RestartStopsFirst(ok) ==
  IF gap THEN feed' = "none" /\ UNCHANGED <<due, gap, misses>> ELSE gap' = TRUE /\ StartFeed(ok)

\* _restart_feed, debounced: stop the feed it knows, start another.  When that
\* raises the stopped one stays the known one.
RestartFeed(ok) ==
  IF gap THEN UNCHANGED <<feed, due, gap, misses>> ELSE gap' = TRUE /\ StartFeed(ok)

-----------------------------------------------------------------------------
(* The engine.                                                              *)

\* main: the first feed; the watchdog is armed only when there is one.  The watch
\* of the token file begins with the file as it is.
Boot ==
  /\ on = "boot" /\ on' = "running"
  /\ \E ok \in BOOLEAN :
       Checks(cache, ok) /\ StartFeed(ok) /\ armed' = (feed' # "none") /\ cache' = Cached(ok)
  /\ UNCHANGED <<token, headless, flag, extra, changed, gap, supCache, faults>>

\* The engine goes, with all it knew.
Gone ==
  /\ on' = "down" /\ feed' = "none" /\ extra' = "none" /\ armed' = FALSE
  /\ changed' = FALSE /\ cache' = "none" /\ due' = FALSE /\ gap' = FALSE

\* Nothing in main catches what the first start raises.
BootFails ==
  /\ on = "boot" /\ Checks(cache, TRUE) /\ Miss /\ Gone
  /\ UNCHANGED <<token, headless, flag, supCache, faults>>

\* watch_kite_token_file: the new time is remembered before the check.
WatchFile ==
  /\ Running /\ changed /\ changed' = FALSE
  /\ \E ok \in BOOLEAN :
       /\ Checks("none", ok) /\ cache' = Cached(ok)
       /\ IF ok THEN RestartFeed(ok) ELSE UNCHANGED <<feed, due, gap, misses>>
  /\ UNCHANGED <<token, headless, flag, on, extra, armed, supCache, faults>>

Restarts ==
  /\ Running /\ ~gap
  /\ \E ok \in BOOLEAN : Checks(cache, ok) /\ RestartFeed(ok) /\ cache' = Cached(ok)
  /\ UNCHANGED <<token, headless, flag, on, extra, armed, changed, supCache, faults>>

\* FeedWatchdog.run_loop: no tick for 20 seconds, because no feed is live or
\* because the market is quiet.
Watchdog == armed /\ Restarts

\* run_full_screen is done: at the start and before the market opens, whatever
\* the feed is doing.
ScreenDone == Restarts

\* poll_token_health.
PollHealth ==
  /\ Running
  /\ \E ok \in BOOLEAN : Checks(cache, ok) /\ cache' = Cached(ok) /\ due' = (due \/ ~ok)
  /\ UNCHANGED <<token, headless, flag, on, links, changed, gap, supCache, faults, misses>>

\* handle_auth_event, the token good: a feed beside the one that is known, if it
\* starts.
HandleAuthGood ==
  /\ Running /\ due
  /\ Checks(cache, TRUE) /\ cache' = "ok"
  /\ \/ extra' = Connected /\ due' = ~token /\ UNCHANGED misses
     \/ Miss /\ due' = FALSE /\ UNCHANGED extra
  /\ UNCHANGED <<token, headless, flag, on, feed, armed, changed, gap, supCache, faults>>

\* handle_auth_event, the token bad: a login at once, by refresh_token_if_needed,
\* which leaves the flag, or else directly; the verdict is still cached, so no
\* feed starts and the event comes again.  When no login succeeds that was it.
HandleAuthBad ==
  /\ Running /\ due
  /\ Checks(cache, FALSE) /\ cache' = "bad"
  /\ \/ headless /\ token' = TRUE /\ flag' \in {flag, TRUE} /\ changed' = TRUE /\ UNCHANGED due
     \/ due' = FALSE /\ UNCHANGED <<token, flag, changed>>
  /\ UNCHANGED <<headless, on, links, gap, supCache, faults, misses>>

GapEnds ==
  /\ gap /\ gap' = FALSE
  /\ UNCHANGED <<token, headless, flag, on, links, changed, cache, due, supCache, faults, flakes, misses>>

CacheEnds ==
  /\ cache # "none" /\ cache' = "none"
  /\ UNCHANGED <<token, headless, flag, on, links, changed, due, gap, supCache, faults, flakes, misses>>

Engine ==
  \/ Boot \/ BootFails \/ WatchFile \/ Watchdog \/ ScreenDone \/ PollHealth \/ HandleAuthGood \/ HandleAuthBad
  \/ GapEnds \/ CacheEnds

-----------------------------------------------------------------------------
(* The connection, the token, the supervisor.                               *)

\* The connection breaks (1006 counts as an authentication failure) and the
\* library connects again.
Cut ==
  /\ Fault /\ Running /\ feed = "live" /\ feed' = "cut" /\ due' = TRUE
  /\ UNCHANGED <<token, headless, flag, on, extra, armed, changed, cache, gap, supCache, flakes, misses>>

Reconnect ==
  /\ feed = "cut" /\ feed' = "live"
  /\ UNCHANGED <<token, headless, flag, on, extra, armed, memory, supCache, faults, flakes, misses>>

\* The broker resets the tokens: what is connected is refused, at once or when
\* it next connects.
Expire ==
  /\ Fault /\ token /\ token' = FALSE
  /\ LET Ended(l) == IF l = "none" THEN l ELSE "dead"
     IN  feed' = Ended(feed) /\ extra' = Ended(extra)
  /\ due' \in {due, due \/ feed # "none"}
  /\ UNCHANGED <<headless, flag, on, armed, changed, cache, gap, supCache, flakes, misses>>

\* kite_callback: the user logs in.
LoginAtDashboard ==
  /\ ~token /\ token' = TRUE /\ flag' = TRUE /\ changed' = Running
  /\ UNCHANGED <<headless, on, links, cache, due, gap, supCache, faults, flakes, misses>>

\* The supervisor's refresh_token_if_needed: a login, which may fail, when the
\* token seems bad, and in the morning window whatever it seems.
RefreshToken ==
  \E ok \in BOOLEAN :
    /\ Checks(supCache, ok) /\ supCache' = Cached(ok)
    /\ \/ /\ headless /\ (IF ok THEN Fault ELSE UNCHANGED faults)
          /\ token' = TRUE /\ flag' = TRUE /\ changed' = Running
       \/ UNCHANGED <<token, flag, changed, faults>>
    /\ UNCHANGED <<headless, on, links, cache, due, gap, misses>>

SupCacheEnds ==
  /\ supCache # "none" /\ supCache' = "none"
  /\ UNCHANGED <<token, headless, flag, on, links, memory, faults, flakes, misses>>

Crash ==
  /\ on # "down" /\ Fault /\ Gone
  /\ UNCHANGED <<token, headless, flag, supCache, flakes, misses>>

\* run_supervisor: a running engine is restarted for the flag.
ConsumeFlag ==
  /\ on # "down" /\ flag /\ flag' = FALSE /\ Gone
  /\ UNCHANGED <<token, headless, supCache, faults, flakes, misses>>

\* run_supervisor: one that is not running is started, the flag left.
Start ==
  /\ on = "down" /\ on' = "boot"
  /\ UNCHANGED <<token, headless, flag, links, memory, supCache, faults, flakes, misses>>

World ==
  \/ Cut \/ Reconnect \/ Expire \/ LoginAtDashboard \/ RefreshToken \/ SupCacheEnds
  \/ Crash \/ ConsumeFlag \/ Start

FeedInit ==
  /\ token \in BOOLEAN /\ headless \in BOOLEAN /\ flag = FALSE /\ on = "down"
  /\ feed = "none" /\ extra = "none" /\ armed = FALSE
  /\ changed = FALSE /\ cache = "none" /\ due = FALSE /\ gap = FALSE
  /\ supCache = "none" /\ faults = 0 /\ flakes = 0 /\ misses = 0

FeedNext == Engine \/ World

\* Supervisor and engine take their steps, time passes, the library reconnects;
\* nobody has to log in.
FeedFairness ==
  /\ WF_feedVars(Boot) /\ WF_feedVars(WatchFile) /\ WF_feedVars(Watchdog /\ ~Ticking)
  /\ WF_feedVars(HandleAuthGood \/ HandleAuthBad)
  /\ WF_feedVars(GapEnds) /\ WF_feedVars(CacheEnds) /\ WF_feedVars(SupCacheEnds)
  /\ WF_feedVars(Reconnect) /\ WF_feedVars(ConsumeFlag) /\ WF_feedVars(Start)

FeedSpec == FeedInit /\ [][FeedNext]_feedVars /\ FeedFairness

-----------------------------------------------------------------------------
\* While the token stays valid and the engine runs, a live feed is not lost:
\* every restart of it, by watchdog, screen or new token file, ends in a live feed
\* again, unless a check of the token failed, or this start of a feed did
\* (_restart_feed stops the old one before it looks).
KeepsTicking ==
  [][feed = "live" /\ token /\ token' /\ Running /\ on' = "running"
       => feed' \in {"live", "cut"} \/ flakes' > 0 \/ misses' > misses]_feedVars

\* A valid token in the end gives ticks, whatever crashed, expired or was cut and
\* whatever check or start failed, unless the engine had no feed at its start:
\* then the watchdog is not armed, and with a valid token that is found good only
\* a screen starts a feed (main, FeedWatchdog, handle_auth_event,
\* watch_kite_token_file).
TicksComeBack == []<>~token \/ []<>Ticking \/ []<>(Running /\ ~armed)

\* "Feed staleness watchdog - publishes FEED_STALE, triggers reconnect": with a
\* valid token the ticks come back.
StaleReconnects == []<>~token \/ []<>Ticking

-----------------------------------------------------------------------------
(* What KeepsTicking rests on, proved in BarsProofs.                        *)

\* A feed that is connected or connects again has the token of the file, and as
\* long as no check of a valid token failed, the verdict cached is not a bad one.
FeedInv ==
  /\ token \in BOOLEAN /\ flakes \in Nat /\ misses \in Nat /\ cache \in Cache
  /\ feed \in {"live", "cut"} => token /\ (cache = "bad" => flakes > 0)
=============================================================================
