------------------------------- MODULE Supervisor -------------------------------
(***************************************************************************)
(* The supervisor that keeps engine and dashboard running around the clock *)
(* (run_supervisor with ENGINE_24X7): pid files, the heartbeat, the        *)
(* restart flag and the processes themselves.  The logins that leave the   *)
(* flag are in KiteFeed.                                                   *)
(*                                                                         *)
(* One poll is five steps, with the processes free to die in between; the  *)
(* supervisor itself may die and systemd starts it again.  A process is    *)
(* "up", "dying" (it got SIGTERM and will exit) or "hung": its event loop  *)
(* is stuck, and the handler of SIGTERM runs on that loop.                 *)
(*                                                                         *)
(* Init, Next and Spec carry the component's name: ExecutionEngineProofs   *)
(* extends this module together with another.                              *)
(***************************************************************************)
EXTENDS Integers, FiniteSets

CONSTANTS
  Pids,        \* bound: process numbers, used again when free
  None,
  MaxFaults,   \* bound: crashes, logins, engines started by hand, deaths of the supervisor
  MaxHangs     \* bound: engines that get stuck

ASSUME SupervisorAssumption ==
  IsFiniteSet(Pids) /\ None \notin Pids /\ MaxFaults \in Nat /\ MaxHangs \in Nat

Modules == {"engine", "dashboard"}
Life    == {"none", "up", "dying", "hung"}
Polls   == {"down", "boot", "anew", "look", "engine", "start", "stack", "dash", "recover"}

VARIABLES
  proc,      \* module -> process number -> what it is
  file,      \* module -> the number in its pid file
  young,     \* the engine's pid file was written within the grace time
  beat,      \* settings.engine_heartbeat_ts is fresh
  flag,      \* engine_restart.flag exists
  at,        \* the supervisor's next step; "down": no supervisor
  saw,       \* what "look" found: the engine is running
  outside,   \* an engine was started beside the supervisor
  faults, hangs

files == <<file, young>>
count == <<outside, faults, hangs>>
supervisorVars == <<proc, files, beat, flag, at, saw, count>>

SupervisorType ==
  /\ proc \in [Modules -> [Pids -> Life]]
  /\ file \in [Modules -> Pids \cup {None}]
  /\ young \in BOOLEAN /\ beat \in BOOLEAN /\ flag \in BOOLEAN
  /\ at \in Polls /\ saw \in BOOLEAN /\ outside \in BOOLEAN
  /\ faults \in 0 .. MaxFaults /\ hangs \in 0 .. MaxHangs

AliveIn(m, procs) == {p \in Pids : procs[m][p] # "none"}
Alive(m) == AliveIn(m, proc)
Up(m)    == {p \in Pids : proc[m][p] = "up"}

\* _pid_running: the process in the file exists, whatever state it is in.
Running(m) == file[m] \in Alive(m)

\* ... and the file of one that does not is removed.
Checked(m) == IF Running(m) THEN file ELSE [file EXCEPT ![m] = None]

\* _engine_stale.
Stale == ~young /\ ~beat

\* SIGTERM: a healthy process begins to exit, a hung one does not notice.
Killed(m, S) ==
  [p \in Pids |-> IF p \in S /\ proc[m][p] = "up" THEN "dying" ELSE proc[m][p]]

\* What a start of m makes of processes and files: [procs, pidfiles].
New(m, procs, pidfiles) ==
  {[procs |-> [procs EXCEPT ![m][p] = "up"], pidfiles |-> [pidfiles EXCEPT ![m] = p]] :
     p \in {q \in Pids : \A x \in Modules : procs[x][q] = "none"}}

\* Mutant: the processes of that name are not looked for.
StartedWithoutLooking(m, procs, pidfiles) ==
  IF pidfiles[m] \in AliveIn(m, procs) THEN {[procs |-> procs, pidfiles |-> pidfiles]}
  ELSE New(m, procs, pidfiles)

\* _start_process: nothing when the file's process runs, else one of that name
\* (pgrep sees the dying and the hung as well) is adopted, else a new one.
Started(m, procs, pidfiles) ==
  IF pidfiles[m] \in AliveIn(m, procs) THEN {[procs |-> procs, pidfiles |-> pidfiles]}
  ELSE IF AliveIn(m, procs) # {}
  THEN {[procs |-> procs, pidfiles |-> [pidfiles EXCEPT ![m] = p]] : p \in AliveIn(m, procs)}
  ELSE New(m, procs, pidfiles)

\* _stop_process: SIGTERM to the file's process, and the file goes.
Stop(m) ==
  /\ proc' = [proc EXCEPT ![m] = Killed(m, {file[m]})]
  /\ file' = [file EXCEPT ![m] = None]

Goto(step) == at' = step

-----------------------------------------------------------------------------
(* One poll.                                                                *)

\* Is the engine running?
Look ==
  /\ at = "look" /\ Goto("engine")
  /\ saw' = Running("engine") /\ file' = Checked("engine")
  /\ UNCHANGED <<proc, young, beat, flag, count>>

\* Mutant: a running engine is replaced at every poll.
TendEngineAnew ==
  /\ at = "engine" /\ saw /\ Stop("engine") /\ Goto("start")
  /\ flag' = FALSE /\ UNCHANGED <<young, beat, saw, count>>

\* With an engine: the flag restarts it, duplicates are all killed, a stale one
\* is stopped; "start" follows.  A healthy one is left alone.
TendEngine ==
  /\ at = "engine" /\ saw
  /\ flag' = FALSE
  /\ \/ /\ flag /\ Stop("engine") /\ Goto("start")
     \/ /\ ~flag /\ Cardinality(Alive("engine")) > 1
        /\ proc' = [proc EXCEPT !["engine"] = Killed("engine", Pids)]
        /\ file' = [file EXCEPT !["engine"] = None]
        /\ Goto("start")
     \/ /\ ~flag /\ Cardinality(Alive("engine")) <= 1
        /\ \/ Running("engine") /\ ~Stale /\ Goto("dash") /\ UNCHANGED <<proc, file>>
           \/ Running("engine") /\ Stale /\ Stop("engine") /\ Goto("start")
           \/ ~Running("engine") /\ Goto("start") /\ UNCHANGED <<proc, file>>
  /\ UNCHANGED <<young, beat, saw, count>>

\* Without one the stack is started; the flag is left for the next poll.
NoEngine ==
  /\ at = "engine" /\ ~saw /\ Goto("stack")
  /\ UNCHANGED <<proc, files, beat, flag, saw, count>>

StartEngine ==
  /\ at = "start" /\ Goto("dash")
  /\ \E s \in Started("engine", proc, file) : proc' = s.procs /\ file' = s.pidfiles
  /\ young' = (young \/ ~Running("engine"))
  /\ UNCHANGED <<beat, flag, saw, count>>

\* start_engine_stack.
StartStack ==
  /\ at \in {"stack", "anew"} /\ Goto(IF at = "stack" THEN "dash" ELSE "look")
  /\ \E e \in Started("engine", proc, file) :
       \E d \in Started("dashboard", e.procs, e.pidfiles) :
         proc' = d.procs /\ file' = d.pidfiles
  /\ young' = (young \/ ~Running("engine"))
  /\ UNCHANGED <<beat, flag, saw, count>>

\* Mutant: the dashboard is only started with the stack.
DashboardLeft ==
  /\ at = "dash" /\ Goto("recover")
  /\ UNCHANGED <<proc, files, beat, flag, saw, count>>

\* _ensure_dashboard_running: orphans are killed and the port waited for; one
\* that keeps it is adopted.
EnsureDashboard ==
  /\ at = "dash"
  /\ \/ Running("dashboard") /\ Goto("recover") /\ UNCHANGED <<proc, file>>
     \/ /\ ~Running("dashboard") /\ Up("dashboard") # {} /\ UNCHANGED <<file, at>>
        /\ proc' = [proc EXCEPT !["dashboard"] = Killed("dashboard", Pids)]
     \/ /\ ~Running("dashboard") /\ Up("dashboard") = {} /\ Goto("recover")
        /\ \E s \in Started("dashboard", proc, file) : proc' = s.procs /\ file' = s.pidfiles
  /\ UNCHANGED <<young, beat, flag, saw, count>>

\* The engine died meanwhile: everything is bootstrapped anew.
Recover ==
  /\ at = "recover"
  /\ Goto(IF Running("engine") THEN "look" ELSE "boot") /\ file' = Checked("engine")
  /\ UNCHANGED <<proc, young, beat, flag, saw, count>>

\* _bootstrap_stack: kill what has these names, forget the files, start.
Bootstrap ==
  /\ at = "boot" /\ Goto("anew")
  /\ proc' = [m \in Modules |-> Killed(m, Pids)]
  /\ file' = [m \in Modules |-> None]
  /\ UNCHANGED <<young, beat, flag, saw, count>>

SupervisorPoll ==
  \/ Look \/ TendEngine \/ NoEngine \/ StartEngine \/ StartStack
  \/ EnsureDashboard \/ Recover \/ Bootstrap

-----------------------------------------------------------------------------
(* What happens to the processes.                                           *)

ProcessExits(m, p) ==
  /\ proc[m][p] = "dying" /\ proc' = [proc EXCEPT ![m][p] = "none"]
  /\ UNCHANGED <<files, beat, flag, at, saw, count>>

Fault == faults < MaxFaults /\ faults' = faults + 1

Crash(m, p) ==
  /\ Fault
  /\ proc[m][p] = "up" /\ proc' = [proc EXCEPT ![m][p] = "none"]
  /\ UNCHANGED <<files, beat, flag, at, saw, outside, hangs>>

Hang(p) ==
  /\ hangs < MaxHangs /\ hangs' = hangs + 1
  /\ proc["engine"][p] = "up" /\ proc' = [proc EXCEPT !["engine"][p] = "hung"]
  /\ UNCHANGED <<files, beat, flag, at, saw, outside, faults>>

\* By hand, or by the engine's own systemd unit.
StartedOutside(p) ==
  /\ Fault /\ ~outside /\ outside' = TRUE
  /\ \A m \in Modules : proc[m][p] = "none"
  /\ proc' = [proc EXCEPT !["engine"][p] = "up"]
  /\ UNCHANGED <<files, beat, flag, at, saw, hangs>>

\* heartbeat_loop of an engine whose loop turns.
Beat ==
  /\ Up("engine") # {} /\ ~beat /\ beat' = TRUE
  /\ UNCHANGED <<proc, files, flag, at, saw, count>>

BeatAges ==
  /\ Up("engine") = {} /\ beat /\ beat' = FALSE
  /\ UNCHANGED <<proc, files, flag, at, saw, count>>

\* The grace time ends; an engine that is up has beaten by then.
GraceEnds ==
  /\ young /\ (beat \/ Up("engine") = {}) /\ young' = FALSE
  /\ UNCHANGED <<proc, file, beat, flag, at, saw, count>>

\* A login, at the dashboard or headless, leaves the flag.
Login ==
  /\ Fault /\ ~flag /\ flag' = TRUE
  /\ UNCHANGED <<proc, files, beat, at, saw, outside, hangs>>

SupervisorDies ==
  /\ at # "down" /\ Fault /\ Goto("down")
  /\ UNCHANGED <<proc, files, beat, flag, saw, outside, hangs>>

SupervisorStarts ==
  /\ at = "down" /\ Goto("boot")
  /\ UNCHANGED <<proc, files, beat, flag, saw, count>>

Environment ==
  \/ \E m \in Modules, p \in Pids : ProcessExits(m, p) \/ Crash(m, p)
  \/ \E p \in Pids : Hang(p) \/ StartedOutside(p)
  \/ Beat \/ BeatAges \/ GraceEnds \/ Login
  \/ SupervisorDies \/ SupervisorStarts

SupervisorInit ==
  /\ proc = [m \in Modules |-> [p \in Pids |-> "none"]]
  /\ file = [m \in Modules |-> None] /\ young = FALSE
  /\ beat = FALSE /\ flag = FALSE /\ at = "boot" /\ saw = FALSE
  /\ outside = FALSE /\ faults = 0 /\ hangs = 0

SupervisorNext == SupervisorPoll \/ Environment

\* The supervisor polls, a process that got SIGTERM exits, heartbeats come and
\* grow old, and systemd restarts the supervisor.
SupervisorFairness ==
  /\ WF_supervisorVars(SupervisorPoll) /\ WF_supervisorVars(SupervisorStarts)
  /\ WF_supervisorVars(Beat) /\ WF_supervisorVars(BeatAges) /\ WF_supervisorVars(GraceEnds)
  /\ \A m \in Modules, p \in Pids : WF_supervisorVars(ProcessExits(m, p))

SupervisorSpec == SupervisorInit /\ [][SupervisorNext]_supervisorVars /\ SupervisorFairness

-----------------------------------------------------------------------------
\* What makes OneEngine inductive: of the processes of that name, dying and hung
\* ones included, there are no two to tell apart (_start_process asks pgrep).
OneAlive(m, procs) == \A p, q \in AliveIn(m, procs) : p = q
SupervisorInv == SupervisorType /\ (~outside => OneAlive("engine", proc))

\* Whatever dies and whenever, supervisor included, no second engine is ever
\* started beside one that still exists (_start_process, _bootstrap_stack).
OneEngine == SupervisorType /\ (~outside => Cardinality(Alive("engine")) <= 1)

\* A healthy engine, its loop turning and its heartbeat fresh, is only ever
\* killed for the restart flag, for a second engine, or by a supervisor that
\* bootstraps (_ensure_engine_running).
HealthyIsLeftAlone ==
  [][\A p \in Pids :
       proc["engine"][p] = "up" /\ proc'["engine"][p] = "dying" /\ beat
         => at = "boot" \/ flag \/ Cardinality(Alive("engine")) > 1]_supervisorVars

\* After whatever crashed, exited or was started twice there is one engine and
\* one dashboard again, unless an engine hangs (run_supervisor).
StackComesBack ==
  []<>(\/ hangs > 0
       \/ /\ Cardinality(Up("engine")) = 1 /\ Alive("engine") = Up("engine")
          /\ Cardinality(Up("dashboard")) = 1 /\ file["engine"] \in Up("engine"))
=============================================================================
