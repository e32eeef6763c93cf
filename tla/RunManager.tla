----------------------------- MODULE RunManager -----------------------------
(***************************************************************************)
(* The run manager of the control plane (apps/control/src/runs.ts): the    *)
(* jobs that build and simulate a workspace's robot code, the single       *)
(* current job of each workspace, the build slots, the readiness deadline, *)
(* the run_jobs rows, and what browsers on the run channel are told.       *)
(*                                                                         *)
(* Every action is one turn of the event loop: the code between two awaits *)
(* is atomic, and everything may happen at an await.  The command of a run *)
(* (docker exec of the run script) is the environment: it prints lines and *)
(* exits when it likes.                                                    *)
(***************************************************************************)
EXTENDS Naturals, FiniteSets

CONSTANTS Workspaces,    \* workspaces that have runs
          Connections,   \* sockets of the run channel, each opened at most once
          Modes,         \* SimRunModes in use, a subset of "run", "debug", "build"
          MaxRuns,       \* bound: runs started
          MaxCrashes     \* bound: crashes of the control-plane process

ASSUME RunAssumption ==
    /\ MaxRuns \in Nat
    /\ MaxCrashes \in Nat
    /\ Modes \subseteq {"run", "debug", "build"}
    /\ {"none", "new", "closed"} \cap Workspaces = {}

Runs  == 1 .. MaxRuns        \* run ids, in the order of requested_at
NoRun == 0
Lines == {"waiting", "ready"}  \* output lines the manager reacts to
Open  == {"building", "running"}
Terminal == {"stopped", "failed"}

VARIABLES
    up,        \* the control-plane process is running
    crashes,   \* how often it crashed
    started,   \* number of runs requested so far; the next run is started + 1
    job,       \* RunJob objects, with the await their coroutine is parked at
    db,        \* state column of the run_jobs rows
    current,   \* jobsByWorkspace
    last,      \* lastStatusByWorkspace
    lastMode,  \* lastModeByWorkspace
    builds,    \* activeBuilds
    conn,      \* workspace a connection is open for, or "new" / "closed"
    view       \* last status message each open connection received

vars == <<up, crashes, started, job, db, current, last, lastMode, builds,
          conn, view>>

RunIds == Runs \cup {NoRun}

Job == [ws       : Workspaces \cup {"none"},
        mode     : {"run", "debug", "build"},
        state    : Open \cup Terminal,
        pc       : {"none", "ensuring", "exec", "failing", "returned", "lost"},
        canceled : BOOLEAN,
        reported : BOOLEAN,              \* reportedRunning
        slot     : BOOLEAN,              \* buildSlotHeld
        finished : BOOLEAN,
        timer    : BOOLEAN,              \* readiness timer armed
        expiring : BOOLEAN,              \* timeoutBeforeReadiness awaits recordLog
        cmd      : {"none", "alive", "exited"},
        killed   : BOOLEAN,              \* SIGTERM was sent to the command
        exit     : {"ok", "error"},
        pending  : SUBSET Lines,         \* lines whose recordLog awaits the append
        emitted  : SUBSET Lines,
        clients  : SUBSET Connections]

Snapshot == [status : {"none", "idle", "stopping"} \cup Open \cup Terminal,
             run    : RunIds]

NoSnapshot == [status |-> "none", run |-> NoRun]

TypeOK ==
    /\ up \in BOOLEAN
    /\ crashes \in 0 .. MaxCrashes
    /\ started \in 0 .. MaxRuns
    /\ job \in [Runs -> Job]
    /\ db \in [Runs -> {"absent"} \cup Open \cup Terminal]
    /\ current \in [Workspaces -> RunIds]
    /\ last \in [Workspaces -> Snapshot]
    /\ lastMode \in [Workspaces -> {"run", "debug", "build"}]
    /\ builds \subseteq Runs
    /\ conn \in [Connections -> Workspaces \cup {"new", "closed"}]
    /\ view \in [Connections -> {"none", "stopping"} \cup Open \cup Terminal]

NewJob(w, m, cs) ==
    [ws |-> w, mode |-> m, state |-> "building", pc |-> "ensuring",
     canceled |-> FALSE, reported |-> FALSE, slot |-> TRUE,
     finished |-> FALSE, timer |-> FALSE, expiring |-> FALSE,
     cmd |-> "none", killed |-> FALSE, exit |-> "ok",
     pending |-> {}, emitted |-> {}, clients |-> cs]

Unstarted == [NewJob("none", "run", {}) EXCEPT !.pc = "none", !.slot = FALSE]

Init ==
    /\ up = TRUE
    /\ crashes = 0
    /\ started = 0
    /\ job = [j \in Runs |-> Unstarted]
    /\ db = [j \in Runs |-> "absent"]
    /\ current = [w \in Workspaces |-> NoRun]
    /\ last = [w \in Workspaces |-> NoSnapshot]
    /\ lastMode = [w \in Workspaces |-> "run"]
    /\ builds = {}
    /\ conn = [c \in Connections |-> "new"]
    /\ view = [c \in Connections |-> "none"]

-----------------------------------------------------------------------------
(* Helpers of the class                                                    *)

ConnectionsOf(w) == {c \in Connections : conn[c] = w}

\* The coroutine of j is still going to run: it is parked at an await.
Live(j) == job[j].pc \in {"ensuring", "exec", "failing"} /\ ~job[j].finished

IsCurrentAlways(j) == TRUE   \* mutant: the superseded job is not recognised
IsCurrent(j) == current[job[j].ws] = j

\* broadcast: a send on a closed socket is dropped.
Told(cs, st) ==
    [c \in Connections |->
        IF c \in cs /\ conn[c] \in Workspaces THEN st ELSE view[c]]

\* mutant: the terminal status of a canceled run is not remembered
RememberedUnlessCanceled(j, st) ==
    IF IsCurrent(j) /\ ~job[j].canceled
    THEN [last EXCEPT ![job[j].ws] = [status |-> st, run |-> j]]
    ELSE last
Remembered(j, st) ==
    IF IsCurrent(j)
    THEN [last EXCEPT ![job[j].ws] = [status |-> st, run |-> j]]
    ELSE last

\* mutant: the readiness timer survives the release of the build slot
ReleaseKeepingTimer(r) == [r EXCEPT !.slot = FALSE]
Release(r) == [r EXCEPT !.slot = FALSE, !.timer = FALSE]

Terminate(j, r, st) ==
    /\ job' = [job EXCEPT ![j] =
                  [Release(r) EXCEPT !.finished = TRUE, !.state = st]]
    /\ builds' = builds \ {j}
    /\ db' = [db EXCEPT ![j] = st]
    /\ last' = Remembered(j, st)
    /\ current' = IF IsCurrent(j) THEN [current EXCEPT ![r.ws] = NoRun]
                                  ELSE current
    /\ view' = Told(r.clients, st)

\* r is the job's record after what the caller itself assigned.
FinishJob(j, r, st) ==
    IF r.finished
    THEN job' = [job EXCEPT ![j] = r] /\ UNCHANGED <<builds, db, last, current, view>>
    ELSE Terminate(j, r, st)

CanceledNotKilled(r) == [r EXCEPT !.canceled = TRUE]  \* mutant: no SIGTERM
Canceled(r) == [r EXCEPT !.canceled = TRUE, !.killed = @ \/ r.cmd = "alive"]

LaunchedNoDeadline(r) ==      \* mutant: the readiness timer is not armed
    [r EXCEPT !.pc = "exec", !.cmd = "alive"]
Launched(r) == [r EXCEPT !.pc = "exec", !.cmd = "alive", !.timer = TRUE]

\* The two reactions of recordLog, after its append has completed.
StartsWaiting(r, l) ==
    l = "waiting" /\ r.mode = "debug" /\ ~r.finished /\ r.slot
BecomesReadyCanceled(r, l) ==      \* mutant: a canceled run may report running
    l = "ready" /\ r.mode # "build" /\ ~r.finished /\ ~r.reported
BecomesReady(r, l) ==
    l = "ready" /\ r.mode # "build" /\ ~r.finished /\ ~r.canceled /\ ~r.reported

-----------------------------------------------------------------------------
(* Requests                                                                *)

\* start: cancel the current job, create the new one, and run it up to the
\* await of ensureWorkspaceRunning.
Start(w, m) ==
    /\ up /\ started < MaxRuns
    /\ LET j == started + 1
           k == current[w]
       IN /\ started' = j
          /\ job' = [i \in Runs |->
                        IF i = j THEN NewJob(w, m, ConnectionsOf(w))
                        ELSE IF i = k THEN Canceled(job[i]) ELSE job[i]]
          /\ db' = [db EXCEPT ![j] = "building"]
          /\ current' = [current EXCEPT ![w] = j]
          /\ last' = [last EXCEPT ![w] = [status |-> "building", run |-> j]]
          /\ lastMode' = [lastMode EXCEPT ![w] = m]
          /\ builds' = builds \cup {j}
          /\ view' = Told(ConnectionsOf(w), "building")
    /\ UNCHANGED <<up, crashes, conn>>

Restart(w) == Start(w, lastMode[w])

\* stopWorkspace / cancelWorkspace with a current job and without one.
Stop(w) ==
    /\ up
    /\ current[w] # NoRun
    /\ LET k == current[w]
       IN /\ job' = [job EXCEPT ![k] = Canceled(@)]
          /\ last' = [last EXCEPT ![w] = [status |-> "stopping", run |-> k]]
          /\ view' = Told(job[k].clients, "stopping")
    /\ UNCHANGED <<up, crashes, started, db, current, lastMode, builds, conn>>

StopIdle(w) ==
    /\ up
    /\ current[w] = NoRun
    /\ last' = [last EXCEPT ![w] = [status |-> "stopped", run |-> NoRun]]
    /\ UNCHANGED <<up, crashes, started, job, db, current, lastMode, builds,
                   conn, view>>

JoinedSilently(r, c) == r   \* mutant: a late connection misses the broadcasts
Joined(r, c) == [r EXCEPT !.clients = @ \cup {c}]

Connect(c, w) ==
    /\ up
    /\ conn[c] = "new"
    /\ conn' = [conn EXCEPT ![c] = w]
    /\ IF current[w] = NoRun
       THEN UNCHANGED <<job, view>>
       ELSE /\ job' = [job EXCEPT ![current[w]] = Joined(@, c)]
            /\ view' = [view EXCEPT ![c] = job[current[w]].state]
    /\ UNCHANGED <<up, crashes, started, db, current, last, lastMode, builds>>

Disconnect(c) ==
    /\ up
    /\ conn[c] \in Workspaces
    /\ LET k == current[conn[c]]
       IN job' = IF k = NoRun THEN job
                 ELSE [job EXCEPT ![k].clients = @ \ {c}]
    /\ conn' = [conn EXCEPT ![c] = "closed"]
    /\ view' = [view EXCEPT ![c] = "none"]
    /\ UNCHANGED <<up, crashes, started, db, current, last, lastMode, builds>>

-----------------------------------------------------------------------------
(* The coroutine runJob of a job, and the callbacks that interleave with it *)

\* ensureWorkspaceRunning returned a running runtime.
EnsureReturns(j) ==
    /\ job[j].pc = "ensuring"
    /\ IF job[j].canceled
       THEN FinishJob(j, [job[j] EXCEPT !.pc = "returned"], "stopped")
       ELSE /\ job' = [job EXCEPT ![j] = Launched(@)]
            /\ UNCHANGED <<db, current, last, builds, view>>
    /\ UNCHANGED <<up, crashes, started, lastMode, conn>>

\* It threw, or the runtime is not running: the catch block awaits recordLog.
EnsureFails(j) ==
    /\ job[j].pc = "ensuring"
    /\ job' = [job EXCEPT ![j].pc = "failing"]
    /\ UNCHANGED <<up, crashes, started, db, current, last, lastMode, builds,
                   conn, view>>

FailureLogged(j) ==
    /\ job[j].pc = "failing"
    /\ FinishJob(j, [job[j] EXCEPT !.pc = "returned"],
                 IF job[j].canceled THEN "stopped" ELSE "failed")
    /\ UNCHANGED <<up, crashes, started, lastMode, conn>>

\* The command prints a line; recordLog starts to append it.  The first line
\* of a kind decides: a later one finds every condition already settled.
Prints(j, l) ==
    /\ job[j].pc = "exec"
    /\ l \notin job[j].emitted
    /\ l = "waiting" => job[j].mode = "debug"
    /\ job' = [job EXCEPT ![j].emitted = @ \cup {l}, ![j].pending = @ \cup {l}]
    /\ UNCHANGED <<up, crashes, started, db, current, last, lastMode, builds,
                   conn, view>>

LineLogged(j, l) ==
    /\ l \in job[j].pending
    /\ LET r == [job[j] EXCEPT !.pending = @ \ {l}]
       IN \/ /\ BecomesReady(r, l)
             /\ job' = [job EXCEPT ![j] =
                           [Release(r) EXCEPT !.reported = TRUE,
                                              !.state = "running"]]
             /\ db' = [db EXCEPT ![j] = "running"]
             /\ last' = Remembered(j, "running")
             /\ view' = Told(r.clients, "running")
             /\ builds' = builds \ {j}
          \/ /\ StartsWaiting(r, l)
             /\ job' = [job EXCEPT ![j] = Release(r)]
             /\ builds' = builds \ {j}
             /\ UNCHANGED <<db, last, view>>
          \/ /\ ~BecomesReady(r, l) /\ ~StartsWaiting(r, l)
             /\ job' = [job EXCEPT ![j] = r]
             /\ UNCHANGED <<db, last, view, builds>>
    /\ UNCHANGED <<up, crashes, started, current, lastMode, conn>>

CommandExits(j, code) ==
    /\ job[j].cmd = "alive"
    /\ job' = [job EXCEPT ![j].cmd = "exited", ![j].exit = code]
    /\ UNCHANGED <<up, crashes, started, db, current, last, lastMode, builds,
                   conn, view>>

\* The command exited and both output streams are drained.
RunReturns(j) ==
    /\ job[j].pc = "exec" /\ job[j].cmd = "exited" /\ job[j].pending = {}
    /\ LET r == job[j]
           clean == r.exit = "ok" /\ (r.reported \/ r.mode = "build")
       IN FinishJob(j, [r EXCEPT !.pc = "returned"],
                    IF r.canceled \/ clean THEN "stopped" ELSE "failed")
    /\ UNCHANGED <<up, crashes, started, lastMode, conn>>

TimerFires(j) ==
    /\ job[j].timer
    /\ LET expires == ~job[j].finished /\ ~job[j].reported
       IN job' = [job EXCEPT ![j].timer = FALSE,
                             ![j].canceled = @ \/ expires,
                             ![j].expiring = expires]
    /\ UNCHANGED <<up, crashes, started, db, current, last, lastMode, builds,
                   conn, view>>

TimeoutLogged(j) ==
    /\ job[j].expiring
    /\ FinishJob(j, [Canceled(job[j]) EXCEPT !.expiring = FALSE], "failed")
    /\ UNCHANGED <<up, crashes, started, lastMode, conn>>

-----------------------------------------------------------------------------
(* Crash and boot.  Only the rows survive.                                  *)

Lost(r) ==
    IF r.pc = "none" THEN r
    ELSE [r EXCEPT !.pc = "lost", !.slot = FALSE, !.timer = FALSE,
                   !.expiring = FALSE, !.cmd = "none", !.pending = {},
                   !.clients = {}]

Crash ==
    /\ up /\ crashes < MaxCrashes
    /\ up' = FALSE
    /\ crashes' = crashes + 1
    /\ job' = [j \in Runs |-> Lost(job[j])]
    /\ current' = [w \in Workspaces |-> NoRun]
    /\ last' = [w \in Workspaces |-> NoSnapshot]
    /\ lastMode' = [w \in Workspaces |-> "run"]
    /\ builds' = {}
    /\ conn' = [c \in Connections |-> IF conn[c] \in Workspaces THEN "closed" ELSE conn[c]]
    /\ view' = [c \in Connections |-> "none"]
    /\ UNCHANGED <<started, db>>

OrphansRunning == {j \in Runs : db[j] = "running"}   \* mutant: a build is missed
Orphans == {j \in Runs : db[j] \in Open}
OrphansOf(w) == {j \in Orphans : job[j].ws = w}

\* createApp calls reconcileOrphanedRuns before the server listens.  The rows
\* come in the order of requested_at, so the last one decides the snapshot.
Boot ==
    /\ ~up
    /\ up' = TRUE
    /\ db' = [j \in Runs |-> IF j \in Orphans THEN "stopped" ELSE db[j]]
    /\ last' = [w \in Workspaces |->
                  IF OrphansOf(w) = {} THEN last[w]
                  ELSE [status |-> "stopped",
                        run |-> CHOOSE j \in OrphansOf(w) :
                                   \A i \in OrphansOf(w) : i <= j]]
    /\ UNCHANGED <<crashes, started, job, current, lastMode, builds, conn, view>>

-----------------------------------------------------------------------------

Request ==
    \/ \E w \in Workspaces, m \in Modes : Start(w, m)
    \/ \E w \in Workspaces : Restart(w) \/ Stop(w) \/ StopIdle(w)
    \/ \E c \in Connections, w \in Workspaces : Connect(c, w)
    \/ \E c \in Connections : Disconnect(c)

Step(j) ==
    \/ EnsureReturns(j) \/ EnsureFails(j) \/ FailureLogged(j)
    \/ \E l \in Lines : Prints(j, l) \/ LineLogged(j, l)
    \/ \E code \in {"ok", "error"} : CommandExits(j, code)
    \/ RunReturns(j) \/ TimerFires(j) \/ TimeoutLogged(j)

Next == Request \/ (\E j \in Runs : Step(j)) \/ Crash \/ Boot

\* Promises settle and timers fire: ensureWorkspaceRunning returns or throws,
\* appends complete, the readiness timer elapses, and a command that was sent
\* SIGTERM exits.  No fairness for users, for output, for a command nobody
\* killed, or for crashes.
Fairness ==
    \A j \in Runs :
        /\ WF_vars(EnsureReturns(j) \/ EnsureFails(j))
        /\ WF_vars(FailureLogged(j))
        /\ \A l \in Lines : WF_vars(LineLogged(j, l))
        /\ WF_vars(RunReturns(j))
        /\ WF_vars(TimerFires(j))
        /\ WF_vars(TimeoutLogged(j))
        /\ WF_vars(job[j].killed /\ \E code \in {"ok", "error"} : CommandExits(j, code))

Spec == Init /\ [][Next]_vars
FairSpec == Spec /\ Fairness

-----------------------------------------------------------------------------
(* What the status endpoints report (getWorkspaceSnapshot)                 *)

RunsOf(w) == {j \in Runs : job[j].ws = w}
IsNewest(j, w) == j \in RunsOf(w) /\ \A i \in RunsOf(w) : i <= j

SnapshotOf(w) ==
    IF current[w] # NoRun
    THEN LET k == current[w]
         IN [status |-> IF job[k].canceled /\ ~job[k].finished
                        THEN "stopping" ELSE job[k].state,
             run |-> k]
    ELSE IF last[w].status # "none" THEN last[w]
    ELSE IF RunsOf(w) = {} THEN [status |-> "idle", run |-> NoRun]
    ELSE LET k == CHOOSE j \in RunsOf(w) : IsNewest(j, w)
         IN [status |-> db[k], run |-> k]

-----------------------------------------------------------------------------
(* The abstract lifecycle: the rows are the phases, and a workspace wants   *)
(* its current run unless that run was canceled.                            *)

Wanted(w) == IF current[w] # NoRun /\ ~job[current[w]].canceled
             THEN current[w] ELSE NoRun

Lifecycle == INSTANCE RunLifecycle WITH
    owner  <- [j \in Runs |-> job[j].ws],
    phase  <- db,
    wanted <- [w \in Workspaces |-> Wanted(w)]

-----------------------------------------------------------------------------
(* Properties                                                              *)

\* A run's command that nobody told to stop belongs to the current job of its
\* workspace: replacing, stopping or timing out a run never leaves behind a
\* simulation that no later stop can reach.
OnlyCurrentUnsignaled ==
    \A j \in Runs :
        job[j].cmd = "alive" /\ ~job[j].killed => current[job[j].ws] = j

\* While the process is up, a run_jobs row is open exactly as long as a job
\* object will still write its end: no run stays "building" or "running" for
\* ever in the database, whatever finished, failed, timed out or crashed.
RowOpenIffLive ==
    up => \A j \in Runs : db[j] \in Open <=> Live(j)

\* The set behind activeBuildCount holds exactly the jobs that hold a slot; a
\* slot is held only by an unfinished run that is not ready yet, and the
\* readiness timer is armed only under a held slot (so it can never fail a run
\* that is ready or waits for the debugger).
SlotAccounting ==
    /\ builds = {j \in Runs : job[j].slot}
    /\ \A j \in Runs :
         /\ job[j].slot => Live(j) /\ ~job[j].reported
         /\ job[j].timer => job[j].slot

\* A job whose command is executing under a build slot has a deadline: the
\* timer is armed, or it has fired and its handler is about to finish the job.
SlotHasDeadline ==
    \A j \in Runs :
        job[j].slot /\ job[j].pc = "exec" => job[j].timer \/ job[j].expiring

\* The reported status agrees with the row of the reported run, also after a
\* restart; "stopping" is reported only for a run whose row is still open.
SnapshotMatchesRow ==
    up => \A w \in Workspaces :
            LET s == SnapshotOf(w)
            IN s.run # NoRun =>
                 \/ s.status = db[s.run]
                 \/ s.status = "stopping" /\ db[s.run] \in Open

\* Until the process crashes, the reported run is the newest of its workspace:
\* a superseded run that ends late does not overwrite the status.
SnapshotIsNewest ==
    crashes = 0 =>
        \A w \in Workspaces :
            SnapshotOf(w).run # NoRun => IsNewest(SnapshotOf(w).run, w)

\* The same claim across restarts.  Boot breaks it: see the README.
SnapshotIsNewestAlways ==
    up => \A w \in Workspaces :
            SnapshotOf(w).run # NoRun => IsNewest(SnapshotOf(w).run, w)

\* A browser on the run channel of a workspace whose runs are all over has
\* seen a terminal status, if it has seen any.
IdleClientsToldTerminal ==
    \A c \in Connections :
        (conn[c] \in Workspaces /\ \A j \in RunsOf(conn[c]) : ~Live(j))
            => view[c] \in Terminal \cup {"none"}

\* A browser on the run channel is not told of the end of a run that has been
\* superseded while the current run goes on.  broadcast does tell it: see the
\* findings.
CurrentRunNotOverwritten ==
    \A c \in Connections :
        (conn[c] \in Workspaces /\ current[conn[c]] # NoRun)
            => view[c] \notin Terminal

\* The end recorded in a run_jobs row is final: no late log line, timeout,
\* exit or reconciliation rewrites it.
TerminalRowsFinal ==
    [][\A j \in Runs : db[j] \in Terminal => db'[j] = db[j]]_vars

\* A run that was canceled before it was ready is never reported as running
\* afterwards, although its output may still be in flight.
CanceledNeverRuns ==
    [][\A j \in Runs : job[j].canceled /\ db[j] = "building"
                          => db'[j] # "running"]_vars

\* The run manager implements RunLifecycle: rows only go from building to
\* running to one end, and a run becomes running only while its workspace
\* still wants it, across supersession, timeouts, crashes and restarts.
RefinesLifecycle == Lifecycle!LSpec

\* A canceled run ends (or is lost in a crash).
CanceledEnds ==
    \A j \in Runs : (job[j].canceled /\ Live(j)) ~> ~Live(j)

\* No run occupies a build slot for ever.
SlotsAreReturned ==
    \A j \in Runs : (j \in builds) ~> (j \notin builds)

\* What j waits for comes by itself: an await that settles, the timeout's
\* handler, or a command that is over or was sent SIGTERM.
Ending(j) ==
    \/ job[j].pc \in {"ensuring", "failing"}
    \/ job[j].pc = "exec" /\ (job[j].expiring \/ job[j].killed \/ job[j].cmd = "exited")

\* A canceled run never waits for a command that nobody told to stop, at
\* whichever await the cancel or the timeout met it; nor does a run that holds
\* a build slot wait without a deadline.
CanceledIsEnding ==
    \A j \in Runs :
        /\ job[j].canceled /\ Live(j) => Ending(j)
        /\ j \in builds => Ending(j) \/ job[j].timer

\* And as long as it is not over it only comes closer: it stays canceled, its
\* coroutine does not go on to another await but to log a failure, and it
\* launches no command.
CanceledWindsDown ==
    [][\A j \in Runs : job[j].canceled /\ Live(j) /\ Live(j)' =>
          /\ job'[j].canceled
          /\ job'[j].pc = job[j].pc \/ (job[j].pc = "ensuring" /\ job'[j].pc = "failing")
          /\ job'[j].cmd = "alive" => job[j].cmd = "alive"]_vars

=============================================================================
