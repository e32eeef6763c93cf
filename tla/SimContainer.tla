---------------------------- MODULE SimContainer ----------------------------
(***************************************************************************)
(* What happens inside one workspace container: the run script that the    *)
(* run manager starts with `docker exec`, start-sim.sh and run-sim.sh      *)
(* which it calls, every execution of stop-sim.sh, the files they share    *)
(* (sim.pid, the debug marker, the claim files), and the extension hosts   *)
(* of the editor tabs that attach a debugger to a Debug run.               *)
(*                                                                         *)
(* All of these are processes that run at the same time.  The control      *)
(* plane waits for none of them: start fires a stop-sim.sh of its own and  *)
(* then the run script, stop fires a stop-sim.sh.  Terminating the docker  *)
(* client of the run script does not end the script in the container (exec *)
(* forwards no signal, and the script's trap does not exit either).        *)
(* A sim stands for its whole process group; its pid is the run's number.  *)
(***************************************************************************)
EXTENDS Naturals, FiniteSets

CONSTANTS MaxRuns,    \* bound: runs requested
          Stops,      \* executions of stop-sim.sh the control plane may fire
          Hosts,      \* extension hosts of the editor tabs
          Modes       \* SIM_MODEs in use

ASSUME SimAssumption ==
    /\ MaxRuns \in Nat
    /\ Stops \cap (1 .. MaxRuns) = {}
    /\ Modes \subseteq {"run", "debug", "build"} /\ "debug" \in Modes

Runs   == 1 .. MaxRuns
Nobody == 0                      \* no pid: an absent file

(* Executions of stop-sim.sh: those the control plane fires (for a Stop,   *)
(* and for every start), and the run script's own, numbered like the run:  *)
(* its second line, then start-sim.sh's.                                   *)
Sweeps == Runs \cup Stops

VARIABLES
    asked,     \* runs requested so far; the last one is the current job
    mode,      \* SIM_MODE of each run
    canceled,  \* runs whose job was canceled
    script,    \* progress of each run script
    tail,      \* pid that `tail --pid` of a run script watches
    sim,       \* run-sim.sh of each run: the shell, Gradle, the robot JVM
    pidFile,   \* $HOME/sim.pid
    marker,    \* pid in $HOME/sim-debug.json
    claims,    \* pids with a sim-debug.<pid>.claim file
    sweep,     \* executions of stop-sim.sh: progress and the groups signaled
    host       \* extension hosts: handledPid, and what they do about it

files == <<pidFile, marker, claims>>
vars  == <<asked, mode, canceled, script, tail, sim, files, sweep, host>>

Phases == {"none", "shell", "gradle", "link", "jvm", "dead"}
Sweep  == [pc : {"idle", "sent", "poll", "clear", "off"}, groups : SUBSET Runs]
Host   == [handled : Runs \cup {Nobody},
           pc      : {"idle", "window", "claimed"}]

TypeOK ==
    /\ asked \in 0 .. MaxRuns
    /\ mode \in [Runs -> Modes]
    /\ canceled \subseteq Runs
    /\ script \in [Runs -> {"no", "asked", "first", "second", "check",
                            "launched", "recorded", "tail", "done"}]
    /\ tail \in [Runs -> Runs \cup {Nobody}]
    /\ sim \in [Runs -> Phases]
    /\ pidFile \in Runs \cup {Nobody}
    /\ marker \in Runs \cup {Nobody}
    /\ claims \subseteq Runs
    /\ sweep \in [Sweeps -> Sweep]
    /\ host \in [Hosts -> Host]

Init ==
    /\ asked = 0
    /\ mode = [r \in Runs |-> "debug"]
    /\ canceled = {}
    /\ script = [r \in Runs |-> "no"]
    /\ tail = [r \in Runs |-> Nobody]
    /\ sim = [r \in Runs |-> "none"]
    /\ pidFile = Nobody /\ marker = Nobody /\ claims = {}
    /\ sweep = [x \in Sweeps |-> [pc |-> "idle", groups |-> {}]]
    /\ host = [h \in Hosts |-> [handled |-> Nobody, pc |-> "idle"]]

Alive(r) == sim[r] \notin {"none", "dead"}

---------------------------------------------------------------------------
(* The control plane *)

Sent(x) == [sweep EXCEPT ![x].pc = "sent"]
CurrentJob == {asked} \cap Runs

(* RunManager.start: cancelWorkspace, then the job of the new run. *)
RequestRun(k, m) ==
    /\ asked < MaxRuns /\ sweep[k].pc = "idle"
    /\ asked' = asked + 1
    /\ mode' = [mode EXCEPT ![asked + 1] = m]
    /\ canceled' = canceled \cup CurrentJob
    /\ sweep' = Sent(k)
    /\ script' = [script EXCEPT ![asked + 1] = "asked"]
    /\ UNCHANGED <<tail, sim, files, host>>

RequestStop(k) ==
    /\ sweep[k].pc = "idle"
    /\ sweep' = Sent(k)
    /\ canceled' = canceled \cup CurrentJob
    /\ UNCHANGED <<asked, mode, script, tail, sim, files, host>>

(* runJob after its ensure: a canceled job starts no command; the ensure   *)
(* of another may have failed.                                             *)
GivesUp(r) ==
    /\ script[r] = "asked"
    /\ script' = [script EXCEPT ![r] = "done"]
    /\ UNCHANGED <<asked, mode, canceled, tail, sim, files, sweep, host>>

Exec(r) ==
    /\ script[r] = "asked" /\ r \notin canceled
    /\ script' = [script EXCEPT ![r] = "first"]
    /\ sweep' = Sent(r)
    /\ UNCHANGED <<asked, mode, canceled, tail, sim, files, host>>

---------------------------------------------------------------------------
(* stop-sim.sh *)

(* sim_candidate_pids: the live process of the pid file, and every process *)
(* recognised by its arguments: Gradle of this workspace, the robot JVM.   *)
(* run-sim.sh before, between and after them is found by its pid only.     *)
Candidates == {r \in Runs : Alive(r) /\ (pidFile = r \/ sim[r] \in {"gradle", "jvm"})}

SweepFindsNone(x) ==
    /\ sweep[x].pc = "sent" /\ Candidates = {}
    /\ sweep' = [sweep EXCEPT ![x].pc = "clear"]
    /\ UNCHANGED <<asked, mode, canceled, script, tail, sim, files, host>>

(* SIGTERM to the groups; a sim ends of it when it likes (SimEnds). *)
SweepTerminates(x) ==
    /\ sweep[x].pc = "sent" /\ Candidates # {}
    /\ sweep' = [sweep EXCEPT ![x] = [pc |-> "poll", groups |-> Candidates]]
    /\ UNCHANGED <<asked, mode, canceled, script, tail, sim, files, host>>

Remaining(x) == {r \in sweep[x].groups : Alive(r)}

\* mutant: the poll asks for the candidates only
PollIgnoresGroups(x) ==
    /\ sweep[x].pc = "poll" /\ Candidates = {}
    /\ sweep' = [sweep EXCEPT ![x].pc = "clear"]
    /\ UNCHANGED <<asked, mode, canceled, script, tail, sim, files, host>>
SweepSeesEnd(x) ==
    /\ sweep[x].pc = "poll" /\ Candidates = {} /\ Remaining(x) = {}
    /\ sweep' = [sweep EXCEPT ![x].pc = "clear"]
    /\ UNCHANGED <<asked, mode, canceled, script, tail, sim, files, host>>

(* 40 polls have passed: SIGKILL to what is left. *)
SweepKills(x) ==
    /\ sweep[x].pc = "poll" /\ Candidates \cup Remaining(x) # {}
    /\ sim' = [r \in Runs |-> IF r \in Candidates \cup Remaining(x) THEN "dead" ELSE sim[r]]
    /\ sweep' = [sweep EXCEPT ![x].pc = "clear"]
    /\ UNCHANGED <<asked, mode, canceled, script, tail, files, host>>

ClearSimFiles == pidFile' = Nobody /\ marker' = Nobody /\ claims' = {}

(* The end of an execution; the run script goes on after its own. *)
SweepClears(x) ==
    /\ sweep[x].pc = "clear"
    /\ ClearSimFiles
    /\ IF x \in Runs /\ script[x] = "first"
         THEN /\ script' = [script EXCEPT ![x] = "second"]
              /\ sweep' = [sweep EXCEPT ![x] = [pc |-> "sent", groups |-> {}]]
         ELSE /\ script' = IF x \in Runs THEN [script EXCEPT ![x] = "check"] ELSE script
              /\ sweep' = [sweep EXCEPT ![x] = [pc |-> "off", groups |-> {}]]
    /\ UNCHANGED <<asked, mode, canceled, tail, sim, host>>

---------------------------------------------------------------------------
(* The run script and start-sim.sh *)

ScriptMoves(r, from, to) == script[r] = from /\ script' = [script EXCEPT ![r] = to]

NoProject(r) ==
    /\ ScriptMoves(r, "check", "done")
    /\ UNCHANGED <<asked, mode, canceled, tail, sim, files, sweep, host>>

Launches(r) ==
    /\ ScriptMoves(r, "check", "launched")
    /\ sim' = [sim EXCEPT ![r] = "shell"]
    /\ UNCHANGED <<asked, mode, canceled, tail, files, sweep, host>>

WritesPid(r) ==
    /\ ScriptMoves(r, "launched", "recorded")
    /\ pidFile' = r
    /\ UNCHANGED <<asked, mode, canceled, tail, sim, marker, claims, sweep, host>>

(* cat fails on an absent file, and set -e ends the script. *)
ReadsPid(r) ==
    /\ ScriptMoves(r, "recorded", IF pidFile = Nobody THEN "done" ELSE "tail")
    /\ tail' = [tail EXCEPT ![r] = pidFile]
    /\ UNCHANGED <<asked, mode, canceled, sim, files, sweep, host>>

TailEnds(r) ==
    /\ ScriptMoves(r, "tail", "done")
    /\ ~ Alive(tail[r])
    /\ tail' = [tail EXCEPT ![r] = Nobody]
    /\ UNCHANGED <<asked, mode, canceled, sim, files, sweep, host>>

---------------------------------------------------------------------------
(* run-sim.sh *)

SimMoves(r, from, to) == sim[r] = from /\ sim' = [sim EXCEPT ![r] = to]

Builds(r) ==
    /\ SimMoves(r, "shell", "gradle")
    /\ UNCHANGED <<asked, mode, canceled, script, tail, files, sweep, host>>

Built(r) ==
    /\ SimMoves(r, "gradle", IF mode[r] = "build" THEN "dead" ELSE "link")
    /\ UNCHANGED <<asked, mode, canceled, script, tail, files, sweep, host>>

(* In debug mode the marker is written right before the shell becomes the JVM. *)
BecomesRobot(r) ==
    /\ SimMoves(r, "link", "jvm")
    /\ marker' = IF mode[r] = "debug" THEN r ELSE marker
    /\ UNCHANGED <<asked, mode, canceled, script, tail, pidFile, claims, sweep, host>>

(* A failed build or link, an exit of the robot, the agent's 120 s without *)
(* a debugger, or a SIGTERM taking effect.                                 *)
SimEnds(r) ==
    /\ Alive(r)
    /\ sim' = [sim EXCEPT ![r] = "dead"]
    /\ UNCHANGED <<asked, mode, canceled, script, tail, files, sweep, host>>

---------------------------------------------------------------------------
(* The extension hosts *)

(* check: the marker's pid is remembered before anything is awaited. *)
HostReads(h) ==
    /\ host[h].pc = "idle" /\ marker \notin {Nobody, host[h].handled}
    /\ host' = [host EXCEPT ![h] = [handled |-> marker, pc |-> "window"]]
    /\ UNCHANGED <<asked, mode, canceled, script, tail, sim, files, sweep>>

\* mutant: the claim is taken without O_EXCL
ClaimsAnyway(h) ==
    /\ host[h].pc = "window"
    /\ claims' = claims \cup {host[h].handled}
    /\ host' = [host EXCEPT ![h].pc = "claimed"]
    /\ UNCHANGED <<asked, mode, canceled, script, tail, sim, pidFile, marker, sweep>>
HostClaims(h) ==
    /\ host[h].pc = "window" /\ host[h].handled \notin claims
    /\ claims' = claims \cup {host[h].handled}
    /\ host' = [host EXCEPT ![h].pc = "claimed"]
    /\ UNCHANGED <<asked, mode, canceled, script, tail, sim, pidFile, marker, sweep>>

(* The claim is another host's, or the window did not answer in 5 s. *)
HostDeclines(h) ==
    /\ host[h].pc = "window"
    /\ host' = [host EXCEPT ![h].pc = "idle"]
    /\ UNCHANGED <<asked, mode, canceled, script, tail, sim, files, sweep>>

(* attach is over: the debugger attached and left, the three attempts      *)
(* failed, or the JVM ended.                                               *)
Attached(h) ==
    /\ host[h].pc = "claimed"
    /\ host' = [host EXCEPT ![h].pc = "idle"]
    /\ UNCHANGED <<asked, mode, canceled, script, tail, sim, files, sweep>>

---------------------------------------------------------------------------
SweepSteps(x) == SweepFindsNone(x) \/ SweepTerminates(x) \/ SweepSeesEnd(x)
                   \/ SweepKills(x) \/ SweepClears(x)
ScriptSteps(r) == NoProject(r) \/ Launches(r) \/ WritesPid(r) \/ ReadsPid(r) \/ TailEnds(r)
SimSteps(r) == Builds(r) \/ Built(r) \/ BecomesRobot(r) \/ SimEnds(r)
HostSteps(h) == HostReads(h) \/ HostClaims(h) \/ HostDeclines(h) \/ Attached(h)

Next ==
    \/ \E k \in Stops : RequestStop(k) \/ \E m \in Modes : RequestRun(k, m)
    \/ \E r \in Runs : GivesUp(r) \/ Exec(r) \/ ScriptSteps(r) \/ SimSteps(r)
    \/ \E x \in Sweeps : SweepSteps(x)
    \/ \E h \in Hosts : HostSteps(h)

Spec == Init /\ [][Next]_vars

---------------------------------------------------------------------------
(* A stop-sim.sh that is done waiting left nothing it signaled alive, even *)
(* when the process became invisible to it in between (run-sim.sh between  *)
(* Gradle and the JVM, its pid file removed by another stop-sim.sh).       *)
StopKillsWhatItSaw ==
    \A x \in Sweeps : sweep[x].pc = "clear" => Remaining(x) = {}

Claimed(h, r) == host[h] = [handled |-> r, pc |-> "claimed"]

(* While a Debug run's marker is there, at most one extension host holds   *)
(* its claim, whatever windows answer and whenever claims are cleared.     *)
OneClaimant ==
    marker # Nobody => \A g, h \in Hosts :
        Claimed(g, marker) /\ Claimed(h, marker) => g = h

(* "Stop during Build: the Gradle process tree is killed, and the run ends *)
(* stopped" (the sim-debugging design): when no stop-sim.sh is executing   *)
(* any more, no sim of a canceled run is alive.  The code does not keep    *)
(* it: the run script of a canceled run, between docker exec and setsid,   *)
(* is no candidate of the Stop's stop-sim.sh and launches afterwards.      *)
StopIsFinal ==
    (\A x \in Sweeps : sweep[x].pc \in {"idle", "off"}) =>
        \A r \in canceled : ~ Alive(r)
=============================================================================
