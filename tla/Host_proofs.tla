---------------------------- MODULE Host_proofs ----------------------------
(***************************************************************************)
(* Proofs about what runs on the host beside the core: the scripts of a    *)
(* workspace container, accounts, host ports, asset uploads, the data      *)
(* directory and deploy files.  Each part has an inductive invariant of    *)
(* its own; MCHost checks the same properties on small instances.          *)
(***************************************************************************)
EXTENDS MCHost, TLAPS, FiniteSetTheorems, WellFoundedInduction

-----------------------------------------------------------------------------
(***************************************************************************)
(* Run scripts, stop-sim.sh and the debugger.                              *)
(* For any number of runs, stop-sim.sh executions and extension hosts.     *)
(***************************************************************************)

Unlaunched == {"no", "asked", "first", "second", "check"}
ScriptPhases == Unlaunched \cup {"launched", "recorded", "tail", "done"}

\* A run that was not requested has no script, and a run script that did not
\* come to setsid has no sim.
ScriptInv ==
    \A r \in Runs : /\ r > asked => script[r] = "no"
                    /\ script[r] \in Unlaunched => sim[r] = "none"

\* A run script waits for its own stop-sim.sh.
OwnInv ==
    \A r \in Runs : sweep[r].pc \in {"sent", "poll", "clear"} => script[r] \in {"first", "second"}

\* The groups a stop-sim.sh remembers were launched, and are dead once it is
\* done waiting for them.
GroupInv ==
    \A x \in Sweeps : /\ sweep[x].pc \in {"idle", "sent", "off"} => sweep[x].groups = {}
                      /\ \A r \in sweep[x].groups : sim[r] # "none"
                      /\ sweep[x].pc = "clear" => \A r \in sweep[x].groups : sim[r] = "dead"

\* A pid in the marker, or read from it, is that of a robot JVM, and a host
\* that claimed the marker's pid left a claim file.
MarkerInv ==
    /\ marker # Nobody => sim[marker] \in {"jvm", "dead"}
    /\ \A h \in Hosts :
        /\ host[h].pc # "idle" => host[h].handled # Nobody
        /\ host[h].handled # Nobody => sim[host[h].handled] \in {"jvm", "dead"}
        /\ marker # Nobody /\ Claimed(h, marker) => marker \in claims

ScriptsInv == TypeOK /\ ScriptInv /\ OwnInv /\ GroupInv /\ MarkerInv /\ OneClaimant

\* What a sim may do in a step.
Ages == \A r \in Runs : /\ sim[r] = "dead" => sim'[r] = "dead"
                        /\ sim[r] = "jvm" => sim'[r] \in {"jvm", "dead"}
                        /\ sim[r] # "none" => sim'[r] # "none"

---------------------------------------------------------------------------
LEMMA RunsFacts == /\ Runs \subseteq Nat /\ Nobody \notin Runs
                   /\ \A k \in Stops : k \in Sweeps /\ k \notin Runs
                   /\ \A r \in Runs : r \in Sweeps
BY SimAssumption DEF Runs, Nobody, Sweeps

LEMMA InitInv == Init => ScriptsInv
BY SimAssumption, RunsFacts
   DEF Init, ScriptsInv, TypeOK, ScriptInv, OwnInv, GroupInv, MarkerInv, OneClaimant, Sweep, Host,
       Phases, Claimed, Nobody, Runs

\* The files and hosts are untouched and sims only age.
LEMMA MarkerKept ==
    ASSUME ScriptsInv, Ages, marker' = marker, claims' = claims, host' = host
    PROVE  MarkerInv' /\ OneClaimant'
BY RunsFacts DEF ScriptsInv, TypeOK, Host, MarkerInv, OneClaimant, Claimed, Ages

\* No stop-sim.sh moves and sims only age.
LEMMA GroupsKept ==
    ASSUME ScriptsInv, Ages, sweep' = sweep
    PROVE  GroupInv'
BY RunsFacts DEF ScriptsInv, TypeOK, Sweep, GroupInv, Ages

---------------------------------------------------------------------------
(* The control plane.                                                      *)

LEMMA RequestRunInv ==
    ASSUME ScriptsInv, NEW k \in Stops, NEW m \in Modes, RequestRun(k, m)
    PROVE  ScriptsInv'
<1>1. asked + 1 \in Runs /\ asked' = asked + 1 /\ asked \in Nat
  BY SimAssumption DEF ScriptsInv, TypeOK, RequestRun, Runs
<1>2. TypeOK'
  <2>1. asked' \in 0 .. MaxRuns
    BY <1>1, SimAssumption DEF Runs
  <2>2. canceled' \subseteq Runs
    BY DEF ScriptsInv, TypeOK, RequestRun, CurrentJob
  <2>3. mode' \in [Runs -> Modes] /\ script' \in [Runs -> ScriptPhases]
    BY <1>1 DEF ScriptsInv, TypeOK, RequestRun, ScriptPhases, Unlaunched
  <2>4. sweep' \in [Sweeps -> Sweep]
    BY RunsFacts DEF ScriptsInv, TypeOK, RequestRun, Sent, Sweep
  <2> QED  BY <2>1, <2>2, <2>3, <2>4 DEF ScriptsInv, TypeOK, RequestRun, files, ScriptPhases, Unlaunched
<1>3. Ages  BY DEF RequestRun, Ages
<1>4. ScriptInv'
  BY <1>1, RunsFacts DEF ScriptsInv, TypeOK, RequestRun, ScriptInv, Unlaunched, Runs
<1>5. OwnInv'
  <2>1. \A r \in Runs : sweep'[r] = sweep[r] BY RunsFacts DEF ScriptsInv, TypeOK, RequestRun, Sent
  <2>2. script[asked + 1] = "no"  BY <1>1 DEF ScriptsInv, ScriptInv
  <2> QED  BY <1>1, <2>1, <2>2 DEF ScriptsInv, TypeOK, OwnInv, RequestRun
<1>6. GroupInv'
  BY RunsFacts DEF ScriptsInv, TypeOK, Sweep, GroupInv, RequestRun, Sent
<1>7. MarkerInv' /\ OneClaimant'
  BY <1>3, MarkerKept DEF RequestRun, files
<1> QED  BY <1>2, <1>4, <1>5, <1>6, <1>7 DEF ScriptsInv

LEMMA RequestStopInv ==
    ASSUME ScriptsInv, NEW k \in Stops, RequestStop(k)
    PROVE  ScriptsInv'
<1>1. TypeOK'
  BY RunsFacts DEF ScriptsInv, TypeOK, RequestStop, Sent, Sweep, CurrentJob, files
<1>2. Ages  BY DEF RequestStop, Ages
<1>3. ScriptInv'  BY DEF ScriptsInv, RequestStop, ScriptInv
<1>4. OwnInv'
  BY RunsFacts DEF ScriptsInv, TypeOK, OwnInv, RequestStop, Sent
<1>5. GroupInv'
  BY RunsFacts DEF ScriptsInv, TypeOK, Sweep, GroupInv, RequestStop, Sent
<1>6. MarkerInv' /\ OneClaimant'
  BY <1>2, MarkerKept DEF RequestStop, files
<1> QED  BY <1>1, <1>3, <1>4, <1>5, <1>6 DEF ScriptsInv

LEMMA ExecInv ==
    ASSUME ScriptsInv, NEW r \in Runs, GivesUp(r) \/ Exec(r)
    PROVE  ScriptsInv'
<1>1. TypeOK'
  BY RunsFacts DEF ScriptsInv, TypeOK, GivesUp, Exec, Sent, Sweep, files
<1>2. Ages  BY DEF GivesUp, Exec, Ages
<1>3. ScriptInv'
  BY DEF ScriptsInv, TypeOK, GivesUp, Exec, ScriptInv, Unlaunched
<1>4. OwnInv'
  BY RunsFacts DEF ScriptsInv, TypeOK, Sweep, OwnInv, GivesUp, Exec, Sent
<1>5. GroupInv'
  <2>1. CASE GivesUp(r)  BY <2>1, <1>2, GroupsKept DEF GivesUp
  <2>2. CASE Exec(r)
    <3>1. sweep[r].pc \in {"idle", "off"}
      BY <2>2, RunsFacts DEF ScriptsInv, TypeOK, Sweep, OwnInv, Exec
    <3>2. sweep[r].groups = {}
      BY <2>2, <3>1, RunsFacts DEF ScriptsInv, GroupInv
    <3> QED  BY <2>2, <3>2, RunsFacts DEF ScriptsInv, TypeOK, Sweep, GroupInv, Exec, Sent
  <2> QED  BY <2>1, <2>2
<1>6. MarkerInv' /\ OneClaimant'
  BY <1>2, MarkerKept DEF GivesUp, Exec, files
<1> QED  BY <1>1, <1>3, <1>4, <1>5, <1>6 DEF ScriptsInv

---------------------------------------------------------------------------
(* stop-sim.sh.                                                            *)

LEMMA SweepMovesInv ==
    ASSUME ScriptsInv, NEW x \in Sweeps, SweepFindsNone(x) \/ SweepTerminates(x) \/ SweepSeesEnd(x)
    PROVE  ScriptsInv'
<1> USE DEF SweepFindsNone, SweepTerminates, SweepSeesEnd
<1>0. Candidates \subseteq Runs /\ \A r \in Candidates : sim[r] # "none"
  BY DEF Candidates, Alive
<1>1. TypeOK'
  <2>1. sweep' \in [Sweeps -> Sweep]  BY <1>0 DEF ScriptsInv, TypeOK, Sweep
  <2> QED  BY <2>1 DEF ScriptsInv, TypeOK, files
<1>2. Ages  BY DEF Ages
<1>3. ScriptInv'  BY DEF ScriptsInv, ScriptInv
<1>4. OwnInv'  BY RunsFacts DEF ScriptsInv, TypeOK, Sweep, OwnInv
<1>5. GroupInv'
  <2>1. CASE SweepFindsNone(x)
    BY <2>1, RunsFacts DEF ScriptsInv, TypeOK, Sweep, GroupInv
  <2>2. CASE SweepTerminates(x)
    BY <2>2, <1>0, RunsFacts DEF ScriptsInv, TypeOK, Sweep, GroupInv
  <2>3. CASE SweepSeesEnd(x)
    <3>1. \A r \in sweep[x].groups : sim[r] = "dead"
      BY <2>3 DEF ScriptsInv, TypeOK, Sweep, GroupInv, Remaining, Alive
    <3> QED  BY <2>3, <3>1, RunsFacts DEF ScriptsInv, TypeOK, Sweep, GroupInv
  <2> QED  BY <2>1, <2>2, <2>3
<1>6. MarkerInv' /\ OneClaimant'
  BY <1>2, MarkerKept DEF files
<1> QED  BY <1>1, <1>3, <1>4, <1>5, <1>6 DEF ScriptsInv

LEMMA SweepKillsInv ==
    ASSUME ScriptsInv, NEW x \in Sweeps, SweepKills(x)
    PROVE  ScriptsInv'
<1>0. \A r \in Candidates \cup Remaining(x) : r \in Runs /\ sim[r] # "none"
  BY DEF ScriptsInv, TypeOK, Sweep, Candidates, Remaining, Alive
<1>1. TypeOK'  BY RunsFacts DEF ScriptsInv, TypeOK, SweepKills, Sweep, Phases, files
<1>2. Ages
  BY DEF ScriptsInv, TypeOK, SweepKills, Ages
<1>3. ScriptInv'  BY <1>0 DEF ScriptsInv, TypeOK, ScriptInv, SweepKills
<1>4. OwnInv'  BY RunsFacts DEF ScriptsInv, TypeOK, Sweep, OwnInv, SweepKills
<1>5. GroupInv'
  <2>1. \A r \in sweep[x].groups : r \in Runs /\ sim'[r] = "dead"
    BY <1>0 DEF ScriptsInv, TypeOK, Sweep, GroupInv, SweepKills, Remaining, Alive
  <2>2. \A y \in Sweeps : /\ sweep'[y].groups = sweep[y].groups
                          /\ sweep'[y].groups \subseteq Runs
                          /\ y # x => sweep'[y].pc = sweep[y].pc
    BY DEF ScriptsInv, TypeOK, Sweep, SweepKills
  <2>3. sweep'[x].pc = "clear"  BY DEF ScriptsInv, TypeOK, Sweep, SweepKills
  <2> QED  BY <2>1, <2>2, <2>3, <1>2 DEF ScriptsInv, GroupInv, Ages
<1>6. MarkerInv' /\ OneClaimant'
  BY <1>2, MarkerKept DEF SweepKills, files
<1> QED  BY <1>1, <1>3, <1>4, <1>5, <1>6 DEF ScriptsInv

LEMMA SweepClearsInv ==
    ASSUME ScriptsInv, NEW x \in Sweeps, SweepClears(x)
    PROVE  ScriptsInv'
<1>1. TypeOK'
  BY RunsFacts DEF ScriptsInv, TypeOK, SweepClears, ClearSimFiles, Sweep
<1>2. Ages  BY DEF SweepClears, Ages
<1>3. x \in Runs => script[x] \in {"first", "second"}
  BY DEF ScriptsInv, OwnInv, SweepClears
<1>4. ScriptInv'
  BY <1>3 DEF ScriptsInv, TypeOK, ScriptInv, SweepClears, Unlaunched
<1>5. OwnInv'
  BY <1>3, RunsFacts DEF ScriptsInv, TypeOK, Sweep, OwnInv, SweepClears
<1>6. GroupInv'
  <2>1. sweep'[x].groups = {} /\ sweep'[x].pc \in {"sent", "off"}
    BY DEF ScriptsInv, TypeOK, SweepClears
  <2>2. \A y \in Sweeps \ {x} : sweep'[y] = sweep[y]
    BY DEF ScriptsInv, TypeOK, SweepClears
  <2> QED  BY <2>1, <2>2 DEF ScriptsInv, GroupInv, SweepClears
<1>7. MarkerInv' /\ OneClaimant'
  BY DEF ScriptsInv, SweepClears, ClearSimFiles, MarkerInv, OneClaimant
<1> QED  BY <1>1, <1>4, <1>5, <1>6, <1>7 DEF ScriptsInv

---------------------------------------------------------------------------
(* The run script, the sim and the extension hosts.                        *)

LEMMA ScriptStepsInv ==
    ASSUME ScriptsInv, NEW r \in Runs, ScriptSteps(r)
    PROVE  ScriptsInv'
<1> USE DEF ScriptSteps, NoProject, Launches, WritesPid, ReadsPid, TailEnds, ScriptMoves
<1>1. TypeOK'  BY DEF ScriptsInv, TypeOK, Phases, files
<1>2. Ages
  <2>1. CASE Launches(r)
    <3>1. sim[r] = "none"  BY <2>1 DEF ScriptsInv, ScriptInv, Unlaunched
    <3> QED  BY <2>1, <3>1 DEF ScriptsInv, TypeOK, Ages
  <2>2. CASE ~ Launches(r)  BY <2>2 DEF Ages
  <2> QED  BY <2>1, <2>2
<1>3. ScriptInv'
  BY DEF ScriptsInv, TypeOK, ScriptInv, Unlaunched
<1>4. OwnInv'  BY RunsFacts DEF ScriptsInv, TypeOK, OwnInv
<1>5. GroupInv'  BY <1>2, GroupsKept
<1>6. MarkerInv' /\ OneClaimant'
  BY <1>2, MarkerKept DEF files
<1> QED  BY <1>1, <1>3, <1>4, <1>5, <1>6 DEF ScriptsInv

LEMMA SimStepsInv ==
    ASSUME ScriptsInv, NEW r \in Runs, SimSteps(r)
    PROVE  ScriptsInv'
<1> USE DEF SimSteps, Builds, Built, BecomesRobot, SimEnds, SimMoves
<1>0. sim[r] # "none"  BY DEF Alive
<1>1. TypeOK'  BY DEF ScriptsInv, TypeOK, Phases, files
<1>2. Ages  BY DEF ScriptsInv, TypeOK, Alive, Ages
<1>3. ScriptInv'  BY <1>0 DEF ScriptsInv, TypeOK, ScriptInv
<1>4. OwnInv'  BY DEF ScriptsInv, OwnInv
<1>5. GroupInv'  BY <1>2, GroupsKept
<1>6. MarkerInv' /\ OneClaimant'
  <2>1. CASE marker' = marker
    BY <2>1, <1>2, MarkerKept DEF files
  <2>2. CASE marker' # marker
    <3>1. BecomesRobot(r) /\ marker' = r  BY <2>2 DEF files
    <3>2. \A h \in Hosts : ~ Claimed(h, r)
      BY <3>1, RunsFacts DEF ScriptsInv, TypeOK, Host, MarkerInv, Claimed
    <3>3. sim'[r] = "jvm" /\ host' = host  BY <3>1 DEF ScriptsInv, TypeOK
    <3> QED
      BY <1>2, <3>1, <3>2, <3>3, RunsFacts DEF ScriptsInv, TypeOK, Host, MarkerInv, OneClaimant, Claimed, Ages
  <2> QED  BY <2>1, <2>2
<1> QED  BY <1>1, <1>3, <1>4, <1>5, <1>6 DEF ScriptsInv

LEMMA HostStepsInv ==
    ASSUME ScriptsInv, NEW h \in Hosts, HostSteps(h)
    PROVE  ScriptsInv'
<1> USE DEF HostSteps, HostReads, HostClaims, HostDeclines, Attached
<1>1. TypeOK'
  BY RunsFacts DEF ScriptsInv, TypeOK, Host, MarkerInv, files
<1>2. Ages  BY DEF Ages
<1>3. ScriptInv' /\ OwnInv'  BY DEF ScriptsInv, ScriptInv, OwnInv
<1>4. GroupInv'  BY <1>2, GroupsKept
<1>5. MarkerInv' /\ OneClaimant'
  BY RunsFacts DEF ScriptsInv, TypeOK, Host, MarkerInv, OneClaimant, Claimed, files
<1> QED  BY <1>1, <1>3, <1>4, <1>5 DEF ScriptsInv

LEMMA StutterInv == ScriptsInv /\ UNCHANGED vars => ScriptsInv'
BY DEF vars, files, ScriptsInv, TypeOK, ScriptInv, OwnInv, GroupInv, MarkerInv, OneClaimant, Claimed

(* The inductive invariant: what stop-sim.sh remembers against what it    *)
(* sees, and markers and claims against the sims.                          *)
THEOREM ScriptsInvariance == Spec => []ScriptsInv
<1>1. ScriptsInv /\ Next => ScriptsInv'
  BY RequestRunInv, RequestStopInv, ExecInv, SweepMovesInv, SweepKillsInv, SweepClearsInv,
     ScriptStepsInv, SimStepsInv, HostStepsInv DEF Next, SweepSteps
<1> QED  BY <1>1, InitInv, StutterInv, PTL DEF Spec

(* The variables keep their types: in particular a claim is taken, and a  *)
(* debugger attached, only for a pid that some run's robot really had.     *)
THEOREM ScriptsTypeCorrect == Spec => []TypeOK
<1>1. ScriptsInv => TypeOK  BY DEF ScriptsInv
<1> QED  BY <1>1, ScriptsInvariance, PTL

(* A stop-sim.sh that is done waiting left nothing it signaled alive,     *)
(* however many others run and whatever files they removed.                *)
THEOREM StopKills == Spec => []StopKillsWhatItSaw
<1>1. ScriptsInv => StopKillsWhatItSaw
  BY DEF ScriptsInv, GroupInv, StopKillsWhatItSaw, Remaining, Alive
<1> QED  BY <1>1, ScriptsInvariance, PTL

(* At most one extension host holds the claim of the marker's sim.         *)
THEOREM ClaimsExclude == Spec => []OneClaimant
<1>1. ScriptsInv => OneClaimant  BY DEF ScriptsInv
<1> QED  BY <1>1, ScriptsInvariance, PTL

-----------------------------------------------------------------------------
(***************************************************************************)
(* Accounts and the roster.                                                *)
(* For any people and requests.                                            *)
(***************************************************************************)

UserSet    == [role : {"none", "student", "admin"}, auth0 : BOOLEAN, vouched : BOOLEAN]
RequestSet == [pc : {"free", "writing", "written", "reloading", "reloaded", "asking",
                     "asked", "in", "deleting"},
               who : People \cup {Free.who}, list : Lists, row : BOOLEAN, listed : BOOLEAN]

\* Whoever GitHub or Google let in is vouched for, and so is every admin.
UserInv(r) == r.role = "admin" \/ (r.role # "none" /\ ~ r.auth0) => r.vouched

\* A sign-in knows of every roster that listed its person since it began.
RequestInv(r, file) ==
    /\ r.pc # "free" => r.who \in People
    /\ r.pc \in {"writing", "written"} => r.list \subseteq People
    /\ r.pc = "asking" /\ r.who \in file => r.listed
    /\ r.pc = "asked" => r.list = Malformed \/ r.who \notin r.list \/ r.listed
    /\ r.pc = "in" => r.listed \/ r.list = Malformed

AccountsInv ==
    /\ user \in [People -> UserSet] /\ request \in [Requests -> RequestSet]
    /\ allowlist \in Lists /\ cached \subseteq People /\ cli \in Lists
    /\ ~ online => \A q \in Requests : request[q].pc = "free"
    /\ \A p \in People : UserInv(user[p])
    /\ \A q \in Requests : RequestInv(request[q], allowlist)

LEMMA FreeRequest == /\ Free \in RequestSet /\ Free.pc = "free"
                     /\ \A file : RequestInv(Free, file)
BY DEF Free, RequestSet, Lists, RequestInv

LEMMA AccountsStart == AccountsInit => AccountsInv
<1> SUFFICES ASSUME AccountsInit PROVE AccountsInv
  OBVIOUS
<1>1. NoRow \in UserSet /\ UserInv(NoRow)
  BY DEF NoRow, UserSet, UserInv
<1>2. user \in [People -> UserSet] /\ request \in [Requests -> RequestSet]
  BY <1>1, FreeRequest DEF AccountsInit
<1>. QED
  BY <1>1, <1>2, FreeRequest DEF AccountsInit, AccountsInv, Lists

\* One request moves; neither the file nor a person's standing suffers.
LEMMA SignInMoves ==
    ASSUME AccountsInv, NEW q \in Requests, NEW r \in RequestSet,
           request' = [request EXCEPT ![q] = r], RequestInv(r, allowlist), online,
           UNCHANGED <<allowlist, online, cli>>, cached' \subseteq People,
           user' \in [People -> UserSet], \A p \in People : UserInv(user'[p])
    PROVE  AccountsInv'
<1>1. request' \in [Requests -> RequestSet]
  BY DEF AccountsInv
<1>2. \A s \in Requests : RequestInv(request'[s], allowlist)
  BY DEF AccountsInv
<1>. QED
  BY <1>1, <1>2 DEF AccountsInv

\* The file is replaced, and every sign-in under way sees it.
LEMMA SeesFile ==
    ASSUME NEW rs \in [Requests -> RequestSet], NEW list \in Lists, NEW file,
           \A q \in Requests : RequestInv(rs[q], file)
    PROVE  /\ Seen(rs, list) \in [Requests -> RequestSet]
           /\ \A q \in Requests : /\ RequestInv(Seen(rs, list)[q], list)
                                  /\ Seen(rs, list)[q].pc = rs[q].pc
                                  /\ Seen(rs, list)[q].who = rs[q].who
                                  /\ Seen(rs, list)[q].list = rs[q].list
<1>1. ASSUME NEW q \in Requests
      PROVE  /\ Seen(rs, list)[q] \in RequestSet
             /\ RequestInv(Seen(rs, list)[q], list)
             /\ Seen(rs, list)[q].pc = rs[q].pc
             /\ Seen(rs, list)[q].who = rs[q].who
             /\ Seen(rs, list)[q].list = rs[q].list
  <2>1. rs[q] \in RequestSet /\ RequestInv(rs[q], file)
    OBVIOUS
  <2>2. CASE rs[q].pc \in {"asking", "asked"} /\ rs[q].who \in list
    <3> DEFINE r == [rs[q] EXCEPT !.listed = TRUE]
    <3>1. /\ r \in RequestSet /\ r.pc = rs[q].pc /\ r.who = rs[q].who
          /\ r.list = rs[q].list /\ r.listed = TRUE
      BY <2>1 DEF RequestSet
    <3>2. Seen(rs, list)[q] = r
      BY <2>2 DEF Seen
    <3> HIDE DEF r
    <3>. QED
      BY <2>1, <3>1, <3>2 DEF RequestInv
  <2>3. CASE ~ (rs[q].pc \in {"asking", "asked"} /\ rs[q].who \in list)
    <3>1. Seen(rs, list)[q] = rs[q]
      BY <2>3 DEF Seen
    <3>. QED
      BY <2>1, <2>3, <3>1 DEF RequestInv
  <2>. QED
    BY <2>2, <2>3
<1>2. Seen(rs, list) \in [Requests -> RequestSet]
  BY <1>1 DEF Seen
<1>. QED
  BY <1>1, <1>2

\* A request begins.
LEMMA Begins ==
    ASSUME AccountsInv, NEW q \in Requests, NEW p \in People, NEW asks,
           NEW pc \in {"writing", "reloading", "asking", "deleting"}, NEW list \in Lists,
           asks => online, pc = "writing" => list \subseteq People, AskBegins(asks, q, pc, p, list),
           UNCHANGED <<allowlist, cached, user>>, OthersStay
    PROVE  AccountsInv'
<1> DEFINE r == [pc |-> pc, who |-> p, list |-> list, row |-> Exists(p),
                 listed |-> pc = "asking" /\ p \in allowlist]
<1>1. r \in RequestSet /\ RequestInv(r, allowlist)
  BY DEF RequestSet, RequestInv, Exists
<1>2. request' = [request EXCEPT ![q] = r] /\ online
  BY DEF AskBegins
<1> HIDE DEF r
<1>. QED
  BY <1>1, <1>2, SignInMoves DEF OthersStay, AccountsInv

LEMMA Subsets == ASSUME AccountsInv, NEW p \in People
                 PROVE  /\ Added(p) \in Lists /\ Kept(p) \in Lists /\ {} \in Lists
                        /\ Added(p) \subseteq People /\ Kept(p) \subseteq People
BY DEF Added, Kept, Lists, AccountsInv

LEMMA PanelBegins ==
    ASSUME AccountsInv, NEW q \in Requests, NEW p \in People,
           AddEntry(q, p) \/ RemoveEntry(q, p) \/ SignIn(q, p) \/ Delete(q, p) \/ Reload(q)
    PROVE  AccountsInv'
<1>1. CASE AddEntry(q, p)
  BY <1>1, Begins, Subsets DEF AddEntry, PanelAsks, Asks
<1>2. CASE RemoveEntry(q, p)
  BY <1>2, Begins, Subsets DEF RemoveEntry, PanelAsks, Asks
<1>3. CASE SignIn(q, p)
  BY <1>3, Begins, Subsets DEF SignIn, Asks
<1>4. CASE Delete(q, p)
  BY <1>4, Begins, Subsets DEF Delete, PanelAsks, Asks
<1>5. CASE Reload(q)
  BY <1>5, Begins, Subsets DEF Reload, PanelAsks, Asks
<1>. QED
  BY <1>1, <1>2, <1>3, <1>4, <1>5

LEMMA RenamedInv == ASSUME AccountsInv, NEW q \in Requests, Renamed(q) PROVE AccountsInv'
<1> DEFINE list == request[q].list
           s == Seen(request, list)
           r == [s[q] EXCEPT !.pc = "written"]
<1>1. /\ request[q] \in RequestSet /\ list \in Lists /\ request[q].pc = "writing"
      /\ online /\ allowlist' = list
  BY DEF Renamed, Waits, AccountsInv, RequestSet
<1>2. /\ s \in [Requests -> RequestSet]
      /\ \A v \in Requests : RequestInv(s[v], list) /\ s[v].pc = request[v].pc
                             /\ s[v].who = request[v].who /\ s[v].list = request[v].list
  BY <1>1, SeesFile DEF AccountsInv
<1>3. request' = [s EXCEPT ![q] = r]
  BY <1>1 DEF Renamed
<1> HIDE DEF s, list
<1>4. /\ r \in RequestSet /\ r.pc = "written" /\ r.who = s[q].who /\ r.list = s[q].list
  BY <1>2 DEF RequestSet
<1> HIDE DEF r
<1>5. RequestInv(r, list)
  BY <1>1, <1>2, <1>4 DEF RequestInv
<1>6. request' \in [Requests -> RequestSet] /\ \A v \in Requests : RequestInv(request'[v], list)
  BY <1>2, <1>3, <1>4, <1>5
<1>. QED
  BY <1>1, <1>6 DEF Renamed, RestStays, OthersStay, AccountsInv

\* Requests that are answered.
LEMMA Frees ==
    ASSUME AccountsInv, NEW q \in Requests, request' = [request EXCEPT ![q] = Free],
           online, UNCHANGED <<allowlist, online, cli>>, cached' \subseteq People,
           user' \in [People -> UserSet], \A p \in People : UserInv(user'[p])
    PROVE  AccountsInv'
BY FreeRequest, SignInMoves

LEMMA LoadedListed ==
    ASSUME AccountsInv, NEW q \in Requests PROVE Loaded(q) \subseteq People
<1>1. request[q].list \in Lists
  BY DEF AccountsInv, RequestSet
<1>. QED
  BY <1>1 DEF Loaded, AccountsInv, Lists

LEMMA SavedInv == ASSUME AccountsInv, NEW q \in Requests, Saved(q) PROVE AccountsInv'
<1>1. /\ request[q].pc = "written" /\ online
      /\ request' = [request EXCEPT ![q] = Free] /\ cached' = request[q].list
      /\ UNCHANGED <<allowlist, online, cli, user>>
  BY DEF Saved, Waits, RestStays, OthersStay
<1>2. request[q].list \subseteq People
  BY <1>1 DEF AccountsInv, RequestInv
<1>. QED
  BY <1>1, <1>2, Frees DEF AccountsInv

LEMMA FileReadInv == ASSUME AccountsInv, NEW q \in Requests, FileRead(q) PROVE AccountsInv'
<1> PICK pc \in {"reloaded", "asked"} :
        /\ request[q].pc = IF pc = "reloaded" THEN "reloading" ELSE "asking"
        /\ request' = [request EXCEPT ![q].pc = pc, ![q].list = allowlist] /\ online
  BY DEF FileRead, Waits
<1> DEFINE r == [request[q] EXCEPT !.pc = pc, !.list = allowlist]
<1>1. /\ r \in RequestSet /\ r.pc = pc /\ r.list = allowlist
      /\ r.who = request[q].who /\ r.listed = request[q].listed
  BY DEF AccountsInv, RequestSet
<1>2. request' = [request EXCEPT ![q] = r]
  BY DEF AccountsInv
<1> HIDE DEF r
<1>3. RequestInv(r, allowlist)
  BY <1>1 DEF AccountsInv, RequestInv
<1>. QED
  BY <1>1, <1>2, <1>3, SignInMoves DEF FileRead, RestStays, OthersStay, AccountsInv

LEMMA ReloadEndsInv == ASSUME AccountsInv, NEW q \in Requests, ReloadEnds(q) PROVE AccountsInv'
BY LoadedListed, Frees DEF ReloadEnds, Waits, RestStays, OthersStay, AccountsInv

LEMMA AnsweredInv == ASSUME AccountsInv, NEW q \in Requests, Answered(q) PROVE AccountsInv'
BY Frees DEF Answered, Waits, RestStays, OthersStay, AccountsInv

LEMMA CheckedInv == ASSUME AccountsInv, NEW q \in Requests, Checked(q) PROVE AccountsInv'
<1> DEFINE p == request[q].who
           l == Loaded(q)
<1>1. /\ request[q] \in RequestSet /\ request[q].pc = "asked" /\ online
      /\ cached' = l /\ l \subseteq People /\ RequestInv(request[q], allowlist)
      /\ UNCHANGED <<allowlist, online, cli>>
  BY LoadedListed DEF AccountsInv, Checked, Waits, RestStays, OthersStay
<1>2. p \in People /\ user[p] \in UserSet /\ UserInv(user[p])
  BY <1>1 DEF RequestInv, AccountsInv
<1>3. CASE request' = [request EXCEPT ![q] = Free] /\ UNCHANGED user
  BY <1>1, <1>3, Frees DEF AccountsInv
<1>4. CASE /\ p \in l /\ request' = [request EXCEPT ![q].pc = "in"]
           /\ user' = [user EXCEPT ![p].vouched = @ \/ Exists(p)]
  <2> DEFINE r == [request[q] EXCEPT !.pc = "in"]
             u == [user[p] EXCEPT !.vouched = @ \/ Exists(p)]
  <2>1. /\ r \in RequestSet /\ r.pc = "in" /\ r.who = p
        /\ r.list = request[q].list /\ r.listed = request[q].listed
        /\ request' = [request EXCEPT ![q] = r]
    BY <1>1, <1>4 DEF RequestSet, AccountsInv
  <2>2. user' = [user EXCEPT ![p] = u] /\ u \in UserSet /\ UserInv(u)
    BY <1>2, <1>4 DEF UserSet, UserInv, Exists, AccountsInv
  <2> HIDE DEF r, u
  <2>3. RequestInv(r, allowlist)
    BY <1>1, <1>2, <1>4, <2>1 DEF RequestInv, Loaded
  <2>4. user' \in [People -> UserSet] /\ \A v \in People : UserInv(user'[v])
    BY <1>2, <2>2 DEF AccountsInv
  <2>. QED
    BY <1>1, <2>1, <2>3, <2>4, SignInMoves
<1>5. CASE /\ request' = [request EXCEPT ![q].pc = "asking", ![q].list = {},
                                        ![q].row = TRUE, ![q].listed = p \in allowlist]
           /\ user' = [user EXCEPT ![p] = NewRow(p)]
  <2> DEFINE b == p \in allowlist
             r == [request[q] EXCEPT !.pc = "asking", !.list = {}, !.row = TRUE,
                                     !.listed = b]
  <2>0. b \in BOOLEAN /\ (b <=> p \in allowlist) /\ request' = [request EXCEPT ![q] = r]
    <3>1. b \in BOOLEAN /\ (b <=> p \in allowlist)
      OBVIOUS
    <3>2. request' = [request EXCEPT ![q] = r]
      BY <1>1, <1>5, Zenon DEF AccountsInv
    <3>. QED
      BY <3>1, <3>2
  <2> HIDE DEF b
  <2>1. /\ r \in RequestSet /\ r.pc = "asking" /\ r.who = p /\ r.listed = b
    BY <1>1, <1>2, <2>0, Subsets DEF RequestSet
  <2>2. NewRow(p) \in UserSet /\ UserInv(NewRow(p))
    BY DEF NewRow, UserSet, UserInv
  <2> HIDE DEF r
  <2>3. RequestInv(r, allowlist)
    BY <1>2, <2>0, <2>1 DEF RequestInv
  <2>4. user' \in [People -> UserSet] /\ \A v \in People : UserInv(user'[v])
    BY <1>2, <1>5, <2>2 DEF AccountsInv
  <2>. QED
    BY <1>1, <2>0, <2>1, <2>3, <2>4, SignInMoves
<1>. QED
  BY <1>3, <1>4, <1>5, <1>1 DEF Checked

\* One person's row is written, and nothing else that matters.
LEMMA RowWritten ==
    ASSUME AccountsInv, NEW p \in People, NEW u \in UserSet, UserInv(u),
           user' = [user EXCEPT ![p] = u],
           UNCHANGED <<allowlist, cached, online, request, cli>>
    PROVE  AccountsInv'
<1>1. user' \in [People -> UserSet] /\ \A v \in People : UserInv(user'[v])
  BY DEF AccountsInv
<1>. QED
  BY <1>1 DEF AccountsInv

LEMMA RolesInv ==
    ASSUME AccountsInv, NEW p \in People,
           \/ Promote(p) \/ Demote(p) \/ \E r \in {"student", "admin"} : CliSetsRole(p, r)
           \/ \E v \in BOOLEAN, c \in {"student", "admin"} : Auth0SignIn(p, v, c)
    PROVE  AccountsInv'
<1>1. user[p] \in UserSet /\ UserInv(user[p]) /\ user \in [People -> UserSet]
  BY DEF AccountsInv
<1>2. CASE Promote(p)
  <2> DEFINE u == [user[p] EXCEPT !.role = "admin", !.vouched = TRUE]
  <2>1. user' = [user EXCEPT ![p] = u] /\ u \in UserSet /\ UserInv(u)
    BY <1>1, <1>2 DEF Promote, UserSet, UserInv
  <2>. QED
    BY <1>2, <2>1, RowWritten DEF Promote, OthersStay
<1>3. CASE Demote(p)
  <2> DEFINE u == [user[p] EXCEPT !.role = "student"]
  <2>1. user' = [user EXCEPT ![p] = u] /\ u \in UserSet /\ UserInv(u)
    BY <1>1, <1>3 DEF Demote, UserSet, UserInv, Exists
  <2>. QED
    BY <1>3, <2>1, RowWritten DEF Demote, OthersStay
<1>4. ASSUME NEW r \in {"student", "admin"}, CliSetsRole(p, r) PROVE AccountsInv'
  <2> DEFINE u == [user[p] EXCEPT !.role = r, !.vouched = @ \/ r = "admin"]
  <2>1. user' = [user EXCEPT ![p] = u] /\ u \in UserSet /\ UserInv(u)
    BY <1>1, <1>4 DEF CliSetsRole, UserSet, UserInv, Exists
  <2>. QED
    BY <1>4, <2>1, RowWritten DEF CliSetsRole
<1>5. ASSUME NEW v \in BOOLEAN, NEW c \in {"student", "admin"}, Auth0SignIn(p, v, c)
      PROVE  AccountsInv'
  <2> DEFINE role == ResolveAuth0Role(p, v, c)
             u == [role |-> role, auth0 |-> TRUE,
                   vouched |-> user[p].vouched \/ v \/ c = "admin"]
  <2>1. role \in {"student", "admin"} /\ (role = "admin" => v \/ c = "admin")
    BY DEF ResolveAuth0Role
  <2>2. user' = [user EXCEPT ![p] = u]
    BY <1>1, <1>5 DEF Auth0SignIn
  <2> HIDE DEF role
  <2>3. u \in UserSet /\ UserInv(u)
    BY <1>1, <2>1 DEF UserSet, UserInv
  <2> HIDE DEF u
  <2>. QED
    BY <1>5, <2>2, <2>3, RowWritten DEF Auth0SignIn, OthersStay
<1>. QED
  BY <1>2, <1>3, <1>4, <1>5

LEMMA DeletedInv == ASSUME AccountsInv, NEW q \in Requests, Deleted(q) PROVE AccountsInv'
<1>1. NoRow \in UserSet /\ UserInv(NoRow)
  BY DEF NoRow, UserSet, UserInv
<1>2. user' = [user EXCEPT ![request[q].who] = NoRow]
  BY DEF Deleted
<1>3. user' \in [People -> UserSet] /\ \A v \in People : UserInv(user'[v])
  BY <1>1, <1>2 DEF AccountsInv
<1>. QED
  BY <1>3, Frees DEF Deleted, Waits, RestStays, OthersStay, AccountsInv

LEMMA OutsideInv ==
    ASSUME AccountsInv,
           \/ CliRenames \/ (\E list \in Lists : FileReplaced(list))
           \/ \E p \in People, add \in BOOLEAN : CliEdits(p, add)
    PROVE  AccountsInv'
<1>1. ASSUME NEW list \in Lists, allowlist' = list, request' = Seen(request, allowlist'),
             UNCHANGED <<cached, online, user>>, cli' \in Lists
      PROVE  AccountsInv'
  <2>1. /\ request' \in [Requests -> RequestSet]
        /\ \A q \in Requests : RequestInv(request'[q], list) /\ request'[q].pc = request[q].pc
    BY <1>1, SeesFile DEF AccountsInv
  <2>. QED
    BY <1>1, <2>1 DEF AccountsInv
<1>2. ASSUME NEW p \in People, NEW add \in BOOLEAN, CliEdits(p, add) PROVE AccountsInv'
  <2>1. cli' \in Lists
    BY <1>2 DEF CliEdits, Lists, AccountsInv
  <2>. QED
    BY <1>2, <2>1 DEF CliEdits, AccountsInv
<1>3. Malformed \in Lists /\ cli \in Lists
  BY DEF Lists, AccountsInv
<1>. QED
  BY <1>1, <1>2, <1>3 DEF CliRenames, FileReplaced

LEMMA CrashInv == ASSUME AccountsInv, Crash \/ Boot PROVE AccountsInv'
<1>1. CASE Crash
  <2>1. request' \in [Requests -> RequestSet] /\ \A q \in Requests : request'[q] = Free
    BY <1>1, FreeRequest DEF Crash
  <2>. QED
    BY <1>1, <2>1, FreeRequest DEF Crash, AccountsInv
<1>2. CASE Boot
  <2>1. cached' \subseteq People /\ allowlist' \in Lists
    BY <1>2, AccountsAssumption DEF Boot, AccountsInv, Lists
  <2>2. ASSUME NEW p \in People PROVE user'[p] \in UserSet /\ UserInv(user'[p])
    <3>1. user[p] \in UserSet /\ UserInv(user[p])
      BY DEF AccountsInv
    <3>2. CASE Seeded(p)
      <4> DEFINE u == [user[p] EXCEPT !.role = "admin"]
      <4>1. u \in UserSet /\ UserInv(u)
        BY <3>1, <3>2 DEF UserSet, UserInv, Seeded, Exists
      <4>2. user'[p] = u
        BY <1>2, <3>2 DEF Boot
      <4>. QED
        BY <4>1, <4>2
    <3>3. CASE ~ Seeded(p)
      BY <1>2, <3>1, <3>3 DEF Boot
    <3>. QED
      BY <3>2, <3>3
  <2>3. user' \in [People -> UserSet]
    BY <1>2, <2>2 DEF Boot
  <2>4. \A q \in Requests : request[q].pc = "free"
    BY <1>2 DEF Boot, AccountsInv
  <2>. QED
    BY <1>2, <2>1, <2>2, <2>3, <2>4 DEF Boot, AccountsInv, RequestInv
<1>. QED
  BY <1>1, <1>2

LEMMA AccountsStep == AccountsInv /\ [AccountsNext]_accountVars => AccountsInv'
<1> SUFFICES ASSUME AccountsInv, [AccountsNext]_accountVars PROVE AccountsInv'
  OBVIOUS
<1>1. ASSUME NEW q \in Requests, NEW p \in People,
             AddEntry(q, p) \/ RemoveEntry(q, p) \/ SignIn(q, p) \/ Delete(q, p)
      PROVE  AccountsInv'
  BY <1>1, PanelBegins
<1>2. ASSUME NEW q \in Requests,
             \/ Renamed(q) \/ Saved(q) \/ Reload(q) \/ FileRead(q) \/ ReloadEnds(q)
             \/ Checked(q) \/ Answered(q) \/ Deleted(q)
      PROVE  AccountsInv'
  <2>1. CASE Reload(q)
    BY <2>1, PanelBegins DEF Reload
  <2>. QED
    BY <1>2, <2>1, RenamedInv, SavedInv, FileReadInv, ReloadEndsInv, CheckedInv,
       AnsweredInv, DeletedInv
<1>3. ASSUME NEW p \in People,
             \/ Promote(p) \/ Demote(p) \/ \E r \in {"student", "admin"} : CliSetsRole(p, r)
             \/ \E v \in BOOLEAN, c \in {"student", "admin"} : Auth0SignIn(p, v, c)
      PROVE  AccountsInv'
  BY <1>3, RolesInv
<1>4. CASE \/ CliRenames \/ (\E list \in Lists : FileReplaced(list))
           \/ \E p \in People, add \in BOOLEAN : CliEdits(p, add)
  BY <1>4, OutsideInv
<1>5. CASE Crash \/ Boot
  BY <1>5, CrashInv
<1>6. CASE UNCHANGED accountVars
  BY <1>6 DEF accountVars, AccountsInv
<1>. QED
  BY <1>1, <1>2, <1>3, <1>4, <1>5, <1>6 DEF AccountsNext

LEMMA AccountsInvariance == AccountsSpec => []AccountsInv
BY AccountsStart, AccountsStep, PTL DEF AccountsSpec

\* Whoever signs in was on the roster since the check began, and every admin
\* is vouched for, for any number of people, requests, edits and restarts.
THEOREM RosterHolds == AccountsSpec => []RosterIsKept
<1>1. AccountsInv => RosterIsKept
  BY DEF AccountsInv, RequestInv, UserInv, RosterIsKept, AdmittedWasListed,
         AdminIsVouchedFor, Admins
<1>. QED
  BY <1>1, AccountsInvariance, PTL

LEMMA AdminGoes ==
    ASSUME AccountsInv, [AccountsNext]_accountVars, Admins # {}, Admins' = {}
    PROVE  unguarded'
<1>1. user \in [People -> UserSet] /\ \A p \in People : user'[p].role # "admin"
  BY DEF AccountsInv, Admins
<1>2. ASSUME NEW q \in Requests, Deleted(q) PROVE unguarded'
  <2>1. request[q].who \in People /\ user' = [user EXCEPT ![request[q].who] = NoRow]
    BY <1>2 DEF Deleted, Waits, AccountsInv, RequestInv
  <2>2. \A p \in People : p # request[q].who => user'[p] = user[p]
    BY <1>1, <2>1
  <2>3. Admins = {request[q].who}
    BY <1>1, <2>2 DEF Admins
  <2>. QED
    BY <1>2, <2>3 DEF Deleted
<1>3. ASSUME NEW q \in Requests, Checked(q) PROVE FALSE
  <2> DEFINE p == request[q].who
  <2>1. CASE UNCHANGED user
    BY <1>1, <2>1 DEF Admins
  <2>2. CASE user' = [user EXCEPT ![p].vouched = @ \/ Exists(p)]
    <3>1. \A v \in People : user'[v].role = user[v].role
      BY <1>1, <2>2 DEF UserSet
    <3>. QED
      BY <1>1, <3>1 DEF Admins
  <2>3. CASE user' = [user EXCEPT ![p] = NewRow(p)] /\ ~ Exists(p)
    <3>1. \A v \in Admins : user'[v] = user[v]
      BY <1>1, <2>3 DEF Admins, Exists
    <3>. QED
      BY <1>1, <3>1 DEF Admins
  <2>. QED
    BY <1>3, <2>1, <2>2, <2>3 DEF Checked
<1>4. ASSUME NEW p \in People, Promote(p) PROVE FALSE
  <2>1. user'[p].role = "admin"
    BY <1>1, <1>4 DEF Promote, UserSet
  <2>. QED
    BY <1>1, <2>1
<1>5. ASSUME NEW p \in People, Demote(p) PROVE FALSE
  <2>1. \A v \in People : v # p => user'[v] = user[v]
    BY <1>1, <1>5 DEF Demote
  <2>2. Admins = {p}
    BY <1>1, <2>1 DEF Admins
  <2>3. Cardinality({p}) = 1
    BY FS_Singleton
  <2>. QED
    BY <1>5, <2>2, <2>3 DEF Demote
<1>6. ASSUME NEW p \in People, NEW r \in {"student", "admin"}, CliSetsRole(p, r)
      PROVE  unguarded'
  <2>1. \A v \in People : v # p => user'[v] = user[v]
    BY <1>1, <1>6 DEF CliSetsRole
  <2>2. p \in Admins
    BY <1>1, <2>1 DEF Admins
  <2>3. user'[p].role = r
    BY <1>1, <1>6 DEF CliSetsRole, UserSet
  <2>. QED
    BY <1>1, <1>6, <2>2, <2>3 DEF CliSetsRole
<1>7. ASSUME NEW p \in People, NEW v \in BOOLEAN, NEW c \in {"student", "admin"},
             Auth0SignIn(p, v, c)
      PROVE  unguarded'
  <2> DEFINE role == ResolveAuth0Role(p, v, c)
  <2>1. \A u \in People : u # p => user'[u] = user[u]
    BY <1>1, <1>7 DEF Auth0SignIn
  <2>2. p \in Admins
    BY <1>1, <2>1 DEF Admins
  <2>3. user'[p].role = role
    BY <1>1, <1>7 DEF Auth0SignIn
  <2>4. role # "admin"
    BY <1>1, <2>3
  <2>. QED
    BY <1>7, <2>2, <2>4 DEF Auth0SignIn
<1>8. CASE Boot
  <2>1. ASSUME NEW p \in Admins PROVE user'[p].role = "admin"
    BY <1>1, <1>8 DEF Boot, Admins, UserSet
  <2>. QED
    BY <1>1, <2>1 DEF Admins
<1>9. ASSUME UNCHANGED user PROVE FALSE
  BY <1>1, <1>9 DEF Admins
<1>10. ASSUME NEW q \in Requests, NEW p \in People,
              AddEntry(q, p) \/ RemoveEntry(q, p) \/ SignIn(q, p) \/ Delete(q, p)
       PROVE  FALSE
  BY <1>9, <1>10 DEF AddEntry, RemoveEntry, SignIn, Delete
<1>11. ASSUME NEW q \in Requests,
              \/ Renamed(q) \/ Saved(q) \/ Reload(q) \/ FileRead(q) \/ ReloadEnds(q)
              \/ Answered(q)
       PROVE  FALSE
  BY <1>9, <1>11 DEF Renamed, Saved, Reload, FileRead, ReloadEnds, Answered
<1>12. ASSUME \/ CliRenames \/ (\E list \in Lists : FileReplaced(list)) \/ Crash
              \/ \E p \in People, add \in BOOLEAN : CliEdits(p, add)
       PROVE  FALSE
  BY <1>9, <1>12 DEF CliRenames, FileReplaced, Crash, CliEdits
<1>13. CASE UNCHANGED accountVars
  BY <1>9, <1>13 DEF accountVars
<1>. QED
  BY <1>2, <1>3, <1>4, <1>5, <1>6, <1>7, <1>8, <1>10, <1>11, <1>12, <1>13
     DEF AccountsNext

\* Only a deletion whose check was overtaken, Auth0 or a script takes the last
\* admin away.
THEOREM PanelLeavesAdmin == AccountsSpec => PanelKeepsAnAdmin
<1>1. AccountsInv /\ [AccountsNext]_accountVars
         => [Admins # {} /\ Admins' = {} => unguarded']_accountVars
  BY AdminGoes
<1>. QED
  BY <1>1, AccountsInvariance, PTL DEF AccountsSpec, PanelKeepsAnAdmin

-----------------------------------------------------------------------------
(***************************************************************************)
(* Host ports.                                                             *)
(* For any workspaces and any range of ports.                              *)
(***************************************************************************)

EnsureSteps     == {"rest", "inspected", "wait", "probe", "prepare", "run", "bind-failed", "ran"}
EnsureSet == [step : EnsureSteps, saw : Ports \cup {NoPort}, others : SUBSET Ports,
              tried : SUBSET Ports, rejected : SUBSET Ports, port : Ports \cup {NoPort}]
RowSet    == [port : Ports \cup {NoPort},
              st : {"missing", "starting", "running", "stopped", "error"}]
BoxSet    == [st : {"none", "created", "stopped", "running"}, port : Ports \cup {NoPort}]

\* An ensure e, the row l and the container x of one workspace: the port that
\* is reserved or was seen, the port of the row and the published one agree.
Agree(e, l, x) ==
    /\ e.step \in {"prepare", "run", "bind-failed", "ran"} =>
          e.port = l.port /\ l.port # NoPort
    /\ e.step = "inspected" /\ e.saw # NoPort => e.saw = l.port
    /\ x.st = "running" => /\ l.port = x.port /\ x.port # NoPort
                           /\ e.step \in {"rest", "inspected", "ran"}

PortInv ==
    /\ PortTypeOK /\ ~ clashed
    /\ \A b \in Boxes : b \in reserving <=> AtStep(b, "probe")
    /\ \A b, v \in reserving : v = b
    /\ \A b, v \in Boxes : v # b /\ leased[v].port # NoPort => leased[v].port # leased[b].port
    /\ \A b \in reserving : \A v \in Boxes \ {b} :
          leased[v].port \in ensuring[b].others \cup {NoPort}
    /\ \A b \in Boxes : Agree(ensuring[b], leased[b], box[b])

LEMMA PortTypes ==
    PortTypeOK <=> /\ leased \in [Boxes -> RowSet] /\ box \in [Boxes -> BoxSet]
                   /\ ensuring \in [Boxes -> EnsureSet]
                   /\ reserving \subseteq Boxes /\ foreign \subseteq Ports
                   /\ clashed \in BOOLEAN /\ portFaults \in 0 .. MaxPortFaults
BY DEF PortTypeOK, RowSet, BoxSet, EnsureSet, EnsureSteps

LEMMA InitPorts == PortInit => PortInv
<1> SUFFICES ASSUME PortInit PROVE PortInv
  OBVIOUS
<1>1. NoEnsure \in EnsureSet /\ NoEnsure.step = "rest"
  BY DEF NoEnsure, EnsureSet, EnsureSteps
<1>2. PortTypeOK
  <2>1. leased \in [Boxes -> RowSet] /\ box \in [Boxes -> BoxSet]
    BY DEF PortInit, RowSet, BoxSet
  <2>2. 0 \in 0 .. MaxPortFaults
    BY PortsAssumption
  <2>. QED
    BY <1>1, <2>1, <2>2, PortTypes DEF PortInit
<1>. QED
  BY <1>1, <1>2 DEF PortInit, PortInv, Agree, AtStep

\* A step of one workspace b.  It takes a port only where it ends a probe, and
\* then one that no other row has.
Moves(b, e, l, x) ==
    /\ e \in EnsureSet /\ l \in RowSet /\ x \in BoxSet
    /\ ensuring' = [ensuring EXCEPT ![b] = e]
    /\ leased' = [leased EXCEPT ![b] = l] /\ box' = [box EXCEPT ![b] = x]
    /\ foreign' \subseteq Ports /\ portFaults' \in 0 .. MaxPortFaults /\ clashed' = FALSE
    /\ reserving' = IF e.step = "probe" THEN reserving \cup {b} ELSE reserving \ {b}
    /\ e.step = "probe" =>
          /\ reserving \subseteq {b}
          /\ \A v \in Boxes \ {b} : leased[v].port \in e.others \cup {NoPort}
    /\ \/ l.port \in {leased[b].port, NoPort}
       \/ /\ reserving = {b} /\ e.step # "probe"
          /\ \A v \in Boxes \ {b} : leased[v].port # l.port
    /\ Agree(e, l, x)

LEMMA WorkspaceStep ==
    ASSUME PortInv, NEW b \in Boxes, NEW e, NEW l, NEW x, Moves(b, e, l, x)
    PROVE  PortInv'
<1>1. /\ leased \in [Boxes -> RowSet] /\ box \in [Boxes -> BoxSet]
      /\ ensuring \in [Boxes -> EnsureSet] /\ reserving \subseteq Boxes
  BY PortTypes DEF PortInv
<1>2. PortTypeOK'
  <2>1. /\ leased' \in [Boxes -> RowSet] /\ box' \in [Boxes -> BoxSet]
        /\ ensuring' \in [Boxes -> EnsureSet] /\ reserving' \subseteq Boxes
    BY <1>1 DEF Moves
  <2>. QED
    BY <2>1 DEF PortTypeOK, RowSet, BoxSet, EnsureSet, EnsureSteps, Moves
<1>3. /\ ensuring'[b] = e /\ leased'[b] = l /\ box'[b] = x
      /\ \A v \in Boxes \ {b} : /\ ensuring'[v] = ensuring[v] /\ leased'[v] = leased[v]
                                /\ box'[v] = box[v]
  BY <1>1 DEF Moves
<1>4. \A v \in Boxes : v \in reserving' <=> AtStep(v, "probe")'
  BY <1>1, <1>3 DEF PortInv, AtStep, Moves
<1>5. \A u, v \in reserving' : v = u
  BY DEF PortInv, Moves
<1>6. \A u, v \in Boxes : v # u /\ leased'[v].port # NoPort
                            => leased'[v].port # leased'[u].port
  BY <1>3 DEF PortInv, Moves
<1>7. \A u \in reserving' : \A v \in Boxes \ {u} :
         leased'[v].port \in ensuring'[u].others \cup {NoPort}
  BY <1>1, <1>3 DEF PortInv, Moves
<1>8. \A v \in Boxes : Agree(ensuring'[v], leased'[v], box'[v])
  BY <1>3 DEF PortInv, Moves
<1>. QED
  BY <1>2, <1>4, <1>5, <1>6, <1>7, <1>8 DEF PortInv, Moves

\* An upsert of the port the row has already meets no index.
LEMMA UpsertsOwn ==
    ASSUME PortInv, NEW b \in Boxes, NEW st, Upserts(b, leased[b].port, st)
    PROVE  /\ clashed' = FALSE
           /\ leased' = [leased EXCEPT ![b] = [port |-> leased[b].port, st |-> st]]
<1>1. ~ Clashes(b, leased[b].port)
  BY DEF PortInv, Clashes
<1>. QED
  BY <1>1 DEF Upserts, PortInv

\* What a step of one workspace leaves alone.
LEMMA Same ==
    ASSUME PortInv, NEW b \in Boxes
    PROVE  /\ leased = [leased EXCEPT ![b] = leased[b]] /\ leased[b] \in RowSet
           /\ box = [box EXCEPT ![b] = box[b]] /\ box[b] \in BoxSet
           /\ ensuring = [ensuring EXCEPT ![b] = ensuring[b]] /\ ensuring[b] \in EnsureSet
           /\ Agree(ensuring[b], leased[b], box[b])
           /\ (b \in reserving <=> ensuring[b].step = "probe")
           /\ reserving \subseteq Boxes /\ clashed = FALSE /\ foreign \subseteq Ports
           /\ portFaults \in 0 .. MaxPortFaults
BY PortTypes DEF PortInv, AtStep

LEMMA PortFaultBounded ==
    ASSUME PortInv, PortFault \/ UNCHANGED portFaults PROVE portFaults' \in 0 .. MaxPortFaults
<1>1. portFaults \in 0 .. MaxPortFaults /\ MaxPortFaults \in Nat
  BY PortsAssumption DEF PortInv, PortTypeOK
<1>2. CASE PortFault
  BY <1>1, <1>2 DEF PortFault
<1>. QED
  BY <1>1, <1>2

LEMMA InspectsInv == ASSUME PortInv, NEW b \in Boxes, Inspects(b) PROVE PortInv'
<1> DEFINE e == [NoEnsure EXCEPT !.step = "inspected", !.saw = Published(b)]
<1>1. e \in EnsureSet /\ e.step = "inspected" /\ e.saw = Published(b)
  BY Same DEF NoEnsure, EnsureSet, EnsureSteps, Published, BoxSet
<1>2. /\ ensuring' = [ensuring EXCEPT ![b] = e] /\ ensuring[b].step = "rest"
      /\ UNCHANGED <<leased, reserving, clashed, box, foreign, portFaults>>
  BY DEF Inspects, Continues, AtStep, HostStays
<1> HIDE DEF e
<1>3. Agree(e, leased[b], box[b])
  BY <1>1, <1>2, Same DEF Agree, Published
<1>4. Moves(b, e, leased[b], box[b])
  BY <1>1, <1>2, <1>3, Same DEF Moves
<1>. QED
  BY <1>4, WorkspaceStep

LEMMA AdoptsInv == ASSUME PortInv, NEW b \in Boxes, Adopts(b) PROVE PortInv'
<1> DEFINE l == [port |-> leased[b].port, st |-> "running"]
<1>1. /\ ensuring[b].step = "inspected" /\ ensuring[b].saw = leased[b].port
      /\ ensuring' = [ensuring EXCEPT ![b] = NoEnsure]
      /\ UNCHANGED <<reserving, box, foreign, portFaults>>
  BY Same DEF Adopts, Continues, AtStep, HostStays, Agree
<1>2. clashed' = FALSE /\ leased' = [leased EXCEPT ![b] = l]
  BY <1>1, UpsertsOwn DEF Adopts
<1>3. l \in RowSet /\ l.port = leased[b].port
  BY Same DEF RowSet
<1>4. NoEnsure \in EnsureSet /\ NoEnsure.step = "rest"
  BY DEF NoEnsure, EnsureSet, EnsureSteps
<1> HIDE DEF l
<1>5. Agree(NoEnsure, l, box[b])
  BY <1>1, <1>3, <1>4, Same DEF Agree
<1>6. Moves(b, NoEnsure, l, box[b])
  BY <1>1, <1>2, <1>3, <1>4, <1>5, Same DEF Moves
<1>. QED
  BY <1>6, WorkspaceStep

LEMMA RecyclesInv == ASSUME PortInv, NEW b \in Boxes, Recycles(b) PROVE PortInv'
<1> DEFINE e == [NoEnsure EXCEPT !.step = "wait"]
           x == [st |-> "none", port |-> NoPort]
<1>1. e \in EnsureSet /\ e.step = "wait" /\ x \in BoxSet /\ x.st = "none"
  BY DEF NoEnsure, EnsureSet, EnsureSteps, BoxSet
<1>2. /\ ensuring' = [ensuring EXCEPT ![b] = e] /\ ensuring[b].step = "inspected"
      /\ box' = [box EXCEPT ![b] = x]
      /\ UNCHANGED <<leased, reserving, clashed, foreign, portFaults>>
  BY DEF Recycles, Continues, AtStep
<1> HIDE DEF e, x
<1>3. Agree(e, leased[b], x)
  BY <1>1 DEF Agree
<1>4. Moves(b, e, leased[b], x)
  BY <1>1, <1>2, <1>3, Same DEF Moves
<1>. QED
  BY <1>4, WorkspaceStep

LEMMA ReservesInv == ASSUME PortInv, NEW b \in Boxes, Reserves(b) PROVE PortInv'
<1> DEFINE o == {leased[v].port : v \in Boxes \ {b}} \ {NoPort}
           e == [ensuring[b] EXCEPT !.step = "probe", !.tried = {}, !.others = o]
<1>1. \A v \in Boxes : leased[v].port \in Ports \cup {NoPort}
  BY PortTypes DEF PortInv, RowSet
<1>2. o \subseteq Ports /\ \A v \in Boxes \ {b} : leased[v].port \in o \cup {NoPort}
  BY <1>1
<1>3. /\ ensuring' = [ensuring EXCEPT ![b] = e] /\ ensuring[b].step = "wait"
      /\ reserving = {} /\ reserving' = reserving \cup {b}
      /\ UNCHANGED <<leased, clashed, box, foreign, portFaults>>
  BY DEF Reserves, MayReserve, Continues, AtStep, HostStays
<1> HIDE DEF o
<1>4. e \in EnsureSet /\ e.step = "probe" /\ e.others = o
  BY <1>2, Same DEF EnsureSet, EnsureSteps
<1> HIDE DEF e
<1>5. Agree(e, leased[b], box[b])
  BY <1>3, <1>4, Same DEF Agree
<1>6. Moves(b, e, leased[b], box[b])
  BY <1>2, <1>3, <1>4, <1>5, Same DEF Moves
<1>. QED
  BY <1>6, WorkspaceStep

LEMMA ProbesInv == ASSUME PortInv, NEW b \in Boxes, Probes(b) PROVE PortInv'
<1>1. /\ ensuring[b].step = "probe" /\ reserving = {b}
      /\ UNCHANGED <<box, foreign, portFaults>>
  BY Same DEF Probes, AtStep, PortInv
<1>2. box[b].st # "running"
  BY <1>1, Same DEF Agree
<1>3. PICK p \in Ports :
        /\ IsNextPort(b, p)
        /\ IF p \in Listening
           THEN /\ Continues(b, [ensuring[b] EXCEPT !.tried = @ \cup {p}])
                /\ UNCHANGED <<leased, reserving, clashed>>
           ELSE /\ Upserts(b, p, "starting") /\ reserving' = reserving \ {b}
                /\ Continues(b, IF Clashes(b, p) THEN NoEnsure
                                ELSE [ensuring[b] EXCEPT !.step = "prepare", !.port = p])
  BY DEF Probes
<1>4. p # NoPort /\ p \notin ensuring[b].others
  BY <1>3 DEF IsNextPort, OpenPorts, Ports, NoPort
<1>5. \A v \in Boxes \ {b} : leased[v].port # p
  BY <1>1, <1>4 DEF PortInv
<1>6. CASE p \in Listening
  <2> DEFINE e == [ensuring[b] EXCEPT !.tried = @ \cup {p}]
  <2>1. /\ ensuring' = [ensuring EXCEPT ![b] = e]
        /\ UNCHANGED <<leased, reserving, clashed>>
    BY <1>3, <1>6 DEF Continues
  <2>2. e \in EnsureSet /\ e.step = "probe" /\ e.others = ensuring[b].others
    BY <1>1, Same DEF EnsureSet, EnsureSteps
  <2> HIDE DEF e
  <2>3. Agree(e, leased[b], box[b])
    BY <1>2, <2>2 DEF Agree
  <2>4. \A v \in Boxes \ {b} : leased[v].port \in e.others \cup {NoPort}
    BY <1>1, <2>2 DEF PortInv
  <2>5. Moves(b, e, leased[b], box[b])
    BY <1>1, <2>1, <2>2, <2>3, <2>4, Same DEF Moves
  <2>. QED
    BY <2>5, WorkspaceStep
<1>7. CASE p \notin Listening
  <2> DEFINE e == [ensuring[b] EXCEPT !.step = "prepare", !.port = p]
             l == [port |-> p, st |-> "starting"]
  <2>1. ~ Clashes(b, p)
    BY <1>5 DEF Clashes
  <2>2. /\ ensuring' = [ensuring EXCEPT ![b] = e] /\ reserving' = reserving \ {b}
        /\ leased' = [leased EXCEPT ![b] = l] /\ UNCHANGED clashed
    BY <1>3, <1>7, <2>1 DEF Continues, Upserts
  <2>3. /\ e \in EnsureSet /\ e.step = "prepare" /\ e.port = p
        /\ l \in RowSet /\ l.port = p
    BY Same DEF EnsureSet, EnsureSteps, RowSet
  <2> HIDE DEF e, l
  <2>4. Agree(e, l, box[b])
    BY <1>2, <1>4, <2>3 DEF Agree
  <2>5. Moves(b, e, l, box[b])
    BY <1>1, <1>5, <2>2, <2>3, <2>4, Same DEF Moves
  <2>. QED
    BY <2>5, WorkspaceStep
<1>. QED
  BY <1>6, <1>7

\* An ensure that fails, and the reservation it may hold.
LEMMA FailsInv ==
    ASSUME PortInv, NEW b \in Boxes, Fails(b), reserving' = reserving \ {b},
           UNCHANGED <<clashed, box, foreign>>, portFaults' \in 0 .. MaxPortFaults
    PROVE  PortInv'
<1> DEFINE l == [leased[b] EXCEPT !.st = "error"]
<1>1. /\ ensuring' = [ensuring EXCEPT ![b] = NoEnsure]
      /\ leased' = [leased EXCEPT ![b] = l] /\ l \in RowSet /\ l.port = leased[b].port
  BY Same DEF Fails, Continues, RowSet
<1>2. NoEnsure \in EnsureSet /\ NoEnsure.step = "rest"
  BY DEF NoEnsure, EnsureSet, EnsureSteps
<1> HIDE DEF l
<1>3. Agree(NoEnsure, l, box[b])
  BY <1>1, <1>2, Same DEF Agree
<1>4. Moves(b, NoEnsure, l, box[b])
  BY <1>1, <1>2, <1>3, Same DEF Moves
<1>. QED
  BY <1>4, WorkspaceStep

LEMMA PreparesInv == ASSUME PortInv, NEW b \in Boxes, Prepares(b) PROVE PortInv'
<1> DEFINE e == [ensuring[b] EXCEPT !.step = "run"]
           l == [port |-> leased[b].port, st |-> "starting"]
<1>1. /\ ensuring[b].step = "prepare" /\ ensuring[b].port = leased[b].port
      /\ leased[b].port # NoPort /\ ensuring' = [ensuring EXCEPT ![b] = e]
      /\ UNCHANGED <<reserving, box, foreign, portFaults>>
  BY Same DEF Prepares, Continues, AtStep, HostStays, Agree
<1>2. clashed' = FALSE /\ leased' = [leased EXCEPT ![b] = l]
  BY <1>1, UpsertsOwn DEF Prepares
<1>3. /\ e \in EnsureSet /\ e.step = "run" /\ e.port = ensuring[b].port
      /\ l \in RowSet /\ l.port = leased[b].port
  BY Same DEF EnsureSet, EnsureSteps, RowSet
<1> HIDE DEF e, l
<1>4. Agree(e, l, box[b])
  BY <1>1, <1>3, Same DEF Agree
<1>5. Moves(b, e, l, box[b])
  BY <1>1, <1>2, <1>3, <1>4, Same DEF Moves
<1>. QED
  BY <1>5, WorkspaceStep

LEMMA DockerRunsInv == ASSUME PortInv, NEW b \in Boxes, DockerRuns(b) PROVE PortInv'
<1>1. /\ ensuring[b].step = "run" /\ ensuring[b].port = leased[b].port
      /\ leased[b].port # NoPort /\ box[b].st # "running"
      /\ UNCHANGED <<reserving, foreign, clashed>> /\ reserving = reserving \ {b}
      /\ portFaults' \in 0 .. MaxPortFaults
  <2>1. PortFault \/ UNCHANGED portFaults
    BY DEF DockerRuns
  <2>2. portFaults' \in 0 .. MaxPortFaults
    BY <2>1, PortFaultBounded
  <2>. QED
    BY <2>2, Same DEF DockerRuns, AtStep, Agree
<1>2. CASE Fails(b) /\ UNCHANGED box
  BY <1>1, <1>2, FailsInv
<1>3. CASE /\ Continues(b, [ensuring[b] EXCEPT !.step = "bind-failed"])
           /\ LeavesBehind(b) /\ UNCHANGED leased
  <2> DEFINE e == [ensuring[b] EXCEPT !.step = "bind-failed"]
  <2>1. /\ ensuring' = [ensuring EXCEPT ![b] = e] /\ UNCHANGED leased
        /\ e \in EnsureSet /\ e.step = "bind-failed" /\ e.port = ensuring[b].port
    BY <1>3, Same DEF Continues, EnsureSet, EnsureSteps
  <2>2. PICK x \in BoxSet : box' = [box EXCEPT ![b] = x] /\ x.st # "running"
    <3>1. [st |-> "created", port |-> NoPort] \in BoxSet
      BY DEF BoxSet
    <3>. QED
      BY <1>1, <1>3, <3>1, Same DEF LeavesBehind
  <2> HIDE DEF e
  <2>3. Agree(e, leased[b], x)
    BY <1>1, <2>1, <2>2 DEF Agree
  <2>4. Moves(b, e, leased[b], x)
    BY <1>1, <2>1, <2>2, <2>3, Same DEF Moves
  <2>. QED
    BY <2>4, WorkspaceStep
<1>4. CASE /\ box' = [box EXCEPT ![b] = [st |-> "running", port |-> ensuring[b].port]]
           /\ Continues(b, [ensuring[b] EXCEPT !.step = "ran"]) /\ UNCHANGED leased
  <2> DEFINE e == [ensuring[b] EXCEPT !.step = "ran"]
             x == [st |-> "running", port |-> ensuring[b].port]
  <2>1. /\ ensuring' = [ensuring EXCEPT ![b] = e] /\ UNCHANGED leased
        /\ box' = [box EXCEPT ![b] = x] /\ x \in BoxSet
        /\ x.port = ensuring[b].port
        /\ e \in EnsureSet /\ e.step = "ran" /\ e.port = ensuring[b].port
    BY <1>4, Same DEF Continues, EnsureSet, BoxSet, EnsureSteps
  <2> HIDE DEF e, x
  <2>2. Agree(e, leased[b], x)
    BY <1>1, <2>1 DEF Agree
  <2>3. Moves(b, e, leased[b], x)
    BY <1>1, <2>1, <2>2, Same DEF Moves
  <2>. QED
    BY <2>3, WorkspaceStep
<1>. QED
  BY <1>2, <1>3, <1>4 DEF DockerRuns

LEMMA RejectsPortInv == ASSUME PortInv, NEW b \in Boxes, RejectsPort(b) PROVE PortInv'
<1> DEFINE e == [NoEnsure EXCEPT !.step = "wait",
                    !.rejected = ensuring[b].rejected \cup {ensuring[b].port}]
           l == [port |-> NoPort, st |-> "error"]
<1>1. /\ ensuring[b].step = "bind-failed" /\ ensuring[b].port = leased[b].port
      /\ leased[b].port # NoPort /\ box[b].st # "running"
      /\ ensuring' = [ensuring EXCEPT ![b] = e]
      /\ UNCHANGED <<reserving, clashed, box, foreign, portFaults>>
  BY Same DEF RejectsPort, Continues, AtStep, HostStays, Agree
<1>2. leased' = [leased EXCEPT ![b] = l]
  BY <1>1 DEF RejectsPort, ClearsPort
<1>3. /\ e \in EnsureSet /\ e.step = "wait" /\ l \in RowSet /\ l.port = NoPort
  BY <1>1, Same DEF EnsureSet, NoEnsure, EnsureSteps, RowSet
<1> HIDE DEF e, l
<1>4. Agree(e, l, box[b])
  BY <1>1, <1>3 DEF Agree
<1>5. Moves(b, e, l, box[b])
  BY <1>1, <1>2, <1>3, <1>4, Same DEF Moves
<1>. QED
  BY <1>5, WorkspaceStep

LEMMA SettledInv == ASSUME PortInv, NEW b \in Boxes, Settled(b) PROVE PortInv'
<1> DEFINE st == IF box[b].st = "running" THEN "running"
                 ELSE IF box[b].st = "none" THEN "starting" ELSE "stopped"
           l == [port |-> leased[b].port, st |-> st]
<1>1. /\ ensuring[b].step = "ran" /\ ensuring' = [ensuring EXCEPT ![b] = NoEnsure]
      /\ UNCHANGED <<reserving, box, foreign, portFaults>>
  BY DEF Settled, Continues, AtStep, HostStays
<1>2. (IF Published(b) = NoPort THEN ensuring[b].port ELSE Published(b)) = leased[b].port
  BY <1>1, Same DEF Agree, Published
<1>3. clashed' = FALSE /\ leased' = [leased EXCEPT ![b] = l]
  BY <1>2, UpsertsOwn DEF Settled
<1>4. l \in RowSet /\ l.port = leased[b].port
  BY Same DEF RowSet
<1>5. NoEnsure \in EnsureSet /\ NoEnsure.step = "rest"
  BY DEF NoEnsure, EnsureSet, EnsureSteps
<1> HIDE DEF l
<1>6. Agree(NoEnsure, l, box[b])
  BY <1>1, <1>4, <1>5, Same DEF Agree
<1>7. Moves(b, NoEnsure, l, box[b])
  BY <1>1, <1>3, <1>4, <1>5, <1>6, Same DEF Moves
<1>. QED
  BY <1>7, WorkspaceStep

\* A row and an ensure agree on when the container stops.
LEMMA AgreeStopped ==
    ASSUME NEW e, NEW l, NEW x, NEW old, NEW was,
           Agree(e, old, was), l.port = old.port, x.st # "running"
    PROVE  Agree(e, l, x)
BY DEF Agree

LEMMA OthersInv ==
    ASSUME PortInv, NEW b \in Boxes, BoxStops(b) \/ BoxRemoved(b) PROVE PortInv'
<1>1. /\ UNCHANGED <<ensuring, reserving, foreign, clashed, portFaults>>
      /\ \E x \in BoxSet : box' = [box EXCEPT ![b] = x] /\ x.st # "running"
  <2>1. /\ [st |-> "none", port |-> NoPort] \in BoxSet
        /\ [box[b] EXCEPT !.st = "stopped"] \in BoxSet
        /\ [box[b] EXCEPT !.st = "stopped"].st = "stopped"
    BY Same DEF BoxSet
  <2>. QED
    BY <2>1 DEF BoxStops, BoxRemoved
<1>2. \E l \in RowSet : leased' = [leased EXCEPT ![b] = l] /\ l.port = leased[b].port
  <2>1. \A st \in {"stopped", "missing"} :
           /\ [leased[b] EXCEPT !.st = st] \in RowSet
           /\ [leased[b] EXCEPT !.st = st].port = leased[b].port
    BY Same DEF RowSet
  <2>. QED
    BY <2>1, Same DEF BoxStops, BoxRemoved
<1>3. PICK x \in BoxSet : box' = [box EXCEPT ![b] = x] /\ x.st # "running"
  BY <1>1
<1>4. PICK l \in RowSet : leased' = [leased EXCEPT ![b] = l] /\ l.port = leased[b].port
  BY <1>2
<1> DEFINE e == ensuring[b]
<1>z. /\ ensuring = [ensuring EXCEPT ![b] = e] /\ e \in EnsureSet /\ Agree(e, leased[b], box[b])
      /\ b \in reserving <=> e.step = "probe"
      /\ clashed = FALSE /\ foreign \subseteq Ports /\ portFaults \in 0 .. MaxPortFaults
  BY Same
<1>5. \A v \in Boxes \ {b} : e.step = "probe" => leased[v].port \in e.others \cup {NoPort}
  BY Same DEF PortInv
<1>6. e.step = "probe" => reserving \subseteq {b}
  BY Same DEF PortInv
<1> HIDE DEF e
<1>7. Agree(e, l, x)
  BY <1>z, <1>3, <1>4, AgreeStopped
<1>8. /\ ensuring' = [ensuring EXCEPT ![b] = e]
      /\ reserving' = IF e.step = "probe" THEN reserving \cup {b} ELSE reserving \ {b}
      /\ foreign' \subseteq Ports /\ portFaults' \in 0 .. MaxPortFaults /\ clashed' = FALSE
  BY <1>z, <1>1
<1>9. Moves(b, e, l, x)
  BY <1>z, <1>3, <1>4, <1>5, <1>6, <1>7, <1>8 DEF Moves
<1>. QED
  BY <1>9, WorkspaceStep

LEMMA ProgramsInv ==
    ASSUME PortInv, NEW p \in Ports, ProgramListens(p) \/ ProgramEnds(p) PROVE PortInv'
<1>1. /\ UNCHANGED <<leased, box, ensuring, reserving, clashed>>
      /\ foreign' \subseteq Ports /\ portFaults' \in 0 .. MaxPortFaults
  BY PortFaultBounded DEF ProgramListens, ProgramEnds, PortInv, PortTypeOK
<1>. QED
  BY <1>1 DEF PortInv, PortTypeOK, AtStep

LEMMA HostCrashInv == ASSUME PortInv, HostCrash PROVE PortInv'
<1>1. /\ ensuring' = [b \in Boxes |-> NoEnsure] /\ reserving' = {}
      /\ UNCHANGED <<leased, box, foreign, clashed>> /\ portFaults' \in 0 .. MaxPortFaults
  BY PortFaultBounded DEF HostCrash
<1>2. NoEnsure \in EnsureSet /\ NoEnsure.step = "rest"
  BY DEF NoEnsure, EnsureSet, EnsureSteps
<1>3. PortTypeOK'
  <2>1. ensuring' \in [Boxes -> EnsureSet]
    BY <1>1, <1>2
  <2>. QED
    BY <1>1, <2>1 DEF PortInv, PortTypeOK, EnsureSet, EnsureSteps
<1>4. \A b \in Boxes : Agree(ensuring'[b], leased'[b], box'[b]) /\ ~ AtStep(b, "probe")'
  BY <1>1, <1>2, Same DEF Agree, AtStep
<1>. QED
  BY <1>1, <1>3, <1>4 DEF PortInv

LEMMA NextPorts == PortInv /\ [PortNext]_portVars => PortInv'
<1> SUFFICES ASSUME PortInv, [PortNext]_portVars PROVE PortInv'
  OBVIOUS
<1>1. ASSUME NEW b \in Boxes,
             \/ Inspects(b) \/ Adopts(b) \/ Recycles(b) \/ Reserves(b) \/ Probes(b)
             \/ Prepares(b) \/ DockerRuns(b) \/ RejectsPort(b) \/ Settled(b)
             \/ BoxStops(b) \/ BoxRemoved(b)
      PROVE  PortInv'
  BY <1>1, InspectsInv, AdoptsInv, RecyclesInv, ReservesInv, ProbesInv, PreparesInv,
     DockerRunsInv, RejectsPortInv, SettledInv, OthersInv
<1>2. ASSUME NEW b \in Boxes, NoFreePort(b) PROVE PortInv'
  BY <1>2, FailsInv DEF NoFreePort, HostStays, PortInv, PortTypeOK
<1>3. ASSUME NEW p \in Ports, ProgramListens(p) \/ ProgramEnds(p) PROVE PortInv'
  BY <1>3, ProgramsInv
<1>4. CASE HostCrash
  BY <1>4, HostCrashInv
<1>5. CASE UNCHANGED portVars
  BY <1>5 DEF portVars, PortInv, PortTypeOK, AtStep
<1>. QED
  BY <1>1, <1>2, <1>3, <1>4, <1>5 DEF PortNext

\* No write of a row meets the unique index on ports, and a container that
\* runs and is recorded so is reached at its port, whatever is probed, taken,
\* freed or lost between the awaits of the ensures.
THEOREM PortsStayOwn == PortSpec => []PortsAreOwn
<1>1. PortInv => PortsAreOwn
  BY DEF PortInv, PortsAreOwn, Agree
<1>. QED
  BY <1>1, InitPorts, NextPorts, PTL DEF PortSpec

\* Every variable of the ports keeps its type.
THEOREM PortsTypeCorrect == PortSpec => []PortTypeOK
<1>1. PortInv => PortTypeOK
  BY DEF PortInv
<1>. QED
  BY <1>1, InitPorts, NextPorts, PTL DEF PortSpec

-----------------------------------------------------------------------------
(***************************************************************************)
(* Asset uploads.                                                          *)
(* For any uploads and assets.                                             *)
(***************************************************************************)

Uploading == {"next", "remove", "copy"}

UploadSet == [step : {"none", "unzip", "next", "remove", "copy", "clean", "end"},
              zip : Archives, dirs : SUBSET Assets, files : SUBSET (Assets \X Parts),
              moved : Nat, temp : BOOLEAN, reply : {"none", "ok", "refused", "failed"}]

NothingOf(u) == \A x \in Assets \X Parts : stored[x] # u
WholeOf(u, a) ==
    \A p \in Parts : stored[<<a, p>>] = IF p \in upload[u].zip[a] THEN u ELSE Bundled

\* The asset c is being replaced: of it there is what was copied already.
ReplacingInv(u, c) ==
    LET r == upload[u] IN
    /\ r.files # {} /\ r.files \subseteq {c} \X r.zip[c]
    /\ r.step = "remove" => r.files = {c} \X r.zip[c]
    /\ u \notin overlapped =>
          /\ \A a \in Valid(r.zip) \ (r.dirs \cup {c}) : WholeOf(u, a)
          /\ r.step = "copy" => \A p \in Parts : stored[<<c, p>>] =
                IF p \in r.zip[c] /\ <<c, p>> \notin r.files THEN u ELSE Bundled

UploadInvOf(u) ==
    LET r == upload[u] IN
    /\ r.step \in {"none", "unzip"} \cup Uploading => r.reply = "none"
    /\ r.step = "end" => ~ r.temp
    /\ r.step \in {"none", "unzip"} => r.moved = 0
    /\ \/ r.reply = "refused" \/ r.step \in {"none", "unzip"}
       \/ r.step \in {"next", "remove"} /\ r.moved = 0
       => NothingOf(u)
    /\ r.step = "next" /\ u \notin overlapped =>
          \A a \in Valid(r.zip) \ r.dirs : WholeOf(u, a)
    /\ r.step \in {"remove", "copy"} =>
          \E c \in Valid(r.zip) \ r.dirs : ReplacingInv(u, c)
    /\ r.reply = "ok" /\ u \notin overlapped => \A a \in Valid(r.zip) : WholeOf(u, a)

UploadInv ==
    /\ upload \in [Uploads -> UploadSet]
    /\ stored \in [Assets \X Parts -> Uploads \cup {Bundled}]
    /\ \A u \in Uploads : UploadInvOf(u)

LEMMA UploadStart == UploadInit => UploadInv
<1> SUFFICES ASSUME UploadInit PROVE UploadInv
  OBVIOUS
<1>1. /\ NewUpload \in UploadSet /\ NewUpload.step = "none" /\ NewUpload.reply = "none"
      /\ NewUpload.moved = 0
  BY DEF NewUpload, UploadSet, Archives
<1>2. \A u \in Uploads : upload[u] = NewUpload
  BY DEF UploadInit
<1>3. \A u \in Uploads : NothingOf(u)
  BY UploadsAssumption DEF UploadInit, NothingOf
<1> HIDE DEF NewUpload
<1>4. \A u \in Uploads : UploadInvOf(u)
  BY <1>1, <1>2, <1>3 DEF UploadInvOf, Uploading
<1>. QED
  BY <1>1, <1>4 DEF UploadInit, UploadInv

\* What a step of one upload leaves to the others: what they are served, if it
\* changes nothing; else they are overlapped.
LEMMA OthersUpload ==
    ASSUME UploadInv, NEW u \in Uploads, NEW r \in UploadSet,
           upload' = [upload EXCEPT ![u] = r],
           \/ UNCHANGED <<stored, overlapped>>
           \/ /\ Overlaps(u)
              /\ \A x \in Assets \X Parts : stored'[x] \in {stored[x], u, Bundled},
           NEW v \in Uploads \ {u}
    PROVE  UploadInvOf(v)' /\ upload'[v] = upload[v]
<1>1. upload'[v] = upload[v] /\ UploadInvOf(v)
  BY DEF UploadInv
<1>2. NothingOf(v) => NothingOf(v)'
  BY UploadsAssumption DEF NothingOf
<1>3. CASE UNCHANGED <<stored, overlapped>>
  BY <1>1, <1>2, <1>3 DEF UploadInvOf, WholeOf, ReplacingInv
<1>4. CASE Overlaps(u)
  <2>1. v \notin overlapped' => upload[v].step = "none" /\ upload[v].reply = "none"
    BY <1>1, <1>4 DEF Overlaps, UploadIs, UploadInvOf
  <2>2. /\ v \in overlapped' \/ (upload[v].step = "none" /\ upload[v].reply = "none")
        /\ \A c : ReplacingInv(v, c) /\ v \in overlapped' => ReplacingInv(v, c)'
    BY <1>1, <2>1 DEF ReplacingInv
  <2>. QED
    BY <1>1, <1>2, <2>2 DEF UploadInvOf
<1>. QED
  BY <1>1, <1>3, <1>4

\* A step of one upload: what is to be shown of it alone.
LEMMA UploadMoves ==
    ASSUME UploadInv, NEW u \in Uploads, NEW r \in UploadSet,
           upload' = [upload EXCEPT ![u] = r],
           stored' \in [Assets \X Parts -> Uploads \cup {Bundled}],
           \/ UNCHANGED <<stored, overlapped>>
           \/ /\ Overlaps(u)
              /\ \A x \in Assets \X Parts : stored'[x] \in {stored[x], u, Bundled},
           UploadInvOf(u)'
    PROVE  UploadInv'
<1>1. upload' \in [Uploads -> UploadSet]
  BY DEF UploadInv
<1>2. \A v \in Uploads \ {u} : UploadInvOf(v)'
  BY OthersUpload
<1>. QED
  BY <1>1, <1>2 DEF UploadInv

LEMMA UploadIsOne ==
    ASSUME UploadInv, NEW u \in Uploads
    PROVE  /\ upload[u] \in UploadSet /\ UploadInvOf(u)
           /\ stored \in [Assets \X Parts -> Uploads \cup {Bundled}]
           /\ \A r : [upload EXCEPT ![u] = r][u] = r
BY DEF UploadInv

LEMMA ArrivesKeeps ==
    ASSUME UploadInv, NEW u \in Uploads, NEW zip \in Archives, UploadArrives(u, zip)
    PROVE  UploadInv'
<1> DEFINE r == [NewUpload EXCEPT !.step = "unzip", !.zip = zip, !.temp = TRUE]
<1>1. /\ r \in UploadSet /\ r.step = "unzip" /\ r.reply = "none" /\ r.moved = 0
  BY DEF NewUpload, UploadSet, Archives
<1>2. upload' = [upload EXCEPT ![u] = r] /\ UNCHANGED <<stored, overlapped>> /\ upload[u].step = "none"
  BY DEF UploadArrives, Turns, DirsStay, UploadIs
<1> HIDE DEF r
<1>3. NothingOf(u)' /\ upload'[u] = r
  <2>1. UploadInvOf(u) /\ upload'[u] = r
    BY <1>2, UploadIsOne
  <2>2. NothingOf(u)
    BY <1>2, <2>1 DEF UploadInvOf
  <2>. QED
    BY <1>2, <2>1, <2>2 DEF NothingOf
<1>4. UploadInvOf(u)'
  BY <1>1, <1>3 DEF UploadInvOf, Uploading
<1>. QED
  BY <1>1, <1>2, <1>4, UploadIsOne, UploadMoves

LEMMA RepliesAre ==
    ASSUME NEW r \in UploadSet, NEW how \in {"ok", "refused", "failed"}
    PROVE  LET q == Replies(r, how) IN
           /\ q \in UploadSet /\ q.step = "clean" /\ q.reply = how
           /\ q.zip = r.zip /\ q.dirs = r.dirs
BY DEF Replies, UploadSet

LEMMA UnzipsKeeps ==
    ASSUME UploadInv, NEW u \in Uploads, NEW good \in BOOLEAN, Unzips(u, good)
    PROVE  UploadInv'
<1>1. /\ upload[u] \in UploadSet /\ upload[u].step = "unzip" /\ NothingOf(u)
      /\ UNCHANGED <<stored, overlapped>> /\ upload[u].moved = 0 /\ upload[u].reply = "none"
  BY UploadIsOne DEF Unzips, DirsStay, UploadIs, UploadInvOf
<1>2. NothingOf(u)'
  BY <1>1 DEF NothingOf
<1>3. CASE good /\ DirsOf(upload[u].zip) # {}
  <2> DEFINE r == [upload[u] EXCEPT !.step = "next", !.dirs = DirsOf(upload[u].zip)]
  <2>1. /\ r \in UploadSet /\ r.step = "next" /\ r.reply = "none" /\ r.moved = 0
        /\ r.dirs = DirsOf(r.zip)
    BY <1>1 DEF UploadSet, DirsOf
  <2>2. upload' = [upload EXCEPT ![u] = r]
    BY <1>3 DEF Unzips, Turns
  <2> HIDE DEF r
  <2>3. upload'[u] = r /\ Valid(r.zip) \subseteq r.dirs
    BY <2>1, <2>2, UploadIsOne DEF Valid, DirsOf
  <2>4. UploadInvOf(u)'
    BY <1>2, <2>1, <2>3 DEF UploadInvOf, Uploading
  <2>. QED
    BY <1>1, <2>1, <2>2, <2>4, UploadIsOne, UploadMoves
<1>4. CASE ~ (good /\ DirsOf(upload[u].zip) # {})
  <2>1. PICK r \in UploadSet : r = Replies(upload[u], "refused") /\ r.step = "clean" /\ r.reply = "refused"
    BY <1>1, RepliesAre
  <2>2. upload' = [upload EXCEPT ![u] = r]
    BY <1>4, <2>1 DEF Unzips, Turns
  <2>4. upload'[u] = r
    BY <2>2, UploadIsOne
  <2>3. UploadInvOf(u)'
    BY <1>2, <2>1, <2>4 DEF UploadInvOf, Uploading
  <2>. QED
    BY <1>1, <2>2, <2>3, UploadIsOne, UploadMoves
<1>. QED
  BY <1>3, <1>4

LEMMA TakesKeeps ==
    ASSUME UploadInv, NEW u \in Uploads, NEW a \in Assets, TakesDirectory(u, a)
    PROVE  UploadInv'
<1> DEFINE valid == a \in Valid(upload[u].zip)
           r == [upload[u] EXCEPT !.dirs = @ \ {a},
                    !.step = IF valid THEN "remove" ELSE "next",
                    !.files = IF valid THEN {a} \X upload[u].zip[a] ELSE {}]
<1>1. /\ upload[u] \in UploadSet /\ upload[u].step = "next" /\ UploadInvOf(u)
      /\ UNCHANGED <<stored, overlapped>> /\ upload' = [upload EXCEPT ![u] = r]
      /\ a \in upload[u].dirs
  BY UploadIsOne DEF TakesDirectory, DirsStay, UploadIs, Turns
<1>2. upload[u].zip[a] \subseteq Parts
  BY <1>1 DEF UploadSet, Archives
<1>3. /\ r \in UploadSet /\ r.step = (IF valid THEN "remove" ELSE "next")
      /\ r.reply = upload[u].reply /\ r.zip = upload[u].zip /\ r.moved = upload[u].moved
      /\ r.dirs = upload[u].dirs \ {a} /\ (valid => r.files = {a} \X r.zip[a])
  <2>1. (IF valid THEN {a} \X upload[u].zip[a] ELSE {}) \in SUBSET (Assets \X Parts)
    BY <1>2
  <2>. QED
    BY <1>1, <2>1 DEF UploadSet
<1> HIDE DEF r
<1>4. upload'[u] = r /\ (NothingOf(u) => NothingOf(u)')
  BY <1>1, UploadIsOne DEF NothingOf
<1>5. \A b : WholeOf(u, b) => WholeOf(u, b)'
  BY <1>1, <1>3, <1>4 DEF WholeOf
<1>6. valid => ReplacingInv(u, a)' /\ a \in Valid(r.zip) \ r.dirs
  <2> SUFFICES ASSUME valid PROVE ReplacingInv(u, a)' /\ a \in Valid(r.zip) \ r.dirs
    OBVIOUS
  <2>1. a \in Valid(r.zip) \ r.dirs /\ "config" \in r.zip[a]
    BY <1>3 DEF Valid
  <2>2. r.files # {}
    <3>1. <<a, "config">> \in r.files
      BY <1>3, <2>1
    <3>. QED
      BY <3>1
  <2>3. u \notin overlapped' => \A b \in Valid(r.zip) \ (r.dirs \cup {a}) : WholeOf(u, b)'
    BY <1>1, <1>3, <1>5 DEF UploadInvOf
  <2>. QED
    BY <1>3, <1>4, <2>1, <2>2, <2>3 DEF ReplacingInv
<1>7. ~ valid /\ u \notin overlapped' => \A b \in Valid(r.zip) \ r.dirs : WholeOf(u, b)'
  BY <1>1, <1>3, <1>5 DEF UploadInvOf
<1>8. UploadInvOf(u)'
  BY <1>1, <1>3, <1>4, <1>6, <1>7 DEF UploadInvOf, Uploading
<1>. QED
  BY <1>1, <1>3, <1>8, UploadIsOne, UploadMoves

LEMMA RemovesKeeps ==
    ASSUME UploadInv, NEW u \in Uploads, RemovesAsset(u)
    PROVE  UploadInv'
<1> DEFINE r == [upload[u] EXCEPT !.step = "copy"]
<1>1. /\ upload[u] \in UploadSet /\ upload[u].step = "remove" /\ UploadInvOf(u)
      /\ Overlaps(u) /\ upload' = [upload EXCEPT ![u] = r]
  BY UploadIsOne DEF RemovesAsset, UploadIs, Turns
<1>2. /\ r \in UploadSet /\ r.step = "copy" /\ r.zip = upload[u].zip /\ r.files = upload[u].files
      /\ r.dirs = upload[u].dirs /\ r.reply = upload[u].reply
  BY <1>1 DEF UploadSet
<1> HIDE DEF r
<1>3. PICK c \in Valid(r.zip) \ r.dirs : ReplacingInv(u, c)
  BY <1>1, <1>2 DEF UploadInvOf
<1>4. c \in Assets /\ stored' = WithoutAsset(c) /\ r.files = {c} \X r.zip[c]
  <2>1. PICK a \in {x[1] : x \in upload[u].files} : stored' = WithoutAsset(a)
    BY DEF RemovesAsset
  <2>2. a = c /\ r.files = {c} \X r.zip[c]
    BY <1>1, <1>2, <1>3, <2>1 DEF ReplacingInv
  <2>. QED
    BY <2>1, <2>2 DEF Valid
<1>5. /\ stored' \in [Assets \X Parts -> Uploads \cup {Bundled}]
      /\ \A x \in Assets \X Parts : stored'[x] = IF x[1] = c THEN Bundled ELSE stored[x]
  BY <1>4, UploadIsOne DEF WithoutAsset
<1>6. u \notin overlapped' => u \notin overlapped
  BY <1>1 DEF Overlaps
<1>7. upload'[u] = r
  BY <1>1, UploadIsOne
<1>8. \A a \in Assets \ {c} : WholeOf(u, a) => WholeOf(u, a)'
  BY <1>2, <1>5, <1>7 DEF WholeOf
<1>9. ReplacingInv(u, c)'
  <2>1. r.files # {} /\ r.files \subseteq {c} \X r.zip[c]
    BY <1>2, <1>3 DEF ReplacingInv
  <2>2. u \notin overlapped' => \A a \in Valid(r.zip) \ (r.dirs \cup {c}) : WholeOf(u, a)'
    BY <1>2, <1>3, <1>6, <1>8 DEF ReplacingInv, Valid
  <2>3. \A p \in Parts : stored'[<<c, p>>] = Bundled
    BY <1>4, <1>5
  <2>4. \A p \in Parts : ~ (p \in r.zip[c] /\ <<c, p>> \notin r.files)
    BY <1>4
  <2>. QED
    BY <1>2, <1>7, <2>1, <2>2, <2>3, <2>4 DEF ReplacingInv
<1>10. UploadInvOf(u)'
  BY <1>1, <1>2, <1>3, <1>7, <1>9 DEF UploadInvOf, Uploading
<1>. QED
  BY <1>1, <1>2, <1>5, <1>10, UploadMoves

LEMMA CopiesKeeps ==
    ASSUME UploadInv, NEW u \in Uploads, NEW x \in Assets \X Parts, CopiesPart(u, x)
    PROVE  UploadInv'
<1> DEFINE left == upload[u].files \ {x}
           r == [upload[u] EXCEPT !.files = left,
                    !.step = IF left = {} THEN "next" ELSE "copy",
                    !.moved = IF left = {} THEN @ + 1 ELSE @]
<1>1. /\ upload[u] \in UploadSet /\ upload[u].step = "copy" /\ UploadInvOf(u)
      /\ Overlaps(u) /\ upload' = [upload EXCEPT ![u] = r] /\ x \in upload[u].files
      /\ stored' = [stored EXCEPT ![x] = u]
  BY UploadIsOne DEF CopiesPart, UploadIs, Turns
<1>2. /\ r \in UploadSet /\ r.step = (IF left = {} THEN "next" ELSE "copy")
      /\ r.zip = upload[u].zip /\ r.files = upload[u].files \ {x}
      /\ r.dirs = upload[u].dirs /\ r.reply = upload[u].reply
      /\ r.moved \in Nat /\ (left = {} => r.moved # 0)
  <2>1. /\ upload[u].moved \in Nat /\ upload[u].moved + 1 \in Nat /\ upload[u].moved + 1 # 0
        /\ left \in SUBSET (Assets \X Parts)
    BY <1>1 DEF UploadSet
  <2> HIDE DEF left
  <2>2. CASE left = {}
    <3>1. r = [upload[u] EXCEPT !.files = left, !.step = "next", !.moved = upload[u].moved + 1]
      BY <2>2
    <3>. QED
      BY <1>1, <2>1, <2>2, <3>1 DEF UploadSet, left
  <2>3. CASE left # {}
    <3>1. r = [upload[u] EXCEPT !.files = left, !.step = "copy", !.moved = upload[u].moved]
      BY <2>3
    <3>. QED
      BY <1>1, <2>1, <2>3, <3>1 DEF UploadSet, left
  <2>. QED
    BY <2>2, <2>3
<1>3. PICK c \in Valid(r.zip) \ r.dirs : ReplacingInv(u, c)
  BY <1>1, <1>2 DEF UploadInvOf
<1>4. PICK q \in r.zip[c] : x = <<c, q>>
  BY <1>1, <1>2, <1>3 DEF ReplacingInv
<1>5. /\ stored' \in [Assets \X Parts -> Uploads \cup {Bundled}]
      /\ \A y \in Assets \X Parts : stored'[y] = IF y = x THEN u ELSE stored[y]
  BY <1>1, UploadIsOne
<1>6. u \notin overlapped' => u \notin overlapped
  BY <1>1 DEF Overlaps
<1> HIDE DEF r
<1>7. upload'[u] = r
  BY <1>1, UploadIsOne
<1>8. \A a \in Assets \ {c} : WholeOf(u, a) => WholeOf(u, a)'
  BY <1>2, <1>4, <1>5, <1>7 DEF WholeOf
<1>9. u \notin overlapped' => \A a \in Valid(r.zip) \ (r.dirs \cup {c}) : WholeOf(u, a)'
  BY <1>2, <1>3, <1>6, <1>8 DEF ReplacingInv, Valid
<1>10. u \notin overlapped' => \A p \in Parts : stored'[<<c, p>>] =
          IF p \in r.zip[c] /\ <<c, p>> \notin r.files THEN u ELSE Bundled
  <2> SUFFICES ASSUME u \notin overlapped', NEW p \in Parts
               PROVE  stored'[<<c, p>>] =
                        IF p \in r.zip[c] /\ <<c, p>> \notin r.files THEN u ELSE Bundled
    OBVIOUS
  <2>1. stored[<<c, p>>] =
           IF p \in r.zip[c] /\ <<c, p>> \notin upload[u].files THEN u ELSE Bundled
    BY <1>1, <1>2, <1>3, <1>6 DEF ReplacingInv
  <2>2. c \in Assets
    BY <1>3 DEF Valid
  <2>. QED
    BY <1>2, <1>4, <1>5, <2>1, <2>2
<1>11. CASE left = {}
  <2>1. u \notin overlapped' => WholeOf(u, c)'
    BY <1>2, <1>7, <1>10, <1>11 DEF WholeOf
  <2>2. u \notin overlapped' => \A a \in Valid(r.zip) \ r.dirs : WholeOf(u, a)'
    BY <1>9, <2>1
  <2>. QED
    BY <1>1, <1>2, <1>5, <1>7, <1>11, <2>2, UploadMoves DEF UploadInvOf, Uploading
<1>12. CASE left # {}
  <2>1. ReplacingInv(u, c)'
    <3>1. r.files # {} /\ r.files \subseteq {c} \X r.zip[c]
      BY <1>2, <1>3, <1>12 DEF ReplacingInv
    <3>. QED
      BY <1>2, <1>7, <1>9, <1>10, <1>12, <3>1 DEF ReplacingInv
  <2>2. UploadInvOf(u)'
    BY <1>1, <1>2, <1>3, <1>7, <1>12, <2>1 DEF UploadInvOf, Uploading
  <2>. QED
    BY <1>1, <1>2, <1>5, <2>2, UploadMoves
<1>. QED
  BY <1>11, <1>12

LEMMA AnswersKeep ==
    ASSUME UploadInv, NEW u \in Uploads, DirectoryBusy(u) \/ AllTaken(u)
    PROVE  UploadInv'
<1>1. /\ upload[u] \in UploadSet /\ UploadInvOf(u) /\ UNCHANGED <<stored, overlapped>>
      /\ upload[u].step \in Uploading
  BY UploadIsOne DEF DirectoryBusy, AllTaken, DirsStay, UploadIs, Uploading
<1>2. PICK how \in {"ok", "refused", "failed"} :
        /\ upload' = [upload EXCEPT ![u] = Replies(upload[u], how)]
        /\ how # "failed" => /\ upload[u].step = "next" /\ upload[u].dirs = {}
                             /\ how = "refused" => upload[u].moved = 0
  BY DEF DirectoryBusy, AllTaken, Turns, UploadIs
<1>3. PICK r \in UploadSet :
        /\ r = Replies(upload[u], how) /\ r.step = "clean" /\ r.reply = how
        /\ r.zip = upload[u].zip /\ r.dirs = upload[u].dirs
  BY <1>1, RepliesAre
<1>4. upload'[u] = r /\ (NothingOf(u) => NothingOf(u)')
  BY <1>1, <1>2, <1>3, UploadIsOne DEF NothingOf
<1>5. \A b : WholeOf(u, b) => WholeOf(u, b)'
  BY <1>1, <1>3, <1>4 DEF WholeOf
<1>6. UploadInvOf(u)'
  BY <1>1, <1>2, <1>3, <1>4, <1>5 DEF UploadInvOf, Uploading
<1>. QED
  BY <1>1, <1>2, <1>3, <1>6, UploadIsOne, UploadMoves

LEMMA CleanedKeeps ==
    ASSUME UploadInv, NEW u \in Uploads, Cleaned(u)
    PROVE  UploadInv'
<1> DEFINE r == [upload[u] EXCEPT !.step = "end", !.temp = FALSE, !.dirs = {}, !.files = {}]
<1>1. /\ upload[u] \in UploadSet /\ UploadInvOf(u) /\ UNCHANGED <<stored, overlapped>>
      /\ upload' = [upload EXCEPT ![u] = r]
  BY UploadIsOne DEF Cleaned, DirsStay, Turns
<1>2. /\ r \in UploadSet /\ r.step = "end" /\ r.temp = FALSE /\ r.reply = upload[u].reply
      /\ r.zip = upload[u].zip
  BY <1>1 DEF UploadSet
<1> HIDE DEF r
<1>3. upload'[u] = r /\ (NothingOf(u) => NothingOf(u)')
  BY <1>1, UploadIsOne DEF NothingOf
<1>4. \A b : WholeOf(u, b) => WholeOf(u, b)'
  BY <1>1, <1>2, <1>3 DEF WholeOf
<1>5. UploadInvOf(u)'
  BY <1>1, <1>2, <1>3, <1>4 DEF UploadInvOf, Uploading
<1>. QED
  BY <1>1, <1>2, <1>5, UploadIsOne, UploadMoves

LEMMA UploadsInvariance == UploadSpec => []UploadInv
<1>1. ASSUME UploadInv, UploadNext PROVE UploadInv'
  BY <1>1, ArrivesKeeps, UnzipsKeeps, TakesKeeps, RemovesKeeps, CopiesKeeps, AnswersKeep,
     CleanedKeeps DEF UploadNext
<1>2. ASSUME UploadInv, UNCHANGED uploadVars PROVE UploadInv'
  <2>1. ASSUME NEW u \in Uploads PROVE UploadInvOf(u)'
    <3>1. UploadInvOf(u) /\ UNCHANGED <<upload, stored, overlapped>>
      BY <1>2 DEF uploadVars, UploadInv
    <3>2. NothingOf(u)' = NothingOf(u) /\ \A a : WholeOf(u, a)' = WholeOf(u, a)
      BY <3>1 DEF NothingOf, WholeOf
    <3>3. \A c : ReplacingInv(u, c) => ReplacingInv(u, c)'
      BY <3>1, <3>2 DEF ReplacingInv
    <3>. QED
      BY <3>1, <3>2, <3>3 DEF UploadInvOf
  <2>. QED
    BY <1>2, <2>1 DEF uploadVars, UploadInv
<1>. QED
  BY <1>1, <1>2, UploadStart, PTL DEF UploadSpec

(* An upload answered OK that met no other is served whole, a refused one  *)
(* has changed nothing, and the temporary directory is gone (assets.ts).   *)
THEOREM UploadsAreWhole == UploadSpec => []UploadIsWhole
<1>1. ASSUME UploadInv PROVE UploadIsWhole
  BY <1>1, UploadIsOne DEF UploadIsWhole, UploadInvOf, WholeOf, NothingOf, ServedFrom, UploadSet
<1>. QED
  BY <1>1, UploadsInvariance, PTL

-----------------------------------------------------------------------------
(***************************************************************************)
(* The data directory.                                                     *)
(* For any homes, migrations, restores of the panel and bounds.            *)
(***************************************************************************)

ProcSet == [pc : {"off", "opened", "pending", "writing", "up"}, todo : SUBSET Migrations]

RestoreSet == [pc : {"rest", "db", "copy", "next", "rename"}, todo : SUBSET Homes,
               home : Homes \cup {NoHome}]
PanelSet == [pc : {"rest", "extracted", "removed"}, home : Homes \cup {NoHome}, ver : Contents]

\* Every row of schema_migrations stands for one run of its migration.
RanOnce(d) == d \in Database /\ \A m \in Migrations : d.ran[m] = IF m \in d.rows THEN 1 ELSE 0

\* What a process has not to do is done, and nobody is ahead of the release.
ProcInv(x) ==
    LET p == proc[x] IN
    /\ p.pc # "off" => db.st # "none"
    /\ p.pc \in {"pending", "writing"} =>
          /\ db.st # "torn" /\ db.rows \subseteq 1 .. release
          /\ p.todo \subseteq 1 .. release /\ (1 .. release) \ p.todo \subseteq db.rows
    /\ p.pc = "writing" <=> (writer = x /\ p.pc # "up")
    /\ p.pc = "writing" => p.todo # {}
    /\ p.pc = "up" => x = "control" /\ db.st # "torn" /\ db.rows = 1 .. release

DbInv ==
    /\ RanOnce(db) /\ RanOnce(copy)
    /\ proc \in [Processes -> ProcSet] /\ release \in 0 .. Newest
    /\ \A x \in Processes : ProcInv(x)
    /\ restore # Rest => Stopped

\* An archive that is about to replace a project, and the panel's.
PanelInv(k) ==
    panel[k] # Still =>
        /\ Up /\ panel[k].pc \in {"extracted", "removed"} /\ panel[k].home \in Homes
        /\ Usable(panel[k].ver) /\ (~ cut => panel[k].ver # Half)

\* A project that is gone is being put back.
HomeInv(h) ==
    /\ project[h] \notin {Torn, Half} /\ archive[h] # Half
    /\ project[h] = Missing =>
          \/ restore.pc = "rename" /\ restore.home = h
          \/ \E k \in Panels : panel[k].pc = "removed" /\ panel[k].home = h

FilesInv ==
    /\ project \in [Homes -> Contents] /\ archive \in [Homes -> Contents]
    /\ changes \in 0 .. MaxChanges /\ cut \in BOOLEAN
    /\ restore \in RestoreSet /\ panel \in [Panels -> PanelSet]
    /\ restore # Rest => backup = Rest
    /\ restore.pc = "rename" => restore.home \in Homes /\ Usable(archive[restore.home])
    /\ \A k \in Panels : PanelInv(k)
    /\ ~ cut => \A h \in Homes : HomeInv(h)

DataInv == DbInv /\ FilesInv
LEMMA Least ==
    ASSUME NEW T \in SUBSET Nat, T # {}
    PROVE  \E x \in T : \A y \in T : x <= y
<1> DEFINE R == {ss \in Nat \X Nat : ss[1] < ss[2]}
<1>1. IsWellFoundedOn(R, Nat)
  BY NatLessThanWellFounded DEF OpToRel
<1>2. \A a, b \in Nat : a < b => <<a, b>> \in R
  OBVIOUS
<1> HIDE DEF R
<1>3. PICK x \in T : \A y \in T : ~ (<<y, x>> \in R)
  BY <1>1, WFMin
<1>4. ASSUME NEW y \in T PROVE x <= y
  <2>1. x \in Nat /\ y \in Nat /\ ~ (y < x)
    BY <1>2, <1>3
  <2>. QED
    BY <2>1
<1>. QED
  BY <1>4


\* The first of some migrations is one of them.
LEMMA FirstIs ==
    ASSUME NEW s \in SUBSET Migrations, s # {}
    PROVE  First(s) \in s
<1>1. s \in SUBSET Nat
  BY DataAssumption DEF Migrations
<1>2. \E m \in s : \A n \in s : m <= n
  BY <1>1, Least
<1>. QED
  BY <1>2 DEF First

USE DEF None, Processes

LEMMA Places ==
    /\ Rest \in RestoreSet /\ Rest.pc = "rest"
    /\ Still \in PanelSet /\ Still.pc = "rest"
BY DataAssumption DEF Rest, Still, RestoreSet, PanelSet, Contents, Versions

LEMMA DataStart == DataInit => DataInv
<1> SUFFICES ASSUME DataInit PROVE DataInv
  OBVIOUS
<1>1. RanOnce(NoFile) /\ NoFile.st = None
  <2>1. Fresh \in Database /\ Fresh.rows = {} /\ Fresh.ran = [m \in Migrations |-> 0]
    BY DEF Fresh, Database
  <2> HIDE DEF Fresh
  <2>2. NoFile \in Database /\ NoFile.rows = {} /\ NoFile.ran = Fresh.ran
    BY <2>1 DEF NoFile, Database
  <2>. QED
    BY <2>1, <2>2 DEF RanOnce, NoFile, Fresh, Database
<1>2. Off \in ProcSet /\ Off.pc = "off"
  BY DEF Off, ProcSet
<1>3. DbInv
  <2>1. release \in 0 .. Newest
    BY DataAssumption DEF DataInit
  <2>. QED
    BY <1>1, <1>2, <2>1 DEF DataInit, DbInv, ProcInv
<1>4. MaxChanges \in Nat /\ 0 \in Versions /\ 0 \notin {Missing, Torn, Half} /\ Missing # Half
  BY DataAssumption DEF Versions, Missing, Torn, Half
<1>5. project \in [Homes -> Contents] /\ archive \in [Homes -> Contents]
  BY <1>4 DEF DataInit, Contents
<1>6. FilesInv
  <2>1. /\ restore = Rest /\ backup = Rest /\ panel \in [Panels -> PanelSet]
        /\ \A k \in Panels : panel[k] = Still
    BY Places DEF DataInit
  <2>2. \A h \in Homes : HomeInv(h)
    BY <1>4 DEF DataInit, HomeInv
  <2>3. changes \in 0 .. MaxChanges
    BY <1>4 DEF DataInit
  <2>4. cut \in BOOLEAN
    BY Zenon DEF DataInit
  <2>. QED
    BY <1>5, <2>1, <2>2, <2>3, <2>4, Places DEF FilesInv, PanelInv
<1>. QED
  BY <1>3, <1>6 DEF DataInv

-----------------------------------------------------------------------------
(* The database                                                            *)

\* A step of one process that leaves the database as it is.
LEMMA ProcessMoves ==
    ASSUME DbInv, NEW x \in Processes, NEW p \in ProcSet, restore = Rest,
           proc' = [proc EXCEPT ![x] = p], UNCHANGED <<db, copy, release, restore>>,
           \A y \in Processes \ {x} : writer' = y <=> writer = y,
           ProcInv(x)'
    PROVE  DbInv'
<1>1. proc' \in [Processes -> ProcSet]
  BY DEF DbInv
<1>2. \A y \in Processes \ {x} : proc'[y] = proc[y]
  BY DEF DbInv
<1>3. \A y \in Processes \ {x} : ProcInv(y)'
  BY <1>2 DEF DbInv, ProcInv
<1>. QED
  BY <1>1, <1>3 DEF DbInv

LEMMA Running ==
    ASSUME DbInv, NEW x \in Processes
    PROVE  /\ proc[x] \in ProcSet /\ ProcInv(x) /\ (proc[x].pc # "off" => restore = Rest)
           /\ proc \in [Processes -> ProcSet] /\ Off \in ProcSet /\ Off.pc = "off"
           /\ (restore # Rest => proc[x] = Off)
BY DEF DbInv, Stopped, Off, ProcSet

LEMMA FreshRan == RanOnce(Fresh) /\ Fresh.st = "whole" /\ Fresh.rows = {}
BY DEF RanOnce, Fresh, Database

\* Only the state of a database's file changes.
LEMMA SameRows ==
    ASSUME NEW d, RanOnce(d), NEW st \in {None, "torn", "whole", "mixed"}
    PROVE  /\ RanOnce([d EXCEPT !.st = st]) /\ [d EXCEPT !.st = st].st = st
           /\ [d EXCEPT !.st = st].rows = d.rows
BY DEF RanOnce, Database

LEMMA OpensDb == ASSUME DbInv, NEW x \in Processes, Opens(x) PROVE DbInv'
<1> DEFINE p == [proc[x] EXCEPT !.pc = "opened"]
<1>1. /\ proc[x].pc = "off" /\ restore = Rest /\ restore' = Rest
      /\ proc' = [proc EXCEPT ![x] = p] /\ UNCHANGED <<copy, release, writer>>
  BY Running DEF Opens, FilesStay
<1>2. p \in ProcSet /\ p.pc = "opened"
  BY Running DEF ProcSet
<1> HIDE DEF p
<1>3. /\ RanOnce(db') /\ db'.st # None
      /\ db.st # None => db'.rows = db.rows /\ (db'.st = "torn" => db.st = "torn")
  <2>1. CASE db.st = None
    BY <2>1, FreshRan DEF Opens
  <2>2. CASE db.st # None /\ journal = "stray"
    BY <2>2, SameRows DEF Opens, DbInv
  <2>3. CASE db.st # None /\ journal # "stray"
    BY <2>3 DEF Opens, DbInv
  <2>. QED
    BY <2>1, <2>2, <2>3
<1>4. proc'[x] = p /\ \A y \in Processes \ {x} : proc'[y] = proc[y]
  BY <1>1, Running
<1>5. ProcInv(x)'
  BY <1>1, <1>2, <1>3, <1>4, Running DEF ProcInv
<1>6. \A y \in Processes \ {x} : ProcInv(y)'
  BY <1>1, <1>3, <1>4 DEF DbInv, ProcInv
<1>7. proc' \in [Processes -> ProcSet]
  BY <1>1, <1>2, Running
<1>. QED
  BY <1>1, <1>3, <1>5, <1>6, <1>7 DEF DbInv

\* A process that ends, in whatever it was.
LEMMA EndsDb ==
    ASSUME DbInv, NEW x \in Processes, Ends(x), proc[x].pc # "off",
           UNCHANGED <<db, copy, release, restore>>,
           writer' = IF writer = x THEN None ELSE writer
    PROVE  DbInv'
<1>1. proc' = [proc EXCEPT ![x] = Off] /\ restore = Rest /\ proc'[x] = Off
  BY Running DEF Ends
<1>2. ProcInv(x)'
  BY <1>1, Running DEF ProcInv
<1>. QED
  BY <1>1, <1>2, Running, ProcessMoves

LEMMA VerifiesDb == ASSUME DbInv, NEW x \in Processes, Verifies(x) PROVE DbInv'
<1>1. /\ proc[x].pc = "opened" /\ restore = Rest /\ writer # x
      /\ UNCHANGED <<db, copy, release, writer, restore>>
  BY Running DEF Verifies, FilesStay, ProcInv
<1>2. CASE db.st # "torn" /\ db.rows \subseteq 1 .. release
  <2> DEFINE p == [pc |-> "pending", todo |-> (1 .. release) \ db.rows]
  <2>1. 1 .. release \subseteq Migrations
    BY DataAssumption DEF DbInv, Migrations
  <2>2. /\ p \in ProcSet /\ proc' = [proc EXCEPT ![x] = p] /\ p.pc = "pending"
        /\ p.todo = (1 .. release) \ db.rows
    BY <1>1, <1>2, <2>1 DEF Verifies, ProcSet
  <2> HIDE DEF p
  <2>3. proc'[x] = p
    BY <2>2, Running
  <2>4. ProcInv(x)'
    BY <1>1, <1>2, <2>2, <2>3, Running DEF ProcInv
  <2>. QED
    BY <1>1, <2>2, <2>4, ProcessMoves
<1>3. CASE ~ (db.st # "torn" /\ db.rows \subseteq 1 .. release)
  <2>1. Ends(x)
    BY <1>3 DEF Verifies
  <2>. QED
    BY <1>1, <2>1, EndsDb
<1>. QED
  BY <1>2, <1>3

LEMMA BeginsDb == ASSUME DbInv, NEW x \in Processes, MigrationBegins(x) PROVE DbInv'
<1>1. /\ proc[x].pc = "pending" /\ restore = Rest /\ writer # x /\ proc[x].todo # {}
      /\ UNCHANGED <<db, copy, release, restore>>
  BY Running DEF MigrationBegins, FilesStay, ProcInv
<1>2. CASE writer = None
  <2> DEFINE p == [proc[x] EXCEPT !.pc = "writing"]
  <2>1. /\ p \in ProcSet /\ proc' = [proc EXCEPT ![x] = p] /\ p.pc = "writing"
        /\ p.todo = proc[x].todo /\ writer' = x
    BY <1>2, Running DEF MigrationBegins, ProcSet
  <2> HIDE DEF p
  <2>2. proc'[x] = p
    BY <2>1, Running
  <2>3. ProcInv(x)'
    BY <1>1, <2>1, <2>2, Running DEF ProcInv
  <2>. QED
    BY <1>1, <1>2, <2>1, <2>3, ProcessMoves
<1>3. CASE writer # None
  BY <1>1, <1>3, EndsDb DEF MigrationBegins
<1>. QED
  BY <1>2, <1>3

LEMMA CommitsDb == ASSUME DbInv, NEW x \in Processes, MigrationCommits(x) PROVE DbInv'
<1> DEFINE m == First(proc[x].todo)
<1>1. /\ proc[x].pc = "writing" /\ restore = Rest /\ writer = x /\ proc[x].todo # {}
      /\ proc[x].todo \subseteq Migrations /\ writer' = None
      /\ UNCHANGED <<copy, release, restore>>
  BY Running DEF MigrationCommits, FilesStay, ProcInv, ProcSet
<1>2. m \in proc[x].todo
  BY <1>1, FirstIs
<1>3. CASE m \in db.rows
  BY <1>1, <1>3, EndsDb DEF MigrationCommits
<1>4. CASE m \notin db.rows
  <2> DEFINE d == [db EXCEPT !.rows = @ \cup {m}, !.ran[m] = @ + 1]
             p == [pc |-> "pending", todo |-> proc[x].todo \ {m}]
  <2>1. db' = d /\ proc' = [proc EXCEPT ![x] = p]
    BY <1>4, Running DEF MigrationCommits
  <2> HIDE DEF m
  <2>2. RanOnce(d) /\ d.rows = db.rows \cup {m} /\ d.st = db.st
    <3>1. RanOnce(db) /\ db.ran[m] = 0
      BY <1>1, <1>2, <1>4 DEF DbInv, RanOnce
    <3>2. d.ran = [db.ran EXCEPT ![m] = 1] /\ d.rows = db.rows \cup {m} /\ d.st = db.st
      BY <3>1 DEF RanOnce, Database
    <3>3. d \in Database
      <4> DEFINE r == [db.ran EXCEPT ![m] = db.ran[m] + 1]
      <4>1. d = [db EXCEPT !.rows = @ \cup {m}, !.ran = r]
        OBVIOUS
      <4>2. db.ran[m] + 1 \in 0 .. 2 /\ m \in Migrations /\ db \in Database
        BY <1>1, <1>2, <3>1 DEF RanOnce
      <4>3. r \in [Migrations -> 0 .. 2]
        BY <4>2 DEF Database
      <4> HIDE DEF r
      <4>4. [db EXCEPT !.rows = @ \cup {m}, !.ran = r] \in Database
        BY <4>2, <4>3 DEF Database
      <4>. QED
        BY <4>1, <4>4
    <3> HIDE DEF d
    <3>. QED
      BY <1>1, <1>2, <3>1, <3>2, <3>3 DEF RanOnce, Database
  <2>3. p \in ProcSet /\ p.pc = "pending" /\ p.todo = proc[x].todo \ {m}
    BY <1>1 DEF ProcSet
  <2> HIDE DEF d, p
  <2>4. /\ proc'[x] = p /\ \A y \in Processes \ {x} : proc'[y] = proc[y]
        /\ proc' \in [Processes -> ProcSet]
    BY <2>1, <2>3, Running
  <2>5. ProcInv(x)'
    BY <1>1, <1>2, <2>1, <2>2, <2>3, <2>4, Running DEF ProcInv
  <2>6. ASSUME NEW y \in Processes \ {x} PROVE ProcInv(y)'
    <3>1. ProcInv(x) /\ ProcInv(y) /\ m \in 1 .. release
      BY <1>1, <1>2, Running DEF ProcInv
    <3>. QED
      BY <1>1, <2>1, <2>2, <2>4, <3>1 DEF ProcInv
  <2>. QED
    BY <1>1, <2>1, <2>2, <2>4, <2>5, <2>6 DEF DbInv
<1>. QED
  BY <1>3, <1>4

LEMMA MigratedDb == ASSUME DbInv, NEW x \in Processes, Migrated(x) PROVE DbInv'
<1>1. /\ proc[x].pc = "pending" /\ restore = Rest /\ writer # x /\ proc[x].todo = {}
      /\ UNCHANGED <<db, copy, release, writer, restore>>
  BY Running DEF Migrated, FilesStay, ProcInv
<1>2. CASE x = "control"
  <2> DEFINE p == [proc[x] EXCEPT !.pc = "up"]
  <2>1. p \in ProcSet /\ proc' = [proc EXCEPT ![x] = p] /\ p.pc = "up"
    BY <1>2, Running DEF Migrated, ProcSet
  <2> HIDE DEF p
  <2>2. proc'[x] = p
    BY <2>1, Running
  <2>3. ProcInv(x)'
    BY <1>1, <1>2, <2>1, <2>2, Running DEF ProcInv
  <2>. QED
    BY <1>1, <2>1, <2>3, ProcessMoves
<1>3. CASE x # "control"
  BY <1>1, <1>3, EndsDb DEF Migrated
<1>. QED
  BY <1>2, <1>3

LEMMA EndedDb == ASSUME DbInv, NEW x \in Processes, ProcessEnds(x) PROVE DbInv'
BY EndsDb DEF ProcessEnds

LEMMA WritesDb == ASSUME DbInv, Writes \/ Written PROVE DbInv'
<1>1. /\ UNCHANGED <<db, copy, proc, release, restore>> /\ proc["control"].pc = "up"
      /\ writer' \in {"control", None} /\ writer \in {"control", None}
  BY DEF Writes, Written, Up, FilesStay
<1>2. \A y \in Processes : ProcInv(y)'
  BY <1>1 DEF DbInv, ProcInv
<1>. QED
  BY <1>1, <1>2 DEF DbInv, Stopped

\* While everything is stopped, release and database are anything.
LEMMA StoppedDb ==
    ASSUME DbInv, Stopped, RanOnce(db'), RanOnce(copy'), release' \in 0 .. Newest,
           UNCHANGED <<proc, writer>>
    PROVE  DbInv'
<1>1. \A x \in Processes : proc'[x].pc = "off" /\ ProcInv(x) /\ proc[x].pc = "off"
  BY Running DEF Stopped
<1>2. \A x \in Processes : ProcInv(x)'
  BY <1>1 DEF ProcInv
<1>. QED
  BY <1>2 DEF DbInv, Stopped

LEMMA RestoringDb ==
    ASSUME DbInv, DbRemoved \/ DbCopied \/ RestoreCrashes
                  \/ (\E all \in BOOLEAN : RestoreBegins(all)) \/ \E r \in 0 .. Newest : Install(r)
    PROVE  DbInv'
<1>1. Rest.pc = "rest" /\ RanOnce(db) /\ RanOnce(copy) /\ release \in 0 .. Newest
  BY DEF Rest, DbInv
<1>2. Stopped /\ UNCHANGED <<proc, writer, copy>> /\ release' \in 0 .. Newest
  <2>1. CASE RestoreCrashes \/ \E all \in BOOLEAN : RestoreBegins(all)
    BY <1>1, <2>1 DEF DbInv, RestoreCrashes, RestoreBegins, DbStays
  <2>2. CASE DbRemoved \/ DbCopied
    BY <1>1, <2>2 DEF DbInv, DbRemoved, DbCopied
  <2>3. CASE \E r \in 0 .. Newest : Install(r)
    BY <1>1, <2>3 DEF Install, FilesStay
  <2>. QED
    BY <2>1, <2>2, <2>3
<1>3. RanOnce(db')
  <2>1. RanOnce([Fresh EXCEPT !.st = "torn"])
    BY FreshRan, SameRows
  <2>2. CASE RestoreCrashes
    BY <1>1, <2>1, <2>2, FreshRan DEF RestoreCrashes, DbStays
  <2>3. CASE \E all \in BOOLEAN : RestoreBegins(all)
    <3>1. db' = db
      BY <2>3 DEF RestoreBegins, DbStays
    <3>. QED
      BY <1>1, <3>1
  <2>4. CASE \E r \in 0 .. Newest : Install(r)
    BY <1>1, <2>4 DEF Install, DbStays
  <2>5. CASE DbRemoved
    <3>1. RanOnce([db EXCEPT !.st = None])
      BY <1>1, SameRows
    <3>. QED
      BY <2>5, <3>1 DEF DbRemoved
  <2>6. CASE DbCopied
    BY <1>1, <2>6 DEF DbCopied
  <2>. QED
    BY <2>2, <2>3, <2>4, <2>5, <2>6
<1>. QED
  BY <1>1, <1>2, <1>3, StoppedDb

LEMMA BackupDb == ASSUME DbInv, BackupBegins PROVE DbInv'
<1>1. /\ RanOnce(NoFile) /\ RanOnce([Fresh EXCEPT !.st = "torn"])
  BY FreshRan, SameRows DEF NoFile
<1>2. RanOnce(copy') /\ UNCHANGED <<db, proc, release, writer, restore>>
  BY <1>1 DEF BackupBegins, DbStays, DbInv
<1>. QED
  BY <1>2 DEF DbInv, ProcInv, Stopped

\* Steps that touch no database.
LEMMA FilesOnlyDb ==
    ASSUME DbInv, UNCHANGED <<db, copy, proc, release, writer>>,
           restore' # Rest => restore # Rest
    PROVE  DbInv'
BY DEF DbInv, ProcInv, Stopped

LEMMA NextDb == ASSUME DbInv, [DataNext]_dataVars PROVE DbInv'
<1>0. Rest.pc = "rest"
  BY DEF Rest
<1>1. ASSUME NEW x \in Processes,
             \/ Opens(x) \/ Verifies(x) \/ MigrationBegins(x) \/ MigrationCommits(x)
             \/ Migrated(x) \/ ProcessEnds(x)
      PROVE  DbInv'
  BY <1>1, OpensDb, VerifiesDb, BeginsDb, CommitsDb, MigratedDb, EndedDb
<1>2. CASE \/ Writes \/ Written \/ BackupBegins \/ DbRemoved \/ DbCopied \/ RestoreCrashes
           \/ (\E all \in BOOLEAN : RestoreBegins(all)) \/ \E r \in 0 .. Newest : Install(r)
  BY <1>2, WritesDb, BackupDb, RestoringDb
<1>3. CASE BackupTarred \/ BackupEnds \/ BackupCrashes \/ ProjectRenamed \/ RestoreEnds
  BY <1>0, <1>3, FilesOnlyDb DEF BackupTarred, BackupEnds, BackupCrashes, ProjectRenamed,
     RestoreEnds, DbStays
<1>4. ASSUME NEW h \in Homes,
             \/ StudentEdits(h) \/ BackupTars(h) \/ ProjectRemoved(h) \/ ProjectSkipped(h)
             \/ PanelBacksUp(h) \/ \E k \in Panels : PanelExtracts(k, h)
      PROVE  DbInv'
  BY <1>0, <1>4, FilesOnlyDb DEF StudentEdits, BackupTars, ProjectRemoved, ProjectSkipped,
     PanelBacksUp, PanelExtracts, PanelKeeps, DbStays
<1>5. ASSUME NEW k \in Panels, PanelRemoves(k) \/ PanelRenames(k) PROVE DbInv'
  BY <1>5, FilesOnlyDb DEF PanelRemoves, PanelRenames, PanelKeeps, DbStays
<1>6. CASE UNCHANGED dataVars
  BY <1>6, FilesOnlyDb DEF dataVars
<1>. QED
  BY <1>1, <1>2, <1>3, <1>4, <1>5, <1>6 DEF DataNext

-----------------------------------------------------------------------------
(* Projects and archives                                                   *)

LEMMA Values ==
    /\ Missing \in Contents /\ Torn \in Contents /\ Half \in Contents
    /\ Missing # Torn /\ Missing # Half /\ Torn # Half
    /\ \A v \in 0 .. MaxChanges : v \in Contents /\ v \notin {Missing, Torn, Half}
BY DataAssumption DEF Missing, Torn, Half, Contents, Versions

\* A restore finds everything stopped: no panel restores beside it.
LEMMA NoPanel ==
    ASSUME DataInv, restore # Rest
    PROVE  \A k \in Panels : panel[k] = Still
<1>1. ~ Up
  BY DEF DataInv, DbInv, Stopped, Off, Up
<1>. QED
  BY <1>1 DEF DataInv, FilesInv, PanelInv

\* A running control plane means that no restore script runs.
LEMMA UpIsAlone == ASSUME DataInv, Up PROVE restore = Rest
BY DEF DataInv, DbInv, Stopped, Off, Up

\* Nothing but processes moves.
LEMMA OnlyProcesses ==
    ASSUME FilesInv, UNCHANGED <<project, archive, changes, backup, restore, panel, cut>>,
           Up => Up'
    PROVE  FilesInv'
BY DEF FilesInv, PanelInv, HomeInv, Usable

LEMMA ProcessFiles ==
    ASSUME DataInv, NEW x \in Processes,
           \/ Opens(x) \/ Verifies(x) \/ MigrationBegins(x) \/ MigrationCommits(x) \/ Migrated(x)
    PROVE  FilesInv'
<1>1. /\ FilesInv /\ proc[x].pc # "up" /\ UNCHANGED <<project, archive, changes, backup, restore, panel, cut>>
  BY DEF DataInv, Opens, Verifies, MigrationBegins, MigrationCommits, Migrated, CountsStay,
     FilesStay
<1>2. \A y \in Processes \ {x} : proc'[y] = proc[y]
  BY DEF DataInv, DbInv, Opens, Verifies, MigrationBegins, MigrationCommits, Migrated, Ends
<1>3. Up => Up'
  BY <1>1, <1>2 DEF Up
<1>. QED
  BY <1>1, <1>3, OnlyProcesses

LEMMA OthersFiles ==
    ASSUME DataInv, Writes \/ Written \/ \E r \in 0 .. Newest : Install(r)
    PROVE  FilesInv'
BY OnlyProcesses DEF DataInv, Writes, Written, Install, FilesStay, CountsStay, Up

LEMMA EndedFiles == ASSUME DataInv, NEW x \in Processes, ProcessEnds(x) PROVE FilesInv'
<1>1. /\ FilesInv /\ UNCHANGED <<archive, backup, restore, changes>>
      /\ \A y \in Processes \ {x} : proc'[y] = proc[y]
  BY DEF ProcessEnds, Ends, DataInv, DbInv
<1>2. CASE x # "control"
  <2>1. Up => Up'
    BY <1>1, <1>2 DEF Up
  <2>2. UNCHANGED <<project, panel, cut>>
    BY <1>2 DEF ProcessEnds, FilesInv, DataInv
  <2>. QED
    BY <1>1, <2>1, <2>2, OnlyProcesses
<1>3. CASE x = "control"
  <2>1. \A k \in Panels : panel'[k] = Still
    BY <1>3 DEF ProcessEnds
  <2>5. cut' \in BOOLEAN /\ panel' \in [Panels -> PanelSet]
    BY <1>3, Places DEF ProcessEnds
  <2>2. \A k \in Panels : PanelInv(k)'
    BY <2>1 DEF PanelInv
  <2>3. project' \in [Homes -> Contents]
    BY <1>1, Values DEF ProcessEnds, Partly, FilesInv
  <2>4. ASSUME ~ cut' PROVE \A h \in Homes : HomeInv(h)'
    <3>1. ~ cut /\ \A k \in Panels : panel[k] = Still
      BY <1>3, <2>4 DEF ProcessEnds
    <3>2. UNCHANGED project
      BY <3>1, Places DEF ProcessEnds
    <3>3. \A h \in Homes : project[h] = Missing => restore.pc = "rename" /\ restore.home = h
      BY <1>1, <3>1, Places DEF FilesInv, HomeInv
    <3>. QED
      BY <1>1, <3>1, <3>2, <3>3 DEF FilesInv, HomeInv
  <2>. QED
    BY <1>1, <2>2, <2>3, <2>4, <2>5 DEF FilesInv, Usable
<1>. QED
  BY <1>2, <1>3

LEMMA EditsFiles == ASSUME DataInv, NEW h \in Homes, StudentEdits(h) PROVE FilesInv'
<1>1. /\ FilesInv /\ changes' \in 0 .. MaxChanges
      /\ project' = [project EXCEPT ![h] = changes']
      /\ UNCHANGED <<archive, backup, restore, panel, cut, proc>>
  BY DataAssumption DEF DataInv, FilesInv, StudentEdits, Change, DbStays
<1>2. project' \in [Homes -> Contents]
  BY <1>1, Values DEF FilesInv
<1>3. ~ cut' => \A g \in Homes : HomeInv(g)'
  BY <1>1, Values DEF FilesInv, HomeInv
<1>. QED
  BY <1>1, <1>2, <1>3 DEF FilesInv, PanelInv, Usable, Up

\* The archives change, while no restore script runs.
LEMMA OnlyArchives ==
    ASSUME DataInv, restore = Rest, UNCHANGED <<project, restore, panel, changes, cut, proc>>,
           archive' \in [Homes -> Contents],
           ~ cut => \A h \in Homes : archive'[h] # Half
    PROVE  FilesInv'
<1>1. restore' = Rest /\ restore'.pc # "rename"
  BY Places
<1>2. \A k \in Panels : PanelInv(k)'
  BY DEF DataInv, FilesInv, PanelInv, Up, Usable
<1>3. ~ cut' => \A h \in Homes : HomeInv(h)'
  BY <1>1 DEF DataInv, FilesInv, HomeInv
<1>. QED
  BY <1>1, <1>2, <1>3 DEF DataInv, FilesInv

LEMMA BackupFiles ==
    ASSUME DataInv,
           \/ BackupBegins \/ BackupTarred \/ BackupEnds \/ BackupCrashes
           \/ \E h \in Homes : BackupTars(h) \/ PanelBacksUp(h)
    PROVE  FilesInv'
<1>1. FilesInv /\ UNCHANGED <<project, restore, panel, changes, cut, proc>>
  BY DEF DataInv, BackupBegins, BackupTarred, BackupEnds, BackupCrashes, BackupTars,
     PanelBacksUp, DbStays, CountsStay
<1>2. restore = Rest
  BY <1>1, UpIsAlone, Places DEF FilesInv, BackupBegins, BackupTarred, BackupEnds,
     BackupCrashes, BackupTars, PanelBacksUp
<1>3. /\ archive' \in [Homes -> Contents]
      /\ ~ cut => \A h \in Homes : archive'[h] # Half
  <2>1. CASE BackupBegins
    BY <1>1, <2>1, Values DEF BackupBegins
  <2>2. CASE BackupTarred
    <3>1. CASE backup.home \in Homes
      <4> DEFINE c == IF project[backup.home] = Missing THEN Torn ELSE project[backup.home]
      <4>1. c \in Contents /\ (~ cut => c # Half)
        BY <1>1, <3>1, Values DEF FilesInv, HomeInv
      <4>2. archive' \in {archive, [archive EXCEPT ![backup.home] = c]}
        BY <2>2 DEF BackupTarred
      <4> HIDE DEF c
      <4>. QED
        BY <1>1, <4>1, <4>2 DEF FilesInv, HomeInv
    <3>2. CASE backup.home \notin Homes
      <4>1. archive' = archive
        BY <1>1, <2>2, <3>2 DEF BackupTarred, FilesInv
      <4>. QED
        BY <1>1, <4>1 DEF FilesInv, HomeInv
    <3>. QED
      BY <3>1, <3>2
  <2>3. CASE BackupEnds \/ BackupCrashes
    BY <1>1, <2>3 DEF BackupEnds, BackupCrashes, FilesInv, HomeInv
  <2>4. ASSUME NEW h \in Homes, BackupTars(h) \/ PanelBacksUp(h)
        PROVE  /\ archive' \in [Homes -> Contents]
               /\ ~ cut => \A g \in Homes : archive'[g] # Half
    <3>1. PICK c \in {Torn, project[h]} : archive' = [archive EXCEPT ![h] = c]
      BY <2>4 DEF BackupTars, PanelBacksUp
    <3>2. c \in Contents /\ (~ cut => c # Half)
      BY <1>1, Values DEF FilesInv, HomeInv
    <3>. QED
      BY <1>1, <3>1, <3>2 DEF FilesInv, HomeInv
  <2>. QED
    BY <2>1, <2>2, <2>3, <2>4
<1>. QED
  BY <1>1, <1>2, <1>3, OnlyArchives

\* A step of the restore script: it runs alone.
LEMMA RestoreMoves ==
    ASSUME DataInv, restore # Rest, UNCHANGED <<archive, backup, panel, changes>>,
           project' \in [Homes -> Contents], restore' \in RestoreSet, cut' \in BOOLEAN,
           restore'.pc = "rename" => restore'.home \in Homes /\ Usable(archive[restore'.home]),
           ~ cut' => ~ cut /\ \A h \in Homes :
               /\ project'[h] \notin {Torn, Half}
               /\ project'[h] = Missing => restore'.pc = "rename" /\ restore'.home = h
    PROVE  FilesInv'
<1>1. \A k \in Panels : panel'[k] = Still
  BY NoPanel
<1>. QED
  BY <1>1 DEF DataInv, FilesInv, PanelInv, HomeInv, Usable

LEMMA RestoreFiles ==
    ASSUME DataInv,
           \/ DbRemoved \/ DbCopied \/ ProjectRenamed \/ RestoreEnds \/ RestoreCrashes
           \/ \E h \in Homes : ProjectRemoved(h) \/ ProjectSkipped(h)
    PROVE  FilesInv'
<1>1. /\ restore # Rest /\ FilesInv /\ UNCHANGED <<archive, backup, panel, changes>>
  BY Places DEF DataInv, DbRemoved, DbCopied, ProjectRenamed, RestoreEnds, RestoreCrashes,
     ProjectRemoved, ProjectSkipped, CountsStay
<1>2. ~ cut => \A h \in Homes :
         /\ project[h] \notin {Torn, Half} /\ archive[h] # Half
         /\ project[h] = Missing => restore.pc = "rename" /\ restore.home = h
  BY <1>1, NoPanel, Places DEF FilesInv, HomeInv
<1>3. CASE DbRemoved \/ DbCopied \/ RestoreEnds \/ \E h \in Homes : ProjectSkipped(h)
  <2>1. /\ restore'.pc # "rename" /\ restore.pc # "rename" /\ UNCHANGED <<project, cut>>
        /\ restore' \in RestoreSet
    BY <1>1, <1>3, Places DEF DbRemoved, DbCopied, RestoreEnds, ProjectSkipped, FilesInv,
       RestoreSet
  <2>. QED
    BY <1>1, <1>2, <2>1, RestoreMoves DEF FilesInv
<1>4. CASE RestoreCrashes
  <2>1. /\ restore' \in RestoreSet /\ cut' \in BOOLEAN
        /\ restore'.pc # "rename" /\ (cut' <=> cut \/ restore.pc \in {"next", "rename"})
    BY <1>4, Places DEF RestoreCrashes
  <2>2. project' \in [Homes -> Contents]
    BY <1>1, <1>4, Values DEF RestoreCrashes, FilesInv, Partly
  <2>3. ~ cut' => UNCHANGED project
    BY <1>4, <2>1 DEF RestoreCrashes
  <2>. QED
    BY <1>1, <1>2, <2>1, <2>2, <2>3, RestoreMoves
<1>5. CASE ProjectRenamed
  <2>1. restore.home \in Homes /\ Usable(archive[restore.home]) /\ restore.pc = "rename"
    BY <1>1, <1>5 DEF ProjectRenamed, FilesInv
  <2>2. /\ project' = [project EXCEPT ![restore.home] = archive[restore.home]]
        /\ restore' = [restore EXCEPT !.pc = "next", !.home = NoHome] /\ cut' = cut
    BY <1>5, <2>1 DEF ProjectRenamed
  <2>5. restore' \in RestoreSet /\ restore'.pc # "rename"
    BY <1>1, <2>2 DEF FilesInv, RestoreSet
  <2>3. project' \in [Homes -> Contents]
    BY <1>1, <2>1, <2>2 DEF FilesInv
  <2>4. ~ cut' => \A h \in Homes : project'[h] \notin {Torn, Half, Missing}
    BY <1>1, <1>2, <2>1, <2>2 DEF FilesInv, Usable
  <2>. QED
    BY <1>1, <2>2, <2>3, <2>4, <2>5, RestoreMoves DEF FilesInv
<1>6. ASSUME NEW h \in Homes, ProjectRemoved(h) PROVE FilesInv'
  <2>1. /\ project' = [project EXCEPT ![h] = Missing] /\ cut' = cut /\ Usable(archive[h])
        /\ restore'.pc = "rename" /\ restore'.home = h /\ restore.pc # "rename"
        /\ restore' \in RestoreSet
    BY <1>1, <1>6 DEF ProjectRemoved, FilesInv, RestoreSet
  <2>2. project' \in [Homes -> Contents]
    BY <1>1, <2>1, Values DEF FilesInv
  <2>3. ~ cut' => \A g \in Homes :
           project'[g] \notin {Torn, Half} /\ (project'[g] = Missing => g = h)
    BY <1>1, <1>2, <2>1, Values DEF FilesInv
  <2>. QED
    BY <1>1, <2>1, <2>2, <2>3, RestoreMoves DEF FilesInv
<1>. QED
  BY <1>3, <1>4, <1>5, <1>6

LEMMA BeginsFiles == ASSUME DataInv, NEW all \in BOOLEAN, RestoreBegins(all) PROVE FilesInv'
<1>1. /\ FilesInv /\ UNCHANGED <<project, archive, backup, panel, changes, cut, proc>>
      /\ backup = Rest /\ restore = Rest /\ restore'.pc # "rename"
      /\ restore' \in RestoreSet
  BY DEF DataInv, RestoreBegins, DbStays, Rest, RestoreSet
<1>2. ~ cut' => \A h \in Homes : HomeInv(h)'
  BY <1>1, Places DEF FilesInv, HomeInv
<1>. QED
  BY <1>1, <1>2 DEF FilesInv, PanelInv, Up

\* A step of one restore of the panel, beside the others.
LEMMA PanelMoves ==
    ASSUME DataInv, Up, NEW k \in Panels, NEW q \in PanelSet,
           panel' = [panel EXCEPT ![k] = q],
           UNCHANGED <<archive, backup, restore, changes, cut, proc>>,
           project' \in [Homes -> Contents],
           q # Still => /\ q.pc \in {"extracted", "removed"} /\ q.home \in Homes
                        /\ Usable(q.ver) /\ (~ cut => q.ver # Half),
           ~ cut => \A h \in Homes :
               /\ project'[h] \notin {Torn, Half}
               /\ project'[h] = Missing =>
                     \/ q.pc = "removed" /\ q.home = h
                     \/ project[h] = Missing /\ ~ (panel[k].pc = "removed" /\ panel[k].home = h)
    PROVE  FilesInv'
<1>1. /\ FilesInv /\ restore = Rest /\ restore' = Rest /\ Up'
      /\ panel'[k] = q /\ \A j \in Panels \ {k} : panel'[j] = panel[j]
      /\ panel' \in [Panels -> PanelSet]
  BY UpIsAlone DEF DataInv, FilesInv, Up
<1>2. \A j \in Panels : PanelInv(j)'
  BY <1>1 DEF FilesInv, PanelInv, Usable
<1>3. ASSUME ~ cut, NEW h \in Homes PROVE HomeInv(h)'
  <2>1. project'[h] \notin {Torn, Half} /\ archive'[h] # Half
    BY <1>1, <1>3 DEF FilesInv, HomeInv
  <2>2. ASSUME project'[h] = Missing
        PROVE  \E j \in Panels : panel'[j].pc = "removed" /\ panel'[j].home = h
    <3>1. CASE q.pc = "removed" /\ q.home = h
      BY <1>1, <3>1
    <3>2. CASE project[h] = Missing /\ ~ (panel[k].pc = "removed" /\ panel[k].home = h)
      <4>1. PICK j \in Panels : panel[j].pc = "removed" /\ panel[j].home = h
        BY <1>1, <1>3, <3>2, Places DEF FilesInv, HomeInv
      <4>. QED
        BY <1>1, <3>2, <4>1
    <3>. QED
      BY <1>3, <2>2, <3>1, <3>2
  <2>. QED
    BY <2>1, <2>2 DEF HomeInv
<1>. QED
  BY <1>1, <1>2, <1>3, Places DEF FilesInv

LEMMA PanelFiles ==
    ASSUME DataInv, NEW k \in Panels,
           PanelRemoves(k) \/ PanelRenames(k) \/ \E h \in Homes : PanelExtracts(k, h)
    PROVE  FilesInv'
<1>1. /\ FilesInv /\ UNCHANGED <<archive, backup, restore, cut, proc>>
      /\ panel \in [Panels -> PanelSet] /\ panel[k] \in PanelSet
  BY DEF DataInv, FilesInv, PanelRemoves, PanelRenames, PanelExtracts, PanelKeeps, DbStays
<1>2. /\ project \in [Homes -> Contents]
      /\ ~ cut => \A h \in Homes : project[h] \notin {Torn, Half} /\ archive[h] # Half
  BY <1>1 DEF FilesInv, HomeInv
<1>3. CASE PanelRemoves(k)
  <2> DEFINE q == [panel[k] EXCEPT !.pc = "removed"]
  <2>1. panel[k] # Still /\ panel[k].pc = "extracted" /\ PanelInv(k) /\ changes' = changes
    BY <1>1, <1>3, Places DEF PanelRemoves, FilesInv, CountsStay
  <2>2. /\ q \in PanelSet /\ q.pc = "removed" /\ q.home = panel[k].home /\ q.ver = panel[k].ver
        /\ panel' = [panel EXCEPT ![k] = q]
        /\ project' = [project EXCEPT ![panel[k].home] = Missing]
    BY <1>1, <1>3 DEF PanelRemoves, PanelSet
  <2> HIDE DEF q
  <2>3. /\ project' \in [Homes -> Contents]
        /\ \A h \in Homes : project'[h] = IF h = panel[k].home THEN Missing ELSE project[h]
    BY <1>2, <2>2, Values
  <2>4. Up /\ Usable(q.ver) /\ q.home \in Homes /\ (~ cut => q.ver # Half)
    BY <2>1, <2>2 DEF PanelInv
  <2>5. ~ cut => \A h \in Homes :
          /\ project'[h] \notin {Torn, Half}
          /\ project'[h] = Missing => h = q.home \/ project[h] = Missing
    BY <1>2, <2>2, <2>3, Values
  <2>. QED
    BY <1>1, <2>1, <2>2, <2>3, <2>4, <2>5, PanelMoves
<1>4. CASE PanelRenames(k)
  <2>1. panel[k] # Still /\ panel[k].pc = "removed" /\ PanelInv(k) /\ changes' = changes
    BY <1>1, <1>4, Places DEF PanelRenames, FilesInv, CountsStay
  <2>2. /\ panel' = [panel EXCEPT ![k] = Still]
        /\ project' = [project EXCEPT ![panel[k].home] = IF @ = Missing THEN panel[k].ver ELSE @]
    BY <1>4 DEF PanelRenames
  <2>3. /\ project' \in [Homes -> Contents]
        /\ \A h \in Homes : project'[h] =
              IF h = panel[k].home /\ project[h] = Missing THEN panel[k].ver ELSE project[h]
    BY <1>1, <1>2, <2>2 DEF PanelSet
  <2>4. Up /\ panel[k].ver \notin {Missing, Torn} /\ (~ cut => panel[k].ver # Half)
    BY <2>1 DEF PanelInv, Usable
  <2>5. ~ cut => \A h \in Homes :
          /\ project'[h] \notin {Torn, Half}
          /\ project'[h] = Missing => project[h] = Missing /\ h # panel[k].home
    BY <1>2, <2>3, <2>4
  <2>. QED
    BY <1>1, <2>1, <2>2, <2>3, <2>4, <2>5, Places, PanelMoves
<1>5. ASSUME NEW h \in Homes, PanelExtracts(k, h) PROVE FilesInv'
  <2> DEFINE q == [pc |-> "extracted", home |-> h, ver |-> archive[h]]
  <2>1. /\ q \in PanelSet /\ q.pc = "extracted" /\ q.home = h /\ q.ver = archive[h]
        /\ panel' = [panel EXCEPT ![k] = q] /\ panel[k] = Still /\ Up
        /\ Usable(archive[h]) /\ UNCHANGED <<project, changes>>
    BY <1>1, <1>5 DEF PanelExtracts, PanelSet, FilesInv
  <2> HIDE DEF q
  <2>. QED
    BY <1>1, <1>2, <2>1, Places, PanelMoves
<1>. QED
  BY <1>3, <1>4, <1>5

LEMMA NextFiles == ASSUME DataInv, [DataNext]_dataVars PROVE FilesInv'
<1>1. CASE UNCHANGED dataVars
  BY <1>1, OnlyProcesses DEF DataInv, dataVars, Up
<1>2. CASE DataNext
  BY <1>2, ProcessFiles, EndedFiles, OthersFiles, EditsFiles, BackupFiles, RestoreFiles,
     BeginsFiles, PanelFiles DEF DataNext
<1>. QED
  BY <1>1, <1>2

LEMMA DataInvariance == DataSpec => []DataInv
<1>1. DataInv /\ [DataNext]_dataVars => DataInv'
  BY NextDb, NextFiles DEF DataInv
<1>. QED
  BY <1>1, DataStart, PTL DEF DataSpec

(* A boot that finds the database whole, migrates what is pending and only *)
(* then serves, a restore that replaces a project only by one unpacked     *)
(* beside it: nothing half done is served and no project is lost, for any  *)
(* number of homes, migrations, restores and crashes (migrations.ts,       *)
(* restore.ts, admin-routes.ts).                                           *)
THEOREM DataSurvivesAlways == DataSpec => []DataSurvives
<1>1. ASSUME DataInv PROVE ServesOnlyMigrated
  <2>1. /\ RanOnce(db) /\ ProcInv("control") /\ db.st \in {None, "torn", "whole", "mixed"}
    BY <1>1 DEF DataInv, DbInv, RanOnce, Database
  <2>. QED
    BY <2>1 DEF ServesOnlyMigrated, Up, ProcInv, RanOnce
<1>2. ASSUME DataInv PROVE ProjectsSurvive
  BY <1>2, Places DEF DataInv, FilesInv, HomeInv, ProjectsSurvive
<1>. QED
  BY <1>1, <1>2, DataInvariance, PTL DEF DataSurvives

-----------------------------------------------------------------------------
(***************************************************************************)
(* Deploy files.                                                           *)
(* For any finite number of requests at once.                              *)
(***************************************************************************)

Removing  == {"look", "open-to-remove", "check-to-remove", "remove"}
HasOpened == {"check-file", "truncate", "write", "write-on"}
Saving    == {"check-ancestor", "mkdir", "check-directory", "open"} \cup HasOpened

Body(w, n) == [k \in 1 .. n |-> w]

\* What a request may rely on while nobody has disturbed it.
UndisturbedInv(w) ==
    /\ at[w] = "open" => place = "project"
    /\ at[w] \in HasOpened => place = "project" /\ entries["project"] = handle[w]
    /\ at[w] = "write" => data[handle[w]] = <<>>
    /\ at[w] = "write-on" => data[handle[w]] = Body(w, 1)
    /\ at[w] = "ok" => IF body[w] = <<>> THEN Found = Absent
                       ELSE Found # Absent /\ place = "project" /\ data[Found] = body[w]

SaverInv(w) ==
    /\ at[w] \in Saving => body[w] \in {Body(w, 1), Body(w, 2)}
    /\ at[w] \in Removing => body[w] = <<>>
    /\ at[w] = "write-on" => body[w] = Body(w, 2)
    /\ at[w] \in HasOpened => handle[w] \in Inodes
    /\ at[w] \in HasOpened \ {"check-file"} => handle[w] # Foreign
    /\ ~ disturbed[w] => UndisturbedInv(w)

FileInv ==
    /\ place \in Dirs \cup {"missing"} /\ entries \in [Dirs -> Inodes \cup {Absent}]
    /\ data = [i \in Inodes |-> data[i]] /\ body = [w \in Savers |-> body[w]]
    /\ at \in [Savers -> Steps] /\ handle \in [Savers -> Inodes \cup {Absent}]
    /\ disturbed \in [Savers -> BOOLEAN]
    /\ entries["project"] # Foreign /\ data[Foreign] = Imported
    /\ \A w \in Savers : SaverInv(w)

LEMMA OneMore ==
    ASSUME NEW S, IsFiniteSet(S), NEW x, NEW k \in Nat, Cardinality(S) <= k
    PROVE  IsFiniteSet(S \cup {x}) /\ Cardinality(S \cup {x}) <= k + 1
<1>1. /\ IsFiniteSet(S \cup {x})
      /\ Cardinality(S \cup {x}) \in {Cardinality(S), Cardinality(S) + 1}
  BY FS_AddElement
<1>2. Cardinality(S) \in Nat
  BY FS_CardinalityType
<1>. QED
  BY <1>1, <1>2

\* There are more inodes than are in use, so a new one is one of them.
LEMMA NewIsFree == ASSUME FileInv PROVE New \in FreeInodes
<1> DEFINE n == Cardinality(Savers)
           H == {handle[w] : w \in Savers}
           Used == (H \cup {Foreign}) \cup {entries["project"]} \cup {entries["elsewhere"]}
<1>1. n \in Nat /\ IsFiniteSet(Savers)
  BY FilesAssumption, FS_CardinalityType
<1>2. IsFiniteSet(H) /\ Cardinality(H) <= n
  <2>1. [w \in Savers |-> handle[w]] \in Surjection(Savers, H)
    BY DEF Surjection
  <2>. QED
    BY <1>1, <2>1, FS_Surjection
<1> HIDE DEF H
<1>3. IsFiniteSet(Used) /\ Cardinality(Used) <= n + 3
  <2> HIDE DEF n
  <2> DEFINE A == H \cup {Foreign}
             B == A \cup {entries["project"]}
  <2>0. n + 1 \in Nat /\ (n + 1) + 1 \in Nat
    BY <1>1
  <2>1. IsFiniteSet(A) /\ Cardinality(A) <= n + 1
    BY <1>1, <1>2, OneMore
  <2> HIDE DEF A
  <2>2. IsFiniteSet(B) /\ Cardinality(B) <= (n + 1) + 1
    BY <2>0, <2>1, OneMore
  <2> HIDE DEF B
  <2> DEFINE C == B \cup {entries["elsewhere"]}
  <2>3. IsFiniteSet(C) /\ Cardinality(C) <= ((n + 1) + 1) + 1
    BY <2>0, <2>2, OneMore
  <2>4. C = Used
    BY DEF A, B
  <2> HIDE DEF C, Used
  <2>. QED
    BY <1>1, <2>3, <2>4
<1>4. FreeInodes # {}
  <2> SUFFICES ASSUME FreeInodes = {} PROVE FALSE
    OBVIOUS
  <2>1. Inodes \in SUBSET Used
    BY DEF FreeInodes, Linked, Dirs, H
  <2> HIDE DEF Used
  <2>2. Cardinality(Inodes) <= Cardinality(Used)
    BY <1>3, <2>1, FS_Subset
  <2>3. Cardinality(Inodes) = n + 4
    <3>1. 1 \in Int /\ n + 4 \in Int /\ ~ (1 > n + 4) /\ (n + 4) - 1 + 1 = n + 4
      BY <1>1
    <3>. QED
      BY <3>1, FS_Interval DEF Inodes
  <2>4. Cardinality(Used) \in Nat
    BY <1>3, FS_CardinalityType
  <2>. QED
    BY <1>1, <1>3, <2>2, <2>3, <2>4
<1>5. FreeInodes \in SUBSET Nat
  BY <1>1 DEF FreeInodes, Inodes
<1>. QED
  BY <1>4, <1>5, Least DEF New

LEMMA ForeignIsFile == Foreign \in Inodes /\ Foreign # Absent /\ Absent \notin Inodes /\ 1 \in Inodes
<1>1. Cardinality(Savers) \in Nat
  BY FilesAssumption, FS_CardinalityType
<1>. QED
  BY <1>1 DEF Foreign, Absent, Inodes

\* Bodies: what is written piece by piece.
LEMMA Bodies ==
    ASSUME NEW w
    PROVE  /\ Body(w, 1) # <<>> /\ Body(w, 2) # <<>> /\ Body(w, 1) # Body(w, 2)
           /\ Len(Body(w, 1)) = 1 /\ Len(Body(w, 2)) = 2
           /\ Body(w, 1)[1] = w /\ Body(w, 2)[1] = w /\ Body(w, 2)[2] = w
           /\ Over(<<>>, 1, w) = Body(w, 1) /\ Over(Body(w, 1), 2, w) = Body(w, 2)
<1>1. Body(w, 1) \in Seq({w}) /\ Body(w, 2) \in Seq({w})
  BY DEF Body
<1>2. Len(Body(w, 1)) = 1 /\ Len(Body(w, 2)) = 2
  BY <1>1 DEF Body
<1>3. Body(w, 1)[1] = w /\ Body(w, 2)[1] = w /\ Body(w, 2)[2] = w
  BY DEF Body
<1>4. Over(<<>>, 1, w) = Body(w, 1)
  BY DEF Over, Body
<1>5. Over(Body(w, 1), 2, w) = Body(w, 2)
  BY <1>2, <1>3 DEF Over, Body
<1>. QED
  BY <1>1, <1>2, <1>3, <1>4, <1>5

USE DEF Removing, HasOpened, Saving

LEMMA FileStart == FileInit => FileInv
<1> SUFFICES ASSUME FileInit PROVE FileInv
  OBVIOUS
<1>1. /\ place = "project" /\ entries = [project |-> 1, elsewhere |-> Foreign]
      /\ data = [i \in Inodes |-> IF i <= Foreign THEN Imported ELSE <<>>]
      /\ at = [w \in Savers |-> "idle"] /\ body = [w \in Savers |-> <<>>]
      /\ handle = [w \in Savers |-> Absent] /\ disturbed = [w \in Savers |-> FALSE]
  BY DEF FileInit
<1>2. entries \in [Dirs -> Inodes \cup {Absent}] /\ entries["project"] # Foreign
  BY <1>1, ForeignIsFile DEF Dirs, Foreign
<1>3. data = [i \in Inodes |-> data[i]] /\ data[Foreign] = Imported
  BY <1>1, ForeignIsFile DEF Foreign
<1>4. \A w \in Savers : SaverInv(w)
  BY <1>1 DEF SaverInv, UndisturbedInv
<1>5. /\ body = [w \in Savers |-> body[w]] /\ at \in [Savers -> Steps]
      /\ handle \in [Savers -> Inodes \cup {Absent}] /\ disturbed \in [Savers -> BOOLEAN]
  BY <1>1 DEF Steps, Ended
<1>. QED
  BY <1>1, <1>2, <1>3, <1>4, <1>5 DEF FileInv, Dirs

\* What is left to a request that does not move: it is disturbed, or the file
\* and the way to it are as they were.
SeesNothing ==
    /\ place = "project" => /\ place' = "project" /\ entries'["project"] = entries["project"]
                            /\ entries["project"] # Absent =>
                                  data'[entries["project"]] = data[entries["project"]]
    /\ Found = Absent => Found' = Absent
LEMMA RequestWaits ==
    ASSUME FileInv, NEW v \in Savers,
           at'[v] = at[v] /\ body'[v] = body[v] /\ handle'[v] = handle[v],
           disturbed[v] => disturbed'[v],
           disturbed'[v] \/ SeesNothing
    PROVE  SaverInv(v)'
<1>1. SaverInv(v) /\ handle[v] \in Inodes \cup {Absent}
  BY DEF FileInv
<1>2. ~ disturbed'[v] => UndisturbedInv(v)'
  <2> SUFFICES ASSUME ~ disturbed'[v] PROVE UndisturbedInv(v)'
    OBVIOUS
  <2>1. UndisturbedInv(v) /\ SeesNothing
    BY <1>1 DEF SaverInv
  <2>2. at[v] \in HasOpened => data'[handle[v]] = data[handle[v]]
    BY <1>1, <2>1, ForeignIsFile DEF SeesNothing, UndisturbedInv, SaverInv
  <2>3. place = "project" => Found = entries["project"] /\ Found' = entries'["project"]
    BY <2>1 DEF Found, SeesNothing
  <2>. QED
    BY <2>1, <2>2, <2>3 DEF SeesNothing, UndisturbedInv
<1>. QED
  BY <1>1, <1>2 DEF SaverInv

\* A request moves.
LEMMA RequestMoves ==
    ASSUME FileInv, NEW w \in Savers, NEW step \in Steps, NEW h \in Inodes \cup {Absent},
           at' = [at EXCEPT ![w] = step], handle' = [handle EXCEPT ![w] = h],
           UNCHANGED body,
           place' \in Dirs \cup {"missing"}, entries' \in [Dirs -> Inodes \cup {Absent}],
           entries'["project"] # Foreign, data'[Foreign] = Imported,
           data' = [i \in Inodes |-> data'[i]],
           \/ SeesNothing /\ disturbed' = disturbed
           \/ Disturbs(OtherSavers(w)),
           SaverInv(w)'
    PROVE  FileInv'
<1>1. /\ at' \in [Savers -> Steps] /\ handle' \in [Savers -> Inodes \cup {Absent}]
      /\ disturbed' \in [Savers -> BOOLEAN]
  BY DEF FileInv, Disturbs
<1>2. ASSUME NEW v \in Savers \ {w} PROVE SaverInv(v)'
  <2>1. at'[v] = at[v] /\ handle'[v] = handle[v] /\ body'[v] = body[v]
    BY DEF FileInv
  <2>2. (disturbed[v] => disturbed'[v]) /\ (disturbed'[v] \/ SeesNothing)
    BY DEF Disturbs, OtherSavers
  <2>. QED
    BY <2>1, <2>2, RequestWaits
<1>. QED
  BY <1>1, <1>2 DEF FileInv

LEMMA ActorIs ==
    ASSUME FileInv, NEW w \in Savers, NEW step, NEW h,
           at' = [at EXCEPT ![w] = step], handle' = [handle EXCEPT ![w] = h],
           UNCHANGED body, disturbed' = disturbed \/ Disturbs(OtherSavers(w))
    PROVE  /\ at'[w] = step /\ handle'[w] = h /\ body'[w] = body[w]
           /\ disturbed'[w] <=> disturbed[w]
BY DEF FileInv, Disturbs, OtherSavers

LEMMA HandleStays ==
    ASSUME FileInv, NEW w \in Savers
    PROVE  /\ handle = [handle EXCEPT ![w] = handle[w]] /\ handle[w] \in Inodes \cup {Absent}
           /\ SaverInv(w) /\ Found \in Inodes \cup {Absent} /\ Absent \in Inodes \cup {Absent}
BY DEF FileInv, Found

\* A step that only looks.
LEMMA Looking ==
    ASSUME FileInv, NEW w \in Savers, NEW step \in Steps, NEW h \in Inodes \cup {Absent},
           at' = [at EXCEPT ![w] = step], handle' = [handle EXCEPT ![w] = h],
           UNCHANGED <<body, place, entries, data, disturbed>>,
           step \in Saving => body[w] \in {Body(w, 1), Body(w, 2)},
           step \in Removing => body[w] = <<>>,
           step \notin {"ok", "write", "write-on", "check-file"},
           step = "truncate" => /\ h \in Inodes /\ h # Foreign
                                /\ ~ disturbed[w] => place = "project" /\ entries["project"] = h,
           step = "open" => place = "project"
    PROVE  FileInv'
<1>1. SaverInv(w)'
  <2>1. /\ at'[w] = step /\ handle'[w] = h /\ body'[w] = body[w]
        /\ disturbed'[w] <=> disturbed[w]
    BY ActorIs
  <2>2. at'[w] = "open" => place' = "project"
    BY <2>1
  <2>3. ~ disturbed'[w] => UndisturbedInv(w)'
    BY <2>1, <2>2 DEF UndisturbedInv, HasOpened
  <2>. QED
    BY <2>1, <2>3 DEF SaverInv
<1>2. SeesNothing
  BY DEF SeesNothing, Found
<1>. QED
  BY <1>1, <1>2, RequestMoves DEF FileInv

LEMMA LooksKeep ==
    ASSUME FileInv, NEW w \in Savers, UNCHANGED body,
           \/ ChecksAncestor(w) \/ ChecksDirectory(w) \/ ChecksFile(w)
           \/ Looks(w) \/ OpensToRemove(w) \/ ChecksToRemove(w)
    PROVE  FileInv'
<1> USE DEF Goes, EndsRequest, Steps, Ended
<1>1. CASE ChecksAncestor(w)
  <2>1. body[w] \in {Body(w, 1), Body(w, 2)}
    BY <1>1, HandleStays DEF ChecksAncestor, SaverInv
  <2>. QED
    BY <1>1, <2>1, HandleStays, Looking DEF ChecksAncestor
<1>2. CASE ChecksDirectory(w)
  <2>1. body[w] \in {Body(w, 1), Body(w, 2)}
    BY <1>2, HandleStays DEF ChecksDirectory, SaverInv
  <2>. QED
    BY <1>2, <2>1, HandleStays, Looking DEF ChecksDirectory
<1>3. CASE ChecksFile(w)
  <2>1. /\ body[w] \in {Body(w, 1), Body(w, 2)} /\ handle[w] \in Inodes
        /\ ~ disturbed[w] => place = "project" /\ entries["project"] = handle[w]
        /\ entries["project"] # Foreign
    BY <1>3, HandleStays DEF ChecksFile, SaverInv, UndisturbedInv, FileInv
  <2>2. CASE entries["project"] = handle[w]
    <3>1. at' = [at EXCEPT ![w] = "truncate"] /\ UNCHANGED <<handle, place, entries, data, disturbed>>
      BY <1>3, <2>2 DEF ChecksFile
    <3>. QED
      BY <2>1, <2>2, <3>1, HandleStays, Looking
  <2>3. CASE entries["project"] # handle[w]
    <3>1. /\ at' = [at EXCEPT ![w] = "refused"] /\ handle' = [handle EXCEPT ![w] = Absent]
          /\ UNCHANGED <<place, entries, data, disturbed>>
      BY <1>3, <2>3 DEF ChecksFile
    <3>. QED
      BY <3>1, HandleStays, Looking DEF Saving, Removing, HasOpened
  <2>. QED
    BY <2>2, <2>3
<1>4. CASE Looks(w)
  <2>1. body[w] = <<>>
    BY <1>4, HandleStays DEF Looks, SaverInv
  <2>. QED
    BY <1>4, <2>1, HandleStays, Looking DEF Looks
<1>5. CASE OpensToRemove(w)
  <2>1. body[w] = <<>>
    BY <1>5, HandleStays DEF OpensToRemove, SaverInv
  <2>. QED
    BY <1>5, <2>1, HandleStays, Looking DEF OpensToRemove
<1>6. CASE ChecksToRemove(w)
  <2>1. body[w] = <<>>
    BY <1>6, HandleStays DEF ChecksToRemove, SaverInv
  <2>. QED
    BY <1>6, <2>1, HandleStays, Looking DEF ChecksToRemove
<1>. QED
  BY <1>1, <1>2, <1>3, <1>4, <1>5, <1>6

LEMMA MkdirsKeeps ==
    ASSUME FileInv, NEW w \in Savers, UNCHANGED body, Mkdirs(w)
    PROVE  FileInv'
<1>1. /\ at' = [at EXCEPT ![w] = "check-directory"] /\ handle' = [handle EXCEPT ![w] = handle[w]]
      /\ UNCHANGED <<data, disturbed>> /\ at[w] = "mkdir" /\ "check-directory" \in Steps
  BY HandleStays DEF Mkdirs, Goes, Steps
<1>2. /\ place' \in Dirs \cup {"missing"} /\ entries' \in [Dirs -> Inodes \cup {Absent}]
      /\ entries'["project"] # Foreign /\ SeesNothing
  BY ForeignIsFile DEF Mkdirs, FileInv, Dirs, SeesNothing, Found
<1>3. SaverInv(w)'
  <2>1. at'[w] = "check-directory" /\ handle'[w] = handle[w] /\ body'[w] = body[w]
    BY <1>1, HandleStays, ActorIs
  <2>2. body[w] \in {Body(w, 1), Body(w, 2)}
    BY <1>1, HandleStays DEF SaverInv, Saving
  <2>. QED
    BY <2>1, <2>2 DEF SaverInv, UndisturbedInv, HasOpened, Saving, Removing
<1>. QED
  BY <1>1, <1>2, <1>3, HandleStays, RequestMoves DEF FileInv

LEMMA OpensKeeps ==
    ASSUME FileInv, NEW w \in Savers, UNCHANGED body, OpensFile(w)
    PROVE  FileInv'
<1> USE DEF Goes, EndsRequest
<1>1. at[w] = "open" /\ UNCHANGED <<place, body>> /\ body[w] \in {Body(w, 1), Body(w, 2)}
  BY HandleStays DEF OpensFile, SaverInv
<1>2. CASE place = "missing"
  <2>1. "failed" \in Steps
    BY DEF Steps, Ended
  <2>. QED
    BY <1>1, <1>2, <2>1, HandleStays, Looking DEF OpensFile
<1>3. CASE place # "missing"
  <2> DEFINE i == IF Found = Absent THEN New ELSE Found
  <2>1. /\ OpensAsItIs(i) /\ entries' = [entries EXCEPT ![place] = i]
        /\ handle' = [handle EXCEPT ![w] = i] /\ at' = [at EXCEPT ![w] = "check-file"]
        /\ Disturbs(IF Found = Absent THEN OtherSavers(w) ELSE {})
    BY <1>3 DEF OpensFile
  <2>2. place \in Dirs /\ Found = entries[place] /\ Found \in Inodes \cup {Absent}
    BY <1>3, HandleStays DEF FileInv, Found
  <2>3. /\ i \in Inodes /\ (Found = Absent => i # Foreign /\ ~ Linked(i))
        /\ Found # Absent => i = Found /\ Linked(i)
    BY <2>2, NewIsFree DEF FreeInodes, Linked
  <2> HIDE DEF i
  <2>4. /\ entries' \in [Dirs -> Inodes \cup {Absent}] /\ entries'["project"] # Foreign
        /\ entries'[place] = i
    BY <2>1, <2>2, <2>3 DEF FileInv, Dirs
  <2>5. /\ data' = [j \in Inodes |-> data'[j]] /\ data'[Foreign] = Imported
    BY <2>1, <2>2, <2>3, ForeignIsFile DEF FileInv, OpensAsItIs
  <2>6. CASE Found = Absent
    <3>1. /\ Disturbs(OtherSavers(w)) /\ "check-file" \in Steps
      BY <2>1, <2>6 DEF Steps
    <3>2. SaverInv(w)'
      <4>1. at'[w] = "check-file" /\ handle'[w] = i /\ body'[w] = body[w]
            /\ (disturbed'[w] <=> disturbed[w])
        BY <1>1, <2>1, <3>1, ActorIs
      <4>2. ~ disturbed[w] => place = "project"
        BY <1>1, HandleStays DEF SaverInv, UndisturbedInv
      <4>. QED
        BY <1>1, <2>3, <2>4, <4>1, <4>2 DEF SaverInv, UndisturbedInv
    <3>. QED
      BY <1>1, <2>1, <2>2, <2>3, <2>4, <2>5, <3>1, <3>2, RequestMoves DEF FileInv
  <2>7. CASE Found # Absent
    <3>1. disturbed' = disturbed /\ "check-file" \in Steps
      BY <2>1, <2>7 DEF Steps, Disturbs, FileInv
    <3>3. UNCHANGED <<entries, data>>
      BY <2>1, <2>2, <2>3, <2>7 DEF OpensAsItIs, FileInv
    <3>4. SeesNothing
      BY <1>1, <3>3 DEF SeesNothing, Found
    <3>2. SaverInv(w)'
      <4>1. at'[w] = "check-file" /\ handle'[w] = i /\ body'[w] = body[w]
            /\ (disturbed'[w] <=> disturbed[w])
        BY <1>1, <2>1, <3>1, ActorIs
      <4>2. ~ disturbed[w] => place = "project"
        BY <1>1, HandleStays DEF SaverInv, UndisturbedInv
      <4>. QED
        BY <1>1, <2>3, <2>4, <4>1, <4>2 DEF SaverInv, UndisturbedInv
    <3>. QED
      BY <1>1, <2>1, <2>2, <2>3, <2>4, <2>5, <3>1, <3>2, <3>4, RequestMoves DEF FileInv
  <2>. QED
    BY <2>6, <2>7
<1>. QED
  BY <1>2, <1>3

\* A step that writes the file the request has open.
LEMMA Writing ==
    ASSUME FileInv, NEW w \in Savers, NEW d, NEW step \in Steps, NEW h \in {handle[w], Absent},
           at[w] \in HasOpened \ {"check-file"},
           data' = [data EXCEPT ![handle[w]] = d],
           at' = [at EXCEPT ![w] = step], handle' = [handle EXCEPT ![w] = h],
           Disturbs(OtherSavers(w)), UNCHANGED <<place, entries, body>>,
           \/ step = "write" /\ d = <<>> /\ h = handle[w]
           \/ /\ step = "write-on" /\ body[w] = Body(w, 2) /\ h = handle[w]
              /\ ~ disturbed[w] => d = Body(w, 1)
           \/ step = "ok" /\ (~ disturbed[w] => d = body[w])
    PROVE  FileInv'
<1>1. /\ handle[w] \in Inodes /\ handle[w] # Foreign /\ body[w] \in {Body(w, 1), Body(w, 2)}
      /\ ~ disturbed[w] => place = "project" /\ entries["project"] = handle[w]
  BY HandleStays DEF SaverInv, UndisturbedInv
<1>2. data' = [i \in Inodes |-> data'[i]] /\ data'[Foreign] = Imported /\ data'[handle[w]] = d
  BY <1>1, ForeignIsFile DEF FileInv
<1>3. /\ at'[w] = step /\ handle'[w] = h /\ body'[w] = body[w]
      /\ disturbed'[w] <=> disturbed[w]
  BY ActorIs
<1>4. body[w] # <<>>
  BY <1>1, Bodies
<1>5. ~ disturbed'[w] => UndisturbedInv(w)'
  BY <1>1, <1>2, <1>3, <1>4, ForeignIsFile DEF UndisturbedInv, Found
<1>6. SaverInv(w)'
  BY <1>1, <1>3, <1>5 DEF SaverInv
<1>. QED
  BY <1>1, <1>2, <1>6, HandleStays, RequestMoves DEF FileInv

LEMMA WritesKeep ==
    ASSUME FileInv, NEW w \in Savers, UNCHANGED body, Truncates(w) \/ WritesPiece(w)
    PROVE  FileInv'
<1> USE DEF Goes, EndsRequest
<1>0. {"write", "write-on", "ok"} \subseteq Steps
  BY DEF Steps, Ended
<1>1. CASE Truncates(w)
  BY <1>0, <1>1, HandleStays, Writing DEF Truncates, Emptied
<1>2. CASE WritesPiece(w)
  <2> DEFINE n == IF at[w] = "write" THEN 1 ELSE 2
             d == Over(data[handle[w]], n, body[w][n])
  <2>1. /\ at[w] \in {"write", "write-on"} /\ body[w] \in {Body(w, 1), Body(w, 2)}
        /\ at[w] = "write-on" => body[w] = Body(w, 2)
        /\ ~ disturbed[w] => data[handle[w]] = IF at[w] = "write" THEN <<>> ELSE Body(w, 1)
    BY <1>2, HandleStays DEF WritesPiece, SaverInv, UndisturbedInv
  <2>2. handle[w] \in Inodes
    BY <2>1, HandleStays DEF SaverInv
  <2>3. data' = [data EXCEPT ![handle[w]] = d]
    BY <1>2, <2>2 DEF WritesPiece, FileInv
  <2>4. body[w][n] = w /\ Len(body[w]) \in {1, 2} /\ (Len(body[w]) = 2 <=> body[w] = Body(w, 2))
    BY <2>1, Bodies
  <2>5. ~ disturbed[w] => d = IF at[w] = "write" THEN Body(w, 1) ELSE Body(w, 2)
    BY <2>1, <2>4, Bodies
  <2> HIDE DEF d
  <2>6. CASE n < Len(body[w])
    <3>1. at[w] = "write" /\ body[w] = Body(w, 2)
      <4>1. CASE at[w] = "write"
        <5>1. n = 1
          BY <4>1
        <5>2. Len(body[w]) = 2
          <6> DEFINE l == Len(body[w])
          <6>1. l \in {1, 2} /\ 1 < l
            BY <2>4, <2>6, <5>1
          <6> HIDE DEF l
          <6>2. l = 2
            BY <6>1
          <6>. QED
            BY <6>2 DEF l
        <5>. QED
          BY <2>4, <4>1, <5>2
      <4>2. CASE at[w] = "write-on"
        <5>1. n = 2 /\ Len(body[w]) = 2
          BY <2>1, <2>4, <4>2
        <5>. QED
          BY <2>6, <5>1
      <4>. QED
        BY <2>1, <4>1, <4>2
    <3>. QED
      BY <1>0, <1>2, <2>1, <2>3, <2>5, <2>6, <3>1, HandleStays, Writing DEF WritesPiece
  <2>7. CASE ~ (n < Len(body[w]))
    <3>1. at[w] = "write" => body[w] = Body(w, 1)
      BY <2>1, <2>4, <2>7
    <3>2. ~ disturbed[w] => d = body[w]
      BY <2>1, <2>5, <3>1
    <3>. QED
      BY <1>0, <1>2, <2>1, <2>3, <2>7, <3>2, HandleStays, Writing DEF WritesPiece
  <2>. QED
    BY <2>6, <2>7
<1>. QED
  BY <1>1, <1>2

LEMMA RemovesKeep ==
    ASSUME FileInv, NEW w \in Savers, UNCHANGED body, Removes(w)
    PROVE  FileInv'
<1> USE DEF Goes
<1>1. /\ at[w] = "remove" /\ body[w] = <<>> /\ UNCHANGED <<place, data>>
      /\ handle' = [handle EXCEPT ![w] = handle[w]] /\ {"ok", "failed"} \subseteq Steps
  BY HandleStays DEF Removes, SaverInv, Steps, Ended
<1>2. CASE Found = Absent
  BY <1>1, <1>2, HandleStays, Looking DEF Removes
<1>3. CASE Found # Absent
  <2>1. /\ at' = [at EXCEPT ![w] = "ok"] /\ Disturbs(OtherSavers(w)) /\ place \in Dirs
        /\ entries' = [entries EXCEPT ![place] = Absent]
    BY <1>3 DEF Removes, FileInv, Found
  <2>2. /\ entries' \in [Dirs -> Inodes \cup {Absent}] /\ entries'["project"] # Foreign
        /\ Found' = Absent
    BY <1>1, <2>1, ForeignIsFile DEF FileInv, Found, Dirs
  <2>3. SaverInv(w)'
    BY <1>1, <2>1, <2>2, ActorIs DEF SaverInv, UndisturbedInv
  <2>. QED
    BY <1>1, <2>1, <2>2, <2>3, HandleStays, RequestMoves DEF FileInv
<1>. QED
  BY <1>2, <1>3

LEMMA MakesKeeps ==
    ASSUME FileInv, NEW w \in Savers, MakesRequest(w)
    PROVE  FileInv'
<1>1. /\ UNCHANGED <<place, entries, data, handle>>
      /\ disturbed' = [disturbed EXCEPT ![w] = FALSE]
  BY DEF MakesRequest
<1>2. PICK step \in {"check-ancestor", "look"}, b \in {<<>>, Body(w, 1), Body(w, 2)} :
        /\ at' = [at EXCEPT ![w] = step] /\ body' = [body EXCEPT ![w] = b]
        /\ step = "look" <=> b = <<>>
  <2>1. CASE at' = [at EXCEPT ![w] = "look"] /\ body' = [body EXCEPT ![w] = <<>>]
    BY <2>1
  <2>2. ASSUME NEW size \in 1 .. 2, at' = [at EXCEPT ![w] = "check-ancestor"],
               body' = [body EXCEPT ![w] = [k \in 1 .. size |-> w]]
        PROVE  \E b \in {Body(w, 1), Body(w, 2)} : body' = [body EXCEPT ![w] = b] /\ b # <<>>
    <3>1. size = 1 \/ size = 2
      OBVIOUS
    <3>. QED
      BY <2>2, <3>1, Bodies DEF Body
  <2>. QED
    BY <2>1, <2>2 DEF MakesRequest, Goes
<1>3. /\ at'[w] = step /\ body'[w] = b
      /\ \A v \in Savers \ {w} : at'[v] = at[v] /\ body'[v] = body[v] /\ disturbed'[v] = disturbed[v]
      /\ at' \in [Savers -> Steps] /\ body' = [v \in Savers |-> body'[v]]
      /\ disturbed' \in [Savers -> BOOLEAN]
  BY <1>1, <1>2 DEF FileInv, Steps
<1>4. SaverInv(w)'
  BY <1>2, <1>3 DEF SaverInv, UndisturbedInv
<1>5. SeesNothing
  BY <1>1 DEF SeesNothing, Found
<1>6. \A v \in Savers \ {w} : SaverInv(v)'
  BY <1>1, <1>3, <1>5, RequestWaits
<1>. QED
  BY <1>1, <1>3, <1>4, <1>6 DEF FileInv

LEMMA EditsKeep ==
    ASSUME FileInv, ImportEmpties \/ (\E has \in BOOLEAN : ImportCopies(has)) \/ StudentLinks
    PROVE  FileInv'
<1>1. UNCHANGED <<at, body, handle>> /\ Disturbs(Savers)
  BY DEF ImportEmpties, ImportCopies, StudentLinks, EditOnly
<1>2. disturbed' \in [Savers -> BOOLEAN] /\ \A w \in Savers : disturbed'[w]
  BY <1>1 DEF Disturbs, FileInv
<1>3. \A w \in Savers : SaverInv(w)'
  BY <1>1, <1>2, RequestWaits DEF FileInv
<1>4. /\ place' \in Dirs \cup {"missing"} /\ entries' \in [Dirs -> Inodes \cup {Absent}]
      /\ data' = [i \in Inodes |-> data'[i]]
      /\ entries'["project"] # Foreign /\ data'[Foreign] = Imported
  <2>1. CASE ImportEmpties
    BY <2>1, ForeignIsFile DEF ImportEmpties, FileInv, Dirs
  <2>2. CASE StudentLinks
    BY <2>2 DEF StudentLinks, FileInv, Dirs
  <2>3. ASSUME NEW has \in BOOLEAN, ImportCopies(has) PROVE /\ place' \in Dirs \cup {"missing"} /\ entries' \in [Dirs -> Inodes \cup {Absent}]
              /\ data' = [i \in Inodes |-> data'[i]]
              /\ entries'["project"] # Foreign /\ data'[Foreign] = Imported
    <3>1. CASE ~ has
      BY <2>3, <3>1 DEF ImportCopies, FileInv, Dirs
    <3>2. CASE has
      <4>1. PICK i \in Inodes \ {Foreign} : /\ entries' = [entries EXCEPT !["project"] = i]
                                          /\ data' = [data EXCEPT ![i] = Imported]
        BY <2>3, <3>2, NewIsFree DEF ImportCopies, FileInv, FreeInodes, Dirs
      <4>. QED
        BY <2>3, <4>1, ForeignIsFile DEF ImportCopies, FileInv, Dirs
    <3>. QED
      BY <3>1, <3>2
  <2>. QED
    BY <2>1, <2>2, <2>3
<1>. QED
  BY <1>1, <1>2, <1>3, <1>4 DEF FileInv

LEMMA FilesInvariance == FileSpec => []FileInv
<1>1. ASSUME FileInv, FileNext PROVE FileInv'
  <2>1. ASSUME NEW w \in Savers, RequestGoesOn(w) PROVE FileInv'
    BY <1>1, <2>1, LooksKeep, MkdirsKeeps, OpensKeeps, WritesKeep, RemovesKeep DEF RequestGoesOn
  <2>. QED
    BY <1>1, <2>1, MakesKeeps, EditsKeep DEF FileNext
<1>2. ASSUME FileInv, UNCHANGED fileVars PROVE FileInv'
  <2>1. UNCHANGED <<place, entries, data, at, body, handle, disturbed>>
    BY <1>2 DEF fileVars
  <2>2. SeesNothing
    BY <2>1 DEF SeesNothing, Found
  <2>3. \A w \in Savers : SaverInv(w)'
    BY <1>2, <2>1, <2>2, RequestWaits
  <2>. QED
    BY <1>2, <2>1, <2>3 DEF FileInv
<1>. QED
  BY <1>1, <1>2, FileStart, PTL DEF FileSpec

(* A save that was told ok, and that nobody disturbed, is what the path    *)
(* leads to, whole; a file outside the project is never written, wherever  *)
(* a link led in between (deploy-files.ts).                                *)
THEOREM SavesAreWhole == FileSpec => []SavedIsWhole
<1>1. ASSUME FileInv PROVE SavedIsWhole
  BY <1>1 DEF FileInv, SaverInv, UndisturbedInv, SavedIsWhole
<1>. QED
  BY <1>1, FilesInvariance, PTL

-----------------------------------------------------------------------------
(***************************************************************************)
(* Together.                                                               *)
(* Each part does its own steps, or none.                                  *)
(***************************************************************************)

LEMMA PartsRun ==
    HostSpec => Spec /\ AccountsSpec /\ DataSpec /\ FileSpec /\ UploadSpec /\ PortSpec
<1>1. HostInit => /\ Init /\ AccountsInit /\ DataInit /\ FileInit /\ UploadInit /\ PortInit
  BY DEF HostInit
<1>2. HostNext => /\ Next \/ UNCHANGED vars
                  /\ AccountsNext \/ UNCHANGED accountVars
                  /\ DataNext \/ UNCHANGED dataVars
  BY Zenon DEF HostNext
<1>3. HostNext => /\ FileNext \/ UNCHANGED fileVars
                  /\ UploadNext \/ UNCHANGED uploadVars
                  /\ PortNext \/ UNCHANGED portVars
  BY Zenon DEF HostNext
<1>4. UNCHANGED hostVars => UNCHANGED <<vars, accountVars, dataVars, fileVars, uploadVars, portVars>>
  BY Zenon DEF hostVars
<1>5. [HostNext]_hostVars => /\ [Next]_vars /\ [AccountsNext]_accountVars
                            /\ [DataNext]_dataVars /\ [FileNext]_fileVars
                            /\ [UploadNext]_uploadVars /\ [PortNext]_portVars
  BY <1>2, <1>3, <1>4, Zenon
<1>. QED
  BY <1>1, <1>5, PTL DEF HostSpec, Spec, AccountsSpec, DataSpec, FileSpec, UploadSpec, PortSpec

(* What the host run checks of every part holds of all of them: a stop     *)
(* kills what it read, the roster and the data survive, files are whole    *)
(* and ports are nobody else's, for every value of the constants.          *)
THEOREM HostHolds ==
    HostSpec => [](/\ StopKillsWhatItSaw /\ RosterIsKept /\ DataSurvives
                   /\ FilesAreWhole /\ PortsAreOwn)
<1>1. SavedIsWhole /\ UploadIsWhole => FilesAreWhole
  BY DEF FilesAreWhole
<1>. QED
  BY <1>1, PartsRun, StopKills, RosterHolds, DataSurvivesAlways, SavesAreWhole,
     UploadsAreWhole, PortsStayOwn, PTL
=============================================================================
