-------------------------- MODULE RunManager_proofs --------------------------
(***************************************************************************)
(* Proofs about RunManager, for any workspaces, connections, modes and any *)
(* number of runs and crashes.                                             *)
(***************************************************************************)
EXTENDS RunManager, TLAPS, WellFoundedInduction

\* What one job record satisfies on its own.
RecordInv(r) ==
    /\ r.pc = "none" <=> r.ws = "none"
    /\ r.slot => r.pc \in {"ensuring", "exec", "failing"} /\ ~r.finished /\ ~r.reported
    /\ r.timer => r.slot /\ r.pc = "exec"
    /\ r.expiring => r.pc \in {"exec", "returned"}
    /\ r.slot /\ r.pc = "exec" => r.timer \/ r.expiring
    /\ r.pc = "returned" => r.finished
    /\ r.pc \in {"none", "ensuring", "failing"} => ~r.finished /\ r.cmd = "none"
    /\ r.pc \in {"ensuring", "failing"} => r.slot
    /\ r.cmd = "alive" => r.pc = "exec"
    /\ r.pending # {} => r.pc = "exec"

\* How a job relates to the maps of the manager and to its row.
LinkInv(j) ==
    /\ job[j].pc = "none" <=> started < j
    /\ db[j] = "absent" <=> job[j].pc = "none"
    /\ up => (db[j] \in Open <=> Live(j))
    /\ ~up => job[j].pc \in {"none", "lost"}
    /\ j \in builds <=> job[j].slot
    /\ Live(j) /\ ~job[j].canceled => current[job[j].ws] = j
    /\ job[j].cmd = "alive" /\ ~job[j].killed => current[job[j].ws] = j

\* The current job of a workspace is its own and still live.
CurrentInv(w) ==
    current[w] # NoRun => job[current[w]].ws = w /\ Live(current[w])

IInv ==
    /\ TypeOK
    /\ \A j \in Runs : RecordInv(job[j]) /\ LinkInv(j)
    /\ \A w \in Workspaces : CurrentInv(w)

USE RunAssumption DEF Runs, NoRun, RunIds, Open, Terminal, Lines

LEMMA InitInv == Init => IInv
<1> SUFFICES ASSUME Init PROVE IInv
  OBVIOUS
<1>1. Unstarted \in Job /\ RecordInv(Unstarted)
  BY DEF Unstarted, NewJob, Job, RecordInv
<1>2. TypeOK
  <2>1. NoSnapshot \in Snapshot
    BY DEF Snapshot, NoSnapshot
  <2>2. job \in [Runs -> Job] /\ last \in [Workspaces -> Snapshot]
    BY <1>1, <2>1 DEF Init
  <2>3. db \in [Runs -> {"absent"} \cup Open \cup Terminal]
    BY DEF Init
  <2>4. conn \in [Connections -> Workspaces \cup {"new", "closed"}]
    BY DEF Init
  <2>. QED
    BY <2>2, <2>3, <2>4 DEF Init, TypeOK
<1>3. \A j \in Runs : LinkInv(j)
  <2>1. /\ Unstarted.pc = "none" /\ Unstarted.slot = FALSE
        /\ Unstarted.cmd = "none"
    BY DEF Unstarted, NewJob
  <2>. QED
    BY <2>1 DEF Init, LinkInv, Live
<1>. QED
  BY <1>1, <1>2, <1>3 DEF Init, IInv, CurrentInv

LEMMA ToldType ==
    ASSUME TypeOK, NEW cs, NEW st \in {"none", "stopping"} \cup Open \cup Terminal
    PROVE  Told(cs, st) \in
             [Connections -> {"none", "stopping"} \cup Open \cup Terminal]
BY DEF Told, TypeOK

\* Cancelling changes two fields and keeps a record well formed.
LEMMA CanceledFields ==
    ASSUME NEW r \in Job
    PROVE  LET c == Canceled(r)
           IN /\ c \in Job
              /\ c.ws = r.ws /\ c.pc = r.pc /\ c.cmd = r.cmd
              /\ c.slot = r.slot /\ c.finished = r.finished
              /\ c.reported = r.reported /\ c.timer = r.timer
              /\ c.expiring = r.expiring /\ c.pending = r.pending
              /\ c.canceled
              /\ c.cmd = "alive" => c.killed
              /\ RecordInv(r) => RecordInv(c)
<1> DEFINE c == Canceled(r)
<1>1. c \in Job
  BY ZenonT(60) DEF Canceled, Job
<1>2. /\ c.ws = r.ws /\ c.pc = r.pc /\ c.cmd = r.cmd
      /\ c.slot = r.slot /\ c.finished = r.finished
      /\ c.reported = r.reported /\ c.timer = r.timer
      /\ c.expiring = r.expiring /\ c.pending = r.pending
  BY DEF Canceled, Job
<1>3. c.canceled = TRUE /\ c.killed = (r.killed \/ r.cmd = "alive")
  BY DEF Canceled, Job
<1>4. RecordInv(r) => RecordInv(c)
  BY <1>2, Zenon DEF RecordInv
<1> HIDE DEF c
<1>. QED
  BY <1>1, <1>2, <1>3, <1>4 DEF c

LEMMA StartInv ==
    ASSUME NEW w \in Workspaces, NEW m \in {"run", "debug", "build"}, IInv,
           Start(w, m)
    PROVE  IInv'
<1> DEFINE j == started + 1
           k == current[w]
           n == NewJob(w, m, ConnectionsOf(w))
<1>1. j \in Runs /\ job[j].pc = "none" /\ k # j
  BY DEF Start, IInv, TypeOK, LinkInv, CurrentInv, Live
<1>2. n \in Job
  BY DEF NewJob, ConnectionsOf, Job
<1>3. \A i \in Runs : job[i] \in Job /\ Canceled(job[i]) \in Job
  BY CanceledFields DEF IInv, TypeOK
<1>4. TypeOK'
  <2>1. job' \in [Runs -> Job]
    BY <1>2, <1>3 DEF Start
  <2>2. view' \in [Connections -> {"none", "stopping"} \cup Open \cup Terminal]
    BY ToldType DEF Start, IInv
  <2>3. last' \in [Workspaces -> Snapshot]
    BY <1>1 DEF Start, IInv, TypeOK, Snapshot
  <2>. QED
    BY <1>1, <2>1, <2>2, <2>3 DEF Start, IInv, TypeOK
<1>5. \A i \in Runs : RecordInv(job'[i]) /\ LinkInv(i)'
  <2> TAKE i \in Runs
  <2>1. CASE i = j
    BY <1>1, <2>1 DEF Start, IInv, TypeOK, RecordInv, LinkInv, NewJob, Live
  <2>2. CASE i # j /\ i = k
    <3>1. job'[i] = Canceled(job[i]) /\ db'[i] = db[i] /\ up' = up
      BY <1>1, <2>2 DEF Start, IInv, TypeOK
    <3>2. /\ (i \in builds' <=> i \in builds)
          /\ started' = j /\ current'[w] = j
      BY <1>1, <2>2 DEF Start, IInv, TypeOK
    <3>3. RecordInv(job[i]) /\ LinkInv(i) /\ job[i] \in Job
      BY DEF IInv, TypeOK
    <3>4. job[i].ws = w /\ Live(i)
      BY <2>2 DEF IInv, CurrentInv
    <3>5. RecordInv(Canceled(job[i]))
      BY <3>3, CanceledFields
    <3>6. Live(i)' /\ i <= started
      BY <3>1, <3>3, <3>4, CanceledFields DEF Live, LinkInv, IInv, TypeOK
    <3>7. started' = started + 1 /\ started \in Nat
      BY <3>2 DEF IInv, TypeOK
    <3>. QED
      BY <3>1, <3>2, <3>3, <3>4, <3>5, <3>6, <3>7, CanceledFields
         DEF LinkInv, Live
  <2>3. CASE i # j /\ i # k
    <3>1. job'[i] = job[i] /\ db'[i] = db[i] /\ (i \in builds' <=> i \in builds)
      BY <1>1, <2>3 DEF Start, IInv, TypeOK
    <3>2. Live(i)' <=> Live(i)
      BY <3>1 DEF Live
    <3>3. i <= started \/ started' < i
      BY <2>3 DEF Start, IInv, TypeOK
    <3>4. current'[job[i].ws] = i <=> current[job[i].ws] = i
      BY <2>3 DEF Start, IInv, TypeOK, Job
    <3>. QED
      BY <2>3, <3>1, <3>2, <3>3, <3>4 DEF Start, IInv, TypeOK, RecordInv, LinkInv
  <2>. QED
    BY <2>1, <2>2, <2>3
<1>6. \A v \in Workspaces : CurrentInv(v)'
  BY <1>1 DEF Start, IInv, TypeOK, CurrentInv, NewJob, Live
<1>. QED
  BY <1>4, <1>5, <1>6 DEF IInv

\* A job that has begun takes a step that neither ends it nor moves any other
\* job: the map of current jobs stays, the row stays or opens as "running".
LEMMA StepInv ==
    ASSUME IInv, NEW j \in Runs, NEW r \in Job, RecordInv(r),
           job[j].pc # "none", r.pc # "none", r.ws = job[j].ws,
           job' = [job EXCEPT ![j] = r],
           db' = db \/ (Live(j) /\ up /\ db' = [db EXCEPT ![j] = "running"]),
           builds' = IF r.slot THEN builds ELSE builds \ {j},
           r.slot => job[j].slot,
           UNCHANGED <<up, crashes, started, current, lastMode>>,
           conn' \in [Connections -> Workspaces \cup {"new", "closed"}],
           last' \in [Workspaces -> Snapshot],
           view' \in [Connections -> {"none", "stopping"} \cup Open \cup Terminal],
           Live(j) <=> (r.pc \in {"ensuring", "exec", "failing"} /\ ~r.finished),
           ~up => r.pc \in {"none", "lost"},
           job[j].canceled => r.canceled,
           r.cmd = "alive" /\ ~r.killed => current[r.ws] = j
    PROVE  IInv'
<1>1. TypeOK'
  BY DEF IInv, TypeOK
<1>2. ASSUME NEW i \in Runs PROVE RecordInv(job'[i]) /\ LinkInv(i)'
  <2>1. CASE i = j
    <3>1. job'[j] = r
      BY DEF IInv, TypeOK
    <3>2. LinkInv(j) /\ started \in Nat
      BY DEF IInv, TypeOK
    <3>3. /\ db'[j] = "absent" <=> db[j] = "absent"
          /\ up => (db'[j] \in Open <=> db[j] \in Open)
      BY <3>2 DEF IInv, TypeOK, LinkInv
    <3>4. Live(j)' <=> Live(j)
      BY <3>1 DEF Live
    <3>5. j \in builds' <=> r.slot
      BY <3>2 DEF LinkInv
    <3>. QED
      BY <2>1, <3>1, <3>2, <3>3, <3>4, <3>5 DEF LinkInv
  <2>2. CASE i # j
    <3>1. job'[i] = job[i] /\ db'[i] = db[i] /\ (i \in builds' <=> i \in builds)
      BY <2>2 DEF IInv, TypeOK
    <3>. QED
      BY <3>1 DEF IInv, LinkInv, Live
  <2>. QED
    BY <2>1, <2>2
<1>3. ASSUME NEW w \in Workspaces PROVE CurrentInv(w)'
  <2>1. current'[w] = current[w] /\ current[w] \in RunIds
    BY DEF IInv, TypeOK
  <2>2. CASE current[w] = j
    <3>1. job'[j] = r
      BY DEF IInv, TypeOK
    <3>. QED
      BY <2>1, <2>2, <3>1 DEF CurrentInv, Live, IInv
  <2>3. CASE current[w] # j
    <3>1. current[w] # NoRun => job'[current[w]] = job[current[w]]
      BY <2>1, <2>3 DEF IInv, TypeOK
    <3>. QED
      BY <2>1, <3>1 DEF CurrentInv, Live, IInv
  <2>. QED
    BY <2>2, <2>3
<1>. QED
  BY <1>1, <1>2, <1>3 DEF IInv

\* The same for a step of j that changes nothing but its own record.
LEMMA QuietInv ==
    ASSUME IInv, NEW j \in Runs, NEW r \in Job, RecordInv(r),
           job[j].pc \notin {"none", "lost"}, r.pc # "none", r.ws = job[j].ws,
           r.finished = job[j].finished, r.slot = job[j].slot,
           job[j].canceled => r.canceled,
           r.pc \in {"ensuring", "exec", "failing"}
              <=> job[j].pc \in {"ensuring", "exec", "failing"},
           r.cmd = "alive" /\ ~r.killed => current[r.ws] = j,
           job' = [job EXCEPT ![j] = r],
           UNCHANGED <<up, crashes, started, db, current, last, lastMode,
                       builds, conn, view>>
    PROVE  IInv'
<1>1. LinkInv(j) /\ last \in [Workspaces -> Snapshot]
      /\ conn \in [Connections -> Workspaces \cup {"new", "closed"}]
      /\ view \in [Connections -> {"none", "stopping"} \cup Open \cup Terminal]
  BY DEF IInv, TypeOK
<1>2. builds' = IF r.slot THEN builds ELSE builds \ {j}
  BY <1>1 DEF LinkInv
<1>3. Live(j) <=> (r.pc \in {"ensuring", "exec", "failing"} /\ ~r.finished)
  BY DEF Live
<1>4. up
  BY <1>1 DEF LinkInv
<1>. QED
  BY <1>1, <1>2, <1>3, <1>4, StepInv

\* finishJob on a live job ends it, frees its slot and its workspace, and
\* leaves every other job alone.
LEMMA TerminateInv ==
    ASSUME IInv, NEW j \in Runs, NEW r \in Job, NEW st \in Terminal,
           Live(j), r.ws = job[j].ws, r.pc \in {"exec", "returned"},
           r.cmd = "alive" => r.killed /\ r.pc = "exec",
           r.pending # {} => r.pc = "exec",
           Terminate(j, r, st),
           UNCHANGED <<up, crashes, started, lastMode, conn>>
    PROVE  IInv'
<1> DEFINE f == [Release(r) EXCEPT !.finished = TRUE, !.state = st]
<1>1. /\ f \in Job
      /\ f.ws = r.ws /\ f.pc = r.pc /\ f.cmd = r.cmd /\ f.killed = r.killed
      /\ f.expiring = r.expiring /\ f.pending = r.pending
      /\ f.slot = FALSE /\ f.timer = FALSE /\ f.finished = TRUE
  BY DEF Release, Job
<1>2. job' = [job EXCEPT ![j] = f]
  BY DEF Terminate
<1> HIDE DEF f
<1>3. job'[j] = f /\ (\A i \in Runs : i # j => job'[i] = job[i])
  BY <1>2 DEF IInv, TypeOK
<1>4. RecordInv(job[j]) /\ LinkInv(j) /\ started \in Nat /\ up /\ job[j] \in Job
  BY DEF IInv, TypeOK, LinkInv, Live
<1>5. job[j].ws \in Workspaces
  BY <1>4 DEF RecordInv, Live, Job
<1>6. TypeOK'
  <2>1. last' \in [Workspaces -> Snapshot]
    BY <1>4, <1>5 DEF Terminate, Remembered, IInv, TypeOK, Snapshot
  <2>2. view' \in [Connections -> {"none", "stopping"} \cup Open \cup Terminal]
    BY ToldType DEF Terminate, IInv
  <2>3. current' \in [Workspaces -> RunIds]
    BY DEF Terminate, IInv, TypeOK
  <2>4. job' \in [Runs -> Job]
    BY <1>1, <1>2 DEF IInv, TypeOK
  <2>. QED
    BY <2>1, <2>2, <2>3, <2>4 DEF Terminate, IInv, TypeOK
<1>7. ASSUME NEW i \in Runs PROVE RecordInv(job'[i]) /\ LinkInv(i)'
  <2>1. CASE i = j
    <3>1. ~Live(j)'
      BY <1>1, <1>3 DEF Live
    <3>2. db'[j] = st /\ j \notin builds'
      BY DEF Terminate, IInv, TypeOK
    <3>3. RecordInv(f)
      BY <1>1, <1>4 DEF RecordInv, Live
    <3>. QED
      BY <1>1, <1>3, <1>4, <2>1, <3>1, <3>2, <3>3 DEF LinkInv, Live
  <2>2. CASE i # j
    <3>1. job'[i] = job[i] /\ db'[i] = db[i] /\ (i \in builds' <=> i \in builds)
      BY <1>3, <2>2 DEF Terminate, IInv, TypeOK
    <3>2. current[job[i].ws] = i => current'[job[i].ws] = i
      BY <1>4, <1>5, <2>2 DEF Terminate, IsCurrent, IInv, TypeOK
    <3>. QED
      BY <3>1, <3>2 DEF IInv, LinkInv, Live
  <2>. QED
    BY <2>1, <2>2
<1>8. ASSUME NEW w \in Workspaces PROVE CurrentInv(w)'
  <2>1. CurrentInv(w) /\ current[w] \in RunIds
    BY DEF IInv, TypeOK
  <2>2. current'[w] # j /\ (current'[w] # NoRun => current'[w] = current[w])
    BY <1>4, <1>5, <2>1 DEF Terminate, IsCurrent, IInv, TypeOK, CurrentInv
  <2>. QED
    BY <1>3, <2>1, <2>2 DEF CurrentInv, Live
<1>. QED
  BY <1>6, <1>7, <1>8 DEF IInv

\* finishJob is a no-op on a job that is over, and Terminate otherwise.
LEMMA FinishInv ==
    ASSUME IInv, NEW j \in Runs, NEW r \in Job, NEW st \in Terminal,
           r.ws = job[j].ws, r.finished = job[j].finished,
           job[j].pc \in {"ensuring", "exec", "failing", "returned"},
           r.pc \in {"exec", "returned"}, r.slot = job[j].slot,
           job[j].canceled => r.canceled, RecordInv(r) \/ ~r.finished,
           r.cmd = "alive" => r.killed /\ r.pc = "exec",
           r.pending # {} => r.pc = "exec",
           FinishJob(j, r, st),
           UNCHANGED <<up, crashes, started, lastMode, conn>>
    PROVE  IInv'
<1>1. RecordInv(job[j]) /\ LinkInv(j) /\ job[j] \in Job
  BY DEF IInv, TypeOK
<1>2. CASE ~r.finished
  <2>1. Live(j)
    BY <1>1, <1>2 DEF Live, RecordInv
  <2>. QED
    BY <1>2, <2>1, TerminateInv DEF FinishJob
<1>3. CASE r.finished
  <2>1. ~Live(j) /\ ~r.slot /\ up
    BY <1>1, <1>3 DEF Live, RecordInv, LinkInv
  <2>2. /\ job' = [job EXCEPT ![j] = r]
        /\ db' = db /\ last' = last /\ current' = current /\ view' = view
        /\ builds' = builds /\ builds = builds \ {j}
    BY <1>1, <1>3, <2>1 DEF FinishJob, LinkInv
  <2>. QED
    BY <1>1, <1>3, <2>1, <2>2, StepInv DEF IInv, TypeOK
<1>. QED
  BY <1>2, <1>3

LEMMA EnsureReturnsInv ==
    ASSUME IInv, NEW j \in Runs, EnsureReturns(j)
    PROVE  IInv'
<1>1. RecordInv(job[j]) /\ LinkInv(j) /\ job[j] \in Job
  BY DEF IInv, TypeOK
<1>2. CASE job[j].canceled
  <2> DEFINE r == [job[j] EXCEPT !.pc = "returned"]
  <2>1. /\ r \in Job /\ r.pc = "returned" /\ r.ws = job[j].ws
        /\ r.finished = job[j].finished /\ r.slot = job[j].slot
        /\ r.canceled = job[j].canceled /\ r.cmd = job[j].cmd
        /\ r.pending = job[j].pending
    BY <1>1 DEF Job
  <2>2. FinishJob(j, r, "stopped")
    BY <1>2 DEF EnsureReturns
  <2> HIDE DEF r
  <2>3. job[j].pc = "ensuring" /\ ~job[j].finished /\ job[j].cmd = "none"
        /\ job[j].pending = {}
    BY <1>1 DEF EnsureReturns, RecordInv
  <2>. QED
    BY <2>1, <2>2, <2>3, FinishInv DEF EnsureReturns
<1>3. CASE ~job[j].canceled
  <2> DEFINE r == Launched(job[j])
  <2>1. /\ r \in Job /\ r.pc = "exec" /\ r.ws = job[j].ws
        /\ r.finished = job[j].finished /\ r.slot = job[j].slot
        /\ r.canceled = job[j].canceled /\ r.cmd = "alive" /\ r.timer = TRUE
        /\ r.pending = job[j].pending /\ r.reported = job[j].reported
        /\ r.expiring = job[j].expiring /\ r.killed = job[j].killed
    BY ZenonT(60), <1>1 DEF Job, Launched
  <2>2. /\ job' = [job EXCEPT ![j] = r] /\ job[j].pc = "ensuring"
        /\ UNCHANGED <<up, crashes, started, current, lastMode, conn, db,
                        last, builds, view>>
    BY <1>3 DEF EnsureReturns
  <2> HIDE DEF r
  <2>3. Live(j) /\ up /\ current[job[j].ws] = j
    BY <1>1, <1>3, <2>2 DEF Live, RecordInv, LinkInv
  <2>4. r.slot => j \in builds
    BY <1>1, <2>1 DEF LinkInv
  <2>5. /\ job[j].slot /\ ~job[j].finished /\ ~job[j].reported /\ job[j].pending = {}
        /\ ~job[j].expiring
    BY <1>1, <2>2 DEF RecordInv
  <2>6. RecordInv(r) /\ (Live(j) <=> (r.pc \in {"ensuring", "exec", "failing"} /\ ~r.finished))
    BY <1>1, <2>1, <2>3, <2>5 DEF RecordInv
  <2>7. /\ builds' = IF r.slot THEN builds ELSE builds \ {j}
        /\ conn' \in [Connections -> Workspaces \cup {"new", "closed"}]
        /\ last' \in [Workspaces -> Snapshot]
        /\ view' \in [Connections -> {"none", "stopping"} \cup Open \cup Terminal]
    BY <2>1, <2>2, <2>5 DEF IInv, TypeOK
  <2>. QED
    BY ZenonT(60), <2>1, <2>2, <2>3, <2>5, <2>6, <2>7, StepInv
<1>. QED
  BY <1>2, <1>3

LEMMA EnsureFailsInv ==
    ASSUME IInv, NEW j \in Runs, EnsureFails(j)
    PROVE  IInv'
<1> DEFINE r == [job[j] EXCEPT !.pc = "failing"]
<1>1. RecordInv(job[j]) /\ LinkInv(j) /\ job[j] \in Job /\ builds' = builds
  BY DEF IInv, TypeOK, EnsureFails
<1>2. /\ r \in Job /\ r.pc = "failing" /\ r.ws = job[j].ws
      /\ r.finished = job[j].finished /\ r.slot = job[j].slot
      /\ r.canceled = job[j].canceled /\ r.cmd = job[j].cmd
      /\ r.pending = job[j].pending /\ r.timer = job[j].timer
      /\ r.reported = job[j].reported /\ r.expiring = job[j].expiring
  BY <1>1 DEF Job
<1>3. job' = [job EXCEPT ![j] = r] /\ job[j].pc = "ensuring"
  BY DEF EnsureFails
<1> HIDE DEF r
<1>4. RecordInv(r)
  BY <1>1, <1>2, <1>3 DEF RecordInv
<1>5. r.cmd = "none"
  BY <1>1, <1>2, <1>3 DEF RecordInv
<1>. QED
  BY <1>2, <1>3, <1>4, <1>5, QuietInv DEF EnsureFails

LEMMA FailureLoggedInv ==
    ASSUME IInv, NEW j \in Runs, FailureLogged(j)
    PROVE  IInv'
<1> DEFINE r == [job[j] EXCEPT !.pc = "returned"]
           st == IF job[j].canceled THEN "stopped" ELSE "failed"
<1>1. RecordInv(job[j]) /\ job[j] \in Job
  BY DEF IInv, TypeOK
<1>2. /\ r \in Job /\ r.pc = "returned" /\ r.ws = job[j].ws
      /\ r.finished = job[j].finished /\ r.slot = job[j].slot
      /\ r.canceled = job[j].canceled /\ r.cmd = job[j].cmd
      /\ r.pending = job[j].pending
  BY <1>1 DEF Job
<1>3. FinishJob(j, r, st) /\ st \in Terminal
  BY DEF FailureLogged
<1> HIDE DEF r, st
<1>4. job[j].pc = "failing" /\ ~job[j].finished /\ job[j].cmd = "none"
      /\ job[j].pending = {}
  BY <1>1 DEF FailureLogged, RecordInv
<1>. QED
  BY <1>2, <1>3, <1>4, FinishInv DEF FailureLogged

LEMMA PrintsInv ==
    ASSUME IInv, NEW j \in Runs, NEW l \in Lines, Prints(j, l)
    PROVE  IInv'
<1> DEFINE r == [job[j] EXCEPT !.emitted = @ \cup {l}, !.pending = @ \cup {l}]
<1>1. RecordInv(job[j]) /\ LinkInv(j) /\ job[j] \in Job /\ builds' = builds
  BY DEF IInv, TypeOK, Prints
<1>2. /\ r \in Job /\ r.pc = job[j].pc /\ r.ws = job[j].ws
      /\ r.finished = job[j].finished /\ r.slot = job[j].slot
      /\ r.canceled = job[j].canceled /\ r.cmd = job[j].cmd
      /\ r.timer = job[j].timer /\ r.killed = job[j].killed
      /\ r.reported = job[j].reported /\ r.expiring = job[j].expiring
  BY <1>1 DEF Job
<1>3. job' = [job EXCEPT ![j] = r] /\ job[j].pc = "exec"
  BY <1>1 DEF Prints, IInv, TypeOK
<1> HIDE DEF r
<1>4. RecordInv(r)
  BY <1>1, <1>2, <1>3 DEF RecordInv
<1>5. r.cmd = "alive" /\ ~r.killed => current[r.ws] = j
  BY <1>1, <1>2 DEF LinkInv
<1>. QED
  BY <1>2, <1>3, <1>4, <1>5, QuietInv DEF Prints

LEMMA CommandExitsInv ==
    ASSUME IInv, NEW j \in Runs, NEW code \in {"ok", "error"}, CommandExits(j, code)
    PROVE  IInv'
<1> DEFINE r == [job[j] EXCEPT !.cmd = "exited", !.exit = code]
<1>1. RecordInv(job[j]) /\ LinkInv(j) /\ job[j] \in Job /\ builds' = builds
  BY DEF IInv, TypeOK, CommandExits
<1>2. /\ r \in Job /\ r.pc = job[j].pc /\ r.ws = job[j].ws
      /\ r.finished = job[j].finished /\ r.slot = job[j].slot
      /\ r.canceled = job[j].canceled /\ r.cmd = "exited"
      /\ r.timer = job[j].timer /\ r.pending = job[j].pending
      /\ r.reported = job[j].reported /\ r.expiring = job[j].expiring
  BY ZenonT(60), <1>1 DEF Job
<1>3. job' = [job EXCEPT ![j] = r] /\ job[j].cmd = "alive"
  BY <1>1 DEF CommandExits, IInv, TypeOK
<1> HIDE DEF r
<1>4. RecordInv(r) /\ job[j].pc = "exec"
  BY <1>1, <1>2, <1>3 DEF RecordInv
<1>. QED
  BY <1>2, <1>3, <1>4, QuietInv DEF CommandExits

LEMMA RunReturnsInv ==
    ASSUME IInv, NEW j \in Runs, RunReturns(j)
    PROVE  IInv'
<1> DEFINE r == [job[j] EXCEPT !.pc = "returned"]
           clean == job[j].exit = "ok" /\ (job[j].reported \/ job[j].mode = "build")
           st == IF job[j].canceled \/ clean THEN "stopped" ELSE "failed"
<1>1. RecordInv(job[j]) /\ job[j] \in Job
  BY DEF IInv, TypeOK
<1>2. /\ r \in Job /\ r.pc = "returned" /\ r.ws = job[j].ws
      /\ r.finished = job[j].finished /\ r.slot = job[j].slot
      /\ r.canceled = job[j].canceled /\ r.cmd = job[j].cmd
      /\ r.pending = job[j].pending /\ r.timer = job[j].timer
      /\ r.reported = job[j].reported /\ r.expiring = job[j].expiring
  BY <1>1 DEF Job
<1>3. FinishJob(j, r, st) /\ st \in Terminal
  BY DEF RunReturns
<1> HIDE DEF r, st
<1>4. job[j].pc = "exec" /\ job[j].cmd = "exited" /\ job[j].pending = {}
  BY DEF RunReturns
<1>5. RecordInv(r) \/ ~r.finished
  BY <1>1, <1>2, <1>4 DEF RecordInv
<1>. QED
  BY <1>2, <1>3, <1>4, <1>5, FinishInv DEF RunReturns

LEMMA TimerFiresInv ==
    ASSUME IInv, NEW j \in Runs, TimerFires(j)
    PROVE  IInv'
<1> DEFINE e == ~job[j].finished /\ ~job[j].reported
           r == [job[j] EXCEPT !.timer = FALSE, !.canceled = @ \/ e, !.expiring = e]
<1>1. RecordInv(job[j]) /\ LinkInv(j) /\ job[j] \in Job
  BY DEF IInv, TypeOK
<1>2. job[j].timer /\ job[j].slot /\ job[j].pc = "exec" /\ e
  BY <1>1 DEF TimerFires, RecordInv
<1>3. /\ r \in Job /\ r.pc = job[j].pc /\ r.ws = job[j].ws
      /\ r.finished = job[j].finished /\ r.slot = job[j].slot
      /\ r.canceled = TRUE /\ r.cmd = job[j].cmd
      /\ r.timer = FALSE /\ r.pending = job[j].pending
      /\ r.killed = job[j].killed
      /\ r.reported = job[j].reported /\ r.expiring = TRUE
  BY <1>1, <1>2 DEF Job
<1>4. job' = [job EXCEPT ![j] = r]
  BY <1>1 DEF TimerFires, IInv, TypeOK
<1> HIDE DEF r, e
<1>5. RecordInv(r)
  BY <1>1, <1>2, <1>3 DEF RecordInv
<1>6. r.cmd = "alive" /\ ~r.killed => current[r.ws] = j
  BY <1>1, <1>3 DEF LinkInv
<1>. QED
  BY <1>2, <1>3, <1>4, <1>5, <1>6, QuietInv DEF TimerFires

LEMMA TimeoutLoggedInv ==
    ASSUME IInv, NEW j \in Runs, TimeoutLogged(j)
    PROVE  IInv'
<1> DEFINE c == Canceled(job[j])
           r == [c EXCEPT !.expiring = FALSE]
<1>1. RecordInv(job[j]) /\ job[j] \in Job
  BY DEF IInv, TypeOK
<1>2. /\ c \in Job
      /\ c.ws = job[j].ws /\ c.pc = job[j].pc /\ c.cmd = job[j].cmd
      /\ c.slot = job[j].slot /\ c.finished = job[j].finished
      /\ c.reported = job[j].reported /\ c.timer = job[j].timer
      /\ c.pending = job[j].pending /\ c.canceled
      /\ c.cmd = "alive" => c.killed
  BY <1>1, CanceledFields
<1>3. FinishJob(j, r, "failed") /\ job[j].expiring
  BY DEF TimeoutLogged
<1> HIDE DEF c
<1>4. /\ r \in Job
      /\ r.ws = c.ws /\ r.pc = c.pc /\ r.cmd = c.cmd /\ r.killed = c.killed
      /\ r.slot = c.slot /\ r.finished = c.finished
      /\ r.reported = c.reported /\ r.timer = c.timer
      /\ r.pending = c.pending /\ r.canceled = c.canceled
      /\ r.expiring = FALSE
  BY <1>2 DEF Job
<1> HIDE DEF r
<1>5. job[j].pc \in {"exec", "returned"}
  BY <1>1, <1>3 DEF RecordInv
<1>6. RecordInv(r) \/ ~r.finished
  BY <1>1, <1>2, <1>4, <1>5 DEF RecordInv
<1>7. /\ r.cmd = "alive" => r.killed /\ r.pc = "exec"
      /\ r.pending # {} => r.pc = "exec"
  BY <1>1, <1>2, <1>4 DEF RecordInv
<1>. QED
  BY <1>2, <1>3, <1>4, <1>5, <1>6, <1>7, FinishInv DEF TimeoutLogged

LEMMA LineLoggedInv ==
    ASSUME IInv, NEW j \in Runs, NEW l \in Lines, LineLogged(j, l)
    PROVE  IInv'
<1> DEFINE p == [job[j] EXCEPT !.pending = @ \ {l}]
<1>1. RecordInv(job[j]) /\ LinkInv(j) /\ job[j] \in Job /\ IInv
      /\ last \in [Workspaces -> Snapshot]
      /\ conn \in [Connections -> Workspaces \cup {"new", "closed"}]
      /\ view \in [Connections -> {"none", "stopping"} \cup Open \cup Terminal]
  BY DEF IInv, TypeOK
<1>2. /\ p \in Job /\ p.pc = job[j].pc /\ p.ws = job[j].ws
      /\ p.finished = job[j].finished /\ p.slot = job[j].slot
      /\ p.canceled = job[j].canceled /\ p.cmd = job[j].cmd
      /\ p.timer = job[j].timer /\ p.killed = job[j].killed
      /\ p.reported = job[j].reported /\ p.expiring = job[j].expiring
  BY <1>1 DEF Job
<1>3. job[j].pc = "exec" /\ up /\ UNCHANGED <<up, crashes, started, current, lastMode, conn>>
  BY <1>1 DEF LineLogged, RecordInv, LinkInv
<1>4. job[j].cmd = "alive" /\ ~job[j].killed => current[job[j].ws] = j
  BY <1>1 DEF LinkInv
<1>5. CASE BecomesReady(p, l) /\ last' = Remembered(j, "running")
           /\ db' = [db EXCEPT ![j] = "running"] /\ builds' = builds \ {j}
           /\ view' = Told(p.clients, "running")
           /\ job' = [job EXCEPT ![j] =
                        [Release(p) EXCEPT !.reported = TRUE, !.state = "running"]]
  <2> DEFINE r == [Release(p) EXCEPT !.reported = TRUE, !.state = "running"]
  <2>1. /\ r \in Job /\ r.pc = p.pc /\ r.ws = p.ws /\ r.finished = p.finished
        /\ r.canceled = p.canceled /\ r.cmd = p.cmd /\ r.killed = p.killed
        /\ r.expiring = p.expiring /\ r.slot = FALSE /\ r.timer = FALSE
    BY <1>2 DEF Job, Release
  <2>2. job' = [job EXCEPT ![j] = r]
    BY <1>5
  <2> HIDE DEF r, p
  <2>3. RecordInv(r) /\ ~job[j].finished
    BY <1>1, <1>2, <1>3, <1>5, <2>1 DEF RecordInv, BecomesReady
  <2>4. Live(j) /\ job[j].ws \in Workspaces
    BY <1>1, <1>3, <2>3 DEF Live, RecordInv, Job
  <2>5. last' \in [Workspaces -> Snapshot]
    BY <1>1, <1>5, <2>4 DEF Remembered, Snapshot
  <2>6. view' \in [Connections -> {"none", "stopping"} \cup Open \cup Terminal]
    BY <1>5, ToldType DEF IInv
  <2>7. builds' = IF r.slot THEN builds ELSE builds \ {j}
    BY <1>5, <2>1
  <2>8. Live(j) <=> (r.pc \in {"ensuring", "exec", "failing"} /\ ~r.finished)
    BY <1>2, <1>3, <2>1, <2>3, <2>4
  <2>9. r.cmd = "alive" /\ ~r.killed => current[r.ws] = j
    BY <1>2, <1>4, <2>1
  <2>10. /\ db' = [db EXCEPT ![j] = "running"]
         /\ conn' \in [Connections -> Workspaces \cup {"new", "closed"}]
         /\ job[j].pc # "none" /\ r.pc # "none" /\ r.ws = job[j].ws
         /\ r.slot = FALSE /\ r.canceled = job[j].canceled /\ r \in Job
    BY <1>1, <1>2, <1>3, <1>5, <2>1
  <2>. QED
    BY <1>3, <2>2, <2>3, <2>4, <2>5, <2>6, <2>7, <2>8, <2>9, <2>10, StepInv
<1>6. CASE StartsWaiting(p, l) /\ builds' = builds \ {j}
           /\ UNCHANGED <<db, last, view>>
           /\ job' = [job EXCEPT ![j] = Release(p)]
  <2> DEFINE r == Release(p)
  <2>1. /\ r \in Job /\ r.pc = p.pc /\ r.ws = p.ws /\ r.finished = p.finished
        /\ r.canceled = p.canceled /\ r.cmd = p.cmd /\ r.killed = p.killed
        /\ r.expiring = p.expiring /\ r.slot = FALSE /\ r.timer = FALSE
        /\ r.reported = p.reported /\ r.pending = p.pending
    BY <1>2 DEF Job, Release
  <2>2. job' = [job EXCEPT ![j] = r]
    BY <1>6
  <2> HIDE DEF r, p
  <2>3. RecordInv(r) /\ ~job[j].finished
    BY <1>1, <1>2, <1>3, <1>6, <2>1 DEF RecordInv, StartsWaiting
  <2>4. Live(j)
    BY <1>3, <2>3 DEF Live
  <2>5. builds' = IF r.slot THEN builds ELSE builds \ {j}
    BY <1>6, <2>1
  <2>6. Live(j) <=> (r.pc \in {"ensuring", "exec", "failing"} /\ ~r.finished)
    BY <1>2, <1>3, <2>1, <2>3, <2>4
  <2>7. r.cmd = "alive" /\ ~r.killed => current[r.ws] = j
    BY <1>2, <1>4, <2>1
  <2>. QED
    BY ZenonT(60), <1>1, <1>2, <1>3, <1>6, <2>1, <2>2, <2>3, <2>5, <2>6, <2>7, StepInv
<1>7. CASE UNCHANGED <<db, last, view, builds>> /\ job' = [job EXCEPT ![j] = p]
  <2> HIDE DEF p
  <2>1. RecordInv(p)
    BY <1>1, <1>2, <1>3 DEF RecordInv
  <2>. QED
    BY <1>2, <1>3, <1>4, <1>7, <2>1, QuietInv
<1>. QED
  BY <1>5, <1>6, <1>7 DEF LineLogged

\* restart reads lastMode, which need not be among the Modes of this instance.
LEMMA RestartInv ==
    ASSUME NEW w \in Workspaces, IInv, Restart(w)
    PROVE  IInv'
BY StartInv DEF Restart, IInv, TypeOK

LEMMA StopInv ==
    ASSUME IInv, NEW w \in Workspaces, Stop(w)
    PROVE  IInv'
<1> DEFINE k == current[w]
           r == Canceled(job[k])
<1>1. k \in Runs /\ job[k] \in Job /\ job[k].ws = w /\ Live(k)
      /\ RecordInv(job[k]) /\ LinkInv(k)
      /\ conn \in [Connections -> Workspaces \cup {"new", "closed"}]
  BY DEF Stop, IInv, TypeOK, CurrentInv
<1>2. /\ r \in Job /\ r.ws = job[k].ws /\ r.pc = job[k].pc
      /\ r.slot = job[k].slot /\ r.finished = job[k].finished
      /\ r.canceled /\ RecordInv(r)
      /\ r.cmd = "alive" => r.killed
  BY <1>1, CanceledFields
<1>3. last' \in [Workspaces -> Snapshot]
  BY <1>1 DEF Stop, IInv, TypeOK, Snapshot
<1>4. view' \in [Connections -> {"none", "stopping"} \cup Open \cup Terminal]
  BY ToldType DEF Stop, IInv
<1>5. job' = [job EXCEPT ![k] = r] /\ UNCHANGED <<up, crashes, started, db, current,
                                                   lastMode, builds, conn>>
  BY DEF Stop
<1>6. builds' = IF r.slot THEN builds ELSE builds \ {k}
  BY <1>1, <1>2, <1>5 DEF LinkInv
<1>7. /\ job[k].pc # "none" /\ r.pc # "none" /\ up
      /\ Live(k) <=> (r.pc \in {"ensuring", "exec", "failing"} /\ ~r.finished)
  BY <1>1, <1>2 DEF Live, LinkInv
<1> HIDE DEF r, k
<1>8. /\ r \in Job /\ r.ws = job[k].ws /\ r.canceled /\ RecordInv(r)
      /\ r.slot => job[k].slot
      /\ r.cmd = "alive" /\ ~r.killed => current[r.ws] = k
      /\ db' = db
      /\ conn' \in [Connections -> Workspaces \cup {"new", "closed"}]
      /\ UNCHANGED <<up, crashes, started, current, lastMode>>
  BY <1>1, <1>2, <1>5
<1>. QED
  BY <1>1, <1>3, <1>4, <1>5, <1>6, <1>7, <1>8, StepInv

LEMMA StopIdleInv ==
    ASSUME IInv, NEW w \in Workspaces, StopIdle(w)
    PROVE  IInv'
<1>1. TypeOK'
  BY DEF StopIdle, IInv, TypeOK, Snapshot
<1>. QED
  BY <1>1 DEF StopIdle, IInv, LinkInv, CurrentInv, Live

\* A change of the clients of a live job, with the sockets themselves.
LEMMA ClientsInv ==
    ASSUME IInv, NEW k \in Runs, Live(k), NEW cs \in SUBSET Connections,
           job' = [job EXCEPT ![k].clients = cs],
           UNCHANGED <<up, crashes, started, db, current, last, lastMode, builds>>,
           conn' \in [Connections -> Workspaces \cup {"new", "closed"}],
           view' \in [Connections -> {"none", "stopping"} \cup Open \cup Terminal]
    PROVE  IInv'
<1> DEFINE r == [job[k] EXCEPT !.clients = cs]
<1>1. RecordInv(job[k]) /\ LinkInv(k) /\ job[k] \in Job
      /\ last \in [Workspaces -> Snapshot]
  BY DEF IInv, TypeOK
<1>2. /\ r \in Job /\ r.pc = job[k].pc /\ r.ws = job[k].ws
      /\ r.finished = job[k].finished /\ r.slot = job[k].slot
      /\ r.canceled = job[k].canceled /\ r.cmd = job[k].cmd
      /\ r.timer = job[k].timer /\ r.killed = job[k].killed
      /\ r.pending = job[k].pending
      /\ r.reported = job[k].reported /\ r.expiring = job[k].expiring
  BY <1>1 DEF Job
<1>3. job' = [job EXCEPT ![k] = r]
  OBVIOUS
<1> HIDE DEF r
<1>4. RecordInv(r)
  BY <1>1, <1>2 DEF RecordInv
<1>5. r.cmd = "alive" /\ ~r.killed => current[r.ws] = k
  BY <1>1, <1>2 DEF LinkInv
<1>6. builds' = IF r.slot THEN builds ELSE builds \ {k}
  BY <1>1, <1>2 DEF LinkInv
<1>7. /\ job[k].pc # "none" /\ r.pc # "none" /\ up
      /\ Live(k) <=> (r.pc \in {"ensuring", "exec", "failing"} /\ ~r.finished)
  BY <1>1, <1>2 DEF Live, LinkInv
<1>8. /\ last' \in [Workspaces -> Snapshot] /\ db' = db
      /\ r \in Job /\ r.ws = job[k].ws
      /\ r.slot => job[k].slot
      /\ job[k].canceled => r.canceled
  BY <1>1, <1>2
<1>. QED
  BY <1>3, <1>4, <1>5, <1>6, <1>7, <1>8, StepInv

LEMMA ConnectInv ==
    ASSUME IInv, NEW c \in Connections, NEW w \in Workspaces, Connect(c, w)
    PROVE  IInv'
<1>1. conn' \in [Connections -> Workspaces \cup {"new", "closed"}]
  BY DEF Connect, IInv, TypeOK
<1>2. CASE current[w] = NoRun
  BY <1>1, <1>2 DEF Connect, IInv, TypeOK, LinkInv, CurrentInv, Live
<1>3. CASE current[w] # NoRun
  <2> DEFINE k == current[w]
  <2>1. k \in Runs /\ job[k] \in Job /\ Live(k)
    BY <1>3 DEF IInv, TypeOK, CurrentInv
  <2>2. job[k].state \in Open \cup Terminal /\ job[k].clients \subseteq Connections
    BY <2>1 DEF Job
  <2>3. view' \in [Connections -> {"none", "stopping"} \cup Open \cup Terminal]
    BY <1>3, <2>2 DEF Connect, IInv, TypeOK
  <2>4. job' = [job EXCEPT ![k].clients = job[k].clients \cup {c}]
    BY <1>3, <2>1 DEF Connect, Joined, IInv, TypeOK
  <2>5. job[k].clients \cup {c} \in SUBSET Connections
    BY <2>2
  <2>6. UNCHANGED <<up, crashes, started, db, current, last, lastMode, builds>>
    BY DEF Connect
  <2> HIDE DEF k
  <2>. QED
    BY <1>1, <2>1, <2>3, <2>4, <2>5, <2>6, ClientsInv
<1>. QED
  BY <1>2, <1>3

LEMMA DisconnectInv ==
    ASSUME IInv, NEW c \in Connections, Disconnect(c)
    PROVE  IInv'
<1> DEFINE k == current[conn[c]]
<1>1. conn' \in [Connections -> Workspaces \cup {"new", "closed"}]
  BY DEF Disconnect, IInv, TypeOK
<1>2. view' \in [Connections -> {"none", "stopping"} \cup Open \cup Terminal]
  BY DEF Disconnect, IInv, TypeOK
<1>3. CASE k = NoRun
  BY <1>1, <1>2, <1>3 DEF Disconnect, IInv, TypeOK, LinkInv, CurrentInv, Live
<1>4. CASE k # NoRun
  <2>1. k \in Runs /\ job[k] \in Job /\ Live(k)
    BY <1>4 DEF Disconnect, IInv, TypeOK, CurrentInv
  <2>2. job[k].clients \ {c} \in SUBSET Connections
    BY <2>1 DEF Job
  <2>3. job' = [job EXCEPT ![k].clients = job[k].clients \ {c}]
    BY <1>4, <2>1 DEF Disconnect
  <2>4. UNCHANGED <<up, crashes, started, db, current, last, lastMode, builds>>
    BY DEF Disconnect
  <2> HIDE DEF k
  <2>. QED
    BY <1>1, <1>2, <2>1, <2>2, <2>3, <2>4, ClientsInv
<1>. QED
  BY <1>3, <1>4

LEMMA CrashInv ==
    ASSUME IInv, Crash
    PROVE  IInv'
<1>1. ASSUME NEW j \in Runs
      PROVE  /\ Lost(job[j]) \in Job /\ RecordInv(Lost(job[j]))
             /\ Lost(job[j]).pc = IF job[j].pc = "none" THEN "none" ELSE "lost"
             /\ Lost(job[j]).slot = FALSE /\ Lost(job[j]).cmd = "none"
  <2>1. RecordInv(job[j]) /\ job[j] \in Job
    BY DEF IInv, TypeOK
  <2>2. CASE job[j].pc = "none"
    <3>1. Lost(job[j]) = job[j]
      BY <2>2 DEF Lost
    <3>2. job[j].slot = FALSE
      BY <2>1, <2>2 DEF RecordInv, Job
    <3>. QED
      BY <2>1, <2>2, <3>1, <3>2 DEF RecordInv
  <2>3. CASE job[j].pc # "none"
    <3> DEFINE r == Lost(job[j])
    <3>1. /\ r \in Job /\ r.pc = "lost" /\ r.ws = job[j].ws
          /\ r.slot = FALSE /\ r.timer = FALSE /\ r.expiring = FALSE
          /\ r.cmd = "none" /\ r.pending = {}
      BY ZenonT(60), <2>1, <2>3 DEF Lost, Job
    <3> HIDE DEF r
    <3>2. RecordInv(r)
      BY <2>1, <2>3, <3>1 DEF RecordInv
    <3>. QED
      BY <2>3, <3>1, <3>2 DEF r
  <2>. QED
    BY <2>2, <2>3
<1>2. \A j \in Runs : job'[j] = Lost(job[j])
  BY DEF Crash
<1>3. TypeOK'
  <2>1. job' \in [Runs -> Job]
    BY <1>1 DEF Crash
  <2>2. last' \in [Workspaces -> Snapshot]
    BY DEF Crash, NoSnapshot, Snapshot
  <2>3. lastMode' \in [Workspaces -> {"run", "debug", "build"}]
    BY DEF Crash
  <2>4. conn' \in [Connections -> Workspaces \cup {"new", "closed"}]
    BY DEF Crash, IInv, TypeOK
  <2>5. /\ crashes' \in 0 .. MaxCrashes
        /\ view' \in [Connections -> {"none", "stopping"} \cup Open \cup Terminal]
        /\ current' \in [Workspaces -> RunIds]
    BY DEF Crash, IInv, TypeOK
  <2>. QED
    BY <2>1, <2>2, <2>3, <2>4, <2>5 DEF Crash, IInv, TypeOK
<1>4. \A j \in Runs : LinkInv(j)'
  BY <1>1, <1>2 DEF Crash, IInv, LinkInv, Live
<1>. QED
  BY <1>1, <1>2, <1>3, <1>4 DEF Crash, IInv, CurrentInv

LEMMA BootInv ==
    ASSUME IInv, Boot
    PROVE  IInv'
<1>1. \A j \in Runs : job[j].pc \in {"none", "lost"}
  BY DEF Boot, IInv, LinkInv
<1>2. last' \in [Workspaces -> Snapshot]
  <2> SUFFICES ASSUME NEW w \in Workspaces, OrphansOf(w) # {}
               PROVE  last'[w] \in Snapshot
    BY DEF Boot, IInv, TypeOK
  <2>. QED
    BY DEF Boot, Snapshot, OrphansOf, Orphans
<1>3. TypeOK'
  BY <1>2 DEF Boot, IInv, TypeOK
<1>4. \A j \in Runs : LinkInv(j)'
  BY <1>1 DEF Boot, IInv, TypeOK, LinkInv, Live, Orphans
<1>. QED
  BY <1>3, <1>4 DEF Boot, IInv, CurrentInv, Live

-----------------------------------------------------------------------------
(* The invariant is inductive                                              *)

LEMMA NextInv == IInv /\ [Next]_vars => IInv'
<1> SUFFICES ASSUME IInv, [Next]_vars PROVE IInv'
  OBVIOUS
<1>1. CASE Request
  <2>1. ASSUME NEW w \in Workspaces, NEW m \in Modes, Start(w, m) PROVE IInv'
    BY <2>1, StartInv
  <2>2. ASSUME NEW w \in Workspaces, Restart(w) PROVE IInv'
    BY <2>2, RestartInv
  <2>3. ASSUME NEW w \in Workspaces, Stop(w) PROVE IInv'
    BY <2>3, StopInv
  <2>4. ASSUME NEW w \in Workspaces, StopIdle(w) PROVE IInv'
    BY <2>4, StopIdleInv
  <2>5. ASSUME NEW c \in Connections, NEW w \in Workspaces, Connect(c, w)
        PROVE  IInv'
    BY <2>5, ConnectInv
  <2>6. ASSUME NEW c \in Connections, Disconnect(c) PROVE IInv'
    BY <2>6, DisconnectInv
  <2>. QED
    BY <1>1, <2>1, <2>2, <2>3, <2>4, <2>5, <2>6 DEF Request
<1>2. ASSUME NEW j \in Runs, Step(j) PROVE IInv'
  <2>1. CASE EnsureReturns(j)
    BY <2>1, EnsureReturnsInv
  <2>2. CASE EnsureFails(j)
    BY <2>2, EnsureFailsInv
  <2>3. CASE FailureLogged(j)
    BY <2>3, FailureLoggedInv
  <2>4. ASSUME NEW l \in Lines, Prints(j, l) PROVE IInv'
    BY <2>4, PrintsInv
  <2>5. ASSUME NEW l \in Lines, LineLogged(j, l) PROVE IInv'
    BY <2>5, LineLoggedInv
  <2>6. ASSUME NEW code \in {"ok", "error"}, CommandExits(j, code) PROVE IInv'
    BY <2>6, CommandExitsInv
  <2>7. CASE RunReturns(j)
    BY <2>7, RunReturnsInv
  <2>8. CASE TimerFires(j)
    BY <2>8, TimerFiresInv
  <2>9. CASE TimeoutLogged(j)
    BY <2>9, TimeoutLoggedInv
  <2>. QED
    BY <1>2, <2>1, <2>2, <2>3, <2>4, <2>5, <2>6, <2>7, <2>8, <2>9 DEF Step
<1>3. CASE Crash
  BY <1>3, CrashInv
<1>4. CASE Boot
  BY <1>4, BootInv
<1>5. CASE UNCHANGED vars
  BY <1>5 DEF vars, IInv, TypeOK, LinkInv, CurrentInv, Live
<1>. QED
  BY <1>1, <1>2, <1>3, <1>4, <1>5 DEF Next

\* The strengthened invariant holds in every reachable state.
THEOREM Inductive == Spec => []IInv
BY InitInv, NextInv, PTL DEF Spec

\* Every variable has its type in every reachable state.
THEOREM TypeCorrect == Spec => []TypeOK
<1>1. IInv => TypeOK
  BY DEF IInv
<1>. QED
  BY <1>1, Inductive, PTL

\* The command of a run that was never told to stop is always that of the
\* current job of its workspace, so the next start, stop or timeout reaches it.
THEOREM NoUnreachableCommand == Spec => []OnlyCurrentUnsignaled
<1>1. IInv => OnlyCurrentUnsignaled
  BY DEF IInv, LinkInv, OnlyCurrentUnsignaled
<1>. QED
  BY <1>1, Inductive, PTL

\* While the control plane is up, the open rows are those of the live jobs.
THEOREM RowsFollowJobs == Spec => []RowOpenIffLive
<1>1. IInv => RowOpenIffLive
  BY DEF IInv, LinkInv, RowOpenIffLive
<1>. QED
  BY <1>1, Inductive, PTL

\* activeBuildCount counts exactly the unfinished, unready runs with a slot,
\* and a readiness timer never outlives the slot.
THEOREM SlotsAccounted == Spec => []SlotAccounting
<1>1. IInv => SlotAccounting
  <2> SUFFICES ASSUME IInv PROVE SlotAccounting
    OBVIOUS
  <2>1. builds = {j \in Runs : job[j].slot}
    BY DEF IInv, TypeOK, LinkInv
  <2>2. ASSUME NEW j \in Runs
        PROVE  (job[j].slot => Live(j) /\ ~job[j].reported)
               /\ (job[j].timer => job[j].slot)
    BY DEF IInv, RecordInv, Live
  <2>. QED
    BY <2>1, <2>2 DEF SlotAccounting
<1>. QED
  BY <1>1, Inductive, PTL

\* A command that runs under a build slot always has a deadline ahead of it.
THEOREM DeadlineForEverySlot == Spec => []SlotHasDeadline
<1>1. IInv => SlotHasDeadline
  BY DEF IInv, RecordInv, SlotHasDeadline
<1>. QED
  BY <1>1, Inductive, PTL

-----------------------------------------------------------------------------
(***************************************************************************)
(* What RunManager tells its surroundings: the status of a workspace is    *)
(* its row's, browsers learn of every end, and the rows go through the     *)
(* life of RunLifecycle.                                                   *)
(***************************************************************************)

USE RunAssumption DEF Runs, NoRun, RunIds, Open, Terminal, Lines

-----------------------------------------------------------------------------
(* What is reported: the status of a workspace, and the browsers' view     *)

LEMMA Apart == \A w \in Workspaces : w \notin {"none", "new", "closed"}
BY RunAssumption

LEMMA Least ==
    ASSUME NEW T \in SUBSET Nat, T # {}
    PROVE  \E x \in T : \A y \in T : x <= y
<1> DEFINE R == {ss \in Nat \X Nat : ss[1] < ss[2]}
<1>1. IsWellFoundedOn(R, Nat)
  BY NatLessThanWellFounded DEF OpToRel
<1>2. \A a, b \in Nat : a < b => <<a, b>> \in R
  OBVIOUS
<1> HIDE DEF R
<1>3. PICK x \in T : \A y \in T : ~ (<<y, x>> \in R)
  BY <1>1, WFMin
<1>4. ASSUME NEW y \in T PROVE x <= y
  <2>1. x \in Nat /\ y \in Nat /\ ~ (y < x)
    BY <1>2, <1>3
  <2>. QED
    BY <2>1
<1>. QED
  BY <1>4

\* The rows of some runs have a last one.
LEMMA LastRun ==
    ASSUME NEW S \in SUBSET Runs, S # {}
    PROVE  \E m \in S : \A i \in S : i <= m
<1> DEFINE T == {MaxRuns - i : i \in S}
<1>1. ASSUME NEW i \in S PROVE i \in Nat /\ MaxRuns - i \in Nat
  <2>1. i \in 1 .. MaxRuns
    OBVIOUS
  <2>. QED
    BY <2>1
<1>2. T \in SUBSET Nat /\ T # {}
  BY <1>1
<1>3. PICK x \in T : \A y \in T : x <= y
  <2> HIDE DEF T
  <2>. QED
    BY <1>2, Least
<1>4. PICK m \in S : x = MaxRuns - m
  OBVIOUS
<1>5. ASSUME NEW i \in S PROVE i <= m
  <2>1. MaxRuns - m <= MaxRuns - i
    BY <1>3, <1>4
  <2>. QED
    BY <1>1, <2>1
<1>. QED
  BY <1>5

\* A job object says what its row says.
StateInv(j) == Live(j) => job[j].state = db[j]

\* What is remembered of a workspace without a job is the end of its row.
StatusInv(w) ==
    /\ current[w] = NoRun /\ last[w].run # NoRun =>
          last[w].status \in Terminal /\ db[last[w].run] = last[w].status
    /\ last[w].status = "none" => last[w].run = NoRun

\* Before any crash, the current and the remembered run are the newest.
NewestInv(w) ==
    crashes = 0 =>
       /\ current[w] # NoRun => IsNewest(current[w], w)
       /\ last[w].run # NoRun => IsNewest(last[w].run, w)
       /\ last[w].status = "none" => RunsOf(w) = {}

\* Whoever was not told of an end is among the clients of a job that will end.
ClientInv(c) ==
    /\ \A j \in Runs : c \in job[j].clients => conn[c] \in {job[j].ws, "closed"}
    /\ conn[c] \notin Workspaces => view[c] = "none"
    /\ conn[c] \in Workspaces /\ view[c] \notin Terminal \cup {"none"} =>
         \E j \in RunsOf(conn[c]) : Live(j) /\ c \in job[j].clients

ReportInv ==
    /\ ~up => crashes # 0
    /\ \A j \in Runs : StateInv(j)
    /\ \A w \in Workspaces : StatusInv(w) /\ NewestInv(w)
    /\ \A c \in Connections : ClientInv(c)

LEMMA InitReport == Init => ReportInv
<1> SUFFICES ASSUME Init PROVE ReportInv
  OBVIOUS
<1>1. \A j \in Runs : job[j].pc = "none" /\ job[j].ws = "none" /\ job[j].clients = {}
  BY DEF Init, Unstarted, NewJob
<1>2. \A w \in Workspaces : RunsOf(w) = {} /\ last[w] = NoSnapshot /\ current[w] = NoRun
  BY <1>1 DEF Init, RunsOf
<1>3. \A c \in Connections : conn[c] = "new" /\ view[c] = "none"
  BY DEF Init
<1>4. up /\ NoSnapshot.run = NoRun
  BY DEF Init, NoSnapshot
<1>. QED
  BY <1>1, <1>2, <1>3, <1>4
     DEF ReportInv, StateInv, StatusInv, NewestInv, ClientInv, Live

\* A step that shows in no report.
LEMMA QuietReport ==
    ASSUME IInv, ReportInv, UNCHANGED <<up, crashes, db, current, last, conn, view>>,
           \A i \in Runs : /\ job'[i].ws = job[i].ws /\ job'[i].state = job[i].state
                           /\ job'[i].clients = job[i].clients
                           /\ Live(i)' <=> Live(i)
    PROVE  ReportInv'
<1>1. \A w : RunsOf(w)' = RunsOf(w)
  BY DEF RunsOf
<1>2. \A j \in Runs : StateInv(j)'
  BY DEF ReportInv, StateInv
<1>3. \A w \in Workspaces : StatusInv(w)' /\ NewestInv(w)'
  BY <1>1 DEF ReportInv, StatusInv, NewestInv, IsNewest
<1>4. ASSUME NEW c \in Connections PROVE ClientInv(c)'
  <2>1. ClientInv(c)
    BY DEF ReportInv
  <2>2. (\E j \in RunsOf(conn[c]) : Live(j) /\ c \in job[j].clients)
          => (\E j \in RunsOf(conn[c])' : Live(j)' /\ c \in job'[j].clients)
    BY <1>1 DEF RunsOf
  <2>. QED
    BY <2>1, <2>2 DEF ClientInv
<1>. QED
  BY <1>2, <1>3, <1>4 DEF ReportInv

\* The end of a live job is remembered if it is the current one, and told to
\* its clients.
LEMMA TerminateReport ==
    ASSUME IInv, ReportInv, NEW j \in Runs, NEW r \in Job, NEW st \in Terminal,
           Live(j), r.ws = job[j].ws, r.clients = job[j].clients,
           Terminate(j, r, st),
           UNCHANGED <<up, crashes, started, lastMode, conn>>
    PROVE  ReportInv'
<1> DEFINE f == [Release(r) EXCEPT !.finished = TRUE, !.state = st]
           w == job[j].ws
<1>1. f.ws = w /\ f.clients = job[j].clients /\ f.finished = TRUE
  BY DEF Release, Job
<1>2. job' = [job EXCEPT ![j] = f]
  BY DEF Terminate
<1> HIDE DEF f
<1>3. job'[j] = f /\ (\A i \in Runs : i # j => job'[i] = job[i])
  BY <1>2 DEF IInv, TypeOK
<1>4. RecordInv(job[j]) /\ LinkInv(j) /\ up /\ job[j] \in Job /\ db[j] \in Open
  BY DEF IInv, TypeOK, LinkInv, Live
<1>5. w \in Workspaces
  BY <1>4 DEF RecordInv, Live, Job
<1>6. \A v : RunsOf(v)' = RunsOf(v)
  BY <1>1, <1>3 DEF RunsOf
<1>7. /\ db'[j] = st /\ \A i \in Runs : i # j => db'[i] = db[i]
      /\ ~Live(j)' /\ \A i \in Runs : i # j => (Live(i)' <=> Live(i))
  BY <1>1, <1>3 DEF Terminate, IInv, TypeOK, Live
<1>8. \A i \in Runs : StateInv(i)'
  BY <1>3, <1>7 DEF ReportInv, StateInv
<1>9. ASSUME NEW v \in Workspaces PROVE StatusInv(v)' /\ NewestInv(v)'
  <2>1. CASE v = w /\ IsCurrent(j)
    <3>1. last'[v] = [status |-> st, run |-> j] /\ current'[v] = NoRun
      BY <1>5, <2>1 DEF Terminate, Remembered, IInv, TypeOK
    <3>2. crashes = 0 => IsNewest(j, v)
      BY <2>1, <1>5 DEF ReportInv, NewestInv, IsCurrent
    <3>. QED
      BY <1>6, <1>7, <3>1, <3>2 DEF StatusInv, NewestInv, IsNewest, Terminate
  <2>2. CASE ~ (v = w /\ IsCurrent(j))
    <3>1. last'[v] = last[v] /\ current'[v] = current[v]
      BY <1>5, <2>2 DEF Terminate, Remembered, IsCurrent, IInv, TypeOK
    <3>2. StatusInv(v) /\ NewestInv(v) /\ last[v] \in Snapshot
      BY DEF ReportInv, IInv, TypeOK
    <3>3. current[v] = NoRun /\ last[v].run # NoRun => last[v].run # j
      BY <1>4, <3>2 DEF StatusInv
    <3>4. StatusInv(v)'
      BY <1>7, <3>1, <3>2, <3>3 DEF StatusInv, Snapshot
    <3>5. NewestInv(v)'
      BY <1>6, <3>1, <3>2 DEF NewestInv, IsNewest
    <3>. QED
      BY <3>4, <3>5
  <2>. QED
    BY <2>1, <2>2
<1>10. ASSUME NEW c \in Connections PROVE ClientInv(c)'
  <2>1. ClientInv(c)
    BY DEF ReportInv
  <2>2. view'[c] = IF c \in job[j].clients /\ conn[c] \in Workspaces THEN st ELSE view[c]
    BY DEF Terminate, Told
  <2>3. \A i \in Runs : job'[i].clients = job[i].clients /\ job'[i].ws = job[i].ws
    BY <1>1, <1>3
  <2>4. conn[c] \notin Workspaces => view'[c] = "none"
    BY <2>1, <2>2 DEF ClientInv
  <2>5. ASSUME conn[c] \in Workspaces, view'[c] \notin Terminal \cup {"none"}
        PROVE  \E i \in RunsOf(conn[c])' : Live(i)' /\ c \in job'[i].clients
    <3>1. c \notin job[j].clients /\ view'[c] = view[c]
      BY <2>2, <2>5
    <3>2. PICK i \in RunsOf(conn[c]) : Live(i) /\ c \in job[i].clients
      BY <2>1, <2>5, <3>1 DEF ClientInv
    <3>. QED
      BY <1>6, <1>7, <2>3, <3>1, <3>2 DEF RunsOf
  <2>. QED
    BY <2>1, <2>3, <2>4, <2>5 DEF ClientInv
<1>. QED
  BY <1>4, <1>8, <1>9, <1>10 DEF ReportInv

LEMMA FinishReport ==
    ASSUME IInv, ReportInv, NEW j \in Runs, NEW r \in Job, NEW st \in Terminal,
           r.ws = job[j].ws, r.clients = job[j].clients, r.state = job[j].state,
           r.finished = job[j].finished,
           job[j].pc \in {"ensuring", "exec", "failing", "returned"},
           FinishJob(j, r, st),
           UNCHANGED <<up, crashes, started, lastMode, conn>>
    PROVE  ReportInv'
<1>1. RecordInv(job[j]) /\ job[j] \in Job
  BY DEF IInv, TypeOK
<1>2. CASE ~r.finished
  <2>1. Live(j)
    BY <1>1, <1>2 DEF Live, RecordInv
  <2>. QED
    BY <1>2, <2>1, TerminateReport DEF FinishJob
<1>3. CASE r.finished
  <2>1. /\ job' = [job EXCEPT ![j] = r]
        /\ UNCHANGED <<db, last, current, view>>
    BY <1>3 DEF FinishJob
  <2>2. job'[j] = r /\ \A i \in Runs : i # j => job'[i] = job[i]
    BY <2>1 DEF IInv, TypeOK
  <2>3. \A i \in Runs : Live(i)' <=> Live(i)
    BY <1>3, <2>2 DEF Live
  <2>. QED
    BY <2>1, <2>2, <2>3, QuietReport
<1>. QED
  BY <1>2, <1>3

LEMMA EnsureReturnsReport ==
    ASSUME IInv, ReportInv, NEW j \in Runs, EnsureReturns(j)
    PROVE  ReportInv'
<1>1. job[j] \in Job /\ job \in [Runs -> Job]
  BY DEF IInv, TypeOK
<1>2. CASE job[j].canceled
  <2> DEFINE r == [job[j] EXCEPT !.pc = "returned"]
  <2>1. /\ r \in Job /\ r.ws = job[j].ws /\ r.clients = job[j].clients
        /\ r.state = job[j].state /\ r.finished = job[j].finished
    BY <1>1 DEF Job
  <2>2. FinishJob(j, r, "stopped")
    BY <1>2 DEF EnsureReturns
  <2> HIDE DEF r
  <2>. QED
    BY <2>1, <2>2, FinishReport DEF EnsureReturns
<1>3. CASE ~job[j].canceled
  <2> DEFINE r == Launched(job[j])
  <2>1. /\ r.pc = "exec" /\ r.ws = job[j].ws /\ r.clients = job[j].clients
        /\ r.state = job[j].state /\ r.finished = job[j].finished
    BY <1>1 DEF Job, Launched
  <2>2. /\ job' = [job EXCEPT ![j] = r] /\ job[j].pc = "ensuring"
        /\ UNCHANGED <<up, crashes, started, current, lastMode, conn, db, last, view>>
    BY <1>3 DEF EnsureReturns
  <2> HIDE DEF r
  <2>3. job'[j] = r /\ \A i \in Runs : i # j => job'[i] = job[i]
    BY <1>1, <2>2
  <2>4. \A i \in Runs : Live(i)' <=> Live(i)
    BY <2>1, <2>2, <2>3 DEF Live
  <2>. QED
    BY <2>1, <2>2, <2>3, <2>4, QuietReport
<1>. QED
  BY <1>2, <1>3

LEMMA FailureLoggedReport ==
    ASSUME IInv, ReportInv, NEW j \in Runs, FailureLogged(j)
    PROVE  ReportInv'
<1> DEFINE r == [job[j] EXCEPT !.pc = "returned"]
           st == IF job[j].canceled THEN "stopped" ELSE "failed"
<1>1. job[j] \in Job
  BY DEF IInv, TypeOK
<1>2. /\ r \in Job /\ r.ws = job[j].ws /\ r.clients = job[j].clients
      /\ r.state = job[j].state /\ r.finished = job[j].finished
  BY <1>1 DEF Job
<1>3. FinishJob(j, r, st) /\ st \in Terminal
  BY DEF FailureLogged
<1> HIDE DEF r, st
<1>. QED
  BY <1>2, <1>3, FinishReport DEF FailureLogged

LEMMA RunReturnsReport ==
    ASSUME IInv, ReportInv, NEW j \in Runs, RunReturns(j)
    PROVE  ReportInv'
<1> DEFINE r == [job[j] EXCEPT !.pc = "returned"]
           clean == job[j].exit = "ok" /\ (job[j].reported \/ job[j].mode = "build")
           st == IF job[j].canceled \/ clean THEN "stopped" ELSE "failed"
<1>1. job[j] \in Job
  BY DEF IInv, TypeOK
<1>2. /\ r \in Job /\ r.ws = job[j].ws /\ r.clients = job[j].clients
      /\ r.state = job[j].state /\ r.finished = job[j].finished
  BY <1>1 DEF Job
<1>3. FinishJob(j, r, st) /\ st \in Terminal
  BY DEF RunReturns
<1> HIDE DEF r, st
<1>. QED
  BY <1>2, <1>3, FinishReport DEF RunReturns

LEMMA TimeoutLoggedReport ==
    ASSUME IInv, ReportInv, NEW j \in Runs, TimeoutLogged(j)
    PROVE  ReportInv'
<1> DEFINE r == [Canceled(job[j]) EXCEPT !.expiring = FALSE]
<1>1. job[j] \in Job /\ RecordInv(job[j])
  BY DEF IInv, TypeOK
<1>2. /\ r \in Job /\ r.ws = job[j].ws /\ r.clients = job[j].clients
      /\ r.state = job[j].state /\ r.finished = job[j].finished
  BY ZenonT(60), <1>1 DEF Job, Canceled
<1>3. FinishJob(j, r, "failed") /\ job[j].pc \in {"exec", "returned"}
  BY <1>1 DEF TimeoutLogged, RecordInv
<1> HIDE DEF r
<1>. QED
  BY <1>2, <1>3, FinishReport DEF TimeoutLogged

\* What a job does by itself without ending or becoming ready.
LEMMA OwnStepReport ==
    ASSUME IInv, ReportInv, NEW j \in Runs,
           EnsureFails(j) \/ (\E l \in Lines : Prints(j, l))
             \/ (\E code \in {"ok", "error"} : CommandExits(j, code)) \/ TimerFires(j)
    PROVE  ReportInv'
<1>1. job \in [Runs -> Job] /\ job[j] \in Job
  BY DEF IInv, TypeOK
<1>2. UNCHANGED <<up, crashes, started, db, current, last, lastMode, conn, view>>
  BY DEF EnsureFails, Prints, CommandExits, TimerFires
<1>3. /\ job'[j].ws = job[j].ws /\ job'[j].clients = job[j].clients
      /\ job'[j].state = job[j].state /\ job'[j].finished = job[j].finished
      /\ job'[j].pc = job[j].pc \/ (job[j].pc = "ensuring" /\ job'[j].pc = "failing")
      /\ \A i \in Runs : i # j => job'[i] = job[i]
  <2>1. CASE EnsureFails(j)
    BY <1>1, <2>1 DEF EnsureFails, Job
  <2>2. CASE \E l \in Lines : Prints(j, l)
    BY <1>1, <2>2 DEF Prints, Job
  <2>3. CASE \E code \in {"ok", "error"} : CommandExits(j, code)
    BY <1>1, <2>3 DEF CommandExits, Job
  <2>4. CASE TimerFires(j)
    BY <1>1, <2>4 DEF TimerFires, Job
  <2>. QED
    BY <2>1, <2>2, <2>3, <2>4
<1>4. \A i \in Runs : Live(i)' <=> Live(i)
  BY <1>3 DEF Live
<1>. QED
  BY <1>2, <1>3, <1>4, QuietReport

LEMMA LineLoggedReport ==
    ASSUME IInv, ReportInv, NEW j \in Runs, NEW l \in Lines, LineLogged(j, l)
    PROVE  ReportInv'
<1> DEFINE p == [job[j] EXCEPT !.pending = @ \ {l}]
           r == [Release(p) EXCEPT !.reported = TRUE, !.state = "running"]
           q == Release(p)
<1>1. job[j] \in Job /\ job \in [Runs -> Job] /\ RecordInv(job[j]) /\ LinkInv(j)
  BY DEF IInv, TypeOK
<1>2. job[j].pc = "exec" /\ UNCHANGED <<up, crashes, started, current, lastMode, conn>>
  BY <1>1 DEF LineLogged, RecordInv
<1>3. /\ p.ws = job[j].ws /\ p.clients = job[j].clients /\ p.pc = job[j].pc
      /\ p.state = job[j].state /\ p.finished = job[j].finished
      /\ q.ws = job[j].ws /\ q.clients = job[j].clients /\ q.pc = job[j].pc
      /\ q.state = job[j].state /\ q.finished = job[j].finished
      /\ r.ws = job[j].ws /\ r.clients = job[j].clients /\ r.pc = job[j].pc
      /\ r.state = "running" /\ r.finished = job[j].finished
  BY <1>1 DEF Job, Release
<1>4. CASE BecomesReady(p, l) /\ last' = Remembered(j, "running")
           /\ db' = [db EXCEPT ![j] = "running"] /\ view' = Told(p.clients, "running")
           /\ job' = [job EXCEPT ![j] = r]
  <2> HIDE DEF r, q
  <2>1. Live(j)
    BY <1>2, <1>3, <1>4 DEF Live, BecomesReady
  <2>. HIDE DEF p
  <2>2. job'[j] = r /\ \A i \in Runs : i # j => job'[i] = job[i]
    BY <1>1, <1>4
  <2>3. /\ db'[j] = "running" /\ \A i \in Runs : i # j => db'[i] = db[i]
        /\ \A i \in Runs : Live(i)' <=> Live(i)
    BY <1>3, <1>4, <2>2 DEF IInv, TypeOK, Live
  <2>4. db[j] \in Open /\ up /\ job[j].ws \in Workspaces
    BY <1>1, <2>1 DEF LinkInv, RecordInv, Live, Job
  <2>5. \A v : RunsOf(v)' = RunsOf(v)
    BY <1>3, <2>2 DEF RunsOf
  <2>6. \A i \in Runs : StateInv(i)'
    BY <1>3, <2>2, <2>3 DEF ReportInv, StateInv
  <2>7. ASSUME NEW v \in Workspaces PROVE StatusInv(v)' /\ NewestInv(v)'
    <3>1. StatusInv(v) /\ NewestInv(v) /\ last[v] \in Snapshot
      BY DEF ReportInv, IInv, TypeOK
    <3>2. CASE current[v] = j
      <4>1. v = job[j].ws
        BY <3>2 DEF IInv, CurrentInv
      <4>2. last'[v] = [status |-> "running", run |-> j]
        BY <1>4, <2>4, <3>2, <4>1 DEF Remembered, IsCurrent, IInv, TypeOK
      <4>. QED
        BY <1>2, <2>5, <3>1, <3>2, <4>2 DEF StatusInv, NewestInv, IsNewest
    <3>3. CASE current[v] # j
      <4>1. last'[v] = last[v]
        BY <1>4, <2>4, <3>3 DEF Remembered, IsCurrent, IInv, TypeOK
      <4>2. current[v] = NoRun /\ last[v].run # NoRun => last[v].run # j
        BY <2>4, <3>1 DEF StatusInv
      <4>3. StatusInv(v)'
        BY <1>2, <2>3, <3>1, <4>1, <4>2 DEF StatusInv, Snapshot
      <4>. QED
        BY <1>2, <2>5, <3>1, <4>1, <4>3 DEF NewestInv, IsNewest
    <3>. QED
      BY <3>2, <3>3
  <2>8. ASSUME NEW c \in Connections PROVE ClientInv(c)'
    <3>1. ClientInv(c)
      BY DEF ReportInv
    <3>2. view'[c] = IF c \in job[j].clients /\ conn[c] \in Workspaces THEN "running"
                     ELSE view[c]
      BY <1>3, <1>4 DEF Told
    <3>3. \A i \in Runs : job'[i].clients = job[i].clients /\ job'[i].ws = job[i].ws
      BY <1>3, <2>2
    <3>4. conn[c] \in Workspaces /\ c \in job[j].clients => j \in RunsOf(conn[c])
      BY <3>1 DEF ClientInv, RunsOf
    <3>. QED
      BY <1>2, <2>1, <2>3, <2>5, <3>1, <3>2, <3>3, <3>4 DEF ClientInv, RunsOf
  <2>. QED
    BY <1>2, <2>4, <2>6, <2>7, <2>8 DEF ReportInv
<1>5. CASE UNCHANGED <<db, last, view>> /\ job' \in {[job EXCEPT ![j] = p], [job EXCEPT ![j] = q]}
  <2> HIDE DEF p, q, r
  <2>1. job'[j] \in {p, q} /\ \A i \in Runs : i # j => job'[i] = job[i]
    BY <1>1, <1>5
  <2>2. \A i \in Runs : Live(i)' <=> Live(i)
    BY <1>3, <2>1 DEF Live
  <2>. QED
    BY <1>2, <1>3, <1>5, <2>1, <2>2, QuietReport
<1>. QED
  BY <1>4, <1>5 DEF LineLogged

LEMMA StartReport ==
    ASSUME NEW w \in Workspaces, NEW m \in {"run", "debug", "build"}, IInv, ReportInv,
           Start(w, m)
    PROVE  ReportInv'
<1>0. PICK j \in Runs : j = started + 1
  BY DEF Start, IInv, TypeOK
<1> DEFINE n == NewJob(w, m, ConnectionsOf(w))
<1>1. /\ j \in Runs /\ up /\ up' /\ crashes' = crashes /\ conn' = conn
      /\ j # NoRun /\ \A i \in Runs : started < i => j <= i
      /\ started \in Nat /\ \A i \in Runs : i <= started => i < j
      /\ \A i \in Runs : job[i] \in Job /\ LinkInv(i) /\ RecordInv(job[i])
      /\ db \in [Runs -> {"absent"} \cup Open \cup Terminal]
  BY <1>0 DEF Start, IInv, TypeOK
<1>2. /\ n.ws = w /\ n.state = "building" /\ n.pc = "ensuring" /\ n.finished = FALSE
      /\ n.clients = ConnectionsOf(w)
  BY DEF NewJob
<1>3. /\ job'[j] = n
      /\ \A i \in Runs : i # j => job'[i] \in {job[i], Canceled(job[i])}
  BY <1>0, <1>1 DEF Start
<1>a. /\ started < j /\ db' = [db EXCEPT ![j] = "building"]
      /\ current' = [current EXCEPT ![w] = j]
      /\ last' = [last EXCEPT ![w] = [status |-> "building", run |-> j]]
  BY <1>0, <1>1 DEF Start
<1> HIDE DEF n
<1>4. \A i \in Runs : i # j =>
         /\ job'[i].ws = job[i].ws /\ job'[i].state = job[i].state
         /\ job'[i].clients = job[i].clients
         /\ Live(i)' <=> Live(i)
  <2> TAKE i \in Runs
  <2>1. /\ Canceled(job[i]).ws = job[i].ws /\ Canceled(job[i]).state = job[i].state
        /\ Canceled(job[i]).clients = job[i].clients /\ Canceled(job[i]).pc = job[i].pc
        /\ Canceled(job[i]).finished = job[i].finished
    BY <1>1 DEF Canceled, Job
  <2>2. i # j => job'[i] \in {job[i], Canceled(job[i])}
    BY <1>3
  <2>. QED
    BY <2>1, <2>2 DEF Live
<1>5. /\ db'[j] = "building" /\ db[j] = "absent" /\ Live(j)' /\ ~Live(j)
      /\ job[j].ws = "none" /\ \A i \in Runs : i # j => db'[i] = db[i]
  <2>1. job[j].pc = "none"
    BY <1>1, <1>a DEF LinkInv
  <2>2. Live(j)'
    BY <1>2, <1>3 DEF Live
  <2>3. db'[j] = "building" /\ \A i \in Runs : i # j => db'[i] = db[i]
    BY <1>1, <1>a
  <2>. QED
    BY <1>1, <2>1, <2>2, <2>3 DEF Live, LinkInv, RecordInv
<1>6. \A v \in Workspaces : RunsOf(v)' = IF v = w THEN RunsOf(v) \cup {j} ELSE RunsOf(v)
  <2>1. \A i \in Runs : job'[i].ws = IF i = j THEN w ELSE job[i].ws
    BY <1>2, <1>3, <1>4
  <2>. QED
    BY <1>1, <1>5, <2>1, Apart DEF RunsOf
<1>7. \A v \in Workspaces : \A i \in RunsOf(v) : i < j
  <2>1. \A i \in Runs : started < i => job[i].ws = "none"
    BY <1>1 DEF LinkInv, RecordInv
  <2>2. ASSUME NEW v \in Workspaces, NEW i \in RunsOf(v) PROVE i < j
    <3>1. i \in Runs /\ ~ (started < i)
      BY <2>1, Apart DEF RunsOf
    <3>. QED
      BY <1>1, <3>1
  <2>. QED
    BY <2>2
<1>8. /\ current'[w] = j /\ last'[w] = [status |-> "building", run |-> j]
      /\ \A v \in Workspaces : v # w => current'[v] = current[v] /\ last'[v] = last[v]
  BY <1>a DEF IInv, TypeOK
<1>9. \A i \in Runs : StateInv(i)'
  <2> TAKE i \in Runs
  <2>1. CASE i = j
    BY <1>2, <1>3, <1>5, <2>1 DEF StateInv
  <2>2. CASE i # j
    BY <1>4, <1>5, <2>2 DEF ReportInv, StateInv
  <2>. QED
    BY <2>1, <2>2
<1>10. ASSUME NEW v \in Workspaces PROVE StatusInv(v)' /\ NewestInv(v)'
  <2>1. StatusInv(v) /\ NewestInv(v) /\ last[v] \in Snapshot
    BY DEF ReportInv, IInv, TypeOK
  <2>2. CASE v = w
    <3>1. RunsOf(w)' = RunsOf(w) \cup {j} /\ j \in Nat
      BY <1>1, <1>6
    <3>2. \A i \in RunsOf(w)' : i <= j
      <4>1. \A i \in RunsOf(w) : i \in Nat /\ i < j
        BY <1>7 DEF RunsOf
      <4>. QED
        BY <3>1, <4>1
    <3>a. j \in RunsOf(w)' /\ \A i \in RunsOf(w)' : i <= j
      BY <3>1, <3>2
    <3>b. current'[w] = j /\ last'[w].run = j
      BY <1>8
    <3>3. IsNewest(current[w], w)' /\ IsNewest(last[w].run, w)'
      BY <3>a, <3>b DEF IsNewest
    <3>5. last'[w].status = "building" /\ current'[w] # NoRun
      BY <1>1, <1>8
    <3>. QED
      BY <2>2, <3>3, <3>5 DEF StatusInv, NewestInv
  <2>3. CASE v # w
    <3>1. current[v] = NoRun /\ last[v].run # NoRun => last[v].run # j
      BY <1>5, <2>1 DEF StatusInv
    <3>2. StatusInv(v)'
      BY <1>5, <1>8, <2>1, <2>3, <3>1 DEF StatusInv, Snapshot
    <3>. QED
      BY <1>1, <1>6, <1>8, <2>1, <2>3, <3>2 DEF NewestInv, IsNewest
  <2>. QED
    BY <2>2, <2>3
<1>11. ASSUME NEW c \in Connections PROVE ClientInv(c)'
  <2>1. ClientInv(c)
    BY DEF ReportInv
  <2>2. view'[c] = IF conn[c] = w THEN "building" ELSE view[c]
    BY DEF Start, Told, ConnectionsOf
  <2>3. c \in job'[j].clients <=> conn[c] = w
    BY <1>2, <1>3 DEF ConnectionsOf
  <2>4. \A i \in Runs : c \in job'[i].clients => conn[c] \in {job'[i].ws, "closed"}
    <3> TAKE i \in Runs
    <3>1. CASE i = j
      BY <1>2, <1>3, <2>3, <3>1
    <3>2. CASE i # j
      BY <1>4, <2>1, <3>2 DEF ClientInv
    <3>. QED
      BY <3>1, <3>2
  <2>5. conn[c] \in Workspaces /\ view'[c] \notin Terminal \cup {"none"} =>
          \E i \in RunsOf(conn[c])' : Live(i)' /\ c \in job'[i].clients
    <3>0. conn[c] \in Workspaces => RunsOf(conn[c])' = IF conn[c] = w
                       THEN RunsOf(conn[c]) \cup {j} ELSE RunsOf(conn[c])
      BY <1>1, <1>6 DEF RunsOf
    <3>1. CASE conn[c] = w
      <4>1. conn[c] \in Workspaces => j \in RunsOf(conn[c])'
        BY <3>0, <3>1
      <4>. QED
        BY <1>5, <2>3, <3>1, <4>1
    <3>2. CASE conn[c] # w
      <4>1. CASE conn[c] \in Workspaces /\ view[c] \notin Terminal \cup {"none"}
        <5>1. PICK i \in RunsOf(conn[c]) : Live(i) /\ c \in job[i].clients
          BY <2>1, <4>1 DEF ClientInv
        <5>2. i \in Runs /\ i # j
          BY <1>5, <5>1 DEF RunsOf
        <5>. QED
          BY <1>4, <3>0, <3>2, <4>1, <5>1, <5>2
      <4>2. CASE ~ (conn[c] \in Workspaces /\ view[c] \notin Terminal \cup {"none"})
        BY <2>2, <3>2, <4>2
      <4>. QED
        BY <4>1, <4>2
    <3>. QED
      BY <3>1, <3>2
  <2>. QED
    BY <1>1, <2>1, <2>2, <2>4, <2>5 DEF ClientInv
<1>. QED
  BY <1>1, <1>9, <1>10, <1>11 DEF ReportInv

LEMMA StopReport ==
    ASSUME IInv, ReportInv, NEW w \in Workspaces, Stop(w)
    PROVE  ReportInv'
<1> DEFINE k == current[w]
<1>1. /\ k \in Runs /\ job[k] \in Job /\ job[k].ws = w /\ Live(k)
      /\ UNCHANGED <<up, crashes, db, current, conn>>
  BY DEF Stop, IInv, TypeOK, CurrentInv
<1>2. \A i \in Runs : /\ job'[i].ws = job[i].ws /\ job'[i].state = job[i].state
                      /\ job'[i].clients = job[i].clients
                      /\ Live(i)' <=> Live(i)
  <2>1. job'[k] = Canceled(job[k]) /\ \A i \in Runs : i # k => job'[i] = job[i]
    BY <1>1 DEF Stop, IInv, TypeOK
  <2>2. /\ Canceled(job[k]).ws = job[k].ws /\ Canceled(job[k]).state = job[k].state
        /\ Canceled(job[k]).clients = job[k].clients /\ Canceled(job[k]).pc = job[k].pc
        /\ Canceled(job[k]).finished = job[k].finished
    BY <1>1 DEF Canceled, Job
  <2>. QED
    BY <2>1, <2>2 DEF Live
<1>3. \A v : RunsOf(v)' = RunsOf(v)
  BY <1>2 DEF RunsOf
<1>4. \A i \in Runs : StateInv(i)'
  BY <1>1, <1>2 DEF ReportInv, StateInv
<1>5. ASSUME NEW v \in Workspaces PROVE StatusInv(v)' /\ NewestInv(v)'
  <2>1. StatusInv(v) /\ NewestInv(v)
    BY DEF ReportInv
  <2>2. last'[v] = IF v = w THEN [status |-> "stopping", run |-> k] ELSE last[v]
    BY DEF Stop, IInv, TypeOK
  <2>. QED
    BY <1>1, <1>3, <2>1, <2>2 DEF StatusInv, NewestInv, IsNewest
<1>6. ASSUME NEW c \in Connections PROVE ClientInv(c)'
  <2>1. ClientInv(c)
    BY DEF ReportInv
  <2>2. view'[c] = IF c \in job[k].clients /\ conn[c] \in Workspaces THEN "stopping"
                   ELSE view[c]
    BY DEF Stop, Told
  <2>3. conn[c] \in Workspaces /\ c \in job[k].clients => k \in RunsOf(conn[c])
    BY <1>1, <2>1 DEF ClientInv, RunsOf
  <2>. QED
    BY <1>1, <1>2, <1>3, <2>1, <2>2, <2>3 DEF ClientInv, RunsOf
<1>. QED
  BY <1>1, <1>4, <1>5, <1>6 DEF ReportInv

LEMMA StopIdleReport ==
    ASSUME IInv, ReportInv, NEW w \in Workspaces, StopIdle(w)
    PROVE  ReportInv'
<1>1. /\ UNCHANGED <<up, crashes, db, current, conn, view, job>>
      /\ last' = [last EXCEPT ![w] = [status |-> "stopped", run |-> NoRun]]
      /\ last \in [Workspaces -> Snapshot]
  BY DEF StopIdle, IInv, TypeOK
<1>2. \A v : RunsOf(v)' = RunsOf(v)
  BY <1>1 DEF RunsOf
<1>3. ASSUME NEW v \in Workspaces PROVE StatusInv(v)' /\ NewestInv(v)'
  BY <1>1, <1>2 DEF ReportInv, StatusInv, NewestInv, IsNewest
<1>. QED
  BY <1>1, <1>2, <1>3 DEF ReportInv, StateInv, ClientInv, Live, RunsOf

LEMMA ConnectReport ==
    ASSUME IInv, ReportInv, NEW c \in Connections, NEW w \in Workspaces, Connect(c, w)
    PROVE  ReportInv'
<1> DEFINE k == current[w]
<1>1. /\ UNCHANGED <<up, crashes, db, current, last>> /\ job \in [Runs -> Job]
      /\ conn' = [conn EXCEPT ![c] = w] /\ conn[c] = "new"
      /\ conn'[c] = w /\ \A d \in Connections : d # c => conn'[d] = conn[d]
  BY DEF Connect, IInv, TypeOK
<1>2. ClientInv(c) /\ view[c] = "none"
  BY <1>1, Apart DEF ReportInv, ClientInv
<1>3. k # NoRun => k \in Runs /\ Live(k) /\ job[k].ws = w /\ job[k] \in Job
  BY DEF IInv, TypeOK, CurrentInv
<1>4. \A i \in Runs : /\ job'[i].ws = job[i].ws /\ job'[i].state = job[i].state
                      /\ \A d \in Connections : d \in job'[i].clients <=>
                            d \in job[i].clients \/ (d = c /\ i = k)
                      /\ Live(i)' <=> Live(i)
  <2> TAKE i \in Runs
  <2>1. CASE i = k
    <3>1. job'[i] = Joined(job[i], c) /\ job[i] \in Job
      BY <1>1, <1>3, <2>1 DEF Connect
    <3>. QED
      BY <2>1, <3>1 DEF Joined, Live, Job
  <2>2. CASE i # k
    <3>1. job'[i] = job[i]
      BY <1>1, <1>3, <2>2 DEF Connect
    <3>. QED
      BY <2>2, <3>1 DEF Live
  <2>. QED
    BY <2>1, <2>2
<1>5. \A v : RunsOf(v)' = RunsOf(v)
  BY <1>4 DEF RunsOf
<1>6. \A i \in Runs : StateInv(i)'
  BY <1>1, <1>4 DEF ReportInv, StateInv
<1>7. \A v \in Workspaces : StatusInv(v)' /\ NewestInv(v)'
  BY <1>1, <1>5 DEF ReportInv, StatusInv, NewestInv, IsNewest
<1>8. ASSUME NEW d \in Connections PROVE ClientInv(d)'
  <2>1. ClientInv(d)
    BY DEF ReportInv
  <2>5. \A i \in Runs : c \notin job[i].clients
    <3>1. \A i \in Runs : job[i].ws \in Workspaces \cup {"none"}
      BY <1>1 DEF Job
    <3>. QED
      BY <1>1, <1>2, <3>1, Apart DEF ClientInv
  <2>2. CASE d # c
    <3>1. view'[d] = view[d]
      BY <2>2 DEF Connect, IInv, TypeOK
    <3>2. \A i \in Runs : d \in job'[i].clients <=> d \in job[i].clients
      BY <1>4, <2>2
    <3>. QED
      BY <1>1, <1>4, <1>5, <2>1, <2>2, <3>1, <3>2 DEF ClientInv, RunsOf
  <2>3. CASE d = c /\ k = NoRun
    <3>1. view'[c] = "none"
      BY <1>2, <2>3 DEF Connect
    <3>2. \A i \in Runs : c \notin job'[i].clients
      BY <1>4, <2>3, <2>5
    <3>. QED
      BY <2>3, <3>1, <3>2 DEF ClientInv
  <2>4. CASE d = c /\ k # NoRun
    <3>1. k \in RunsOf(w)' /\ Live(k)' /\ c \in job'[k].clients
      <4>1. k' = k /\ k \in Runs /\ k \in RunsOf(w) /\ Live(k)
        BY <1>1, <1>3, <2>4 DEF RunsOf
      <4> HIDE DEF k
      <4>2. k \in RunsOf(w)'
        BY <1>5, <4>1
      <4>. QED
        BY <1>4, <2>4, <4>1, <4>2 DEF Live
    <3>2. \A i \in Runs : c \in job'[i].clients => i = k
      BY <1>4, <2>5
    <3>. QED
      BY <1>1, <1>3, <1>4, <2>4, <3>1, <3>2 DEF ClientInv
  <2>. QED
    BY <2>2, <2>3, <2>4
<1>. QED
  BY <1>1, <1>6, <1>7, <1>8 DEF ReportInv, Connect

LEMMA DisconnectReport ==
    ASSUME IInv, ReportInv, NEW c \in Connections, Disconnect(c)
    PROVE  ReportInv'
<1> DEFINE k == current[conn[c]]
<1>1. /\ UNCHANGED <<up, crashes, db, current, last>> /\ job \in [Runs -> Job]
      /\ conn'[c] = "closed" /\ view'[c] = "none"
      /\ \A d \in Connections : d # c => conn'[d] = conn[d] /\ view'[d] = view[d]
  BY DEF Disconnect, IInv, TypeOK
<1>2. k # NoRun => k \in Runs
  BY DEF Disconnect, IInv, TypeOK
<1>3. \A i \in Runs : /\ job'[i].ws = job[i].ws /\ job'[i].state = job[i].state
                      /\ job'[i].clients \in {job[i].clients, job[i].clients \ {c}}
                      /\ Live(i)' <=> Live(i)
  <2> TAKE i \in Runs
  <2>1. job'[i] \in {job[i], [job[i] EXCEPT !.clients = @ \ {c}]}
    BY <1>1, <1>2 DEF Disconnect
  <2>2. job[i] \in Job
    BY <1>1
  <2>. QED
    BY <2>1, <2>2 DEF Live, Job
<1>4. \A v : RunsOf(v)' = RunsOf(v)
  BY <1>3 DEF RunsOf
<1>5. \A i \in Runs : StateInv(i)'
  BY <1>1, <1>3 DEF ReportInv, StateInv
<1>6. \A v \in Workspaces : StatusInv(v)' /\ NewestInv(v)'
  BY <1>1, <1>4 DEF ReportInv, StatusInv, NewestInv, IsNewest
<1>7. ASSUME NEW d \in Connections PROVE ClientInv(d)'
  <2>1. ClientInv(d)
    BY DEF ReportInv
  <2>2. CASE d = c
    BY <1>1, <2>2, Apart DEF ClientInv
  <2>3. CASE d # c
    <3>1. \A i \in Runs : d \in job'[i].clients <=> d \in job[i].clients
      BY <1>3, <2>3
    <3>. QED
      BY <1>1, <1>3, <1>4, <2>1, <2>3, <3>1 DEF ClientInv, RunsOf
  <2>. QED
    BY <2>2, <2>3
<1>. QED
  BY <1>1, <1>5, <1>6, <1>7 DEF ReportInv, Disconnect

LEMMA CrashReport ==
    ASSUME IInv, ReportInv, Crash PROVE ReportInv'
<1>1. /\ crashes' # 0 /\ crashes' \in Nat
      /\ \A i \in Runs : job'[i] = Lost(job[i]) /\ job[i] \in Job
  BY DEF Crash, IInv, TypeOK
<1>2. ASSUME NEW i \in Runs
      PROVE  /\ job'[i].clients = {} \/ job'[i] = job[i]
             /\ job'[i].pc \in {"none", "lost"}
  <2>1. CASE job[i].pc = "none"
    BY <1>1, <2>1 DEF Lost
  <2>2. CASE job[i].pc # "none"
    <3> DEFINE r == Lost(job[i])
    <3>1. r.pc = "lost" /\ r.clients = {}
      BY ZenonT(60), <1>1, <2>2 DEF Lost, Job
    <3> HIDE DEF r
    <3>. QED
      BY <1>1, <3>1 DEF r
  <2>. QED
    BY <2>1, <2>2
<1>3. \A i \in Runs : job'[i].pc \in {"none", "lost"}
  BY <1>2
<1>4. \A i \in Runs : StateInv(i)'
  BY <1>3 DEF StateInv, Live
<1>5. \A w \in Workspaces : StatusInv(w)' /\ NewestInv(w)'
  BY <1>1 DEF Crash, StatusInv, NewestInv, NoSnapshot
<1>6. ASSUME NEW c \in Connections PROVE ClientInv(c)'
  <2>1. conn'[c] \notin Workspaces /\ view'[c] = "none"
    BY Apart DEF Crash
  <2>2. conn'[c] = IF conn[c] \in Workspaces THEN "closed" ELSE conn[c]
    BY DEF Crash
  <2>3. ASSUME NEW i \in Runs, c \in job'[i].clients
        PROVE  conn'[c] \in {job'[i].ws, "closed"}
    <3>1. job'[i] = job[i] /\ c \in job[i].clients
      BY <1>2, <2>3
    <3>2. conn[c] \in {job[i].ws, "closed"}
      BY <3>1 DEF ReportInv, ClientInv
    <3>. QED
      BY <2>2, <3>1, <3>2
  <2>. QED
    BY <2>1, <2>3 DEF ClientInv
<1>. QED
  BY <1>1, <1>4, <1>5, <1>6 DEF ReportInv

LEMMA BootReport ==
    ASSUME IInv, ReportInv, Boot PROVE ReportInv'
<1>1. /\ crashes # 0 /\ UNCHANGED <<crashes, job, current, conn, view>>
  BY DEF Boot, ReportInv
<1>2. \A i \in Runs : ~Live(i) /\ ~Live(i)'
  BY <1>1 DEF Boot, IInv, LinkInv, Live
<1>3. \A i \in Runs : StateInv(i)'
  BY <1>2 DEF StateInv
<1>4. ASSUME NEW w \in Workspaces PROVE StatusInv(w)' /\ NewestInv(w)'
  <2>1. StatusInv(w) /\ NewestInv(w)'
    BY <1>1 DEF ReportInv, NewestInv
  <2>2. CASE OrphansOf(w) = {}
    <3>1. last'[w] = last[w]
      BY <2>2 DEF Boot
    <3>2. last[w].run # NoRun /\ db[last[w].run] \in Terminal
             => db'[last[w].run] = db[last[w].run]
      BY DEF Boot, Orphans, IInv, TypeOK, Snapshot
    <3>. QED
      BY <1>1, <2>1, <3>1, <3>2 DEF StatusInv, NewestInv
  <2>3. CASE OrphansOf(w) # {}
    <3>1. OrphansOf(w) \subseteq Runs
      BY DEF OrphansOf, Orphans
    <3>2. \E m \in OrphansOf(w) : \A i \in OrphansOf(w) : i <= m
      BY <2>3, <3>1, LastRun
    <3>3. PICK m \in OrphansOf(w) : last'[w] = [status |-> "stopped", run |-> m]
      BY <2>3, <3>2 DEF Boot
    <3>4. db'[m] = "stopped"
      BY <3>3 DEF Boot, OrphansOf, Orphans
    <3>. QED
      BY <1>1, <2>1, <3>3, <3>4 DEF StatusInv
  <2>. QED
    BY <2>2, <2>3
<1>5. \A c \in Connections : ClientInv(c)'
  BY <1>1, <1>2 DEF ReportInv, ClientInv, RunsOf
<1>. QED
  BY <1>1, <1>3, <1>4, <1>5 DEF ReportInv

LEMMA NextReport ==
    ASSUME IInv, ReportInv, [Next]_vars PROVE ReportInv'
<1>1. CASE Next
  <2>1. ASSUME NEW w \in Workspaces, NEW m \in Modes, Start(w, m) PROVE ReportInv'
    BY <2>1, StartReport, RunAssumption
  <2>2. ASSUME NEW w \in Workspaces, Restart(w) PROVE ReportInv'
    BY <2>2, StartReport DEF Restart, IInv, TypeOK
  <2>3. ASSUME NEW w \in Workspaces, Stop(w) \/ StopIdle(w) PROVE ReportInv'
    BY <2>3, StopReport, StopIdleReport
  <2>4. ASSUME NEW c \in Connections,
               Disconnect(c) \/ \E w \in Workspaces : Connect(c, w)
        PROVE  ReportInv'
    BY <2>4, ConnectReport, DisconnectReport
  <2>5. ASSUME NEW j \in Runs, Step(j) PROVE ReportInv'
    BY <2>5, EnsureReturnsReport, FailureLoggedReport, RunReturnsReport,
       TimeoutLoggedReport, OwnStepReport, LineLoggedReport DEF Step
  <2>6. CASE Crash \/ Boot
    BY <2>6, CrashReport, BootReport
  <2>. QED
    BY <1>1, <2>1, <2>2, <2>3, <2>4, <2>5, <2>6 DEF Next, Request
<1>2. CASE UNCHANGED vars
  BY <1>2, QuietReport DEF vars, Live
<1>. QED
  BY <1>1, <1>2

\* In every reachable state the reports are consistent with the rows.
THEOREM Reports == Spec => [](IInv /\ ReportInv)
<1>1. Init => IInv /\ ReportInv
  BY InitInv, InitReport
<1>2. IInv /\ ReportInv /\ [Next]_vars => (IInv /\ ReportInv)'
  BY NextInv, NextReport
<1>. QED
  BY <1>1, <1>2, PTL DEF Spec

\* After a restart too, a workspace reports the status its last run's row has.
THEOREM SnapshotsMatch == Spec => []SnapshotMatchesRow
<1>1. ASSUME IInv, ReportInv PROVE SnapshotMatchesRow
  <2> SUFFICES ASSUME up, NEW w \in Workspaces, SnapshotOf(w).run # NoRun
               PROVE  \/ SnapshotOf(w).status = db[SnapshotOf(w).run]
                      \/ SnapshotOf(w).status = "stopping" /\ db[SnapshotOf(w).run] \in Open
    BY DEF SnapshotMatchesRow
  <2>1. StatusInv(w) /\ CurrentInv(w)
    BY <1>1 DEF ReportInv, IInv
  <2>2. CASE current[w] # NoRun
    <3>1. /\ current[w] \in Runs /\ Live(current[w]) /\ StateInv(current[w])
          /\ LinkInv(current[w])
      BY <1>1, <2>1, <2>2 DEF CurrentInv, IInv, TypeOK, ReportInv
    <3>2. db[current[w]] \in Open /\ job[current[w]].state = db[current[w]]
      BY <3>1 DEF LinkInv, StateInv
    <3>. QED
      BY <2>2, <3>2 DEF SnapshotOf
  <2>3. CASE current[w] = NoRun /\ last[w].status # "none"
    <3>1. SnapshotOf(w) = last[w]
      BY <2>3 DEF SnapshotOf
    <3>. QED
      BY <2>1, <2>3, <3>1 DEF StatusInv
  <2>4. CASE current[w] = NoRun /\ last[w].status = "none"
    BY <2>4 DEF SnapshotOf
  <2>. QED
    BY <2>2, <2>3, <2>4
<1>2. IInv /\ ReportInv => SnapshotMatchesRow
  BY <1>1
<1>. QED
  BY <1>2, Reports, PTL

\* As long as the process has not crashed, the run a workspace reports is its
\* newest: no superseded run that ends late takes the report over.
THEOREM SnapshotsAreNewest == Spec => []SnapshotIsNewest
<1>1. ASSUME IInv, ReportInv PROVE SnapshotIsNewest
  <2> SUFFICES ASSUME crashes = 0, NEW w \in Workspaces, SnapshotOf(w).run # NoRun
               PROVE  IsNewest(SnapshotOf(w).run, w)
    BY DEF SnapshotIsNewest
  <2>1. NewestInv(w)
    BY <1>1 DEF ReportInv
  <2>2. CASE current[w] # NoRun
    BY <2>1, <2>2 DEF NewestInv, SnapshotOf
  <2>3. CASE current[w] = NoRun /\ last[w].status # "none"
    BY <2>1, <2>3 DEF NewestInv, SnapshotOf
  <2>4. CASE current[w] = NoRun /\ last[w].status = "none"
    BY <2>1, <2>4 DEF NewestInv, SnapshotOf
  <2>. QED
    BY <2>2, <2>3, <2>4
<1>2. IInv /\ ReportInv => SnapshotIsNewest
  BY <1>1
<1>. QED
  BY <1>2, Reports, PTL

\* No browser keeps showing a run in progress once every run of its workspace
\* is over: the end was told to it, or it was never told of a run.
THEOREM EndsAreTold == Spec => []IdleClientsToldTerminal
<1>1. IInv /\ ReportInv => IdleClientsToldTerminal
  BY DEF ReportInv, ClientInv, IdleClientsToldTerminal
<1>. QED
  BY <1>1, Reports, PTL

-----------------------------------------------------------------------------
(* The rows: RunManager implements RunLifecycle                            *)


\* The refinement mapping.
Owner == [j \in Runs |-> job[j].ws]
Want  == [w \in Workspaces |-> Wanted(w)]

USE DEF Owner, Want

\* Who requested a run never changes once it has begun, and no step but those
\* of the lemmas below touches a wish.
LEMMA SameWishes ==
    ASSUME IInv, current' = current,
           \A i \in Runs : job'[i].ws = job[i].ws,
           \A w \in Workspaces : current[w] # NoRun =>
               job'[current[w]].canceled = job[current[w]].canceled
    PROVE  Owner' = Owner /\ Want' = Want
BY DEF Wanted, IInv, TypeOK

LEMMA MapInit == Init => Lifecycle!LInit
<1>1. Unstarted.ws = "none"
  BY DEF Unstarted, NewJob
<1>. QED
  BY <1>1 DEF Init, Lifecycle!LInit, Wanted

LEMMA MapStart ==
    ASSUME NEW w \in Workspaces, NEW m \in {"run", "debug", "build"}, IInv,
           Start(w, m)
    PROVE  Lifecycle!Request(w, started + 1) /\ started + 1 \in Runs
<1> DEFINE j == started + 1
           k == current[w]
<1>1. /\ j \in Runs /\ k \in RunIds /\ started \in Nat /\ k # j
      /\ \A i \in Runs : LinkInv(i) /\ job[i] \in Job
      /\ \A v \in Workspaces : current[v] \in RunIds /\ CurrentInv(v)
  BY DEF Start, IInv, TypeOK, LinkInv, CurrentInv, Live
<1>2. db[j] = "absent" /\ \A i \in Runs : i < j => db[i] # "absent"
  BY <1>1 DEF LinkInv
<1>3. db' = [db EXCEPT ![j] = "building"]
  BY DEF Start
<1>4. ASSUME NEW i \in Runs
      PROVE  /\ i = j => job'[i].ws = w /\ ~job'[i].canceled
             /\ i # j => job'[i].ws = job[i].ws
             /\ i # j /\ i # k => job'[i] = job[i]
  BY <1>1, CanceledFields DEF Start, NewJob
<1>5. Owner' = [Owner EXCEPT ![j] = w]
  BY <1>1, <1>4
<1>6. ASSUME NEW v \in Workspaces
      PROVE  Want'[v] = IF v = w THEN j ELSE Want[v]
  <2>1. CASE v = w
    BY <1>1, <1>4, <2>1 DEF Start, Wanted, IInv, TypeOK
  <2>2. CASE v # w
    <3>1. current'[v] = current[v]
      BY <2>2 DEF Start, IInv, TypeOK
    <3>2. current[v] # NoRun => current[v] # k /\ current[v] # j
      BY <1>1, <2>2 DEF CurrentInv, LinkInv, Live
    <3>3. current[v] # NoRun => job'[current[v]] = job[current[v]]
      BY <1>1, <1>4, <3>2
    <3>. QED
      BY <2>2, <3>1, <3>3 DEF Wanted
  <2>. QED
    BY <2>1, <2>2
<1>7. Want' = [Want EXCEPT ![w] = j]
  BY <1>6
<1>. QED
  BY <1>1, <1>2, <1>3, <1>5, <1>7 DEF Lifecycle!Request

LEMMA MapStop ==
    ASSUME NEW w \in Workspaces, IInv, Stop(w)
    PROVE  Lifecycle!Withdraw(w)
<1> DEFINE k == current[w]
<1>1. /\ k \in Runs /\ current' = current /\ db' = db
      /\ job' = [job EXCEPT ![k] = Canceled(job[k])]
      /\ job \in [Runs -> Job]
      /\ \A v \in Workspaces : current[v] \in RunIds /\ CurrentInv(v)
  BY DEF Stop, IInv, TypeOK
<1>2. job'[k].ws = job[k].ws /\ job'[k].canceled
  BY <1>1, CanceledFields
<1>3. \A i \in Runs : i # k => job'[i] = job[i]
  BY <1>1
<1>4. Owner' = Owner
  BY <1>2, <1>3
<1>5. ASSUME NEW v \in Workspaces
      PROVE  Want'[v] = IF v = w THEN 0 ELSE Want[v]
  <2>1. CASE v = w
    BY <1>1, <1>2, <2>1 DEF Wanted
  <2>2. CASE v # w
    <3>1. current[v] # NoRun => current[v] # k
      BY <1>1, <2>2 DEF CurrentInv
    <3>. QED
      BY <1>1, <1>3, <2>2, <3>1 DEF Wanted
  <2>. QED
    BY <2>1, <2>2
<1>6. Want' = [Want EXCEPT ![w] = 0]
  BY <1>5
<1>. QED
  BY <1>1, <1>4, <1>6 DEF Lifecycle!Withdraw

\* finishJob on a live job is its end, whatever else the caller assigned.
LEMMA MapFinish ==
    ASSUME IInv, NEW j \in Runs, NEW r \in Job, NEW st \in Terminal,
           r.ws = job[j].ws, r.finished = job[j].finished,
           job[j].pc \in {"ensuring", "exec", "failing", "returned"},
           FinishJob(j, r, st)
    PROVE  \/ Lifecycle!End(j, st)
           \/ UNCHANGED <<Owner, db, Want>>
<1>1. /\ job \in [Runs -> Job] /\ LinkInv(j) /\ RecordInv(job[j])
      /\ current \in [Workspaces -> RunIds]
      /\ \A v \in Workspaces : CurrentInv(v)
  BY DEF IInv, TypeOK
<1>2. CASE ~r.finished
  <2> DEFINE f == [Release(r) EXCEPT !.finished = TRUE, !.state = st]
  <2>1. f.ws = r.ws
    BY DEF Release, Job
  <2>2. /\ job' = [job EXCEPT ![j] = f] /\ db' = [db EXCEPT ![j] = st]
        /\ current' = IF IsCurrent(j) THEN [current EXCEPT ![r.ws] = NoRun]
                                      ELSE current
    BY <1>2 DEF FinishJob, Terminate
  <2> HIDE DEF f
  <2>3. db[j] \in {"building", "running"}
    BY <1>1, <1>2 DEF LinkInv, RecordInv, Live
  <2>4. Owner' = Owner
    BY <1>1, <2>1, <2>2
  <2>5. ASSUME NEW v \in Workspaces
        PROVE  Want'[v] = IF Want[v] = j THEN 0 ELSE Want[v]
    <3>1. CASE current[v] = j
      <4>1. r.ws = v
        BY <1>1, <3>1 DEF CurrentInv
      <4>2. current'[v] = NoRun
        BY <1>1, <2>2, <3>1, <4>1 DEF IsCurrent
      <4>. QED
        BY <3>1, <4>2 DEF Wanted
    <3>2. CASE current[v] # j
      <4>1. current'[v] = current[v]
        BY <1>1, <2>2, <3>2 DEF IsCurrent
      <4>2. current[v] # NoRun => job'[current[v]] = job[current[v]]
        BY <1>1, <2>2, <3>2
      <4>. QED
        BY <3>2, <4>1, <4>2 DEF Wanted
    <3>. QED
      BY <3>1, <3>2
  <2>6. Want' = [w \in Workspaces |-> IF Want[w] = j THEN 0 ELSE Want[w]]
    BY <2>5
  <2>. QED
    BY <2>2, <2>3, <2>4, <2>6 DEF Lifecycle!End
<1>3. CASE r.finished
  <2>1. job' = [job EXCEPT ![j] = r] /\ db' = db /\ current' = current
    BY <1>3 DEF FinishJob
  <2>2. ~Live(j)
    BY <1>3 DEF Live
  <2>3. \A w \in Workspaces : current[w] # j
    BY <1>1, <2>2 DEF CurrentInv
  <2>. QED
    BY <1>1, <2>1, <2>3, SameWishes
<1>. QED
  BY <1>2, <1>3

\* The line that makes a run ready.
LEMMA MapLineLogged ==
    ASSUME IInv, NEW j \in Runs, NEW l \in Lines, LineLogged(j, l)
    PROVE  \/ Lifecycle!BecomeRunning(j)
           \/ UNCHANGED <<Owner, db, Want>>
<1> DEFINE p == [job[j] EXCEPT !.pending = @ \ {l}]
<1>1. /\ job \in [Runs -> Job] /\ LinkInv(j) /\ RecordInv(job[j])
      /\ job[j] \in Job
      /\ current \in [Workspaces -> RunIds]
      /\ db \in [Runs -> {"absent"} \cup Open \cup Terminal]
  BY DEF IInv, TypeOK
<1>2. /\ job[j].pc = "exec" /\ current' = current
  BY <1>1 DEF LineLogged, RecordInv
<1>3. /\ job'[j].ws = job[j].ws /\ job'[j].canceled = job[j].canceled
      /\ \A i \in Runs : i # j => job'[i] = job[i]
  <2>1. p \in Job /\ p.ws = job[j].ws /\ p.canceled = job[j].canceled
    BY <1>1 DEF Job
  <2>2. PICK r : /\ job' = [job EXCEPT ![j] = r]
                 /\ r \in {p, Release(p), [Release(p) EXCEPT !.reported = TRUE,
                                                          !.state = "running"]}
    BY DEF LineLogged
  <2> HIDE DEF p
  <2>3. r.ws = p.ws /\ r.canceled = p.canceled
    BY <2>1, <2>2 DEF Release, Job
  <2>. QED
    BY <1>1, <2>1, <2>2, <2>3
<1>4. Owner' = Owner /\ Want' = Want
  BY <1>1, <1>2, <1>3, SameWishes
<1>5. db' = db \/ (BecomesReady(p, l) /\ db' = [db EXCEPT ![j] = "running"])
  BY DEF LineLogged
<1>6. CASE BecomesReady(p, l) /\ db' = [db EXCEPT ![j] = "running"]
  <2>1. ~job[j].finished /\ ~job[j].canceled
    BY <1>1, <1>6 DEF BecomesReady, Job
  <2>2. Live(j) /\ current[job[j].ws] = j /\ db[j] \in Open
    BY <1>1, <1>2, <2>1 DEF Live, LinkInv
  <2>3. job[j].ws \in Workspaces
    BY <1>1, <1>2 DEF RecordInv, Job
  <2>4. Want[Owner[j]] = j
    BY <2>1, <2>2, <2>3 DEF Wanted
  <2>5. CASE db[j] = "building"
    BY <1>4, <1>6, <2>4, <2>5 DEF Lifecycle!BecomeRunning
  <2>6. CASE db[j] = "running"
    BY <1>1, <1>4, <1>6, <2>6
  <2>. QED
    BY <2>2, <2>5, <2>6
<1>. QED
  BY <1>4, <1>5, <1>6

\* The deadline withdraws the wish of a current run.
LEMMA MapTimerFires ==
    ASSUME IInv, NEW j \in Runs, TimerFires(j)
    PROVE  \/ job[j].ws \in Workspaces /\ Lifecycle!Withdraw(job[j].ws)
           \/ UNCHANGED <<Owner, db, Want>>
<1>1. /\ job \in [Runs -> Job] /\ RecordInv(job[j])
      /\ current \in [Workspaces -> RunIds]
      /\ \A v \in Workspaces : CurrentInv(v)
  BY DEF IInv, TypeOK
<1>2. /\ db' = db /\ current' = current /\ job[j].ws \in Workspaces
      /\ ~job[j].finished /\ ~job[j].reported
  BY <1>1 DEF TimerFires, RecordInv, Job
<1>3. /\ job'[j].ws = job[j].ws /\ job'[j].canceled
      /\ \A i \in Runs : i # j => job'[i] = job[i]
  BY <1>1, <1>2 DEF TimerFires, Job
<1>4. Owner' = Owner
  BY <1>3
<1>5. CASE current[job[j].ws] = j
  <2>1. ASSUME NEW v \in Workspaces
        PROVE  Want'[v] = IF v = job[j].ws THEN 0 ELSE Want[v]
    <3>1. v # job[j].ws => current[v] # j
      BY <1>1 DEF CurrentInv
    <3>2. v # job[j].ws /\ current[v] # NoRun => job'[current[v]] = job[current[v]]
      BY <1>1, <1>3, <3>1
    <3>. QED
      BY <1>2, <1>3, <1>5, <3>2 DEF Wanted
  <2>2. Want' = [Want EXCEPT ![job[j].ws] = 0]
    BY <2>1
  <2>. QED
    BY <1>2, <1>4, <2>2 DEF Lifecycle!Withdraw
<1>6. CASE current[job[j].ws] # j
  <2>1. \A v \in Workspaces : current[v] # j
    BY <1>1, <1>6 DEF CurrentInv
  <2>. QED
    BY <1>1, <1>2, <1>3, <2>1, SameWishes
<1>. QED
  BY <1>5, <1>6

LEMMA MapCrash ==
    ASSUME IInv, Crash
    PROVE  Lifecycle!WithdrawAll
<1>1. ASSUME NEW i \in Runs PROVE job'[i].ws = job[i].ws
  <2>1. job[i] \in Job /\ job'[i] = Lost(job[i])
    BY DEF Crash, IInv, TypeOK
  <2>. QED
    BY <2>1 DEF Lost, Job
<1>2. Owner' = Owner
  BY <1>1
<1>3. Want' = [w \in Workspaces |-> 0]
  BY DEF Crash, Wanted
<1>. QED
  BY <1>2, <1>3 DEF Crash, Lifecycle!WithdrawAll

LEMMA MapBoot ==
    ASSUME IInv, Boot
    PROVE  Lifecycle!CloseAll
<1>1. \A w \in Workspaces : current[w] = NoRun
  BY DEF Boot, IInv, TypeOK, LinkInv, CurrentInv, Live
<1>2. \A w \in Workspaces : Want[w] = 0
  BY <1>1 DEF Wanted
<1>3. Owner' = Owner /\ Want' = Want
  BY <1>1 DEF Boot, Wanted
<1>4. db' = [i \in Runs |-> IF db[i] \in {"building", "running"}
                            THEN "stopped" ELSE db[i]]
  BY DEF Boot, Orphans
<1>. QED
  BY <1>2, <1>3, <1>4 DEF Lifecycle!CloseAll

LEMMA MapStep ==
    ASSUME IInv, NEW j \in Runs, Step(j)
    PROVE  [Lifecycle!LNext]_(Lifecycle!lvars)
<1>1. job \in [Runs -> Job] /\ RecordInv(job[j]) /\ job[j] \in Job
  BY DEF IInv, TypeOK
<1>2. CASE UNCHANGED <<Owner, db, Want>>
  BY <1>2 DEF Lifecycle!lvars
<1>3. ASSUME NEW st \in Terminal, Lifecycle!End(j, st)
      PROVE  Lifecycle!LNext
  BY <1>3 DEF Lifecycle!LNext, Lifecycle!Over
<1>4. ASSUME NEW r \in Job, job' = [job EXCEPT ![j] = r], r.ws = job[j].ws,
             r.canceled = job[j].canceled, current' = current, db' = db
      PROVE  UNCHANGED <<Owner, db, Want>>
  <2>1. \A i \in Runs : job'[i].ws = job[i].ws /\ job'[i].canceled = job[i].canceled
    BY <1>1, <1>4
  <2>. QED
    BY <1>4, <2>1, SameWishes DEF IInv, TypeOK
<1>5. CASE EnsureReturns(j)
  <2>1. CASE job[j].canceled
    <3> DEFINE r == [job[j] EXCEPT !.pc = "returned"]
    <3>1. r \in Job /\ r.ws = job[j].ws /\ r.finished = job[j].finished
      BY <1>1 DEF Job
    <3>2. FinishJob(j, r, "stopped") /\ job[j].pc = "ensuring"
      BY <1>5, <2>1 DEF EnsureReturns
    <3> HIDE DEF r
    <3>. QED
      BY <1>2, <1>3, <3>1, <3>2, MapFinish
  <2>2. CASE ~job[j].canceled
    <3>1. Launched(job[j]) \in Job /\ Launched(job[j]).ws = job[j].ws
          /\ Launched(job[j]).canceled = job[j].canceled
      BY <1>1 DEF Launched, Job
    <3>. QED
      BY <1>2, <1>4, <1>5, <2>2, <3>1 DEF EnsureReturns
  <2>. QED
    BY <2>1, <2>2
<1>6. CASE EnsureFails(j)
  <2> DEFINE r == [job[j] EXCEPT !.pc = "failing"]
  <2>1. r \in Job /\ r.ws = job[j].ws /\ r.canceled = job[j].canceled
        /\ job' = [job EXCEPT ![j] = r]
    BY <1>1, <1>6 DEF EnsureFails, Job
  <2>. QED
    BY <1>2, <1>4, <1>6, <2>1 DEF EnsureFails
<1>7. CASE FailureLogged(j)
  <2> DEFINE r == [job[j] EXCEPT !.pc = "returned"]
             st == IF job[j].canceled THEN "stopped" ELSE "failed"
  <2>1. r \in Job /\ r.ws = job[j].ws /\ r.finished = job[j].finished
    BY <1>1 DEF Job
  <2>2. FinishJob(j, r, st) /\ job[j].pc = "failing" /\ st \in Terminal
    BY <1>7 DEF FailureLogged
  <2> HIDE DEF r, st
  <2>. QED
    BY <1>2, <1>3, <2>1, <2>2, MapFinish
<1>8. ASSUME NEW l \in Lines, Prints(j, l)
      PROVE  UNCHANGED <<Owner, db, Want>>
  <2> DEFINE r == [job[j] EXCEPT !.emitted = @ \cup {l}, !.pending = @ \cup {l}]
  <2>1. r \in Job /\ r.ws = job[j].ws /\ r.canceled = job[j].canceled
    BY <1>1 DEF Job
  <2>2. job' = [job EXCEPT ![j] = r]
    BY <1>1, <1>8 DEF Prints
  <2>. QED
    BY <1>4, <1>8, <2>1, <2>2 DEF Prints
<1>9. ASSUME NEW l \in Lines, LineLogged(j, l)
      PROVE  [Lifecycle!LNext]_(Lifecycle!lvars)
  BY <1>2, <1>9, MapLineLogged DEF Lifecycle!LNext
<1>10. ASSUME NEW code \in {"ok", "error"}, CommandExits(j, code)
       PROVE  UNCHANGED <<Owner, db, Want>>
  <2> DEFINE r == [job[j] EXCEPT !.cmd = "exited", !.exit = code]
  <2>1. r \in Job /\ r.ws = job[j].ws /\ r.canceled = job[j].canceled
    BY ZenonT(60), <1>1 DEF Job
  <2>2. job' = [job EXCEPT ![j] = r]
    BY <1>1, <1>10 DEF CommandExits
  <2>. QED
    BY <1>4, <1>10, <2>1, <2>2 DEF CommandExits
<1>11. CASE RunReturns(j)
  <2> DEFINE r == [job[j] EXCEPT !.pc = "returned"]
             clean == job[j].exit = "ok" /\ (job[j].reported \/ job[j].mode = "build")
             st == IF job[j].canceled \/ clean THEN "stopped" ELSE "failed"
  <2>1. r \in Job /\ r.ws = job[j].ws /\ r.finished = job[j].finished
    BY <1>1 DEF Job
  <2>2. FinishJob(j, r, st) /\ job[j].pc = "exec" /\ st \in Terminal
    BY <1>11 DEF RunReturns
  <2> HIDE DEF r, st
  <2>. QED
    BY <1>2, <1>3, <2>1, <2>2, MapFinish
<1>12. CASE TimerFires(j)
  BY <1>2, <1>12, MapTimerFires DEF Lifecycle!LNext
<1>13. CASE TimeoutLogged(j)
  <2> DEFINE c == Canceled(job[j])
             r == [c EXCEPT !.expiring = FALSE]
  <2>1. c \in Job /\ c.ws = job[j].ws /\ c.finished = job[j].finished
    BY <1>1, CanceledFields
  <2>2. FinishJob(j, r, "failed") /\ job[j].pc \in {"exec", "returned"}
    BY <1>1, <1>13 DEF TimeoutLogged, RecordInv
  <2> HIDE DEF c
  <2>3. r \in Job /\ r.ws = c.ws /\ r.finished = c.finished
    BY <2>1 DEF Job
  <2> HIDE DEF r
  <2>. QED
    BY <1>2, <1>3, <2>1, <2>2, <2>3, MapFinish
<1>. QED
  BY <1>2, <1>5, <1>6, <1>7, <1>8, <1>9, <1>10, <1>11, <1>12, <1>13 DEF Step

LEMMA MapNext == IInv /\ [Next]_vars => [Lifecycle!LNext]_(Lifecycle!lvars)
<1> SUFFICES ASSUME IInv, [Next]_vars
             PROVE  [Lifecycle!LNext]_(Lifecycle!lvars)
  OBVIOUS
<1>1. ASSUME UNCHANGED <<job, db, current>>
      PROVE  [Lifecycle!LNext]_(Lifecycle!lvars)
  BY <1>1 DEF Lifecycle!lvars, Wanted
<1>2. CASE Request
  <2>1. ASSUME NEW w \in Workspaces, NEW m \in {"run", "debug", "build"},
               Start(w, m)
        PROVE  Lifecycle!LNext
    <3> DEFINE i == started + 1
    <3>1. Lifecycle!Request(w, i) /\ i \in Runs
      BY <2>1, MapStart
    <3> HIDE DEF i
    <3>. QED
      BY <3>1 DEF Lifecycle!LNext, Lifecycle!Request
  <2>2. ASSUME NEW w \in Workspaces, Restart(w)
        PROVE  Lifecycle!LNext
    BY <2>1, <2>2 DEF Restart, IInv, TypeOK
  <2>3. ASSUME NEW w \in Workspaces, Stop(w)
        PROVE  Lifecycle!LNext
    BY <2>3, MapStop DEF Lifecycle!LNext
  <2>4. ASSUME NEW w \in Workspaces, StopIdle(w)
        PROVE  UNCHANGED <<job, db, current>>
    BY <2>4 DEF StopIdle
  <2>5. ASSUME NEW k \in Runs, NEW r, r.ws = job[k].ws,
               r.canceled = job[k].canceled, job' = [job EXCEPT ![k] = r],
               UNCHANGED <<db, current>>
        PROVE  UNCHANGED <<Owner, db, Want>>
    <3>1. \A i \in Runs : job'[i].ws = job[i].ws /\ job'[i].canceled = job[i].canceled
      BY <2>5 DEF IInv, TypeOK
    <3>. QED
      BY <2>5, <3>1, SameWishes DEF IInv, TypeOK
  <2>6. ASSUME NEW c \in Connections, NEW w \in Workspaces, Connect(c, w)
        PROVE  UNCHANGED <<Owner, db, Want>> \/ UNCHANGED <<job, db, current>>
    <3>1. CASE current[w] = NoRun
      BY <2>6, <3>1 DEF Connect
    <3>2. CASE current[w] # NoRun
      <4> DEFINE k == current[w]
      <4>1. k \in Runs /\ job[k] \in Job
        BY <3>2 DEF IInv, TypeOK
      <4>2. /\ Joined(job[k], c).ws = job[k].ws
            /\ Joined(job[k], c).canceled = job[k].canceled
        BY <4>1 DEF Joined, Job
      <4>3. job' = [job EXCEPT ![k] = Joined(job[k], c)] /\ UNCHANGED <<db, current>>
        BY <2>6, <3>2 DEF Connect
      <4>. QED
        BY <2>5, <4>1, <4>2, <4>3
    <3>. QED
      BY <3>1, <3>2
  <2>7. ASSUME NEW c \in Connections, Disconnect(c)
        PROVE  UNCHANGED <<Owner, db, Want>> \/ UNCHANGED <<job, db, current>>
    <3> DEFINE k == current[conn[c]]
    <3>1. CASE k = NoRun
      BY <2>7, <3>1 DEF Disconnect
    <3>2. CASE k # NoRun
      <4> DEFINE r == [job[k] EXCEPT !.clients = @ \ {c}]
      <4>1. k \in Runs /\ job[k] \in Job
        BY <2>7, <3>2 DEF Disconnect, IInv, TypeOK
      <4>2. r.ws = job[k].ws /\ r.canceled = job[k].canceled
        BY <4>1 DEF Job
      <4>3. job' = [job EXCEPT ![k] = r] /\ UNCHANGED <<db, current>>
        BY <2>7, <3>2, <4>1 DEF Disconnect, IInv, TypeOK
      <4> HIDE DEF r, k
      <4>. QED
        BY <2>5, <4>1, <4>2, <4>3
    <3>. QED
      BY <3>1, <3>2
  <2>8. UNCHANGED <<Owner, db, Want>> => [Lifecycle!LNext]_(Lifecycle!lvars)
    BY DEF Lifecycle!lvars
  <2>. QED
    BY <1>1, <1>2, <2>1, <2>2, <2>3, <2>4, <2>6, <2>7, <2>8 DEF Request
<1>3. ASSUME NEW j \in Runs, Step(j)
      PROVE  [Lifecycle!LNext]_(Lifecycle!lvars)
  BY <1>3, MapStep
<1>4. CASE Crash
  BY <1>4, MapCrash DEF Lifecycle!LNext
<1>5. CASE Boot
  BY <1>5, MapBoot DEF Lifecycle!LNext
<1>6. CASE UNCHANGED vars
  BY <1>1, <1>6 DEF vars
<1>. QED
  BY <1>2, <1>3, <1>4, <1>5, <1>6 DEF Next

\* The run manager implements the lifecycle its users are promised.
THEOREM ImplementsLifecycle == Spec => RefinesLifecycle
<1>1. Init => Lifecycle!LInit
  BY MapInit
<1>2. IInv /\ [Next]_vars => [Lifecycle!LNext]_(Lifecycle!lvars)
  BY MapNext
<1>. QED
  BY <1>1, <1>2, Inductive, PTL DEF Spec, RefinesLifecycle, Lifecycle!LSpec

-----------------------------------------------------------------------------
(* What the lifecycle says of the rows, and so the manager's rows          *)

LEMMA RowStep ==
    ASSUME IInv, [Next]_vars, NEW j \in Runs
    PROVE  /\ db[j] \in Terminal => db'[j] = db[j]
           /\ job[j].canceled /\ db[j] = "building" => db'[j] # "running"
<1>1. db \in [Runs -> {"absent"} \cup Open \cup Terminal]
      /\ current \in [Workspaces -> RunIds]
  BY DEF IInv, TypeOK
<1>2. CASE db' = db
  BY <1>2
<1>3. ASSUME NEW i \in Runs, NEW w \in Workspaces, Lifecycle!Request(w, i)
      PROVE  db[i] = "absent" /\ db' = [db EXCEPT ![i] = "building"]
  BY <1>3 DEF Lifecycle!Request
<1>4. ASSUME NEW i \in Runs, Lifecycle!BecomeRunning(i)
      PROVE  /\ db[i] = "building" /\ db' = [db EXCEPT ![i] = "running"]
             /\ ~job[i].canceled
  <2>1. db[i] = "building" /\ db' = [db EXCEPT ![i] = "running"]
    BY <1>4 DEF Lifecycle!BecomeRunning
  <2>2. job[i].ws \in Workspaces
    BY <2>1 DEF IInv, TypeOK, LinkInv, RecordInv, Job
  <2>3. Wanted(job[i].ws) = i
    BY <1>4, <2>2 DEF Lifecycle!BecomeRunning
  <2>. QED
    BY <2>1, <2>3 DEF Wanted
<1>5. ASSUME NEW i \in Runs, NEW st \in Terminal, Lifecycle!End(i, st)
      PROVE  db[i] \in Open /\ db' = [db EXCEPT ![i] = st]
  BY <1>5 DEF Lifecycle!End
<1>6. CASE Lifecycle!CloseAll
  BY <1>1, <1>6 DEF Lifecycle!CloseAll
<1>7. [Lifecycle!LNext]_(Lifecycle!lvars)
  BY MapNext
<1>8. \A w \in Workspaces : Lifecycle!Withdraw(w) => db' = db
  BY DEF Lifecycle!Withdraw
<1>9. Lifecycle!WithdrawAll => db' = db
  BY DEF Lifecycle!WithdrawAll
<1>10. UNCHANGED Lifecycle!lvars => db' = db
  BY DEF Lifecycle!lvars
<1>. QED
  BY <1>1, <1>2, <1>3, <1>4, <1>5, <1>6, <1>7, <1>8, <1>9, <1>10
     DEF Lifecycle!LNext, Lifecycle!Over

\* The end recorded in a row is final.
THEOREM EndsAreFinal == Spec => TerminalRowsFinal
<1>1. IInv /\ [Next]_vars
        => [\A j \in Runs : db[j] \in Terminal => db'[j] = db[j]]_vars
  BY RowStep
<1>. QED
  BY <1>1, Inductive, PTL DEF Spec, TerminalRowsFinal

\* A run canceled before it was ready is never reported as running afterwards.
THEOREM CanceledStaysUnready == Spec => CanceledNeverRuns
<1>1. IInv /\ [Next]_vars
        => [\A j \in Runs : job[j].canceled /\ db[j] = "building"
                               => db'[j] # "running"]_vars
  BY RowStep
<1>. QED
  BY <1>1, Inductive, PTL DEF Spec, CanceledNeverRuns

-----------------------------------------------------------------------------
(* A canceled run winds down.                                              *)

\* A command that may outlive the cancel was told to stop, or will be.
WindRecord(r) ==
    /\ r.canceled /\ ~r.finished /\ r.cmd = "alive" => r.killed \/ r.expiring
    /\ r.pc = "exec" => r.cmd # "none"

LiveRecord(r) == r.pc \in {"ensuring", "exec", "failing"} /\ ~r.finished

\* What becomes of a record r when it is n afterwards.
Winds(r, n) ==
    /\ WindRecord(n)
    /\ r.canceled /\ LiveRecord(r) /\ LiveRecord(n) =>
         /\ n.canceled
         /\ n.pc = r.pc \/ (r.pc = "ensuring" /\ n.pc = "failing")
         /\ n.cmd = "alive" => r.cmd = "alive"

WindInv == \A j \in Runs : WindRecord(job[j])

\* finishJob ends the run, or finds that it has ended.
LEMMA FinishWinds ==
    ASSUME IInv, NEW j \in Runs, NEW r \in Job, NEW st,
           r.finished = job[j].finished, r.pc = "exec" => r.cmd # "none",
           FinishJob(j, r, st)
    PROVE  /\ Winds(job[j], job'[j])
           /\ \A i \in Runs \ {j} : job'[i] = job[i]
<1>0. job \in [Runs -> Job]
  BY DEF IInv, TypeOK
<1>1. CASE r.finished
  <2>1. job' = [job EXCEPT ![j] = r]
    BY <1>1 DEF FinishJob
  <2>2. job'[j] = r /\ \A i \in Runs \ {j} : job'[i] = job[i]
    BY <1>0, <2>1
  <2>. QED
    BY <1>1, <2>2 DEF Winds, WindRecord, LiveRecord
<1>2. CASE ~r.finished
  <2> DEFINE f == [Release(r) EXCEPT !.finished = TRUE, !.state = st]
  <2>1. f.pc = r.pc /\ f.cmd = r.cmd /\ f.finished = TRUE
    BY DEF Release, Job
  <2>2. job' = [job EXCEPT ![j] = f]
    BY <1>2 DEF FinishJob, Terminate
  <2> HIDE DEF f
  <2>3. job'[j] = f /\ \A i \in Runs \ {j} : job'[i] = job[i]
    BY <1>0, <2>2
  <2>. QED
    BY <2>1, <2>3 DEF Winds, WindRecord, LiveRecord
<1>. QED
  BY <1>1, <1>2

\* A record that keeps what matters keeps winding down, and so does one that
\* was canceled just now.
LEMMA SameWinds ==
    ASSUME NEW r, NEW n, WindRecord(r), n.pc = r.pc, n.cmd = r.cmd, n.canceled = r.canceled,
           n.finished = r.finished, n.killed = r.killed, n.expiring = r.expiring
    PROVE  Winds(r, n)
BY DEF Winds, WindRecord, LiveRecord

LEMMA CancelWinds ==
    ASSUME NEW r \in Job, WindRecord(r)
    PROVE  Winds(r, Canceled(r))
<1> DEFINE c == Canceled(r)
<1>1. /\ c.pc = r.pc /\ c.cmd = r.cmd /\ c.finished = r.finished
      /\ c.canceled /\ (c.cmd = "alive" => c.killed)
  BY CanceledFields
<1> HIDE DEF c
<1>2. Winds(r, c)
  BY <1>1 DEF Winds, WindRecord, LiveRecord
<1>. QED
  BY <1>2 DEF c

LEMMA StepWinds ==
    ASSUME IInv, WindInv, NEW j \in Runs, Step(j)
    PROVE  \A i \in Runs : Winds(job[i], job'[i])
<1>0. /\ job \in [Runs -> Job] /\ job[j] \in Job /\ RecordInv(job[j]) /\ WindRecord(job[j])
      /\ \A i \in Runs : Winds(job[i], job[i])
  BY SameWinds DEF IInv, TypeOK, WindInv
<1>1. ASSUME NEW r, job' = [job EXCEPT ![j] = r], Winds(job[j], r)
      PROVE  \A i \in Runs : Winds(job[i], job'[i])
  BY <1>0, <1>1
<1>2. ASSUME NEW r \in Job, NEW st, FinishJob(j, r, st), r.finished = job[j].finished,
             r.pc = "exec" => r.cmd # "none"
      PROVE  \A i \in Runs : Winds(job[i], job'[i])
  BY <1>0, <1>2, FinishWinds
<1>3. ASSUME NEW st, FinishJob(j, [job[j] EXCEPT !.pc = "returned"], st)
      PROVE  \A i \in Runs : Winds(job[i], job'[i])
  <2> DEFINE r == [job[j] EXCEPT !.pc = "returned"]
  <2>1. r \in Job /\ r.finished = job[j].finished /\ r.pc = "returned"
    BY <1>0 DEF Job
  <2>2. FinishJob(j, r, st)
    BY <1>3
  <2> HIDE DEF r
  <2>. QED
    BY <1>2, <2>1, <2>2
<1>4. CASE EnsureReturns(j) /\ ~job[j].canceled
  <2> DEFINE r == Launched(job[j])
  <2>1. job' = [job EXCEPT ![j] = r]
    BY <1>4 DEF EnsureReturns
  <2>2. r.canceled = job[j].canceled /\ r.cmd = "alive"
    BY <1>0, ZenonT(60) DEF Launched, Job
  <2> HIDE DEF r
  <2>3. Winds(job[j], r)
    BY <1>4, <2>2 DEF Winds, WindRecord
  <2>. QED
    BY <1>1, <2>1, <2>3
<1>5. CASE EnsureReturns(j) /\ job[j].canceled
  BY <1>3, <1>5 DEF EnsureReturns
<1>6. CASE EnsureFails(j)
  <2> DEFINE r == [job[j] EXCEPT !.pc = "failing"]
  <2>1. job' = [job EXCEPT ![j] = r] /\ job[j].pc = "ensuring"
    BY <1>6 DEF EnsureFails
  <2>2. /\ r.pc = "failing" /\ r.cmd = job[j].cmd /\ r.canceled = job[j].canceled
        /\ r.finished = job[j].finished /\ r.killed = job[j].killed
        /\ r.expiring = job[j].expiring
    BY <1>0 DEF Job
  <2> HIDE DEF r
  <2>3. Winds(job[j], r)
    BY <1>0, <2>1, <2>2 DEF Winds, WindRecord
  <2>. QED
    BY <1>1, <2>1, <2>3
<1>7. CASE FailureLogged(j) \/ RunReturns(j)
  BY <1>3, <1>7 DEF FailureLogged, RunReturns
<1>8. ASSUME NEW l \in Lines, Prints(j, l)
      PROVE  \A i \in Runs : Winds(job[i], job'[i])
  <2> DEFINE r == [job[j] EXCEPT !.emitted = @ \cup {l}, !.pending = @ \cup {l}]
  <2>1. job' = [job EXCEPT ![j] = r]
    BY <1>0, <1>8 DEF Prints
  <2>2. /\ r.pc = job[j].pc /\ r.cmd = job[j].cmd /\ r.canceled = job[j].canceled
        /\ r.finished = job[j].finished /\ r.killed = job[j].killed
        /\ r.expiring = job[j].expiring
    BY <1>0 DEF Job
  <2> HIDE DEF r
  <2>3. Winds(job[j], r)
    BY <1>0, <2>2, SameWinds
  <2>. QED
    BY <1>1, <2>1, <2>3
<1>9. ASSUME NEW l \in Lines, LineLogged(j, l)
      PROVE  \A i \in Runs : Winds(job[i], job'[i])
  <2> DEFINE p == [job[j] EXCEPT !.pending = @ \ {l}]
             r == [Release(p) EXCEPT !.reported = TRUE, !.state = "running"]
             q == Release(p)
  <2>1. \/ job' = [job EXCEPT ![j] = r] \/ job' = [job EXCEPT ![j] = q]
        \/ job' = [job EXCEPT ![j] = p]
    BY <1>9, Zenon DEF LineLogged
  <2>2. /\ p \in Job /\ p.pc = job[j].pc /\ p.cmd = job[j].cmd /\ p.canceled = job[j].canceled
        /\ p.finished = job[j].finished /\ p.killed = job[j].killed
        /\ p.expiring = job[j].expiring
    BY <1>0 DEF Job
  <2> HIDE DEF p
  <2>3. /\ r.pc = p.pc /\ r.cmd = p.cmd /\ r.canceled = p.canceled
        /\ r.finished = p.finished /\ r.killed = p.killed /\ r.expiring = p.expiring
    BY <2>2 DEF Job, Release
  <2>4. /\ q.pc = p.pc /\ q.cmd = p.cmd /\ q.canceled = p.canceled
        /\ q.finished = p.finished /\ q.killed = p.killed /\ q.expiring = p.expiring
    BY <2>2 DEF Job, Release
  <2> HIDE DEF r, q
  <2>5. Winds(job[j], p) /\ Winds(job[j], q) /\ Winds(job[j], r)
    BY <1>0, <2>2, <2>3, <2>4, SameWinds
  <2>. QED
    BY <1>1, <2>1, <2>5
<1>10. ASSUME NEW code \in {"ok", "error"}, CommandExits(j, code)
       PROVE  \A i \in Runs : Winds(job[i], job'[i])
  <2> DEFINE r == [job[j] EXCEPT !.cmd = "exited", !.exit = code]
  <2>1. job' = [job EXCEPT ![j] = r]
    BY <1>0, <1>10 DEF CommandExits
  <2>2. r.pc = job[j].pc /\ r.cmd = "exited" /\ r.canceled = job[j].canceled
    BY <1>0, ZenonT(60) DEF Job
  <2> HIDE DEF r
  <2>3. Winds(job[j], r)
    BY <2>2 DEF Winds, WindRecord
  <2>. QED
    BY <1>1, <2>1, <2>3
<1>11. CASE TimerFires(j)
  <2> DEFINE e == ~job[j].finished /\ ~job[j].reported
             r == [job[j] EXCEPT !.timer = FALSE, !.canceled = @ \/ e, !.expiring = e]
  <2>1. job' = [job EXCEPT ![j] = r]
    BY <1>0, <1>11 DEF TimerFires
  <2>2. e
    BY <1>0, <1>11 DEF TimerFires, RecordInv
  <2>3. /\ r.pc = job[j].pc /\ r.cmd = job[j].cmd /\ r.canceled = TRUE
        /\ r.expiring = TRUE
    BY <1>0, <2>2 DEF Job
  <2> HIDE DEF r, e
  <2>4. Winds(job[j], r)
    BY <1>0, <2>3 DEF Winds, WindRecord
  <2>. QED
    BY <1>1, <2>1, <2>4
<1>12. CASE TimeoutLogged(j)
  <2> DEFINE c == Canceled(job[j])
             r == [c EXCEPT !.expiring = FALSE]
  <2>1. FinishJob(j, r, "failed")
    BY <1>12 DEF TimeoutLogged
  <2>2. c \in Job /\ c.pc = job[j].pc /\ c.cmd = job[j].cmd /\ c.finished = job[j].finished
    BY <1>0, CanceledFields
  <2> HIDE DEF c
  <2>3. r \in Job /\ r.pc = c.pc /\ r.cmd = c.cmd /\ r.finished = c.finished
    BY <2>2 DEF Job
  <2> HIDE DEF r
  <2>4. r.pc = "exec" => r.cmd # "none"
    BY <1>0, <2>2, <2>3 DEF WindRecord
  <2>. QED
    BY <1>2, <2>1, <2>2, <2>3, <2>4
<1>. QED
  BY <1>4, <1>5, <1>6, <1>7, <1>8, <1>9, <1>10, <1>11, <1>12 DEF Step

LEMMA RequestWinds ==
    ASSUME IInv, WindInv, Request \/ Crash \/ Boot
    PROVE  \A i \in Runs : Winds(job[i], job'[i])
<1>0. /\ job \in [Runs -> Job]
      /\ \A i \in Runs : Winds(job[i], job[i]) /\ Winds(job[i], Canceled(job[i]))
  BY SameWinds, CancelWinds DEF IInv, TypeOK, WindInv
<1>1. ASSUME NEW w \in Workspaces, NEW m \in {"run", "debug", "build"}, Start(w, m)
      PROVE  \A i \in Runs : Winds(job[i], job'[i])
  <2> TAKE i \in Runs
  <2> DEFINE n == NewJob(w, m, ConnectionsOf(w))
  <2>1. n.pc = "ensuring" /\ n.cmd = "none"
    BY DEF NewJob
  <2>2. job'[i] = job[i] \/ job'[i] = Canceled(job[i]) \/ (i = started + 1 /\ job'[i] = n)
    BY <1>1 DEF Start
  <2>3. i = started + 1 => job[i].pc = "none"
    BY DEF IInv, TypeOK, LinkInv
  <2> HIDE DEF n
  <2>. QED
    BY <1>0, <2>1, <2>2, <2>3 DEF Winds, WindRecord, LiveRecord
<1>2. ASSUME NEW w \in Workspaces, Restart(w)
      PROVE  \A i \in Runs : Winds(job[i], job'[i])
  BY <1>1, <1>2 DEF Restart, IInv, TypeOK
<1>3. ASSUME NEW w \in Workspaces, Stop(w)
      PROVE  \A i \in Runs : Winds(job[i], job'[i])
  BY <1>0, <1>3 DEF Stop
<1>4. ASSUME NEW w \in Workspaces, StopIdle(w)
      PROVE  \A i \in Runs : Winds(job[i], job'[i])
  BY <1>0, <1>4 DEF StopIdle
<1>5. ASSUME NEW k \in Runs, NEW cs, job' = [job EXCEPT ![k].clients = cs]
      PROVE  \A i \in Runs : Winds(job[i], job'[i])
  <2> DEFINE r == [job[k] EXCEPT !.clients = cs]
  <2>1. /\ r.pc = job[k].pc /\ r.cmd = job[k].cmd /\ r.canceled = job[k].canceled
        /\ r.finished = job[k].finished /\ r.killed = job[k].killed
        /\ r.expiring = job[k].expiring
    BY <1>0 DEF Job
  <2>2. job'[k] = r /\ \A i \in Runs \ {k} : job'[i] = job[i]
    BY <1>0, <1>5
  <2> HIDE DEF r
  <2>3. Winds(job[k], r)
    BY <2>1, SameWinds DEF WindInv
  <2>. QED
    BY <1>0, <2>2, <2>3
<1>6. ASSUME NEW c \in Connections, NEW w \in Workspaces, Connect(c, w)
      PROVE  \A i \in Runs : Winds(job[i], job'[i])
  <2>1. CASE current[w] = NoRun
    BY <1>0, <1>6, <2>1 DEF Connect
  <2>2. CASE current[w] # NoRun
    <3>1. current[w] \in Runs
      BY <2>2 DEF IInv, TypeOK
    <3>2. job' = [job EXCEPT ![current[w]].clients = job[current[w]].clients \cup {c}]
      BY <1>0, <1>6, <2>2, <3>1 DEF Connect, Joined
    <3>. QED
      BY <1>5, <3>1, <3>2
  <2>. QED
    BY <2>1, <2>2
<1>7. ASSUME NEW c \in Connections, Disconnect(c)
      PROVE  \A i \in Runs : Winds(job[i], job'[i])
  <2> DEFINE k == current[conn[c]]
  <2>1. k \in RunIds
    BY <1>7 DEF Disconnect, IInv, TypeOK
  <2>2. CASE k = NoRun
    BY <1>0, <1>7, <2>2 DEF Disconnect
  <2>3. CASE k # NoRun
    <3>1. k \in Runs /\ job' = [job EXCEPT ![k].clients = job[k].clients \ {c}]
      BY <1>0, <1>7, <2>1, <2>3 DEF Disconnect
    <3> HIDE DEF k
    <3>. QED
      BY <1>5, <3>1
  <2>. QED
    BY <2>2, <2>3
<1>8. CASE Crash
  <2> TAKE i \in Runs
  <2>1. job'[i] = Lost(job[i])
    BY <1>8 DEF Crash
  <2>2. CASE job[i].pc = "none"
    BY <1>0, <2>1, <2>2 DEF Lost
  <2>3. CASE job[i].pc # "none"
    <3>1. job'[i].pc = "lost" /\ job'[i].cmd = "none"
      BY <1>0, <2>1, <2>3, ZenonT(60) DEF Lost, Job
    <3>. QED
      BY <3>1 DEF Winds, WindRecord, LiveRecord
  <2>. QED
    BY <2>2, <2>3
<1>9. CASE Boot
  BY <1>0, <1>9 DEF Boot
<1>. QED
  BY <1>1, <1>2, <1>3, <1>4, <1>6, <1>7, <1>8, <1>9 DEF Request, IInv, TypeOK

LEMMA NextWinds ==
    ASSUME IInv, WindInv, [Next]_vars
    PROVE  \A i \in Runs : Winds(job[i], job'[i])
<1>1. CASE UNCHANGED vars
  BY <1>1, SameWinds DEF vars, WindInv
<1>. QED
  BY <1>1, StepWinds, RequestWinds DEF Next

LEMMA WindInvariance == Spec => []WindInv
<1>1. Init => WindInv
  <2>1. Unstarted.pc = "none" /\ Unstarted.cmd = "none"
    BY DEF Unstarted, NewJob
  <2>. QED
    BY <2>1 DEF Init, WindInv, WindRecord
<1>2. IInv /\ WindInv /\ [Next]_vars => WindInv'
  <2> SUFFICES ASSUME IInv, WindInv, [Next]_vars PROVE WindInv'
    OBVIOUS
  <2>. QED
    BY NextWinds DEF Winds, WindInv
<1>. QED
  BY <1>1, <1>2, Inductive, PTL DEF Spec

\* Every canceled run is at an await that ends by itself, and every build slot
\* has such an await or an armed timer behind it: what CanceledEnds and
\* SlotsAreReturned need besides the fairness of those steps.
THEOREM CanceledRunsAreEnding == Spec => []CanceledIsEnding
<1>1. ASSUME IInv, WindInv PROVE CanceledIsEnding
  <2> SUFFICES ASSUME NEW j \in Runs
               PROVE  /\ job[j].canceled /\ Live(j) => Ending(j)
                      /\ j \in builds => Ending(j) \/ job[j].timer
    BY DEF CanceledIsEnding
  <2>1. RecordInv(job[j]) /\ LinkInv(j) /\ WindRecord(job[j]) /\ job[j] \in Job
    BY <1>1 DEF IInv, TypeOK, WindInv
  <2>2. job[j].pc = "exec" => job[j].cmd \in {"alive", "exited"}
    BY <2>1 DEF WindRecord, Job
  <2>3. job[j].canceled /\ Live(j) => Ending(j)
    BY <2>1, <2>2 DEF WindRecord, Live, Ending
  <2>4. j \in builds => Ending(j) \/ job[j].timer
    BY <2>1 DEF RecordInv, LinkInv, Ending
  <2>. QED
    BY <2>3, <2>4
<1>. QED
  BY <1>1, Inductive, WindInvariance, PTL

\* A canceled run launches nothing and begins nothing any more.
THEOREM CanceledRunsWindDown == Spec => CanceledWindsDown
<1>1. ASSUME IInv, WindInv, [Next]_vars
      PROVE  [\A j \in Runs : job[j].canceled /\ Live(j) /\ Live(j)' =>
                /\ job'[j].canceled
                /\ job'[j].pc = job[j].pc \/ (job[j].pc = "ensuring" /\ job'[j].pc = "failing")
                /\ job'[j].cmd = "alive" => job[j].cmd = "alive"]_vars
  BY <1>1, NextWinds DEF Winds, LiveRecord, Live
<1>. QED
  BY <1>1, Inductive, WindInvariance, PTL DEF Spec, CanceledWindsDown

=============================================================================
