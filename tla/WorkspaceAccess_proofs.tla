------------------------ MODULE WorkspaceAccess_proofs ------------------------
(***************************************************************************)
(* Proofs about WorkspaceAccess.  The invariant has three parts: types,    *)
(* what the import jobs keep among themselves (ImportInv, which only the   *)
(* actions of ImportManager can disturb), and what sign-outs keep          *)
(* (AccessInv).                                                            *)
(***************************************************************************)
EXTENDS WorkspaceAccess, TLAPS

(* A github job at work was admitted below the limit of the hour. *)
Budget == \A j \in Jobs :
    job[j].pc \in Working /\ job[j].kind = "github" => spent < MaxImports

(* What is in the project, or recorded as loaded, was put there by a job   *)
(* that will not be asked for again.                                       *)
Placed ==
    /\ \A j \in project \cap Jobs : job[j].pc \in {"clean", "done"}
    /\ module \in Jobs => job[module].pc = "done"
    /\ \A j \in Jobs : /\ job[j].pc \in {"free", "resolving"} => ~ job[j].broken
                       /\ job[j].pc \in {"ensure", "stage", "empty", "fill"} => job[j].good

Sound == \A j \in Jobs : ~ job[j].broken

Matches ==
    \/ module = Nobody /\ \E x \in {Own} \cup (Jobs \ Lessons) : project = {x}
    \/ module \in Lessons /\ project = {module}

(* j is between the emptying of the project and its record. *)
Swapping(j) == job[j].pc = "fill" \/ (job[j].pc = "clean" /\ job[j].good)

Swaps ==
    Sound => /\ (\A j \in Jobs : ~ Swapping(j)) => Matches
             /\ \A j \in Jobs : /\ job[j].pc = "fill" => project = {}
                                /\ job[j].pc = "clean" /\ job[j].good => project = {j}

ImportInv == OneSwap /\ Budget /\ Placed /\ Swaps

(* A session that has signed out is over. *)
OutIsEnded == \A s \in Sessions : leave[s] # "no" => session[s] = "ended"

AccessInv == OutIsEnded /\ EndedHoldsNothing

IInv == TypeOK /\ ImportInv /\ AccessInv

---------------------------------------------------------------------------
LEMMA InitInv == Init => IInv
<1> SUFFICES ASSUME Init PROVE IInv
  OBVIOUS
<1> USE DEF Init, ImportInit
<1>1. TypeOK
  <2>0. NewJob \in Job
    BY DEF NewJob, Job, Kinds
  <2>1. job \in [Jobs -> Job]
    BY <2>0
  <2>2. ImportTypeOK
    <3>1. spent \in 0 .. MaxImports
      BY ImportAssumption
    <3> QED BY <2>1, <3>1 DEF ImportTypeOK
  <2>3. run \in [st : {"none", "ensuring", "active"}, by : Sessions \cup {Http, Nobody}]
    BY DEF Idle
  <2>4. session \in [Sessions -> {"none", "live", "ended"}]
        /\ leave \in [Sessions -> {"no", "out", "stopping", "done"}]
    OBVIOUS
  <2>5. sock \in [Sockets -> Sessions \cup {Nobody}]
    OBVIOUS
  <2> QED BY <2>2, <2>3, <2>4, <2>5 DEF TypeOK, Ensures
<1>2. OneSwap /\ Budget
  BY DEF OneSwap, Budget, Working, NewJob
<1>3. Placed
  BY ImportAssumption DEF Placed, NewJob
<1>4. Swaps
  <2>1. Matches
    BY DEF Matches
  <2>2. \A j \in Jobs : job[j].pc = "free"
    BY DEF NewJob
  <2> QED BY <2>1, <2>2 DEF Swaps
<1>5. AccessInv
  BY DEF AccessInv, OutIsEnded, EndedHoldsNothing
<1> QED BY <1>1, <1>2, <1>3, <1>4, <1>5 DEF IInv, ImportInv

---------------------------------------------------------------------------
(* Jobs.  ImportTypes is ImportTypeOK but for the container. *)

ImportTypes ==
    /\ job \in [Jobs -> Job]
    /\ active \in Jobs \cup {Nobody}
    /\ project \in SUBSET (Jobs \cup {Own})
    /\ module \in Jobs \cup {Nobody}
    /\ spent \in 0 .. MaxImports

LEMMA RunTypes ==
  ASSUME ImportTypes, NEW j \in Jobs, NEW k \in Kinds, Run(j, k) \/ Rejection(j, k)
  PROVE  ImportTypes'
<1>1. [NewJob EXCEPT !.pc = "done", !.kind = k, !.good = FALSE] \in Job
  BY DEF NewJob, Job, Kinds
<1>2. [NewJob EXCEPT !.pc = "ensure", !.kind = k] \in Job
  BY DEF NewJob, Job, Kinds, Working
<1>3. job' \in [Jobs -> Job]
  BY <1>1, <1>2 DEF ImportTypes, Run, Rejection, Acceptance, Becomes
<1> QED BY <1>3 DEF ImportTypes, Run, Rejection, Acceptance, Becomes

LEMMA JobWith ==
  ASSUME NEW f \in Job, NEW p \in Working \cup {"done"}
  PROVE  /\ [f EXCEPT !.pc = p] \in Job /\ [f EXCEPT !.pc = p, !.good = FALSE] \in Job
         /\ [f EXCEPT !.pc = p, !.broken = TRUE] \in Job
BY DEF Job, Working

LEMMA StepTypes ==
  ASSUME ImportTypes, ImportInv, NEW j \in Jobs,
         JobSteps(j) \/ \E ok \in BOOLEAN : Ensured(j, ok)
  PROVE  ImportTypes'
<1>0. job[j] \in Job
  BY DEF ImportTypes
<1>1. \A p \in Working \cup {"done"} :
        /\ [job[j] EXCEPT !.pc = p] \in Job
        /\ [job[j] EXCEPT !.pc = p, !.good = FALSE] \in Job
        /\ [job[j] EXCEPT !.pc = p, !.broken = TRUE] \in Job
  BY <1>0, JobWith
<1>2. \E f \in Job : Becomes(j, f)
  <2>1. CASE \E ok \in BOOLEAN : Ensured(j, ok)
    BY <1>0, <1>1, <2>1 DEF Ensured, Moves, Working
  <2>2. CASE Staged(j) \/ Emptied(j) \/ Filled(j) \/ Finishes(j)
    BY <1>0, <1>1, <2>2 DEF Staged, Emptied, Filled, Finishes, Moves, Working
  <2>3. CASE StagingFails(j)
    BY <1>1, <2>3, Zenon DEF StagingFails, Working
  <2>4. CASE EmptyingFails(j)
    BY <1>1, <2>4, Zenon DEF EmptyingFails, Working
  <2>5. CASE FillingFails(j)
    BY <1>1, <2>5, Zenon DEF FillingFails, Working
  <2> QED BY <2>1, <2>2, <2>3, <2>4, <2>5 DEF JobSteps
<1>3. job' \in [Jobs -> Job]
  BY <1>2 DEF ImportTypes, Becomes
<1>4. CASE \E ok \in BOOLEAN : Ensured(j, ok)
  BY <1>3, <1>4 DEF Ensured, ImportTypes
<1>5. CASE Staged(j) \/ StagingFails(j) \/ Emptied(j) \/ EmptyingFails(j)
             \/ Filled(j) \/ FillingFails(j)
  <2>1. project' \in SUBSET (Jobs \cup {Own})
    BY <1>5 DEF ImportTypes, Staged, StagingFails, Emptied, EmptyingFails, Filled, FillingFails
  <2> QED BY <1>3, <1>5, <2>1
      DEF ImportTypes, Staged, StagingFails, Emptied, EmptyingFails, Filled, FillingFails
<1>6. CASE Finishes(j)
  <2>1. job[j].kind = "github" => spent < MaxImports
    BY <1>6 DEF Finishes, Moves, ImportInv, Budget, Working
  <2>2. spent' \in 0 .. MaxImports
    BY <1>6, <2>1, ImportAssumption DEF Finishes, ImportTypes
  <2> QED BY <1>3, <1>6, <2>2 DEF Finishes, ImportTypes
<1> QED BY <1>4, <1>5, <1>6 DEF JobSteps

(* What each action of a job makes of the record of the job and of the rest. *)

LEMMA RunJobs ==
  ASSUME ImportTypes, NEW j \in Jobs, NEW k \in Kinds, Run(j, k) \/ Rejection(j, k)
  PROVE  /\ \A i \in Jobs \ {j} : job'[i] = job[i]
         /\ job'[j].kind = k /\ ~ job'[j].broken
         /\ \/ job'[j].pc = "done" /\ active' = active
            \/ /\ job'[j].pc = "ensure" /\ job'[j].good /\ active = Nobody /\ active' = j
               /\ k = "github" => spent # MaxImports
         /\ UNCHANGED <<project, module, spent>>
BY DEF Run, Rejection, Acceptance, Refuses, Becomes, ImportTypes, NewJob

LEMMA RunInv ==
  ASSUME ImportTypes, ImportInv, NEW j \in Jobs, NEW k \in Kinds,
         job[j].pc \in {"free", "resolving"}, Run(j, k) \/ Rejection(j, k)
  PROVE  ImportInv'
<1>1. /\ \A i \in Jobs \ {j} : job'[i] = job[i]
      /\ job'[j].kind = k /\ ~ job'[j].broken
      /\ \/ job'[j].pc = "done" /\ active' = active
         \/ /\ job'[j].pc = "ensure" /\ job'[j].good /\ active = Nobody /\ active' = j
            /\ k = "github" => spent # MaxImports
      /\ project' = project /\ module' = module /\ spent' = spent
  BY RunJobs
<1>2. OneSwap'
  BY <1>1, ImportAssumption DEF ImportInv, OneSwap, Working
<1>3. Budget'
  <2>1. k = "github" /\ job'[j].pc = "ensure" => spent < MaxImports
    BY <1>1, ImportAssumption DEF ImportTypes
  <2> QED BY <1>1, <2>1 DEF ImportInv, Budget, Working
<1>4. Placed'
  BY <1>1 DEF ImportInv, Placed
<1>5. Swaps'
  <2> SUFFICES ASSUME Sound'
               PROVE  /\ (\A i \in Jobs : ~ Swapping(i)') => Matches'
                      /\ \A i \in Jobs : /\ job'[i].pc = "fill" => project' = {}
                                         /\ job'[i].pc = "clean" /\ job'[i].good => project' = {i}
    BY DEF Swaps
  <2>1. \A i \in Jobs : Swapping(i)' <=> Swapping(i)
    BY <1>1 DEF Swapping
  <2>2. CASE Sound
    <3>1. Matches => Matches'
      <4>1. j \notin project /\ module # j
        BY DEF ImportInv, Placed
      <4>2. \A i \in Jobs \ {j} : i \in Lessons <=> i \in Lessons'
        BY <1>1 DEF Lessons
      <4>3. \A x : project = {x} => x # j
        BY <4>1
      <4>4. Lessons \subseteq Jobs /\ Lessons' \subseteq Jobs
        BY DEF Lessons
      <4> QED BY <1>1, <4>1, <4>2, <4>3, <4>4, ImportAssumption DEF Matches
    <3>2. \A i \in Jobs : /\ job[i].pc = "fill" => project = {}
                          /\ job[i].pc = "clean" /\ job[i].good => project = {i}
      BY <2>2 DEF ImportInv, Swaps
    <3>3. \A i \in Jobs : /\ job'[i].pc = "fill" => job[i].pc = "fill"
                          /\ job'[i].pc = "clean" /\ job'[i].good => job[i].pc = "clean" /\ job[i].good
      BY <1>1
    <3>4. (\A i \in Jobs : ~ Swapping(i)) => Matches
      BY <2>2 DEF ImportInv, Swaps
    <3> QED BY <1>1, <2>1, <3>1, <3>2, <3>3, <3>4
  <2>3. CASE ~ Sound
    <3>1. job[j].broken
      BY <1>1, <2>3 DEF Sound
    <3> QED BY <3>1 DEF ImportInv, Placed
  <2> QED BY <2>2, <2>3
<1> QED BY <1>2, <1>3, <1>4, <1>5 DEF ImportInv

(* The manifest of a lesson is awaited: nothing but the job changes. *)

LEMMA ResolvingInv ==
  ASSUME ImportTypes, ImportInv, NEW j \in Jobs, job[j].pc = "free", Resolving(j)
  PROVE  ImportTypes' /\ ImportInv'
<1>1. [NewJob EXCEPT !.pc = "resolving", !.kind = "lesson"] \in Job
  BY DEF NewJob, Job, Kinds
<1>2. ImportTypes'
  BY <1>1 DEF Resolving, Becomes, ImportTypes
<1>3. /\ \A i \in Jobs \ {j} : job'[i] = job[i]
      /\ job'[j].pc = "resolving" /\ ~ job'[j].broken
      /\ active' = active /\ project' = project /\ module' = module /\ spent' = spent
  BY DEF Resolving, Becomes, ImportTypes, NewJob
<1>4. OneSwap' /\ Budget' /\ Placed'
  BY <1>3 DEF ImportInv, OneSwap, Budget, Placed, Working
<1>5. Swaps'
  <2> SUFFICES ASSUME Sound'
               PROVE  /\ (\A i \in Jobs : ~ Swapping(i)') => Matches'
                      /\ \A i \in Jobs : /\ job'[i].pc = "fill" => project' = {}
                                         /\ job'[i].pc = "clean" /\ job'[i].good => project' = {i}
    BY DEF Swaps
  <2>1. \A i \in Jobs : Swapping(i)' <=> Swapping(i)
    BY <1>3 DEF Swapping
  <2>2. Sound
    BY <1>3 DEF Sound, ImportInv, Placed
  <2>3. Matches => Matches'
    <3>1. j \notin project /\ module # j
      BY DEF ImportInv, Placed
    <3>2. \A i \in Jobs \ {j} : i \in Lessons <=> i \in Lessons'
      BY <1>3 DEF Lessons
    <3>3. \A x : project = {x} => x # j
      BY <3>1
    <3>4. Lessons \subseteq Jobs /\ Lessons' \subseteq Jobs
      BY DEF Lessons
    <3> QED BY <1>3, <3>1, <3>2, <3>3, <3>4, ImportAssumption DEF Matches
  <2>4. \A i \in Jobs : /\ job[i].pc = "fill" => project = {}
                        /\ job[i].pc = "clean" /\ job[i].good => project = {i}
    BY <2>2 DEF ImportInv, Swaps
  <2>5. \A i \in Jobs : /\ job'[i].pc = "fill" => job[i].pc = "fill"
                        /\ job'[i].pc = "clean" /\ job'[i].good => job[i].pc = "clean" /\ job[i].good
    BY <1>3
  <2>6. (\A i \in Jobs : ~ Swapping(i)) => Matches
    BY <2>2 DEF ImportInv, Swaps
  <2> QED BY <1>3, <2>1, <2>3, <2>4, <2>5, <2>6
<1> QED BY <1>2, <1>4, <1>5 DEF ImportInv

---------------------------------------------------------------------------
(* The steps of a job at work.  It holds the entry, so every other job is  *)
(* at rest, and the project is its own to change.                          *)

LEMMA Alone ==
  ASSUME ImportTypes, ImportInv, NEW j \in Jobs,
         JobSteps(j) \/ \E ok \in BOOLEAN : Ensured(j, ok)
  PROVE  /\ job[j].pc \in Working
         /\ \A i \in Jobs \ {j} : job'[i] = job[i] /\ job[i].pc \notin Working
         /\ job'[j].kind = job[j].kind
         /\ job[j].broken => job'[j].broken
         /\ Lessons' = Lessons
<1>1. job[j] \in Job /\ job \in [Jobs -> Job]
  BY DEF ImportTypes
<1>2. \A f \in Job : Becomes(j, f) =>
        job'[j] = f /\ \A i \in Jobs \ {j} : job'[i] = job[i]
  BY <1>1 DEF Becomes
<1>3. \A p \in Working \cup {"done"} : Becomes(j, [job[j] EXCEPT !.pc = p]) =>
        /\ \A i \in Jobs \ {j} : job'[i] = job[i]
        /\ job'[j].kind = job[j].kind /\ job'[j].broken = job[j].broken
  BY <1>1 DEF Becomes, Job
<1>4. /\ job[j].pc \in Working
      /\ \A i \in Jobs \ {j} : job'[i] = job[i]
      /\ job'[j].kind = job[j].kind
      /\ job[j].broken => job'[j].broken
  <2>1. CASE \E ok \in BOOLEAN : Ensured(j, ok)
    <3>1. CASE Ensured(j, TRUE)
      BY <1>3, <3>1 DEF Ensured, Moves, Working
    <3>2. CASE Ensured(j, FALSE)
      BY <1>1, <3>2 DEF Ensured, Becomes, Working, Job
    <3> QED BY <2>1, <3>1, <3>2
  <2>2. CASE Staged(j) \/ Emptied(j) \/ Filled(j) \/ Finishes(j)
    BY <1>3, <2>2 DEF Staged, Emptied, Filled, Finishes, Moves, Working
  <2>3. CASE StagingFails(j)
    BY <1>1, <2>3 DEF StagingFails, Becomes, Working, Job
  <2>4. CASE EmptyingFails(j)
    BY <1>1, <2>4 DEF EmptyingFails, Becomes, Working, Job
  <2>5. CASE FillingFails(j)
    BY <1>1, <2>5 DEF FillingFails, Becomes, Working, Job
  <2> QED BY <2>1, <2>2, <2>3, <2>4, <2>5 DEF JobSteps
<1>5. \A i \in Jobs \ {j} : job[i].pc \notin Working
  BY <1>4 DEF ImportInv, OneSwap
<1>6. \A i \in Jobs : job'[i].kind = job[i].kind
  BY <1>4
<1>7. Lessons' = Lessons
  BY <1>6 DEF Lessons
<1> QED BY <1>4, <1>5, <1>7

LEMMA StepInv ==
  ASSUME ImportTypes, ImportInv, NEW j \in Jobs,
         JobSteps(j) \/ \E ok \in BOOLEAN : Ensured(j, ok)
  PROVE  ImportInv'
<1>1. /\ job[j].pc \in Working
      /\ \A i \in Jobs \ {j} : job'[i] = job[i] /\ job[i].pc \notin Working
      /\ job'[j].kind = job[j].kind
      /\ job[j].broken => job'[j].broken
      /\ Lessons' = Lessons
  BY Alone
<1>2. active = j
  BY <1>1 DEF ImportInv, OneSwap
<1>3. job \in [Jobs -> Job] /\ job[j] \in Job
  BY DEF ImportTypes
<1>4. \A i \in Jobs \ {j} : ~ Swapping(i) /\ ~ Swapping(i)'
  BY <1>1 DEF Swapping, Working
<1>5. Sound' => Sound
  BY <1>1 DEF Sound
<1>6. j \notin project \/ job[j].pc = "clean"
  BY <1>1 DEF ImportInv, Placed, Working
<1>7. module # j
  BY <1>1 DEF ImportInv, Placed, Working
<1>8. job[j].pc \in {"ensure", "stage", "empty", "fill"} => job[j].good
  BY DEF ImportInv, Placed
(* The step itself. *)
<1>9. CASE \/ Ensured(j, TRUE) \/ Ensured(j, FALSE) \/ Staged(j) \/ StagingFails(j)
  <2>1. /\ project' = project /\ module' = module /\ spent' = spent
        /\ job[j].pc \in {"ensure", "stage"}
        /\ \/ job'[j].pc \in {"stage", "empty"} /\ job'[j].good /\ active' = active
           \/ job'[j].pc \in {"clean", "done"} /\ ~ job'[j].good
        /\ job'[j].pc = "done" \/ active' = active
    <3>1. CASE Ensured(j, TRUE)
      BY <1>3, <1>8, <3>1 DEF Ensured, Moves, Becomes, Job
    <3>2. CASE Ensured(j, FALSE)
      BY <1>3, <3>2 DEF Ensured, Becomes, Job
    <3>3. CASE Staged(j)
      BY <1>3, <1>8, <3>3 DEF Staged, Moves, Becomes, Job
    <3>4. CASE StagingFails(j)
      BY <1>3, <3>4 DEF StagingFails, Becomes, Job
    <3> QED BY <1>9, <3>1, <3>2, <3>3, <3>4
  <2>2. OneSwap' /\ Budget' /\ Placed'
    BY <1>1, <1>2, <1>6, <1>7, <2>1 DEF ImportInv, OneSwap, Budget, Placed, Working
  <2>3. ~ Swapping(j) /\ ~ Swapping(j)'
    BY <2>1 DEF Swapping
  <2>4. Matches' = Matches
    BY <1>1, <2>1 DEF Matches
  <2>5. Swaps'
    BY <1>4, <1>5, <2>3, <2>4 DEF ImportInv, Swaps, Swapping
  <2> QED BY <2>2, <2>5 DEF ImportInv
<1>10. CASE Emptied(j) \/ EmptyingFails(j)
  <2>1. /\ module' = module /\ spent' = spent /\ active' = active
        /\ job[j].pc = "empty" /\ job'[j].pc = "fill" /\ job'[j].good
        /\ project' = {} \/ (project' = project /\ job'[j].broken)
    <3>1. CASE Emptied(j)
      BY <1>3, <1>8, <3>1 DEF Emptied, Moves, Becomes, Job
    <3>2. CASE EmptyingFails(j)
      BY <1>3, <1>8, <3>2 DEF EmptyingFails, Becomes, Job
    <3> QED BY <1>10, <3>1, <3>2
  <2>2. OneSwap' /\ Budget' /\ Placed'
    BY <1>1, <1>2, <1>6, <1>7, <2>1 DEF ImportInv, OneSwap, Budget, Placed, Working
  <2>3. Sound' => project' = {}
    BY <2>1 DEF Sound
  <2>4. Swaps'
    BY <1>4, <2>1, <2>3 DEF Swaps, Swapping
  <2> QED BY <2>2, <2>4 DEF ImportInv
<1>11. CASE Filled(j) \/ FillingFails(j)
  <2>1. /\ module' = module /\ spent' = spent /\ active' = active
        /\ job[j].pc = "fill" /\ job'[j].pc = "clean" /\ job'[j].good
        /\ project' \subseteq project \cup {j}
        /\ project' = project \cup {j} \/ job'[j].broken
    <3>1. CASE Filled(j)
      BY <1>3, <1>8, <3>1 DEF Filled, Moves, Becomes, Job
    <3>2. CASE FillingFails(j)
      BY <1>3, <1>8, <3>2 DEF FillingFails, Becomes, Job
    <3> QED BY <1>11, <3>1, <3>2
  <2>2. OneSwap' /\ Budget'
    BY <1>1, <1>2, <2>1 DEF ImportInv, OneSwap, Budget, Working
  <2>3. Placed'
    BY <1>1, <1>7, <2>1 DEF ImportInv, Placed
  <2>4. Sound' => project' = {j}
    <3>1. Sound => project = {}
      BY <2>1 DEF ImportInv, Swaps
    <3> QED BY <1>5, <2>1, <3>1 DEF Sound
  <2>5. Swaps'
    BY <1>4, <2>1, <2>4 DEF Swaps, Swapping
  <2> QED BY <2>2, <2>3, <2>5 DEF ImportInv
<1>12. CASE Finishes(j)
  <2>1. /\ job[j].pc = "clean" /\ job'[j].pc = "done" /\ job'[j].good = job[j].good
        /\ job'[j].broken = job[j].broken
        /\ module' = IF ~ job[j].good THEN module
                     ELSE IF job[j].kind = "github" THEN Nobody ELSE j
        /\ project' = project
    BY <1>3, <1>12 DEF Finishes, Moves, Becomes, Job
  <2>2. OneSwap' /\ Budget'
    BY <1>1, <2>1 DEF ImportInv, OneSwap, Budget, Working
  <2>3. Placed'
    BY <1>1, <1>7, <2>1, ImportAssumption DEF ImportInv, Placed
  <2>4. ~ Swapping(j)'
    BY <2>1 DEF Swapping
  <2>5. Sound' => Matches'
    <3>1. CASE job[j].good
      <4>1. Sound => project = {j}
        BY <2>1, <3>1 DEF ImportInv, Swaps
      <4>2. j \in Lessons <=> job[j].kind # "github"
        BY DEF Lessons
      <4> QED BY <1>1, <1>5, <2>1, <3>1, <4>1, <4>2 DEF Matches
    <3>2. CASE ~ job[j].good
      <4>1. ~ Swapping(j)
        BY <2>1, <3>2 DEF Swapping
      <4>2. Sound => Matches
        BY <1>4, <4>1 DEF ImportInv, Swaps
      <4> QED BY <1>1, <1>5, <2>1, <3>2, <4>2 DEF Matches
    <3> QED BY <3>1, <3>2
  <2>6. Swaps'
    BY <1>4, <2>1, <2>4, <2>5 DEF Swaps, Swapping
  <2> QED BY <2>2, <2>3, <2>6 DEF ImportInv
<1>13. \/ Ensured(j, TRUE) \/ Ensured(j, FALSE) \/ Staged(j) \/ StagingFails(j)
       \/ Emptied(j) \/ EmptyingFails(j) \/ Filled(j) \/ FillingFails(j) \/ Finishes(j)
  BY DEF JobSteps
<1> QED BY <1>9, <1>10, <1>11, <1>12, <1>13

LEMMA ImportUnchanged ==
  ASSUME ImportTypes, ImportInv, UNCHANGED importVars
  PROVE  ImportTypes' /\ ImportInv'
BY DEF ImportTypes, ImportInv, OneSwap, Budget, Placed, Swaps, Sound, Matches, Lessons,
       Swapping, importVars

---------------------------------------------------------------------------
(* Sessions, sockets and everything else. *)

AccessTypes ==
    /\ up \in BOOLEAN
    /\ account \in {"there", "gone"}
    /\ session \in [Sessions -> {"none", "live", "ended"}]
    /\ sock \in [Sockets -> Sessions \cup {Nobody}]
    /\ run.by \in Sessions \cup {Http, Nobody}
    /\ run \in [st : {"none", "ensuring", "active"}, by : Sessions \cup {Http, Nobody}]
    /\ request \in BOOLEAN
    /\ ensures \subseteq Ensures
    /\ leave \in [Sessions -> {"no", "out", "stopping", "done"}]
    /\ del \in {"no", "stopping", "removed", "done"}
    /\ idle \in BOOLEAN /\ listed \in BOOLEAN

LEMMA TypeSplit == TypeOK <=> ImportTypes /\ AccessTypes
BY DEF TypeOK, ImportTypeOK, ImportTypes, AccessTypes

AInv == AccessTypes /\ AccessInv

(* A step that leaves the sessions, sockets and the run alone. *)
LEMMA AccessUnchanged ==
  ASSUME AInv, UNCHANGED <<account, session, sock, run, leave>>,
         up' \in BOOLEAN, listed' \in BOOLEAN,
         request' \in BOOLEAN, ensures' \subseteq Ensures,
         del' \in {"no", "stopping", "removed", "done"}, idle' \in BOOLEAN
  PROVE  AInv'
BY DEF AInv, AccessTypes, AccessInv, OutIsEnded, EndedHoldsNothing

LEMMA IdleRun == Idle \in [st : {"none", "ensuring", "active"}, by : Sessions \cup {Http, Nobody}]
                 /\ Idle.by = Nobody
BY DEF Idle

(* One that stops the run, and may close the sockets. *)
LEMMA AccessStops ==
  ASSUME AInv, UNCHANGED <<account, session, leave>>, run' = Idle,
         sock' \in [Sockets -> Sessions \cup {Nobody}],
         \A c \in Sockets : sock'[c] \in {sock[c], Nobody},
         up' \in BOOLEAN, listed' \in BOOLEAN,
         request' \in BOOLEAN, ensures' \subseteq Ensures,
         del' \in {"no", "stopping", "removed", "done"}, idle' \in BOOLEAN
  PROVE  AInv'
<1>1. AccessTypes'
  BY IdleRun DEF AInv, AccessTypes
<1>2. OutIsEnded'
  BY DEF AInv, AccessInv, OutIsEnded
<1>3. EndedHoldsNothing'
  BY IdleRun, AccessAssumption DEF AInv, AccessInv, EndedHoldsNothing
<1> QED BY <1>1, <1>2, <1>3 DEF AInv, AccessInv

LEMMA BeginsTypes == ASSUME AInv, NEW e \in Ensures, Begins(e) PROVE ensures' \subseteq Ensures
BY DEF AInv, AccessTypes, Begins, Joined, Ensures

LEMMA EndsTypes ==
  ASSUME AInv, NEW e, NEW ok \in BOOLEAN, Ends(e, ok)
  PROVE  ensures' \subseteq Ensures /\ up' \in BOOLEAN /\ listed' \in BOOLEAN
<1>1. ensures' \subseteq Ensures
  BY DEF AInv, AccessTypes, Ends
<1>2. up' \in BOOLEAN
  BY DEF AInv, AccessTypes, Ends
<1>3. listed' \in BOOLEAN
  BY DEF Ends
<1> QED BY <1>1, <1>2, <1>3

(* The end of stopCodeContainer.                                           *)
LEMMA StoppedTypes ==
  ASSUME AInv, Stopped
  PROVE  up' \in BOOLEAN /\ listed' \in BOOLEAN
<1>1. up' \in BOOLEAN
  BY DEF AInv, AccessTypes, Stopped
<1>2. listed' \in BOOLEAN
  BY DEF Stopped
<1> QED BY <1>1, <1>2

LEMMA StartsInv ==
  ASSUME AInv, NEW by \in Sessions \cup {Http}, Starts(by),
         by \in Sessions => leave[by] \notin {"stopping", "done"} \/ account = "gone",
         UNCHANGED <<up, listed, account, session, sock, leave, del, idle>>, request' \in BOOLEAN
  PROVE  AInv'
<1>1. CASE account = "there"
  <2>1. run' = [st |-> "ensuring", by |-> by] /\ ensures' \subseteq Ensures
    BY <1>1, BeginsTypes DEF Starts, Ensures
  <2>2. AccessTypes'
    BY <2>1 DEF AInv, AccessTypes
  <2>3. OutIsEnded'
    BY DEF AInv, AccessInv, OutIsEnded
  <2>4. EndedHoldsNothing'
    BY <1>1, <2>1, AccessAssumption DEF AInv, AccessInv, EndedHoldsNothing
  <2> QED BY <2>2, <2>3, <2>4 DEF AInv, AccessInv
<1>2. CASE account # "there"
  <2>1. UNCHANGED <<run, ensures>>
    BY <1>2 DEF Starts
  <2> QED BY <2>1, AccessUnchanged DEF AInv, AccessTypes
<1> QED BY <1>1, <1>2

LEMMA SessionStep ==
  ASSUME AInv, NEW s \in Sessions, SessionNext(s) \/ LeaveNext(s)
  PROVE  AInv'
<1>1. CASE SignIn(s)
  <2>1. AccessTypes'
    BY <1>1 DEF SignIn, AInv, AccessTypes
  <2>2. leave[s] = "no"
    BY <1>1 DEF SignIn, AInv, AccessInv, OutIsEnded
  <2>3. \A x \in Sessions \ {s} : session'[x] = session[x]
    BY <1>1 DEF SignIn, AInv, AccessTypes
  <2>4. OutIsEnded' /\ EndedHoldsNothing'
    BY <1>1, <2>2, <2>3 DEF SignIn, AInv, AccessInv, OutIsEnded, EndedHoldsNothing
  <2> QED BY <2>1, <2>4 DEF AInv, AccessInv
<1>2. CASE Post(s)
  BY <1>2, AccessUnchanged DEF Post, AInv, AccessTypes
<1>3. CASE Poll(s)
  <2>1. ensures' \subseteq Ensures
    BY <1>3, BeginsTypes DEF Poll, Ensures
  <2> QED BY <1>3, <2>1, AccessUnchanged DEF Poll, AInv, AccessTypes
<1>4. ASSUME NEW c \in Sockets, OpenSocket(c, s)
      PROVE  AInv'
  <2>1. AccessTypes'
    BY <1>4 DEF OpenSocket, AInv, AccessTypes
  <2>2. OutIsEnded'
    BY <1>4 DEF OpenSocket, AInv, AccessInv, OutIsEnded
  <2>3. leave[s] = "no"
    BY <1>4 DEF OpenSocket, Authenticated, AInv, AccessInv, OutIsEnded
  <2>4. \A d \in Sockets : sock'[d] \in {sock[d], s}
    BY <1>4 DEF OpenSocket, AInv, AccessTypes
  <2>5. EndedHoldsNothing'
    BY <1>4, <2>3, <2>4 DEF OpenSocket, AInv, AccessInv, EndedHoldsNothing
  <2> QED BY <2>1, <2>2, <2>5 DEF AInv, AccessInv
<1>5. CASE SignOut(s)
  <2>1. AccessTypes'
    BY <1>5 DEF SignOut, AInv, AccessTypes
  <2>2. /\ session'[s] = "ended" /\ leave'[s] = "out"
        /\ \A x \in Sessions \ {s} : session'[x] = session[x] /\ leave'[x] = leave[x]
    BY <1>5 DEF SignOut, AInv, AccessTypes
  <2>3. OutIsEnded' /\ EndedHoldsNothing'
    BY <1>5, <2>2 DEF SignOut, AInv, AccessInv, OutIsEnded, EndedHoldsNothing
  <2> QED BY <2>1, <2>3 DEF AInv, AccessInv
<1>6. CASE LeaveCloses(s)
  <2>1. AccessTypes'
    BY <1>6, IdleRun DEF LeaveCloses, AInv, AccessTypes, NoSockets
  <2>2. \A x \in Sessions \ {s} : leave'[x] = leave[x]
    BY <1>6 DEF LeaveCloses, AInv, AccessTypes
  <2>3. leave[s] = "out" /\ session[s] = "ended"
    BY <1>6 DEF LeaveCloses, AInv, AccessInv, OutIsEnded
  <2>4. OutIsEnded'
    BY <1>6, <2>2, <2>3 DEF LeaveCloses, AInv, AccessInv, OutIsEnded
  <2>5. \A c \in Sockets : sock'[c] = Nobody
    BY <1>6 DEF LeaveCloses, NoSockets
  <2>6. EndedHoldsNothing'
    BY <1>6, <2>4, <2>5, IdleRun, AccessAssumption
    DEF LeaveCloses, OutIsEnded, EndedHoldsNothing
  <2> QED BY <2>1, <2>4, <2>6 DEF AInv, AccessInv
<1>7. CASE LeaveStops(s)
  <2>1. AccessTypes'
    BY <1>7, StoppedTypes DEF LeaveStops, AInv, AccessTypes
  <2>2. leave[s] = "stopping" /\ \A x \in Sessions \ {s} : leave'[x] = leave[x]
    BY <1>7 DEF LeaveStops, AInv, AccessTypes
  <2>3. OutIsEnded' /\ EndedHoldsNothing'
    BY <1>7, <2>2 DEF LeaveStops, AInv, AccessInv, OutIsEnded, EndedHoldsNothing
  <2> QED BY <2>1, <2>3 DEF AInv, AccessInv
<1> QED BY <1>1, <1>2, <1>3, <1>4, <1>5, <1>6, <1>7 DEF SessionNext, LeaveNext

LEMMA SocketStep ==
  ASSUME AInv, NEW c \in Sockets, SocketNext(c)
  PROVE  AInv'
<1>1. CASE CloseSocket(c)
  <2>1. AccessTypes'
    BY <1>1 DEF CloseSocket, AInv, AccessTypes
  <2>2. \A d \in Sockets : sock'[d] \in {sock[d], Nobody}
    BY <1>1 DEF CloseSocket, AInv, AccessTypes
  <2>3. OutIsEnded' /\ EndedHoldsNothing'
    BY <1>1, <2>2, AccessAssumption DEF CloseSocket, AInv, AccessInv, OutIsEnded, EndedHoldsNothing
  <2> QED BY <2>1, <2>3 DEF AInv, AccessInv
<1>2. CASE SocketStarts(c)
  <2>1. sock[c] \in Sessions
    BY <1>2 DEF SocketStarts, AInv, AccessTypes
  <2>2. leave[sock[c]] \notin {"stopping", "done"} \/ account = "gone"
    BY <2>1 DEF AInv, AccessTypes, AccessInv, EndedHoldsNothing
  <2> QED BY <1>2, <2>1, <2>2, StartsInv DEF SocketStarts, AInv, AccessTypes
<1>3. CASE SocketStops(c)
  BY <1>3, AccessStops DEF SocketStops, AInv, AccessTypes
<1> QED BY <1>1, <1>2, <1>3 DEF SocketNext

LEMMA RunStep ==
  ASSUME AInv, PostNext \/ EnsureNext \/ RunEnds
  PROVE  AInv'
<1>1. CASE PostStarts
  BY <1>1, StartsInv, AccessAssumption DEF PostStarts
<1>2. CASE PostStops \/ RunEnds
  BY <1>2, AccessStops DEF PostStops, RunEnds, AInv, AccessTypes
<1>3. ASSUME NEW ok \in BOOLEAN, RunEnsured(ok)
      PROVE  AInv'
  <2>1. ensures' \subseteq Ensures /\ up' \in BOOLEAN /\ listed' \in BOOLEAN
    BY <1>3, EndsTypes DEF RunEnsured
  <2>2. CASE run' = Idle
    BY <1>3, <2>1, <2>2, AccessStops DEF RunEnsured, AInv, AccessTypes
  <2>3. CASE run' = [run EXCEPT !.st = "active"]
    <3>1. run'.by = run.by
          /\ run' \in [st : {"none", "ensuring", "active"}, by : Sessions \cup {Http, Nobody}]
      BY <2>3 DEF AInv, AccessTypes
    <3>2. AccessTypes'
      BY <1>3, <2>1, <3>1 DEF RunEnsured, AInv, AccessTypes
    <3>3. OutIsEnded' /\ EndedHoldsNothing'
      BY <1>3, <3>1 DEF RunEnsured, AInv, AccessInv, OutIsEnded, EndedHoldsNothing
    <3> QED BY <3>2, <3>3 DEF AInv, AccessInv
  <2> QED BY <1>3, <2>2, <2>3 DEF RunEnsured
<1>4. ASSUME NEW ok \in BOOLEAN, PollEnsured(ok)
      PROVE  AInv'
  <2>1. ensures' \subseteq Ensures /\ up' \in BOOLEAN /\ listed' \in BOOLEAN
    BY <1>4, EndsTypes DEF PollEnsured
  <2> QED BY <1>4, <2>1, AccessUnchanged DEF PollEnsured, AInv, AccessTypes
<1> QED BY <1>1, <1>2, <1>3, <1>4 DEF PostNext, EnsureNext

LEMMA JobAccess ==
  ASSUME AInv, NEW j \in Jobs, Asks(j) \/ JobNext(j)
  PROVE  AInv'
<1>0. j \in Ensures /\ j \in Sockets
  BY DEF Ensures, Sockets
<1>1. ASSUME NEW k, StartsImport(j, k)
      PROVE  /\ ensures' \subseteq Ensures /\ run' = Idle
             /\ UNCHANGED <<up, listed, account, session, request, leave, del, idle>>
  BY <1>0, <1>1, BeginsTypes DEF StartsImport, AInv, AccessTypes
<1>2. CASE AskImport(j)
  <2>1. sock' \in [Sockets -> Sessions \cup {Nobody}]
        /\ \A c \in Sockets : sock'[c] \in {sock[c], Nobody}
    BY <1>2 DEF AskImport, AInv, AccessTypes
  <2> QED BY <1>1, <1>2, <2>1, AccessStops DEF AskImport, AInv, AccessTypes
<1>3. CASE AskLesson(j)
  <2>1. sock' \in [Sockets -> Sessions \cup {Nobody}]
        /\ \A c \in Sockets : sock'[c] \in {sock[c], Nobody}
    BY <1>3 DEF AskLesson, AInv, AccessTypes
  <2>2. AccessTypes'
    BY <1>3, <2>1 DEF AskLesson, Rest, AInv, AccessTypes
  <2>3. OutIsEnded' /\ EndedHoldsNothing'
    BY <1>3, <2>1, AccessAssumption
    DEF AskLesson, Rest, AInv, AccessInv, OutIsEnded, EndedHoldsNothing
  <2> QED BY <2>2, <2>3 DEF AInv, AccessInv
<1>4. CASE LoadLesson(j)
  BY <1>1, <1>4, AccessStops DEF LoadLesson, AInv, AccessTypes
<1>5. CASE LessonUnknown(j) \/ JobRefused(j) \/ JobWorks(j)
  BY <1>5, AccessUnchanged DEF LessonUnknown, JobRefused, JobWorks, access, AInv, AccessTypes
<1>6. ASSUME NEW ok \in BOOLEAN, JobEnsured(j, ok)
      PROVE  AInv'
  <2>1. ensures' \subseteq Ensures /\ up' \in BOOLEAN /\ listed' \in BOOLEAN
    BY <1>6, EndsTypes DEF JobEnsured
  <2> QED BY <1>6, <2>1, AccessUnchanged DEF JobEnsured, Rest, AInv, AccessTypes
<1> QED BY <1>2, <1>3, <1>4, <1>5, <1>6 DEF Asks, JobNext

LEMMA OtherStep ==
  ASSUME AInv, DeleteBegins \/ DeleteNext \/ SweepNext
  PROVE  AInv'
<1>1. CASE DeleteBegins
  <2>1. sock' \in [Sockets -> Sessions \cup {Nobody}]
        /\ \A c \in Sockets : sock'[c] \in {sock[c], Nobody}
    BY <1>1 DEF DeleteBegins, NoSockets
  <2> QED BY <1>1, <2>1, AccessStops DEF DeleteBegins, AInv, AccessTypes
<1>2. CASE DeleteDowns \/ DeleteFails
  <2>1. up' \in BOOLEAN /\ listed' \in BOOLEAN
    BY <1>2, StoppedTypes DEF DeleteDowns, DeleteFails, AInv, AccessTypes
  <2> QED BY <1>2, <2>1, AccessUnchanged DEF DeleteDowns, DeleteFails, AInv, AccessTypes
<1>3. CASE DeleteCommits
  <2>1. AccessTypes'
    BY <1>3 DEF DeleteCommits, AInv, AccessTypes
  <2>2. OutIsEnded' /\ EndedHoldsNothing'
    BY <1>3 DEF DeleteCommits, OutIsEnded, EndedHoldsNothing
  <2> QED BY <2>1, <2>2 DEF AInv, AccessInv
<1>4. CASE SweepLists \/ SweepStops
  <2>1. up' \in BOOLEAN /\ listed' \in BOOLEAN
    BY <1>4, StoppedTypes DEF SweepLists, SweepStops, AInv, AccessTypes
  <2> QED BY <1>4, <2>1, AccessUnchanged DEF SweepLists, SweepStops, AInv, AccessTypes
<1> QED BY <1>1, <1>2, <1>3, <1>4 DEF DeleteNext, SweepNext

---------------------------------------------------------------------------
(* Every step either leaves the imports alone or is one of a job. *)

LEMMA ImportStep ==
  ASSUME ImportTypes, ImportInv, NEW j \in Jobs, Asks(j) \/ JobNext(j)
  PROVE  ImportTypes' /\ ImportInv'
<1>1. CASE AskImport(j)
  <2>1. job[j].pc = "free" /\ Run(j, "github") /\ "github" \in Kinds
    BY <1>1 DEF AskImport, StartsImport, Kinds
  <2> QED BY <2>1, RunTypes, RunInv
<1>2. CASE AskLesson(j)
  <2>1. job[j].pc = "free" /\ Resolving(j)
    BY <1>2 DEF AskLesson
  <2> QED BY <2>1, ResolvingInv
<1>3. CASE LoadLesson(j)
  <2>1. job[j].pc = "resolving" /\ Run(j, "lesson") /\ "lesson" \in Kinds
    BY <1>3 DEF LoadLesson, StartsImport, Kinds
  <2> QED BY <2>1, RunTypes, RunInv
<1>4. CASE LessonUnknown(j)
  <2>1. job[j].pc = "resolving" /\ Rejection(j, "lesson") /\ "lesson" \in Kinds
    BY <1>4 DEF LessonUnknown, ModuleUnknown, Kinds
  <2> QED BY <2>1, RunTypes, RunInv
<1>5. CASE JobWorks(j)
  BY <1>5, StepTypes, StepInv DEF JobWorks
<1>6. CASE JobRefused(j)
  <2>1. Ensured(j, FALSE)
    BY <1>6 DEF JobRefused
  <2> QED BY <2>1, StepTypes, StepInv
<1>7. ASSUME NEW ok \in BOOLEAN, JobEnsured(j, ok)
      PROVE  ImportTypes' /\ ImportInv'
  <2>1. Ensured(j, ok)
    BY <1>7 DEF JobEnsured
  <2> QED BY <2>1, StepTypes, StepInv
<1> QED BY <1>1, <1>2, <1>3, <1>4, <1>5, <1>6, <1>7 DEF Asks, JobNext

LEMMA OthersLeaveImports ==
  /\ \A s \in Sessions : SessionNext(s) \/ LeaveNext(s) => UNCHANGED importVars
  /\ \A c \in Sockets : SocketNext(c) => UNCHANGED importVars
  /\ PostNext \/ EnsureNext \/ RunEnds => UNCHANGED importVars
  /\ DeleteBegins \/ DeleteNext \/ SweepNext => UNCHANGED importVars
<1>1. \A s \in Sessions : SessionNext(s) \/ LeaveNext(s) => UNCHANGED importVars
  BY DEF SessionNext, LeaveNext, SignIn, Post, Poll, OpenSocket, SignOut, LeaveCloses, LeaveStops
<1>2. \A c \in Sockets : SocketNext(c) => UNCHANGED importVars
  BY DEF SocketNext, CloseSocket, SocketStarts, SocketStops
<1>3. PostNext \/ EnsureNext \/ RunEnds => UNCHANGED importVars
  BY DEF PostNext, EnsureNext, RunEnds, PostStarts, PostStops, RunEnsured, PollEnsured
<1>4. DeleteBegins \/ DeleteNext \/ SweepNext => UNCHANGED importVars
  BY DEF DeleteBegins, DeleteNext, SweepNext, DeleteDowns, DeleteFails, DeleteCommits,
         SweepLists, SweepStops
<1> QED BY <1>1, <1>2, <1>3, <1>4

LEMMA NextInv == IInv /\ [Next]_vars => IInv'
<1> SUFFICES ASSUME IInv, [Next]_vars PROVE IInv'
  OBVIOUS
<1>1. ImportTypes /\ ImportInv /\ AInv
  BY TypeSplit DEF IInv, AInv
<1>2. ImportTypes' /\ ImportInv' /\ AInv' => IInv'
  BY TypeSplit, PTL DEF IInv, AInv
<1>3. ASSUME NEW s \in Sessions, SessionNext(s) \/ LeaveNext(s)
      PROVE  IInv'
  BY <1>1, <1>2, <1>3, SessionStep, OthersLeaveImports, ImportUnchanged
<1>4. ASSUME NEW c \in Sockets, SocketNext(c)
      PROVE  IInv'
  BY <1>1, <1>2, <1>4, SocketStep, OthersLeaveImports, ImportUnchanged
<1>5. CASE PostNext \/ EnsureNext \/ RunEnds
  BY <1>1, <1>2, <1>5, RunStep, OthersLeaveImports, ImportUnchanged
<1>6. ASSUME NEW j \in Jobs, Asks(j) \/ JobNext(j)
      PROVE  IInv'
  BY <1>1, <1>2, <1>6, JobAccess, ImportStep
<1>7. CASE DeleteBegins \/ DeleteNext \/ SweepNext
  BY <1>1, <1>2, <1>7, OtherStep, OthersLeaveImports, ImportUnchanged
<1>8. CASE UNCHANGED vars
  <2>1. ImportTypes' /\ ImportInv'
    BY <1>1, <1>8, ImportUnchanged DEF vars
  <2>2. AInv'
    BY <1>1, <1>8, AccessUnchanged DEF vars, access, AInv, AccessTypes
  <2> QED BY <1>2, <2>1, <2>2
<1> QED BY <1>3, <1>4, <1>5, <1>6, <1>7, <1>8 DEF Next

(* The inductive invariant holds in every behaviour of the workspace. *)
THEOREM Invariance == Spec => []IInv
BY InitInv, NextInv, PTL DEF Spec

(* Every variable keeps its type; the rate limiter never holds more than   *)
(* MaxImports timestamps although it is asked before the import and        *)
(* charged after it (imports.ts, ImportRateLimiter).                       *)
THEOREM TypeCorrect == Spec => []TypeOK
<1>1. IInv => TypeOK
  BY DEF IInv
<1> QED BY <1>1, Invariance, PTL

(* At most one import works on a workspace, however many sockets ask and   *)
(* whichever are refused (ImportManager.run, activeImports).               *)
THEOREM SwapsExclude == Spec => []OneSwap
<1>1. IInv => OneSwap
  BY DEF IInv, ImportInv
<1> QED BY <1>1, Invariance, PTL

(* At rest and with no command of a swap failed, current_module names what *)
(* is in /workspace/project (executeGithubImport, executeCatalogLoad).     *)
THEOREM RecordCorrect == Spec => []RecordMatches
<1>1. IInv => RecordMatches
  <2> SUFFICES ASSUME IInv, active = Nobody, \A j \in Jobs : ~ job[j].broken
               PROVE  Matches
    BY DEF RecordMatches, Matches
  <2>1. \A j \in Jobs : job[j].pc \notin Working
    BY ImportAssumption DEF IInv, ImportInv, OneSwap
  <2>2. \A j \in Jobs : ~ Swapping(j)
    BY <2>1 DEF Swapping, Working
  <2> QED BY <2>2 DEF IInv, ImportInv, Swaps, Sound
<1> QED BY <1>1, Invariance, PTL

(* What a session opened or started is gone when its Leave has closed the  *)
(* sockets (workspace-routes.ts, leave; app.ts, stopWorkspace).            *)
THEOREM SignOutIsFinal == Spec => []EndedHoldsNothing
<1>1. IInv => EndedHoldsNothing
  BY DEF IInv, AccessInv
<1> QED BY <1>1, Invariance, PTL

(* Nothing starts the container of a deleted account again, whatever the   *)
(* deletion left open (user-deletion.ts, ensureWorkspaceRunning).          *)
THEOREM DeletionIsFinal == Spec => DeletedStaysDown
<1>1. [Next]_vars => [account = "gone" /\ ~ up /\ ensures = {} => ~ up' /\ ensures' = {}]_vars
  <2> SUFFICES ASSUME Next, account = "gone", ~ up, ensures = {}
               PROVE  ~ up' /\ ensures' = {}
    OBVIOUS
  <2>0. \A e : Begins(e) => ensures' = {}
    BY DEF Begins
  <2>1. \A e, ok : ~ Ends(e, ok)
    BY DEF Ends
  <2>2. ASSUME NEW s \in Sessions, SessionNext(s) \/ LeaveNext(s)
        PROVE  ~ up' /\ ensures' = {}
    <3>1. CASE SignIn(s) \/ Post(s) \/ Poll(s) \/ \E c \in Sockets : OpenSocket(c, s)
      BY <3>1 DEF SignIn, Post, Poll, OpenSocket, Authenticated
    <3>2. CASE SignOut(s) \/ LeaveCloses(s)
      <4>1. up' = up /\ ensures' = ensures
        BY <3>2 DEF SignOut, LeaveCloses
      <4> QED BY <4>1
    <3>3. CASE LeaveStops(s)
      <4>1. Stopped /\ ensures' = ensures
        BY <3>3 DEF LeaveStops
      <4>2. up' = up \/ up' = FALSE
        BY <4>1 DEF Stopped
      <4>3. ~ up'
        BY <4>2, Zenon
      <4> QED BY <4>1, <4>3
    <3> QED BY <2>2, <3>1, <3>2, <3>3 DEF SessionNext, LeaveNext
  <2>3. ASSUME NEW c \in Sockets, SocketNext(c)
        PROVE  ~ up' /\ ensures' = {}
    BY <2>3 DEF SocketNext, CloseSocket, SocketStarts, SocketStops, Starts
  <2>4. ASSUME NEW j \in Jobs, Asks(j) \/ JobNext(j)
        PROVE  ~ up' /\ ensures' = {}
    <3>1. ASSUME NEW k, StartsImport(j, k)
          PROVE  ~ up' /\ ensures' = {}
      BY <2>0, <3>1 DEF StartsImport
    <3>2. CASE AskImport(j) \/ AskLesson(j) \/ LoadLesson(j)
      BY <3>1, <3>2 DEF AskImport, AskLesson, LoadLesson
    <3>3. CASE LessonUnknown(j) \/ JobRefused(j) \/ JobWorks(j)
      <4>1. up' = up /\ ensures' = ensures
        BY <3>3 DEF LessonUnknown, JobRefused, JobWorks, access
      <4> QED BY <4>1
    <3> QED BY <2>1, <2>4, <3>2, <3>3 DEF Asks, JobNext, JobEnsured
  <2>5. CASE PostNext \/ EnsureNext \/ RunEnds
    BY <2>1, <2>5 DEF PostNext, EnsureNext, RunEnds, PostStarts, PostStops, Starts,
                      RunEnsured, PollEnsured
  <2>6. CASE DeleteBegins \/ DeleteNext \/ SweepNext
    <3>1. (up' = up \/ up' = FALSE) /\ ensures' = ensures
      BY <2>6 DEF DeleteBegins, DeleteNext, SweepNext, DeleteDowns, DeleteFails,
         DeleteCommits, SweepLists, SweepStops, Stopped
    <3>2. ~ up'
      BY <3>1, Zenon
    <3> QED BY <3>1, <3>2
  <2> QED BY <2>2, <2>3, <2>4, <2>5, <2>6 DEF Next
<1> QED BY <1>1, PTL DEF Spec, DeletedStaysDown

---------------------------------------------------------------------------
(* After everybody has left.  Who holds a socket or started the run has    *)
(* signed in, and a sign-in comes only once.                               *)

VisitorsInv ==
    /\ \A c \in Sockets : sock[c] # Nobody => session[sock[c]] # "none"
    /\ run.by \in Sessions => session[run.by] # "none"

(* Sockets that close, a run that stops, and sessions that end.            *)
LEMMA VisitorsStay ==
  ASSUME IInv, VisitorsInv,
         \A c \in Sockets : sock'[c] \in {sock[c], Nobody},
         run'.by \in {run.by, Nobody, Http},
         \A s \in Sessions : session'[s] \in {session[s], "ended"}
  PROVE  VisitorsInv'
<1>1. \A c \in Sockets : sock[c] \in Sessions \cup {Nobody}
  BY DEF IInv, TypeOK
<1> QED BY <1>1, AccessAssumption DEF VisitorsInv

LEMMA VisitorsStep == IInv /\ VisitorsInv /\ [Next]_vars => VisitorsInv'
<1> SUFFICES ASSUME IInv, VisitorsInv, [Next]_vars PROVE VisitorsInv'
  OBVIOUS
<1>0. /\ \A c \in Sockets : sock[c] \in Sessions \cup {Nobody}
      /\ sock \in [Sockets -> Sessions \cup {Nobody}]
      /\ session \in [Sessions -> {"none", "live", "ended"}]
      /\ run \in [st : {"none", "ensuring", "active"}, by : Sessions \cup {Http, Nobody}]
      /\ Idle.by = Nobody
  BY DEF IInv, TypeOK, Idle
<1>1. ASSUME NEW s \in Sessions, SessionNext(s) \/ LeaveNext(s)
      PROVE  VisitorsInv'
  <2>1. CASE SignIn(s) \/ SignOut(s)
    <3>1. /\ \A x \in Sessions : session'[x] = session[x] \/ session'[x] \in {"live", "ended"}
          /\ UNCHANGED <<sock, run>>
      BY <1>0, <2>1 DEF SignIn, SignOut
    <3> QED BY <1>0, <3>1, AccessAssumption DEF VisitorsInv
  <2>2. CASE Post(s) \/ Poll(s) \/ LeaveStops(s)
    BY <1>0, <2>2, VisitorsStay DEF Post, Poll, LeaveStops
  <2>3. ASSUME NEW c \in Sockets, OpenSocket(c, s)
        PROVE  VisitorsInv'
    <3>1. /\ \A d \in Sockets : sock'[d] \in {sock[d], s}
          /\ session[s] = "live" /\ UNCHANGED <<session, run>>
      BY <1>0, <2>3 DEF OpenSocket, Authenticated
    <3> QED BY <3>1 DEF VisitorsInv
  <2>4. CASE LeaveCloses(s)
    BY <1>0, <2>4, VisitorsStay DEF LeaveCloses, NoSockets
  <2> QED BY <1>1, <2>1, <2>2, <2>3, <2>4 DEF SessionNext, LeaveNext
<1>2. ASSUME NEW c \in Sockets, SocketNext(c)
      PROVE  VisitorsInv'
  <2>1. CASE CloseSocket(c) \/ SocketStops(c)
    BY <1>0, <2>1, VisitorsStay DEF CloseSocket, SocketStops
  <2>2. CASE SocketStarts(c)
    <3>1. /\ run'.by \in {run.by, sock[c]} /\ sock[c] # Nobody
          /\ UNCHANGED <<session, sock>>
      BY <2>2 DEF SocketStarts, Starts
    <3> QED BY <3>1 DEF VisitorsInv
  <2> QED BY <1>2, <2>1, <2>2 DEF SocketNext
<1>3. CASE PostNext \/ EnsureNext \/ RunEnds
  <2>1. CASE PostStarts
    BY <1>0, <2>1, VisitorsStay DEF PostStarts, Starts
  <2>2. CASE PostStops \/ RunEnds
    BY <1>0, <2>2, VisitorsStay DEF PostStops, RunEnds
  <2>3. CASE EnsureNext
    <3>1. /\ run'.by \in {run.by, Nobody} /\ UNCHANGED <<session, sock>>
      BY <1>0, <2>3 DEF EnsureNext, RunEnsured, PollEnsured
    <3> QED BY <1>0, <3>1, VisitorsStay
  <2> QED BY <1>3, <2>1, <2>2, <2>3 DEF PostNext
<1>4. ASSUME NEW j \in Jobs, Asks(j) \/ JobNext(j)
      PROVE  VisitorsInv'
  <2>1. /\ \A c \in Sockets : sock'[c] \in {sock[c], Nobody}
        /\ run'.by \in {run.by, Nobody} /\ UNCHANGED session
    <3>1. CASE Asks(j)
      BY <1>0, <3>1 DEF Asks, AskImport, AskLesson, StartsImport, Rest
    <3>2. CASE JobNext(j)
      BY <1>0, <3>2 DEF JobNext, LoadLesson, StartsImport, LessonUnknown, JobRefused, JobWorks,
         JobEnsured, Rest, access
    <3> QED BY <1>4, <3>1, <3>2
  <2> QED BY <1>0, <2>1, VisitorsStay
<1>5. CASE DeleteBegins \/ DeleteNext \/ SweepNext
  <2>1. /\ \A c \in Sockets : sock'[c] \in {sock[c], Nobody}
        /\ run'.by \in {run.by, Nobody}
        /\ \A s \in Sessions : session'[s] \in {session[s], "ended"}
    BY <1>0, <1>5 DEF DeleteBegins, DeleteNext, SweepNext, DeleteDowns, DeleteFails,
       DeleteCommits, SweepLists, SweepStops, NoSockets
  <2> QED BY <2>1, VisitorsStay
<1>6. CASE UNCHANGED vars
  BY <1>0, <1>6, VisitorsStay DEF vars, access
<1> QED BY <1>1, <1>2, <1>3, <1>4, <1>5, <1>6 DEF Next

LEMMA VisitorsInvariance == Spec => []VisitorsInv
<1>1. Init => VisitorsInv
  BY AccessAssumption DEF Init, VisitorsInv, Idle
<1> QED BY <1>1, VisitorsStep, Invariance, PTL DEF Spec

LEMMA LeftIsQuiet ==
  ASSUME IInv, VisitorsInv, Left
  PROVE  /\ \A c \in Sockets : sock[c] = Nobody
         /\ run.by \in {Http, Nobody}
         /\ \A s \in Sessions : session[s] # "live"
<1>1. /\ \A c \in Sockets : sock[c] \in Sessions \cup {Nobody}
      /\ run.by \in Sessions \cup {Http, Nobody}
  BY DEF IInv, TypeOK
<1>2. ASSUME NEW s \in Sessions
      PROVE  /\ session[s] # "live" /\ run.by # s
             /\ \A c \in Sockets : sock[c] # s
  <2>1. CASE session[s] = "none"
    BY <2>1, AccessAssumption DEF VisitorsInv
  <2>2. CASE leave[s] \in {"stopping", "done"}
    BY <2>2 DEF IInv, AccessInv, EndedHoldsNothing, Left
  <2> QED BY <2>1, <2>2 DEF Left
<1> QED BY <1>1, <1>2

(* When everybody has left, nobody's socket is open and nobody's run goes  *)
(* on: what still starts the container is a request or a lesson load that  *)
(* was under way (workspace-routes.ts, leave; websocket.ts).               *)
THEOREM LeaversHoldNothing == Spec => []LeftHoldsNothing
<1>1. IInv /\ VisitorsInv => LeftHoldsNothing
  <2> SUFFICES ASSUME IInv, VisitorsInv, Left
               PROVE  sock = NoSockets /\ run.by \in {Http, Nobody}
    BY DEF LeftHoldsNothing
  <2>1. sock \in [Sockets -> Sessions \cup {Nobody}]
    BY DEF IInv, TypeOK
  <2> QED BY <2>1, LeftIsQuiet DEF NoSockets
<1> QED BY <1>1, Invariance, VisitorsInvariance, PTL

---------------------------------------------------------------------------
(* A job at work does not wait for the manifest any more.                  *)
LEMMA WorkResolves ==
  ASSUME ImportTypes, ImportInv, NEW j \in Jobs,
         JobSteps(j) \/ \E ok \in BOOLEAN : Ensured(j, ok)
  PROVE  Asked' = Asked
<1>1. /\ job[j].pc \in Working
      /\ \A i \in Jobs \ {j} : job'[i] = job[i]
  BY Alone
<1>2. job'[j].pc # "resolving"
  <2>1. job[j] \in Job /\ job \in [Jobs -> Job]
    BY DEF ImportTypes
  <2>2. ASSUME NEW p \in Working \cup {"done"},
               \/ Becomes(j, [job[j] EXCEPT !.pc = p])
               \/ Becomes(j, [job[j] EXCEPT !.pc = p, !.good = FALSE])
               \/ Becomes(j, [job[j] EXCEPT !.pc = p, !.broken = TRUE])
        PROVE  job'[j].pc = p
    <3>1. CASE Becomes(j, [job[j] EXCEPT !.pc = p])
      BY <2>1, <3>1 DEF Becomes, Job
    <3>2. CASE Becomes(j, [job[j] EXCEPT !.pc = p, !.good = FALSE])
      BY <2>1, <3>2 DEF Becomes, Job
    <3>3. CASE Becomes(j, [job[j] EXCEPT !.pc = p, !.broken = TRUE])
      BY <2>1, <3>3 DEF Becomes, Job
    <3> QED BY <2>2, <3>1, <3>2, <3>3, Zenon
  <2>3. "resolving" \notin Working \cup {"done"}
    BY DEF Working
  <2>4. CASE Staged(j) \/ Emptied(j) \/ Filled(j) \/ Finishes(j)
    <3>1. \E p \in Working \cup {"done"} : Becomes(j, [job[j] EXCEPT !.pc = p])
      BY <2>4, Zenon DEF Staged, Emptied, Filled, Finishes, Moves, Working
    <3> QED BY <2>2, <2>3, <3>1
  <2>5. CASE StagingFails(j)
    <3>1. Becomes(j, [job[j] EXCEPT !.pc = "clean", !.good = FALSE])
      BY <2>5 DEF StagingFails
    <3> QED BY <2>2, <2>3, <3>1 DEF Working
  <2>6. CASE EmptyingFails(j)
    <3>1. Becomes(j, [job[j] EXCEPT !.pc = "fill", !.broken = TRUE])
      BY <2>6 DEF EmptyingFails
    <3> QED BY <2>2, <2>3, <3>1 DEF Working
  <2>7. CASE FillingFails(j)
    <3>1. Becomes(j, [job[j] EXCEPT !.pc = "clean", !.broken = TRUE])
      BY <2>7 DEF FillingFails
    <3> QED BY <2>2, <2>3, <3>1 DEF Working
  <2>8. CASE \E ok \in BOOLEAN : Ensured(j, ok)
    <3>1. \/ Becomes(j, [job[j] EXCEPT !.pc = "stage"])
          \/ Becomes(j, [job[j] EXCEPT !.pc = "done", !.good = FALSE])
      BY <2>8, Zenon DEF Ensured, Moves
    <3> QED BY <2>2, <2>3, <3>1 DEF Working
  <2> QED BY <2>4, <2>5, <2>6, <2>7, <2>8 DEF JobSteps
<1> QED BY <1>1, <1>2 DEF Asked, Working

(* One that did wait does so no more.                                      *)
LEMMA LoadsResolve ==
  ASSUME ImportTypes, NEW j \in Jobs, job[j].pc = "resolving",
         Run(j, "lesson") \/ Rejection(j, "lesson")
  PROVE  Asked' \subseteq Asked /\ Asked' # Asked
<1>1. "lesson" \in Kinds
  BY DEF Kinds
<1>2. /\ \A i \in Jobs \ {j} : job'[i] = job[i]
      /\ job'[j].pc # "resolving"
  BY <1>1, RunJobs
<1> QED BY <1>2 DEF Asked

(* Everybody gone, the container is started again at most once for each    *)
(* ensure under way, and an ensure begins at most once for each request    *)
(* and lesson load that was under way: the sweep has the last word on the  *)
(* lease (idle.ts), which is why AbandonedIsSwept holds.                   *)
THEOREM LeaversDrain == Spec => LeftDrains
<1>1. ASSUME IInv, VisitorsInv, Next, Left, Left'
      PROVE  /\ Asked' \subseteq Asked /\ (request' => request)
             /\ ensures' \subseteq ensures \/ Asked' # Asked \/ request' # request
             /\ up' /\ ~ up => ensures' \subseteq ensures /\ ensures' # ensures
  <2>0. /\ \A c \in Sockets : sock[c] = Nobody
        /\ \A s \in Sessions : session[s] # "live"
        /\ ImportTypes /\ ImportInv /\ OutIsEnded
        /\ session \in [Sessions -> {"none", "live", "ended"}]
    BY <1>1, LeftIsQuiet, TypeSplit DEF IInv, AccessInv, TypeOK
  <2>a. UNCHANGED importVars => Asked' = Asked
    BY DEF Asked, importVars
  <2>b. \A e, ok : Ends(e, ok) => ensures' \subseteq ensures /\ ensures' # ensures
    BY DEF Ends
  <2>1. ASSUME NEW s \in Sessions, SessionNext(s) \/ LeaveNext(s)
        PROVE  UNCHANGED <<importVars, request, ensures>> /\ (up' => up)
    <3>1. ~ SignIn(s)
      <4> SUFFICES ASSUME SignIn(s) PROVE FALSE
        OBVIOUS
      <4>1. session[s] = "none" /\ session'[s] = "live" /\ leave'[s] = leave[s]
        BY <2>0 DEF SignIn
      <4>2. leave[s] = "no"
        BY <2>0, <4>1 DEF OutIsEnded
      <4> QED BY <1>1, <4>1, <4>2 DEF Left
    <3>2. ~ Authenticated(s) /\ ~ SignOut(s)
      BY <2>0 DEF Authenticated, SignOut
    <3>3. CASE LeaveCloses(s)
      <4>1. up' = up /\ UNCHANGED <<importVars, request, ensures>>
        BY <3>3 DEF LeaveCloses
      <4> QED BY <4>1
    <3>4. CASE LeaveStops(s)
      <4>1. UNCHANGED <<importVars, request, ensures>>
        BY <3>4 DEF LeaveStops
      <4>2. up' = up \/ up' = FALSE
        BY <3>4 DEF LeaveStops, Stopped
      <4>3. up' => up
        BY <4>2, Zenon
      <4> QED BY <4>1, <4>3
    <3> QED BY <2>1, <3>1, <3>2, <3>3, <3>4 DEF SessionNext, LeaveNext, Post, Poll, OpenSocket
  <2>2. ASSUME NEW c \in Sockets PROVE ~ SocketNext(c)
    BY <2>0 DEF SocketNext, CloseSocket, SocketStarts, SocketStops
  <2>3. CASE PostNext
    <3>1. request /\ ~ request' /\ up' = up /\ UNCHANGED importVars
      BY <2>3 DEF PostNext, PostStarts, PostStops
    <3> QED BY <2>a, <3>1, Zenon
  <2>4. CASE EnsureNext
    <3>1. UNCHANGED <<importVars, request>> /\ \E e, ok : Ends(e, ok)
      BY <2>4 DEF EnsureNext, RunEnsured, PollEnsured
    <3> QED BY <2>a, <2>b, <3>1
  <2>5. CASE RunEnds
    <3>1. up' = up /\ UNCHANGED <<importVars, request, ensures>>
      BY <2>5 DEF RunEnds
    <3> QED BY <2>a, <3>1
  <2>6. ASSUME NEW j \in Jobs, Asks(j) \/ JobNext(j)
        PROVE  /\ Asked' \subseteq Asked /\ request' = request
               /\ ensures' \subseteq ensures \/ Asked' # Asked
               /\ up' = up \/ (ensures' \subseteq ensures /\ ensures' # ensures)
    <3>1. ~ Asks(j)
      BY <2>0 DEF Asks, AskImport, AskLesson, Sockets
    <3>2. CASE LoadLesson(j) \/ LessonUnknown(j)
      <4>1. /\ job[j].pc = "resolving" /\ (Run(j, "lesson") \/ Rejection(j, "lesson"))
            /\ up' = up /\ request' = request
        BY <3>2 DEF LoadLesson, LessonUnknown, ModuleUnknown, StartsImport, access
      <4> QED BY <2>0, <4>1, LoadsResolve
    <3>3. CASE JobRefused(j) \/ JobWorks(j)
      <4>1. /\ Ensured(j, FALSE) \/ JobSteps(j)
            /\ up' = up /\ request' = request /\ ensures' = ensures
        BY <3>3 DEF JobRefused, JobWorks, access
      <4> QED BY <2>0, <4>1, WorkResolves
    <3>4. ASSUME NEW ok \in BOOLEAN, JobEnsured(j, ok)
          PROVE  /\ Asked' = Asked /\ request' = request
                 /\ ensures' \subseteq ensures /\ ensures' # ensures
      BY <2>0, <2>b, <3>4, WorkResolves DEF JobEnsured, Rest
    <3> QED BY <2>6, <3>1, <3>2, <3>3, <3>4 DEF JobNext
  <2>7. CASE DeleteBegins \/ DeleteNext \/ SweepNext
    <3>1. UNCHANGED <<importVars, request, ensures>>
      BY <2>7 DEF DeleteBegins, DeleteNext, SweepNext, DeleteDowns, DeleteFails,
         DeleteCommits, SweepLists, SweepStops
    <3>2. up' = up \/ up' = FALSE
      BY <2>7 DEF DeleteBegins, DeleteNext, SweepNext, DeleteDowns, DeleteFails,
         DeleteCommits, SweepLists, SweepStops, Stopped
    <3>3. up' => up
      BY <3>2, Zenon
    <3>4. Asked' = Asked /\ request' = request /\ ensures' \subseteq ensures
      BY <2>a, <3>1
    <3> QED BY <3>3, <3>4, Zenon
  <2> QED BY <1>1, <2>a, <2>1, <2>2, <2>3, <2>4, <2>5, <2>6, <2>7 DEF Next
<1> QED BY <1>1, Invariance, VisitorsInvariance, PTL DEF Spec, LeftDrains
=============================================================================
