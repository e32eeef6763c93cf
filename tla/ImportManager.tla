---------------------------- MODULE ImportManager ----------------------------
(***************************************************************************)
(* The import jobs of one workspace (imports.ts): a team import clones a   *)
(* GitHub repository, a lesson load takes a module of the catalog, remote  *)
(* (cloned) or bundled in the image.  A job ensures the container, stages  *)
(* and validates the files, then empties /workspace/project and copies     *)
(* them there, and last records which module is loaded.  Every step in the *)
(* container is a docker exec: it fails, never throws, when the container  *)
(* is down, and the exit codes of the swap itself are not looked at.       *)
(*                                                                         *)
(* This module has no Next: its actions are composed by WorkspaceAccess,   *)
(* whose sockets start the jobs and whose actors stop the container under  *)
(* them.  One request per import socket, as the client sends it.           *)
(***************************************************************************)
EXTENDS Naturals, FiniteSets

CONSTANTS Jobs,        \* import sockets; the job each may ask for
          MaxImports,  \* MAX_IMPORTS_PER_HOUR; the hour does not pass
          Nobody, Own  \* no job, no module; the student's own files

ASSUME ImportAssumption ==
    /\ MaxImports \in Nat
    /\ Nobody \notin Jobs /\ Own \notin Jobs

VARIABLES
    up,        \* the workspace container is running
    job,       \* progress and outcome of each job
    active,    \* activeImports: the job that holds the workspace's entry
    project,   \* whose files are in /workspace/project
    module,    \* current_module: the lesson job recorded last, if any
    spent      \* timestamps the rate limiter holds for the user

importVars == <<job, active, project, module, spent>>

\* Where a job is; "clean" is the finally that removes the staging directory.
Kinds   == {"github", "lesson"}
Working == {"ensure", "stage", "empty", "fill", "clean"}
Job == [pc     : {"free", "resolving", "done"} \cup Working,
        kind   : Kinds,
        good   : BOOLEAN,   \* no error was thrown: the answer of a job that is done
        broken : BOOLEAN]   \* a command of the swap failed

ImportTypeOK ==
    /\ up \in BOOLEAN
    /\ job \in [Jobs -> Job]
    /\ active \in Jobs \cup {Nobody}
    /\ project \subseteq Jobs \cup {Own}
    /\ module \in Jobs \cup {Nobody}
    /\ spent \in 0 .. MaxImports

NewJob == [pc |-> "free", kind |-> "github", good |-> TRUE, broken |-> FALSE]

ImportInit ==
    /\ up = FALSE
    /\ job = [j \in Jobs |-> NewJob]
    /\ active = Nobody
    /\ project = {Own}
    /\ module = Nobody
    /\ spent = 0

Becomes(j, f) == job' = [job EXCEPT ![j] = f]

(* ImportManager.run rejects: another import of the workspace is at work,  *)
(* or the user's imports of the last hour are used up.                     *)
Refuses(j, k) == active # Nobody \/ (k = "github" /\ spent = MaxImports)
Rejection(j, k) ==
    /\ Becomes(j, [NewJob EXCEPT !.pc = "done", !.kind = k, !.good = FALSE])
    /\ UNCHANGED <<active, project, module, spent>>

Acceptance(j, k) ==
    /\ Becomes(j, [NewJob EXCEPT !.pc = "ensure", !.kind = k])
    /\ active' = j
    /\ UNCHANGED <<project, module, spent>>

Run(j, k) == IF Refuses(j, k) THEN Rejection(j, k) ELSE Acceptance(j, k)

(* Before the run: a lesson socket awaits the catalog's manifest. *)
Resolving(j) ==
    /\ Becomes(j, [NewJob EXCEPT !.pc = "resolving", !.kind = "lesson"])
    /\ UNCHANGED <<active, project, module, spent>>

(* The module is not in the manifest, or no manifest could be fetched. *)
ModuleUnknown(j) ==
    /\ job[j].pc = "resolving"
    /\ Rejection(j, "lesson")

---------------------------------------------------------------------------
Moves(j, from, to) ==
    /\ job[j].pc = from
    /\ Becomes(j, [job[j] EXCEPT !.pc = to])

(* ensureRunning: its error leaves the job before the try of the staging. *)
Ensured(j, ok) ==
    /\ job[j].pc = "ensure"
    /\ IF ok
       THEN Moves(j, "ensure", "stage") /\ UNCHANGED active
       ELSE /\ Becomes(j, [job[j] EXCEPT !.pc = "done", !.good = FALSE])
            /\ active' = Nobody
    /\ UNCHANGED <<project, module, spent>>

(* The clone, or the catalog's (a sparse checkout of a remote one), the    *)
(* checks for build.gradle or an empty module, and the size; a size that   *)
(* cannot be read passes.                                                  *)
Staged(j) ==
    /\ up /\ Moves(j, "stage", "empty")
    /\ UNCHANGED <<active, project, module, spent>>

(* One of them threw an ImportError: only the finally is left. *)
StagingFails(j) ==
    /\ job[j].pc = "stage"
    /\ Becomes(j, [job[j] EXCEPT !.pc = "clean", !.good = FALSE])
    /\ UNCHANGED <<active, project, module, spent>>

(* swapProject: `find -delete`, which may fail or find no container. *)
Emptied(j) ==
    /\ up /\ Moves(j, "empty", "fill")
    /\ project' = {}
    /\ UNCHANGED <<active, module, spent>>
EmptyingFails(j) ==
    /\ job[j].pc = "empty"
    /\ Becomes(j, [job[j] EXCEPT !.pc = "fill", !.broken = TRUE])
    /\ UNCHANGED <<active, project, module, spent>>

(* `cp -a`, which may fail with none or some of the files copied. *)
Filled(j) ==
    /\ up /\ Moves(j, "fill", "clean")
    /\ project' = project \cup {j}
    /\ UNCHANGED <<active, module, spent>>
FillingFails(j) ==
    /\ job[j].pc = "fill"
    /\ Becomes(j, [job[j] EXCEPT !.pc = "clean", !.broken = TRUE])
    /\ project' \in IF up THEN {project, project \cup {j}} ELSE {project}
    /\ UNCHANGED <<active, module, spent>>

(* The staging directory is removed; the record, the limiter, the answer   *)
(* and the finally of run then follow without an await.  (A github job     *)
(* awaits the removal of the editor's cache as well.)                      *)
\* mutant: the module is recorded although an error was thrown
RecordsAnyway(j) ==
    /\ Moves(j, "clean", "done")
    /\ module' = IF job[j].kind = "github" THEN Nobody ELSE j
    /\ spent' = IF job[j].good /\ job[j].kind = "github" THEN spent + 1 ELSE spent
    /\ active' = Nobody
    /\ UNCHANGED project
Finishes(j) ==
    /\ Moves(j, "clean", "done")
    /\ module' = IF ~ job[j].good THEN module
                 ELSE IF job[j].kind = "github" THEN Nobody ELSE j
    /\ spent' = IF job[j].good /\ job[j].kind = "github" THEN spent + 1 ELSE spent
    /\ active' = Nobody
    /\ UNCHANGED project

JobSteps(j) ==
    \/ Staged(j) \/ StagingFails(j) \/ Emptied(j) \/ EmptyingFails(j)
    \/ Filled(j) \/ FillingFails(j) \/ Finishes(j)

---------------------------------------------------------------------------
(* At most one job works on the workspace, and it is the one that holds    *)
(* the entry: a rejected request frees nothing of another's.               *)
OneSwap ==
    \A j \in Jobs : job[j].pc \in Working => active = j

Lessons == {j \in Jobs : job[j].kind # "github"}

(* When no import is at work and no command of a swap failed, the recorded *)
(* module names what is in the project: a job that failed, at any step,    *)
(* changed neither, and one that succeeded changed both.  (Without the     *)
(* second condition it does not hold: a swap that failed is recorded and   *)
(* reported like one that did not.)                                        *)
RecordMatches ==
    active = Nobody /\ (\A j \in Jobs : ~ job[j].broken) =>
        \/ module = Nobody /\ \E x \in {Own} \cup (Jobs \ Lessons) : project = {x}
        \/ module \in Lessons /\ project = {module}
=============================================================================
