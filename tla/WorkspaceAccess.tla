--------------------------- MODULE WorkspaceAccess ---------------------------
(***************************************************************************)
(* Who may use the workspace of one classroom guest, and what takes it     *)
(* away: the guest's browser sessions and the sockets and requests they    *)
(* authenticate (middleware.ts, websocket.ts, workspace-routes.ts), Leave, *)
(* the deletion of the account (user-deletion.ts) and the idle sweep       *)
(* (idle.ts), together with the import jobs of ImportManager and the one   *)
(* run and the container they all start and stop.                          *)
(*                                                                         *)
(* A request is authenticated once, when it arrives; what it does after an *)
(* await does not ask again.  An ensure of the container asks for the      *)
(* workspace row when it begins and ends some time later.                  *)
(***************************************************************************)
EXTENDS ImportManager

CONSTANTS Sessions,     \* browser sessions of the guest, one sign-in each
          RunSockets    \* sockets that start and stop runs

Http == "http"                          \* a run started by a request

ASSUME AccessAssumption ==
    /\ RunSockets \cap Jobs = {}
    /\ Nobody \notin Sessions /\ Http \notin Sessions /\ Http # Nobody

VARIABLES
    account,   \* rows of the user and the workspace: there or gone
    session,   \* session row of each session
    sock,      \* open sockets: the session that authenticated each, or Nobody
    run,       \* the current, uncanceled run and who started it
    request,   \* a POST to /api/sim/run, authenticated, awaiting its body
    ensures,   \* ensures in flight: of a job, of the run, of a request
    leave,     \* progress of the Leave of each session
    del,       \* progress of deleteUserAndWorkspace
    idle,      \* the idle sweep holds the workspace in its list
    listed     \* code_state of its container_leases row: starting or running

access == <<account, session, sock, run, request, ensures, leave, del, idle, listed>>
vars   == <<up, importVars, access>>

Sockets == RunSockets \cup Jobs
Idle    == [st |-> "none", by |-> Nobody]
Ensures == Jobs \cup {"run", "poll"}

TypeOK ==
    /\ ImportTypeOK
    /\ account \in {"there", "gone"}
    /\ session \in [Sessions -> {"none", "live", "ended"}]
    /\ sock \in [Sockets -> Sessions \cup {Nobody}]
    /\ run \in [st : {"none", "ensuring", "active"}, by : Sessions \cup {Http, Nobody}]
    /\ request \in BOOLEAN
    /\ ensures \subseteq Ensures
    /\ leave \in [Sessions -> {"no", "out", "stopping", "done"}]
    /\ del \in {"no", "stopping", "removed", "done"}
    /\ idle \in BOOLEAN /\ listed \in BOOLEAN

Init ==
    /\ ImportInit
    /\ account = "there"
    /\ session = [s \in Sessions |-> "none"]
    /\ sock = [c \in Sockets |-> Nobody]
    /\ run = Idle
    /\ request = FALSE
    /\ ensures = {}
    /\ leave = [s \in Sessions |-> "no"]
    /\ del = "no"
    /\ idle = FALSE /\ listed = FALSE

---------------------------------------------------------------------------
(* Authentication: the session row, the workspace row. *)
Authenticated(s) == session[s] = "live" /\ account = "there"

(* ensureWorkspaceRunning begins: without a workspace row it throws.  An    *)
(* ensure joins the one in flight: a poll's, whose end nobody waits for,   *)
(* then is the ensure of whoever joins it.                                 *)
Joined(e) == (ensures \ {"poll"}) \cup {e}
\* mutant: the workspace row is not asked for
BeginsAnyway(e) == ensures' = Joined(e)
Begins(e) == ensures' = IF account = "there" THEN Joined(e) ELSE ensures

(* It ends: well, with the lease "running", although a stop may have taken *)
(* the container down since; or not, having started the container or       *)
(* removed the one it found or neither, with the lease "starting", "error" *)
(* or as it was.  A deletion that overtook it makes it fail, with no lease.*)
Ends(e, ok) ==
    /\ e \in ensures
    /\ ensures' = ensures \ {e}
    /\ ok => account = "there"
    /\ up' \in IF ok THEN {up, TRUE} ELSE BOOLEAN
    /\ listed' \in IF account = "gone" THEN {FALSE}
                   ELSE IF ok THEN {TRUE} ELSE BOOLEAN

SignIn(s) ==
    /\ session[s] = "none" /\ account = "there"
    /\ session' = [session EXCEPT ![s] = "live"]
    /\ UNCHANGED <<up, listed, importVars, account, sock, run, request,
                   ensures, leave, del, idle>>

(* The upgrade of a workspace socket, and its open handler. *)
OpenSocket(c, s) ==
    /\ sock[c] = Nobody /\ (c \in Jobs => job[c].pc = "free")
    /\ Authenticated(s)
    /\ sock' = [sock EXCEPT ![c] = s]
    /\ UNCHANGED <<up, listed, importVars, account, session, run, request,
                   ensures, leave, del, idle>>

(* The client closes; a job and a run go on. *)
CloseSocket(c) ==
    /\ sock[c] # Nobody
    /\ sock' = [sock EXCEPT ![c] = Nobody]
    /\ UNCHANGED <<up, listed, importVars, account, session, run, request,
                   ensures, leave, del, idle>>

---------------------------------------------------------------------------
(* Runs *)

(* RunManager.start: the run_jobs row needs the workspace's; runJob then   *)
(* ensures the container.                                                  *)
Starts(by) ==
    IF account = "there"
    THEN run' = [st |-> "ensuring", by |-> by] /\ Begins("run")
    ELSE UNCHANGED <<run, ensures>>

SocketStarts(c) ==
    /\ c \in RunSockets /\ sock[c] # Nobody
    /\ Starts(sock[c])
    /\ UNCHANGED <<up, listed, importVars, account, session, sock, request,
                   leave, del, idle>>

SocketStops(c) ==
    /\ c \in RunSockets /\ sock[c] # Nobody
    /\ run' = Idle
    /\ UNCHANGED <<up, listed, importVars, account, session, sock, request,
                   ensures, leave, del, idle>>

(* POST /api/sim/run: authenticated, then `await request.json()`. *)
Post(s) ==
    /\ ~ request /\ Authenticated(s)
    /\ request' = TRUE
    /\ UNCHANGED <<up, listed, importVars, account, session, sock, run,
                   ensures, leave, del, idle>>

PostStarts ==
    /\ request /\ request' = FALSE
    /\ Starts(Http)
    /\ UNCHANGED <<up, listed, importVars, account, session, sock, leave, del,
                   idle>>

PostStops ==
    /\ request /\ request' = FALSE
    /\ run' = Idle
    /\ UNCHANGED <<up, listed, importVars, account, session, sock, ensures,
                   leave, del, idle>>

(* runJob after its ensure; a run canceled meanwhile starts nothing. *)
RunEnsured(ok) ==
    /\ Ends("run", ok)
    /\ run' = IF ok /\ run.st # "none" THEN [run EXCEPT !.st = "active"] ELSE Idle
    /\ UNCHANGED <<importVars, account, session, sock, request, leave, del,
                   idle>>

RunEnds ==
    /\ run.st = "active" /\ run' = Idle
    /\ UNCHANGED <<up, listed, importVars, account, session, sock, request,
                   ensures, leave, del, idle>>

(* Any request of the page that ensures the container: the IDE's proxy, a  *)
(* status poll during a run.  One that joins an ensure changes nothing.    *)
Poll(s) ==
    /\ Authenticated(s) /\ ensures = {} /\ Begins("poll")
    /\ UNCHANGED <<up, listed, importVars, account, session, sock, run,
                   request, leave, del, idle>>

PollEnsured(ok) ==
    /\ Ends("poll", ok)
    /\ UNCHANGED <<importVars, account, session, sock, run, request, leave,
                   del, idle>>

---------------------------------------------------------------------------
(* Imports and lesson loads *)

Rest == <<account, session, run, request, leave, del, idle>>

(* stopActiveRun, then ImportManager.run up to its first await. *)
StartsImport(j, k) ==
    /\ run' = Idle
    /\ Run(j, k)
    /\ IF Refuses(j, k) THEN UNCHANGED ensures ELSE Begins(j)
    /\ UNCHANGED <<up, listed, account, session, request, leave, del, idle>>

(* The message of an import socket, the only one it carries: from now on   *)
(* the socket only tells the progress, and is no longer counted.           *)
AskImport(j) ==
    /\ job[j].pc = "free" /\ sock[j] # Nobody
    /\ sock' = [sock EXCEPT ![j] = Nobody]
    /\ StartsImport(j, "github")

(* The message of a lesson socket: the manifest is awaited first, and what *)
(* follows happens even if the socket was closed meanwhile.                *)
AskLesson(j) ==
    /\ job[j].pc = "free" /\ sock[j] # Nobody
    /\ sock' = [sock EXCEPT ![j] = Nobody]
    /\ Resolving(j)
    /\ UNCHANGED <<up, listed, ensures, Rest>>

LoadLesson(j) ==
    /\ job[j].pc = "resolving"
    /\ StartsImport(j, "lesson")
    /\ UNCHANGED sock

LessonUnknown(j) == ModuleUnknown(j) /\ UNCHANGED <<up, access>>

JobEnsured(j, ok) ==
    /\ Ends(j, ok)
    /\ Ensured(j, ok)
    /\ UNCHANGED <<sock, Rest>>

(* The ensure of a job accepted without a workspace row has thrown. *)
JobRefused(j) ==
    /\ j \notin ensures /\ Ensured(j, FALSE)
    /\ UNCHANGED <<up, access>>

JobWorks(j) == JobSteps(j) /\ UNCHANGED <<up, access>>

---------------------------------------------------------------------------
(* Leave (the route, or another guest's join over this browser): the       *)
(* session first, then stopWorkspace.                                      *)

SignOut(s) ==
    /\ session[s] = "live" /\ leave[s] = "no" /\ account = "there"
    /\ session' = [session EXCEPT ![s] = "ended"]
    /\ leave' = [leave EXCEPT ![s] = "out"]
    /\ UNCHANGED <<up, listed, importVars, account, sock, run, request,
                   ensures, del, idle>>

NoSockets == [c \in Sockets |-> Nobody]

\* mutant: the sockets are left to the browser
LeavesSockets(s) ==
    /\ leave[s] = "out" /\ leave' = [leave EXCEPT ![s] = "stopping"]
    /\ run' = Idle
    /\ UNCHANGED <<up, listed, importVars, account, session, sock, request,
                   ensures, del, idle>>
LeaveCloses(s) ==
    /\ leave[s] = "out" /\ leave' = [leave EXCEPT ![s] = "stopping"]
    /\ sock' = NoSockets /\ run' = Idle
    /\ UNCHANGED <<up, listed, importVars, account, session, request, ensures,
                   del, idle>>

(* stopCodeContainer: the lease becomes "stopped" whether or not docker    *)
(* did as told, and also when an ensure brought the container up between   *)
(* the docker command and the lease.                                       *)
Stopped == up' \in {up, FALSE} /\ listed' = FALSE

LeaveStops(s) ==
    /\ leave[s] = "stopping" /\ leave' = [leave EXCEPT ![s] = "done"]
    /\ Stopped
    /\ UNCHANGED <<importVars, account, session, sock, run, request, ensures,
                   del, idle>>

---------------------------------------------------------------------------
(* deleteUserAndWorkspace: the sockets and the run, the container, then    *)
(* the rows.  Its session ends last.                                       *)

DeleteBegins ==
    /\ account = "there" /\ del = "no" /\ del' = "stopping"
    /\ sock' = NoSockets /\ run' = Idle
    /\ UNCHANGED <<up, listed, importVars, account, session, request, ensures,
                   leave, idle>>

(* The container is stopped, then removed: what a request started between  *)
(* the two is gone as well.  A runner that throws ends the deletion.       *)
DeleteDowns ==
    /\ del = "stopping" /\ del' = "removed"
    /\ Stopped
    /\ UNCHANGED <<importVars, account, session, sock, run, request, ensures,
                   leave, idle>>

DeleteFails ==
    /\ del = "stopping" /\ del' = "no"
    /\ UNCHANGED <<up, listed>> \/ Stopped
    /\ UNCHANGED <<importVars, account, session, sock, run, request, ensures,
                   leave, idle>>

(* The volume is removed too; then the transaction on the rows. *)
DeleteCommits ==
    /\ del = "removed" /\ del' = "done"
    /\ account' = "gone"
    /\ session' = [s \in Sessions |-> "ended"]
    /\ listed' = FALSE
    /\ UNCHANGED <<up, importVars, sock, run, request, ensures, leave, idle>>

---------------------------------------------------------------------------
(* The idle sweep: the list is computed once, the stops are awaited one    *)
(* after the other.  Time is not measured: every access touches the        *)
(* workspace, and idleStopMinutes may pass after any of them.  Listed is a *)
(* workspace by its lease: docker is not asked whether the container runs. *)

\* mutant: a workspace with a run is not listed
ListsIdleOnly ==
    /\ ~ idle /\ listed /\ account = "there" /\ run = Idle
    /\ idle' = TRUE
    /\ UNCHANGED <<up, listed, importVars, account, session, sock, run,
                   request, ensures, leave, del>>
SweepLists ==
    /\ ~ idle /\ listed /\ account = "there"
    /\ idle' = TRUE
    /\ UNCHANGED <<up, listed, importVars, account, session, sock, run,
                   request, ensures, leave, del>>

SweepStops ==
    /\ idle /\ idle' = FALSE
    /\ Stopped
    /\ UNCHANGED <<importVars, account, session, sock, run, request, ensures,
                   leave, del>>

---------------------------------------------------------------------------
SessionNext(s) ==
    \/ SignIn(s) \/ Post(s) \/ Poll(s) \/ \E c \in Sockets : OpenSocket(c, s)
    \/ SignOut(s)
LeaveNext(s) == LeaveCloses(s) \/ LeaveStops(s)
SocketNext(c) == CloseSocket(c) \/ SocketStarts(c) \/ SocketStops(c)
PostNext == PostStarts \/ PostStops
EnsureNext == \E ok \in BOOLEAN : RunEnsured(ok) \/ PollEnsured(ok)
Asks(j) == AskImport(j) \/ AskLesson(j)
JobNext(j) ==
    \/ LoadLesson(j) \/ LessonUnknown(j) \/ JobRefused(j) \/ JobWorks(j)
    \/ \E ok \in BOOLEAN : JobEnsured(j, ok)
DeleteNext == DeleteDowns \/ DeleteFails \/ DeleteCommits
SweepNext == SweepLists \/ SweepStops

Next ==
    \/ \E s \in Sessions : SessionNext(s) \/ LeaveNext(s)
    \/ \E c \in Sockets : SocketNext(c)
    \/ PostNext \/ EnsureNext \/ RunEnds
    \/ \E j \in Jobs : Asks(j) \/ JobNext(j)
    \/ DeleteBegins \/ DeleteNext
    \/ SweepNext

(* What was begun ends, time passes and the sweep's timer fires; nobody    *)
(* has to sign in, ask for anything or leave.  A step of the server stays  *)
(* possible until it is taken, so it is enough that some step is.          *)
ServerNext == EnsureNext \/ PostNext \/ SweepNext \/ \E j \in Jobs : JobNext(j)

Fairness ==
    /\ WF_vars(\E s \in Sessions : LeaveNext(s))
    /\ WF_vars(ServerNext)

Spec == Init /\ [][Next]_vars /\ Fairness

---------------------------------------------------------------------------
(* A session that was ended by Leave holds nothing once Leave has closed   *)
(* the sockets: no socket authenticated by it is open, and no run started  *)
(* over one of its sockets goes on, whatever raced the sign-out.           *)
EndedHoldsNothing ==
    account = "there" => \A s \in Sessions :
        leave[s] \in {"stopping", "done"} =>
            /\ session[s] = "ended"
            /\ \A c \in Sockets : sock[c] # s
            /\ run.by # s

(* Nothing of a deleted account comes back: once the container is down and *)
(* no ensure is in flight, it stays so, whatever sockets, requests and     *)
(* lesson loads the deletion left over.  (A deletion closes the sockets    *)
(* first and ends the sessions last: sockets opened in between stay.)      *)
DeletedStaysDown ==
    [][account = "gone" /\ ~ up /\ ensures = {} => ~ up' /\ ensures' = {}]_vars

SignedOut == account = "there" /\ \A s \in Sessions : session[s] # "live"

(* When everybody has left for good, whatever run, import or request they  *)
(* left behind, the sweep leaves no container that it can see: in the end  *)
(* it is down for good, or up with a lease that denies it.                 *)
AbandonedIsSwept == <>[]SignedOut => <>[]~ (up /\ listed)

(* "The idle sweep stops containers automatically."  Broken: an ensure     *)
(* that fails, or that crosses a stop, may leave the lease at "error" or   *)
(* "stopped" over a container that runs, and the sweep asks the leases.    *)
AbandonedIsStopped == <>[]SignedOut => <>[]~ up

\* Whoever signed in has left, and Leave has closed the sockets; nobody is
\* admitted any more.
Left ==
    /\ account = "there"
    /\ \A s \in Sessions : session[s] = "none" \/ leave[s] \in {"stopping", "done"}

\* The lessons that were asked for and have not asked for the container yet.
Asked == {j \in Jobs : job[j].pc = "resolving"}

(* Once everybody has left, no socket is open, and no run goes on but one  *)
(* that a request started which was authenticated before.                  *)
LeftHoldsNothing == Left => sock = NoSockets /\ run.by \in {Http, Nobody}

(* From then on, until somebody signs in, an ensure begins only for a      *)
(* request or a lesson load that was asked for before, and uses it up: so  *)
(* the container is started again a bounded number of times, and the idle  *)
(* sweep has the last word on the lease.                                   *)
LeftDrains ==
    [][Left /\ Left' =>
        /\ Asked' \subseteq Asked /\ (request' => request)
        /\ ensures' \subseteq ensures \/ Asked' # Asked \/ request' # request
        /\ up' /\ ~ up => ensures' \subseteq ensures /\ ensures' # ensures]_vars
=============================================================================
