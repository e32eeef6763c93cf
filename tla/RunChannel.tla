----------------------------- MODULE RunChannel -----------------------------
(***************************************************************************)
(* What the workspace page holds open for a robot project besides its      *)
(* gamepad channel: the run channel, with its retries (useRunChannel.ts),  *)
(* and the endpoint that AdvantageScope is handed (useScopeHandshake.ts).  *)
(* Both follow the slug the page passes, which is null for a console       *)
(* lesson.                                                                 *)
(*                                                                         *)
(* A socket that the clean-up closed is gone: its late events are ignored  *)
(* (disposed).  The statuses a channel hears come in any order, since a    *)
(* superseded run still tells its end to clients of the next.  The console *)
(* lines and the length of a delay are left out; the hook's startRun and   *)
(* stopRun are used nowhere.                                               *)
(***************************************************************************)
EXTENDS Naturals

CONSTANTS
    MaxLosses,     \* sockets lost or refused, frames reloaded
    MaxLessons     \* switches between a robot project and a console lesson

ASSUME ChannelAssumption == MaxLosses \in Nat /\ MaxLessons \in Nat

Statuses == {"connecting", "idle", "building", "running", "stopping", "failed", "stopped"}

VARIABLES
    simSlug,        \* whether the page passes a slug
    runSocket,      \* the socket of socketRef
    retryArmed,     \* reconnectTimerRef.current # null
    runConnection,  \* connection
    channelStatus,  \* runStatus of the hook
    scope,          \* the AdvantageScope frame, and whether it has the endpoint
    channelFaults,  \* so far
    lessons         \* switches so far

runVars   == <<runSocket, retryArmed, runConnection, channelStatus>>
feedVars  == <<simSlug, runVars, scope, channelFaults, lessons>>

FeedTypeOK ==
    /\ simSlug \in BOOLEAN /\ retryArmed \in BOOLEAN
    /\ runSocket \in {"none", "connecting", "open"}
    /\ runConnection \in {"disconnected", "connected", "reconnecting"}
    /\ channelStatus \in Statuses
    /\ scope \in {"unmounted", "loading", "loaded", "configured"}
    /\ channelFaults \in 0 .. MaxLosses /\ lessons \in 0 .. MaxLessons

(* Before the session is known the page takes the project for a robot's.   *)
FeedInit ==
    /\ simSlug = TRUE /\ runSocket = "connecting" /\ retryArmed = FALSE
    /\ runConnection = "disconnected" /\ channelStatus = "connecting"
    /\ scope = "loading" /\ channelFaults = 0 /\ lessons = 0

FeedFault == channelFaults < MaxLosses /\ channelFaults' = channelFaults + 1

Connects == runSocket' = "connecting" /\ channelStatus' = "connecting"

(* The page learns of another kind of project.  The clean-up clears the    *)
(* timer and closes the socket; connection and runStatus stay.  The frame  *)
(* goes with the layout of a robot project.                                *)
LessonSwitches ==
    /\ lessons < MaxLessons /\ lessons' = lessons + 1
    /\ simSlug' = ~ simSlug
    /\ retryArmed' = FALSE
    /\ IF simSlug THEN runSocket' = "none" /\ UNCHANGED channelStatus ELSE Connects
    /\ scope' = IF simSlug THEN "unmounted" ELSE "loading"
    /\ UNCHANGED <<runConnection, channelFaults>>

RunSocketOpens ==
    /\ runSocket = "connecting"
    /\ runSocket' = "open" /\ runConnection' = "connected" /\ channelStatus' = "idle"
    /\ UNCHANGED <<simSlug, retryArmed, scope, channelFaults, lessons>>

Hears(status) ==
    /\ runSocket = "open" /\ status # "connecting"
    /\ channelStatus' = status
    /\ UNCHANGED <<simSlug, runSocket, retryArmed, runConnection, scope, channelFaults,
                   lessons>>

\* mutant: only a channel that was open is tried again
RetriesWhatWasOpen ==
    /\ retryArmed' = (runSocket = "open")
    /\ runSocket' = "none" /\ runConnection' = "reconnecting"
    /\ UNCHANGED channelStatus

Retries ==
    /\ retryArmed' = TRUE
    /\ runSocket' = "none" /\ runConnection' = "reconnecting"
    /\ UNCHANGED channelStatus

(* It is refused, lost with the server or the network, or dropped.         *)
RunSocketCloses ==
    /\ runSocket # "none" /\ FeedFault
    /\ Retries
    /\ UNCHANGED <<simSlug, scope, lessons>>

RetryFires ==
    /\ retryArmed /\ retryArmed' = FALSE
    /\ Connects
    /\ UNCHANGED <<simSlug, runConnection, scope, channelFaults, lessons>>

(* The frame's document is there: it is sent the endpoint.  What the       *)
(* effect itself posts reaches the blank document the frame starts with.   *)
ScopeLoaded ==
    /\ scope = "loading" /\ scope' = "configured"
ScopeLoads == ScopeLoaded /\ UNCHANGED <<simSlug, runVars, channelFaults, lessons>>

ScopeReloads ==
    /\ scope = "configured" /\ FeedFault
    /\ scope' = "loading"
    /\ UNCHANGED <<simSlug, runVars, lessons>>

FeedNext ==
    \/ LessonSwitches
    \/ RunSocketOpens \/ (\E status \in Statuses : Hears(status))
    \/ RunSocketCloses \/ RetryFires
    \/ ScopeLoads \/ ScopeReloads

(* A socket that is not refused opens, a timer fires, a frame loads.       *)
FeedFairness ==
    /\ WF_feedVars(RunSocketOpens) /\ WF_feedVars(RetryFires) /\ WF_feedVars(ScopeLoads)

FeedSpec == FeedInit /\ [][FeedNext]_feedVars /\ FeedFairness

----------------------------------------------------------------------------
CaughtUp ==
    IF simSlug
    THEN runSocket = "open" /\ runConnection = "connected" /\ scope = "configured"
    ELSE runSocket = "none" /\ ~ retryArmed /\ scope = "unmounted"

(* Once the faults and the switches end, a page that shows a robot project *)
(* has its run channel, says so, and AdvantageScope has its endpoint; a    *)
(* page that shows a console lesson holds neither.                         *)
FeedsCatchUp == <>[]CaughtUp

(* The steps that are left until the page has caught up: a timer to fire,  *)
(* a socket to open, a frame to load.                                      *)
FeedsLeft ==
    (CASE retryArmed -> 2 [] runSocket = "connecting" -> 1 [] OTHER -> 0)
    + (IF scope = "loading" THEN 1 ELSE 0)

(* The page never waits for what nothing brings: at every loss and at      *)
(* every switch between a robot project and a console lesson, whatever was *)
(* armed or opening (useRunChannel.ts), there is one channel or one retry, *)
(* never both, and with no step left the page has caught up.               *)
NothingIsForgotten ==
    /\ simSlug <=> (runSocket # "none" \/ retryArmed)
    /\ retryArmed => runSocket = "none"
    /\ FeedsLeft = 0 <=> CaughtUp

(* Each step takes the page closer, except a loss, a switch and a status   *)
(* that is heard, which changes nothing of what is left.                   *)
EachStepCatchesUp ==
    [][ \/ FeedsLeft' < FeedsLeft
        \/ channelFaults' > channelFaults \/ lessons' > lessons
        \/ UNCHANGED <<simSlug, runSocket, retryArmed, runConnection, scope>> ]_feedVars
=============================================================================
