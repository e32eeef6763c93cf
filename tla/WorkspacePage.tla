---------------------------- MODULE WorkspacePage ----------------------------
(***************************************************************************)
(* The page of a workspace (WorkspacePage.tsx) in one browser tab: the     *)
(* project switch, the preview pane and the driver station, and what they  *)
(* do to each other.  A swap that succeeded drops the list and the frames  *)
(* of the old project; the session fetched after it decides whether there  *)
(* is a driver station; the dialog, which is modal, takes the focus.       *)
(***************************************************************************)
EXTENDS PreviewPane, DriverControls

CONSTANT MaxInputs     \* bound: what the student does

ASSUME PageAssumption == MaxInputs \in Nat

VARIABLE inputs        \* what the student did so far

vars == <<swapVars, previewVars, controlVars, inputs>>

TypeOK ==
    /\ SwapTypeOK /\ PreviewTypeOK /\ ControlsTypeOK(Eras)
    /\ inputs \in 0 .. MaxInputs

Init == SwapInit /\ PreviewInit /\ ControlsInit(Eras, 0) /\ inputs = 0

Mounted == ~ ConsoleShown

Input == inputs < MaxInputs /\ inputs' = inputs + 1

----------------------------------------------------------------------------
(* The student.  Nothing behind the dialog can be used while it is open.   *)

UsesDialog ==
    /\ Input
    /\ \/ DialogNext /\ UNCHANGED controlVars
       \/ /\ OpenDialog
          /\ IF station.focused THEN \E soon \in BOOLEAN : Blur(soon)
             ELSE UNCHANGED controlVars
    /\ UNCHANGED previewVars

UsesPreview ==
    /\ Input /\ ~ dialog.open
    /\ Activate \/ Refresh
    /\ UNCHANGED <<swapVars, controlVars>>

UsesControls ==
    /\ Input /\ ~ dialog.open
    /\ \/ \E soon \in BOOLEAN :
            \/ KeyDown(Mounted, soon) \/ KeyUp(Mounted, soon)
            \/ Blur(soon) \/ (Mounted /\ Hide(soon))
       \/ Focus(Mounted) \/ (Mounted /\ Show)
       \/ PickKeyboard(Mounted) \/ PickController(Mounted)
    /\ UNCHANGED <<swapVars, previewVars>>

----------------------------------------------------------------------------
(* What the network brings. *)

PageKeeps == UNCHANGED <<previewVars, controlVars, inputs>>

SwapGoesOn(s) ==
    /\ SocketNext(s) \/ HearNext(s) \/ SocketLost(s) \/ JobNext(s)
    /\ PageKeeps

SwapSucceeds(s) ==
    /\ HearDone(s) /\ SwapSeen
    /\ UNCHANGED <<controlVars, inputs>>

(* The layout follows the session; a dialog that opens takes the focus.    *)
(* A session is answered once, so its number names the line it may begin.  *)
SessionGoesOn(n) ==
    /\ SessionNext(n)
    /\ CASE Mounted /\ ~ Mounted' -> Unmounts
         [] ~ Mounted /\ Mounted' -> Mounts(n)
         [] Mounted = Mounted' ->
              IF dialog'.open /\ ~ dialog.open /\ station.focused
              THEN \E soon \in BOOLEAN : Blur(soon)
              ELSE UNCHANGED controlVars
    /\ IF ConsoleShown = ConsoleShown' THEN UNCHANGED previewVars
       ELSE Remounts(ConsoleShown')
    /\ UNCHANGED inputs

ListGoesOn == ListNext /\ UNCHANGED <<swapVars, controlVars, inputs>>
ListBreaks ==
    /\ ListFails /\ Fault
    /\ UNCHANGED <<record, jobs, socks, swap, dialog, nonce, acked, session, fetches,
                   warned, controlVars, inputs>>
FrameGoesOn ==
    /\ FrameLoads \/ BehindLoads
    /\ UNCHANGED <<swapVars, controlVars, inputs>>

ChannelGoesOn ==
    /\ \E l \in Eras : LineNext(l)
    /\ UNCHANGED <<swapVars, previewVars, inputs>>
ChannelBreaks ==
    /\ Fault /\ \E l \in Eras : ChannelLost(l)
    /\ UNCHANGED <<record, jobs, socks, swap, dialog, nonce, acked, session, fetches,
                   warned, previewVars, inputs>>
Rerenders == Renders /\ UNCHANGED <<swapVars, previewVars, inputs>>

Next ==
    \/ UsesDialog \/ UsesPreview \/ UsesControls
    \/ \E s \in Swaps : SwapGoesOn(s) \/ SwapSucceeds(s)
    \/ \E n \in Eras : SessionGoesOn(n)
    \/ ListGoesOn \/ ListBreaks
    \/ FrameGoesOn \/ ChannelGoesOn \/ ChannelBreaks \/ Rerenders

Spec == Init /\ [][Next]_vars

(* A socket opens or fails, a job ends, what was sent arrives, timers fire *)
(* and, in a lesson with a driver station, polls of the robot's status are *)
(* answered.  The student owes nothing.                                    *)
Fairness ==
    /\ \A s \in Swaps :
        /\ WF_vars(SocketNext(s) /\ PageKeeps)
        /\ WF_vars((HearNext(s) /\ PageKeeps) \/ SwapSucceeds(s))
        /\ WF_vars(JobNext(s) /\ PageKeeps)
    /\ WF_vars(ChannelGoesOn)
    /\ WF_vars(Mounted /\ Rerenders)

FairSpec == Spec /\ Fairness

----------------------------------------------------------------------------
(* HeldIsCaptured, for the driver station this page has. *)
HeldOnlyWhenCaptured == HeldIsCaptured(Mounted)
=============================================================================
