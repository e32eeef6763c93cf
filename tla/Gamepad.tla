------------------------------ MODULE Gamepad ------------------------------
(***************************************************************************)
(* Gamepad input for one workspace (gamepad.ts, the gamepad sockets of     *)
(* app/websocket.ts, useGamepadChannel.ts in the browser) on top of the    *)
(* workspace's HALSim bridge: a tab selects a controller, streams its      *)
(* state and reconnects when its channel is lost; the control plane keeps  *)
(* one session per workspace and disables the robot when it is released.   *)
(*                                                                         *)
(* A frame's state is whether any stick or button is held.  Sequence       *)
(* numbers are one higher than in the code, so that 0 is its -1.           *)
(***************************************************************************)
EXTENDS HalSimBridge

CONSTANTS Channels,    \* gamepad WebSockets; one that is closed is used again
          MaxInputs    \* bound: what the tab selects, releases, sends and loses

ASSUME GamepadAssumption == None \notin Channels /\ MaxInputs \in Nat

VARIABLES
    session,  \* sessions.get(workspaceId)
    chan,     \* the server's gamepad sockets: "left" until it sees the close
    tab,      \* the browser tab: its channel, selection and sequence number
    inputs    \* inputs so far

padVars == <<session, chan, tab, inputs>>
vars == <<bridgeVars, padVars>>

Sequence == 0 .. MaxInputs
Messages == [kind : {"select", "release"}]
            \cup [kind : {"state"}, seq : Sequence, held : BOOLEAN]

TypeOK ==
    /\ BridgeTypeOK
    /\ session \in [there : BOOLEAN, selected : BOOLEAN, lastSeq : Sequence]
    /\ chan \in [Channels -> [st : {"free", "open", "left"},
                              q : Seq(Messages)]]
    /\ tab \in [chan : Channels \cup {None}, selected : BOOLEAN,
                seq : Sequence]
    /\ inputs \in Sequence

FreeChannel == [st |-> "free", q |-> <<>>]
NoSession == [there |-> FALSE, selected |-> FALSE, lastSeq |-> 0]

Init ==
    /\ BridgeInit
    /\ session = NoSession
    /\ chan = [c \in Channels |-> FreeChannel]
    /\ tab = [chan |-> None, selected |-> FALSE, seq |-> 0]
    /\ inputs = 0

----------------------------------------------------------------------------
(* The tab.                                                                *)

Input == inputs < MaxInputs /\ inputs' = inputs + 1

Says(m) == chan' = IF tab.chan = None THEN chan
                   ELSE [chan EXCEPT ![tab.chan].q = Append(@, m)]

\* A selection that outlived its channel is sent again on the new one.
TabConnects ==
    /\ tab.chan = None
    /\ \E c \in Channels :
        /\ chan[c].st = "free"
        /\ tab' = [tab EXCEPT !.chan = c,
                              !.seq = IF tab.selected THEN 0 ELSE @]
        /\ chan' = [chan EXCEPT ![c] =
                      [st |-> "open",
                       q |-> IF tab.selected THEN <<[kind |-> "select"]>>
                             ELSE <<>>]]
    /\ UNCHANGED <<session, inputs, bridgeVars>>

TabSelects ==
    /\ Input
    /\ tab' = [tab EXCEPT !.selected = TRUE, !.seq = 0]
    /\ Says([kind |-> "select"])
    /\ UNCHANGED <<session, bridgeVars>>

TabReleases ==
    /\ Input
    /\ tab' = [tab EXCEPT !.selected = FALSE]
    /\ Says([kind |-> "release"])
    /\ UNCHANGED <<session, bridgeVars>>

TabPushes ==
    /\ tab.selected /\ tab.chan # None
    /\ Input
    /\ tab' = [tab EXCEPT !.seq = @ + 1]
    /\ \E held \in BOOLEAN :
           Says([kind |-> "state", seq |-> tab.seq + 1, held |-> held])
    /\ UNCHANGED <<session, bridgeVars>>

\* The tab loses its channel; what it had sent may be lost with it.
TabLoses ==
    /\ tab.chan # None
    /\ Input
    /\ tab' = [tab EXCEPT !.chan = None]
    /\ chan' \in {[chan EXCEPT ![tab.chan].st = "left"],
                  [chan EXCEPT ![tab.chan] = [st |-> "left", q |-> <<>>]]}
    /\ UNCHANGED <<session, bridgeVars>>

----------------------------------------------------------------------------
(* The control plane.                                                      *)

\* Whether resolveGamepadLease finds a simulator for the controller.
Leased == run = "running"

SafetyRelease ==
    /\ \/ Leased /\ ReleaseJoystick(url)
       \/ ~Leased /\ UNCHANGED <<entry, sock>>
    /\ UNCHANGED <<sim, url, run, asked, spent>>

\* mutant: only the session is told
EndSelectionQuietly(hadSelection) == UNCHANGED bridgeVars

EndSelection(hadSelection) ==
    IF hadSelection THEN SafetyRelease ELSE UNCHANGED bridgeVars

HandleSelect ==
    /\ session' = [there |-> TRUE, selected |-> TRUE, lastSeq |-> 0]
    /\ UNCHANGED bridgeVars

HandleRelease ==
    /\ session' = [there |-> TRUE, selected |-> FALSE, lastSeq |-> 0]
    /\ EndSelection(session.selected)

Stale(m) == ~session.selected \/ m.seq <= session.lastSeq

HandleState(m) ==
    \/ /\ Stale(m)
       /\ session' = [session EXCEPT !.there = TRUE]
       /\ UNCHANGED bridgeVars
    \/ /\ ~Stale(m)
       /\ session' = [session EXCEPT !.lastSeq = m.seq]
       /\ \/ Leased /\ ApplyJoystickState(url, m.held)
          \/ ~Leased /\ UNCHANGED <<entry, sock>>
       /\ UNCHANGED <<sim, url, run, asked, spent>>

ChannelMessage(c) ==
    /\ chan[c].q # <<>>
    /\ chan' = [chan EXCEPT ![c].q = Tail(@)]
    /\ LET m == Head(chan[c].q) IN
       \/ m.kind = "select" /\ HandleSelect
       \/ m.kind = "release" /\ HandleRelease
       \/ m.kind = "state" /\ HandleState(m)
    /\ UNCHANGED <<tab, inputs>>

\* closeSession, for whichever gamepad socket of the workspace is closed.
ChannelCloses(c) ==
    /\ chan[c].st = "left" /\ chan[c].q = <<>>
    /\ chan' = [chan EXCEPT ![c] = FreeChannel]
    /\ session' = NoSession
    /\ EndSelection(session.selected)
    /\ UNCHANGED <<tab, inputs>>

Reset == session' = [session EXCEPT !.lastSeq = 0]

\* Runs started and stopped over HTTP, project swaps, the idle sweep and Leave
\* reset the session; those started and stopped over the run socket do not.
Starts == StartRun /\ (Reset \/ UNCHANGED session)
                   /\ UNCHANGED <<chan, tab, inputs>>
Stops  == StopRun /\ (Reset \/ UNCHANGED session)
                  /\ UNCHANGED <<chan, tab, inputs>>

Next ==
    \/ BridgeOnly /\ UNCHANGED padVars
    \/ Starts \/ Stops
    \/ TabConnects \/ TabSelects \/ TabReleases \/ TabPushes \/ TabLoses
    \/ \E c \in Channels : ChannelMessage(c) \/ ChannelCloses(c)

Spec == Init /\ [][Next]_vars

----------------------------------------------------------------------------
(* Properties.                                                             *)

\* While the robot runs and the bridge is connected, a stick or button is held
\* on its connection only if a controller is selected: a release or a closed
\* channel lets go of it (safetyRelease in gamepad.ts), and a run that starts
\* without the release having reached the bridge has a connection of its own.
HeldIsSelected ==
    entry.conn = "connected" /\ run = "running" /\ sock[entry.sock].held
    => session.selected

\* A session lives no longer than the gamepad sockets of its workspace
\* (ensureSession and closeSession in gamepad.ts).
SessionHasChannel ==
    session.there => \E c \in Channels : chan[c].st # "free"

\* "Resend after reconnect so the server-side session picks up where we left
\* off" (useGamepadChannel.ts): a tab that has selected a controller, and whose
\* messages have all arrived, has a session with a selection.
SelectionSurvives ==
    tab.selected /\ tab.chan # None /\ chan[tab.chan].q = <<>>
    => session.selected
=============================================================================
