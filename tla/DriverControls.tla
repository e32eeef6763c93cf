---------------------------- MODULE DriverControls ----------------------------
(***************************************************************************)
(* Driving the robot from the keyboard (DriverStation.tsx, ControlsPanel   *)
(* .tsx, the input bridge of WorkspacePage.tsx and the gamepad channel of  *)
(* useGamepadChannel.ts): keys are captured while the driver station has   *)
(* the focus, and the state they make is pushed to the gamepad channel,    *)
(* which drops a state that comes too soon after the one sent before.      *)
(*                                                                         *)
(* The effect of the channel runs whenever the page gets a driver station. *)
(* Each run begins a line: sockets one after the other, each opened by a   *)
(* timer that the close of the one before it has set.  The lines share     *)
(* socketRef, reconnectTimerRef, selectionRef and the server's one         *)
(* session.  The clean-up closes the socket and clears the timer that the  *)
(* refs name; but mountedRef is TRUE again before the close event comes    *)
(* (useGamepadChannel.ts:55-56), so the line goes on in a lesson without a *)
(* driver station.                                                         *)
(*                                                                         *)
(* One key is enough: a state is "held" or "neutral".  A physical          *)
(* controller, the channel's queue and the server's lag are Gamepad's      *)
(* subject; here what is sent is heard, in order, and the simulator runs.  *)
(* `mounted` is whether the page has a driver station, `lines` the lines   *)
(* it may begin, numbered.                                                 *)
(***************************************************************************)
EXTENDS Integers

VARIABLES
    station,   \* focus, visibility, input mode and keyboardCodes
    channel,   \* the lines, and what they share in the page
    robot,     \* what the server's session last told the joystick; "off": no selection
    orphaned   \* a key is held whose driver station was unmounted

controlVars == <<station, channel, robot, orphaned>>

States == {"held", "neutral"}
NoLine == -1
LineStates == {"none", "opening", "open", "closing", "waiting"}

ControlsTypeOK(lines) ==
    /\ station \in [focused : BOOLEAN, visible : BOOLEAN, keys : States,
                    mode : {"controller", "keyboard"}]
    /\ channel \in [line     : [lines -> LineStates],
                    sock     : lines \cup {NoLine},   \* socketRef is its socket
                    timer    : lines \cup {NoLine},   \* reconnectTimerRef is its timer
                    selected : BOOLEAN,               \* selectionRef is set
                    last     : States \cup {"none"}]  \* lastSentStateRef
    /\ robot \in States \cup {"off"}
    /\ orphaned \in BOOLEAN

(* The input mode is persisted, what is selected and pressed is not.  The  *)
(* page is mounted with a driver station, whose line is the first.         *)
ControlsInit(lines, first) ==
    /\ \E m \in {"controller", "keyboard"} :
        station = [focused |-> FALSE, visible |-> TRUE, keys |-> "neutral", mode |-> m]
    /\ channel = [line |-> [l \in lines |-> IF l = first THEN "opening" ELSE "none"],
                  sock |-> first, timer |-> NoLine,
                  selected |-> FALSE, last |-> "none"]
    /\ robot = "off"
    /\ orphaned = FALSE

Keyboard == station.mode = "keyboard"
Captures(mounted) == mounted /\ station.visible /\ Keyboard /\ station.focused

\* socketRef.current?.readyState === WebSocket.OPEN
Reaches == channel.sock # NoLine /\ channel.line[channel.sock] = "open"

----------------------------------------------------------------------------
(* The bridge, which pushes in keyboard mode only, and pushState; `soon`   *)
(* is less than SEND_INTERVAL_MS after the last send.  There is no later   *)
(* send for a state that was dropped; the server drops what comes without  *)
(* a selection.  What onKeyboardRelease pushes itself is what the bridge   *)
(* pushes right after it.                                                  *)
Bridged(state, soon) ==
    IF /\ Keyboard /\ Reaches /\ channel.selected
       /\ channel.last # state /\ (channel.last = "none" \/ ~ soon)
    THEN /\ channel' = [channel EXCEPT !.last = state]
         /\ robot' = IF robot = "off" THEN "off" ELSE state
    ELSE UNCHANGED <<channel, robot>>

(* An orphaned key is one until it is released. *)
OrphanStays == orphaned' = (orphaned /\ station'.keys = "held")

KeyDown(mounted, soon) ==
    /\ Captures(mounted) /\ station.keys = "neutral"
    /\ station' = [station EXCEPT !.keys = "held"]
    /\ Bridged("held", soon) /\ OrphanStays
KeyUp(mounted, soon) ==
    /\ Captures(mounted) /\ station.keys = "held"
    /\ station' = [station EXCEPT !.keys = "neutral"]
    /\ Bridged("neutral", soon) /\ OrphanStays

Focus(mounted) ==
    /\ mounted /\ station.visible /\ ~ station.focused
    /\ station' = [station EXCEPT !.focused = TRUE]
    /\ UNCHANGED <<channel, robot, orphaned>>

Released(s) == [s EXCEPT !.focused = FALSE,
                         !.keys = IF Keyboard THEN "neutral" ELSE @]

(* The focus leaves the section, or the window does. *)
Blur(soon) ==
    /\ station.focused
    /\ station' = Released(station)
    /\ Bridged("neutral", soon) /\ OrphanStays

\* mutant: hiding the section waits for a blur
HideAwaitsBlur(soon) ==
    /\ station.visible
    /\ station' = [station EXCEPT !.visible = FALSE]
    /\ UNCHANGED <<channel, robot, orphaned>>
(* "Hiding a focused section does not reliably dispatch blur in browsers." *)
Hide(soon) ==
    /\ station.visible
    /\ station' = [(IF station.focused THEN Released(station) ELSE station)
                     EXCEPT !.visible = FALSE]
    /\ IF station.focused THEN Bridged("neutral", soon) ELSE UNCHANGED <<channel, robot>>
    /\ OrphanStays
Show ==
    /\ ~ station.visible
    /\ station' = [station EXCEPT !.visible = TRUE]
    /\ UNCHANGED <<channel, robot, orphaned>>

(* The tiles of the Controls panel, which take the focus.  A selection is  *)
(* followed by a neutral state, which nothing holds back; a release or a   *)
(* selection finds a channel that is open or is not sent.                  *)
Picks(mounted, mode) ==
    /\ mounted /\ station.visible
    /\ station' = [station EXCEPT !.mode = mode, !.keys = "neutral", !.focused = TRUE]
    /\ OrphanStays
PickKeyboard(mounted) ==
    /\ Picks(mounted, "keyboard")
    /\ channel' = [channel EXCEPT !.selected = TRUE,
                     !.last = IF Reaches THEN "neutral" ELSE "none"]
    /\ robot' = IF Reaches THEN "neutral" ELSE robot
PickController(mounted) ==
    /\ Picks(mounted, "controller")
    /\ channel' = [channel EXCEPT !.selected = FALSE, !.last = "none"]
    /\ robot' = IF Reaches THEN "off" ELSE robot

----------------------------------------------------------------------------
(* A line of the channel. *)

(* connect: the newest socket is the one socketRef names. *)
Connects(l) == [channel EXCEPT !.line[l] = "opening", !.sock = l]

TimerFires(l) ==
    /\ channel.line[l] = "waiting"
    /\ channel' = [Connects(l) EXCEPT !.timer = IF @ = l THEN NoLine ELSE @]
    /\ UNCHANGED <<station, robot, orphaned>>

(* The open handler resends the selection, on its own socket.  A new       *)
(* `connection`, here and below, makes the page render: see Renders.       *)
ChannelOpens(l) ==
    /\ channel.line[l] = "opening"
    /\ channel' = [channel EXCEPT !.line[l] = "open",
                     !.last = IF channel.selected THEN "none" ELSE @]
    /\ robot' = IF channel.selected /\ robot = "off" THEN "neutral" ELSE robot
    /\ UNCHANGED <<station, orphaned>>

(* The close handler, whoever closed, sets a timer.                        *)
LineCloses(l) ==
    channel' = [channel EXCEPT !.line[l] = "waiting", !.timer = l,
                  !.sock = IF @ = l THEN NoLine ELSE @]

(* What the server makes of the close of l's socket, of whichever line: it *)
(* drops the session and releases the robot.  It may not have known of a   *)
(* socket that was not open here yet.                                      *)
SessionDropped(l) == {"off"} \cup IF channel.line[l] = "open" THEN {} ELSE {robot}

(* The event of a socket that the clean-up has closed comes later. *)
CloseHeard(l) ==
    /\ channel.line[l] = "closing"
    /\ LineCloses(l) /\ UNCHANGED <<station, robot, orphaned>>

ChannelLost(l) ==
    /\ channel.line[l] \in {"opening", "open"}
    /\ LineCloses(l) /\ robot' \in SessionDropped(l)
    /\ UNCHANGED <<station, orphaned>>

LineNext(l) == TimerFires(l) \/ ChannelOpens(l) \/ CloseHeard(l)

(* A console lesson has no driver station: its state is gone, but the keys *)
(* are the page's, and no event tells it that they are not captured.  The  *)
(* clean-up closes the socket and clears the timer it finds in the refs.   *)
Unmounts ==
    LET timer == channel.timer
        sock  == channel.sock
    IN  /\ station' = [station EXCEPT !.focused = FALSE]
        /\ channel' = [channel EXCEPT !.timer = NoLine, !.sock = NoLine,
                         !.line = [l \in DOMAIN @ |-> CASE l = sock  -> "closing"
                                                        [] l = timer -> "none"
                                                        [] OTHER     -> @[l]]]
        /\ robot' \in IF sock = NoLine THEN {robot} ELSE SessionDropped(sock)
        /\ orphaned' = (station.keys = "held")

(* The driver station is back, with a line of its own beside any old one.  *)
Mounts(l) ==
    /\ channel' = Connects(l)
    /\ UNCHANGED <<station, robot, orphaned>>

\* mutant: the bridge runs when the keys change, not when the page renders
RendersOnly == UNCHANGED <<channel, robot, station, orphaned>>
(* The page renders, for a poll of the robot's status was answered or for  *)
(* any other reason; the channel is a new object on every render, so the   *)
(* bridge runs.                                                            *)
Renders ==
    /\ Bridged(station.keys, FALSE)
    /\ UNCHANGED <<station, orphaned>>

----------------------------------------------------------------------------
\* Lines beside the one that socketRef names whose socket the server sees.
Strays == {l \in DOMAIN channel.line : channel.line[l] = "open" /\ l # channel.sock}

(* A key is held only while the driver station is there, shown, focused    *)
(* and in keyboard mode: nothing typed elsewhere drives the robot, and     *)
(* nothing is still held when the student returns.  The exception is a key *)
(* that was held when the driver station was unmounted, until it is        *)
(* released: no event releases it.                                         *)
HeldIsCaptured(mounted) ==
    station.keys = "held" => Captures(mounted) \/ orphaned

(* When no key is held, the robot is told so, although the state that said *)
(* it may have been dropped or the channel was not open, in a lesson with  *)
(* a driver station and in one without: unless a line that the page has    *)
(* lost sight of keeps the session.                                        *)
ReleaseReachesRobot ==
    []<>(station.keys = "neutral" /\ Strays = {} => robot # "held")

(* "Blur clears all pressed keys and pushes a neutral joystick frame."     *)
(* Broken: a blur soon after a key was pushed sends nothing.               *)
BlurIsNeutral(mounted) ==
    Reaches /\ Keyboard /\ ~ station.focused => robot # "held"

(* "Console mode stops the sim polls + idle HALSim/run sockets."  Broken:  *)
(* the line whose socket the clean-up closed connects again, and a key     *)
(* that is still held drives the robot.                                    *)
ConsoleIsIdle(mounted) ==
    ~ mounted => \A l \in DOMAIN channel.line : channel.line[l] # "opening"
ConsoleIsStill(mounted) == ~ mounted => robot # "held"

(* "idle HALSim/run sockets" again.  Broken: when the driver station is    *)
(* back, it has the old line and a new one, and the close of either drops  *)
(* the session of both.  A release that finds the new one still opening is *)
(* not sent, and the old one keeps the robot as it was.                    *)
OneLine == Strays = {}
=============================================================================
