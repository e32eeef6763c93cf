---------------------------- MODULE HalSimBridge ----------------------------
(***************************************************************************)
(* The control plane's connection to the simulator of one workspace        *)
(* (ws-bridge.ts, halsim.ts) and the routes that use it (app/status.ts,    *)
(* app/workspace-routes.ts, app/websocket.ts): a WebSocket that reconnects *)
(* by itself, driver-station commands sent on it, and the cached state     *)
(* that commands and the simulator's readback both write.                  *)
(*                                                                         *)
(* Everything here but the simulator runs on one thread, so a handler is   *)
(* one step.  A frame is a function on the flags it carries.  The backoff  *)
(* is not modelled: a timer that is set fires some time later.             *)
(***************************************************************************)
EXTENDS Naturals, Sequences

CONSTANTS Sockets,      \* WebSocket objects; one that is closed is used again
          Urls,         \* endpoints that the workspace's container may have
          Patches,      \* DriverStationPatch bodies that browsers send
          None,
          MaxPatches,   \* bound: patches sent
          MaxStarts,    \* bound: runs started
          MaxFaults     \* bound: connections lost for reasons of their own and
                        \* containers replaced

Modes == {"teleop", "auto", "test"}
DsFlags == {"enabled", "auto", "test", "estop"}
Flags == DsFlags \cup {"joy"}
DriverStations == [enabled : BOOLEAN, mode : Modes, estop : BOOLEAN]
PatchFields == {"enabled", "mode", "estop"}

ASSUME BridgeAssumption ==
    /\ None \notin Sockets \cup Urls
    /\ MaxPatches \in Nat /\ MaxStarts \in Nat /\ MaxFaults \in Nat
    /\ \A p \in Patches :
          /\ DOMAIN p \subseteq PatchFields
          /\ "mode" \in DOMAIN p => p.mode \in Modes
          /\ "enabled" \in DOMAIN p => p.enabled \in BOOLEAN
          /\ "estop" \in DOMAIN p => p.estop \in BOOLEAN

VARIABLES
    entry,   \* entries.get(workspaceId)
    sock,    \* the WebSockets the bridge has made, and what is under way on them
    sim,     \* the simulator process and its HALSim server
    url,     \* endpoint of the workspace's container
    run,     \* the reported status; "starting" is building, "idle" any that is
             \* not active
    asked,   \* patches whose handler waits for ensureWorkspaceRunning
    spent    \* patches, starts and faults so far

bridgeVars == <<entry, sock, sim, url, run, asked, spent>>

FrameOn(D) == UNION {[d -> BOOLEAN] : d \in SUBSET D}
Frames   == FrameOn(Flags)

\* ready is readyState ("free" before CONNECTING and after CLOSED), net the
\* connection itself; "held" only observes the last joystick payload sent.
SocketStates == [ready : {"free", "connecting", "open", "closing"},
                 net : {"connecting", "up", "down"},
                 to : Urls \cup {None}, out : Seq(Frames), in : Seq(Frames),
                 held : BOOLEAN]

Entries == [there : BOOLEAN, url : Urls, sock : Sockets \cup {None},
            conn : {"disconnected", "reconnecting", "connected"},
            timer : BOOLEAN, attached : BOOLEAN, ds : DriverStations]

BridgeTypeOK ==
    /\ entry \in Entries
    /\ sock \in [Sockets -> SocketStates]
    /\ sim \in [up : BOOLEAN, serves : Sockets \cup {None},
                ds : [DsFlags -> BOOLEAN]]
    /\ url \in Urls
    /\ run \in {"idle", "starting", "running", "stopping"}
    /\ asked \subseteq Patches
    /\ spent \in [patches : Nat, starts : Nat, faults : Nat]

Unused == [ready |-> "free", net |-> "down", to |-> None, out |-> <<>>,
           in |-> <<>>, held |-> FALSE]
Opening(u) == [Unused EXCEPT !.ready = "connecting", !.net = "connecting",
                             !.to = u]
NewEntry(u) == [there |-> TRUE, url |-> u, sock |-> None,
                conn |-> "disconnected", timer |-> FALSE, attached |-> TRUE,
                ds |-> [enabled |-> FALSE, mode |-> "teleop", estop |-> FALSE]]
NewSim == [up |-> TRUE, serves |-> None, ds |-> [f \in DsFlags |-> FALSE]]
NoSim == [NewSim EXCEPT !.up = FALSE]

BridgeInit ==
    /\ url \in Urls
    /\ entry = [NewEntry(url) EXCEPT !.there = FALSE, !.attached = FALSE]
    /\ sock = [s \in Sockets |-> Unused]
    /\ sim = NoSim
    /\ run = "idle"
    /\ asked = {}
    /\ spent = [patches |-> 0, starts |-> 0, faults |-> 0]

----------------------------------------------------------------------------
(* The bridge's own operations.  Their callers are below and in Gamepad.   *)

\* What the sockets are once the entry's own is closed.
Hangup == [s \in Sockets |->
             IF s = entry.sock
             THEN [sock[s] EXCEPT !.ready = "closing", !.in = <<>>,
                                  !.held = FALSE]
             ELSE sock[s]]

Disconnect ==
    /\ entry' = [entry EXCEPT !.attached = FALSE, !.timer = FALSE,
                              !.sock = None, !.conn = "disconnected"]
    /\ sock' = Hangup

\* The entry e gets a new socket; sockets are otherwise as in others.
Open(e, others) ==
    \E s \in Sockets :
        /\ sock[s].ready = "free"
        /\ entry' = [e EXCEPT !.sock = s, !.conn = "reconnecting"]
        /\ sock' = [others EXCEPT ![s] = Opening(e.url)]

KnownAt(u) == entry.there /\ entry.url = u

EnsureConnected(u) ==
    \/ /\ KnownAt(u)
       /\ entry.sock # None \/ entry.timer
       /\ entry' = [entry EXCEPT !.attached = TRUE]
       /\ UNCHANGED sock
    \/ /\ KnownAt(u)
       /\ entry.sock = None /\ ~entry.timer
       /\ Open([entry EXCEPT !.attached = TRUE], sock)
    \/ /\ ~KnownAt(u)
       /\ Open(NewEntry(u), Hangup)

\* What a command needs, else it throws HalSimBridgeUnavailableError.
Usable(u) == /\ KnownAt(u)
             /\ entry.conn = "connected"
             /\ entry.sock # None
             /\ sock[entry.sock].ready = "open"

Sent(frames, ds) ==
    /\ entry' = [entry EXCEPT !.attached = TRUE, !.ds = ds]
    /\ sock' = [sock EXCEPT ![entry.sock].out = @ \o frames]

ModeFlags(m) == [f \in {"auto", "test"} |-> f = m]
EnableFlags(on, m) ==
    [f \in {"enabled", "auto", "test"} |-> IF f = "enabled" THEN on ELSE f = m]
Disabled == [f \in {"enabled"} |-> FALSE]
StopFlags(on) ==
    IF on THEN [f \in {"estop", "enabled"} |-> f = "estop"]
          ELSE [f \in {"estop"} |-> FALSE]

\* Of a patch p applied to the cached state ds: the mode and the stop it
\* leaves, whether the robot is enabled, and the frames it is sent as.
Has(p, f) == f \in DOMAIN p
ModeAfter(p, ds)  == IF Has(p, "mode") THEN p.mode ELSE ds.mode
EStopAfter(p, ds) == IF Has(p, "estop") THEN p.estop ELSE ds.estop
SwitchesLive(p, ds) == ModeAfter(p, ds) # ds.mode /\ ds.enabled
EnabledAfter(p, ds) ==
    IF Has(p, "enabled") THEN p.enabled /\ ~EStopAfter(p, ds)
    ELSE ds.enabled /\ ~SwitchesLive(p, ds) /\ ~(Has(p, "estop") /\ p.estop)
StationAfter(p, ds) == [enabled |-> EnabledAfter(p, ds),
                        mode |-> ModeAfter(p, ds), estop |-> EStopAfter(p, ds)]
FramesOf(p, ds) ==
    (IF SwitchesLive(p, ds) THEN <<Disabled>> ELSE <<>>)
    \o (IF Has(p, "mode") THEN <<ModeFlags(p.mode)>> ELSE <<>>)
    \o (IF Has(p, "estop") THEN <<StopFlags(p.estop)>> ELSE <<>>)
    \o (IF Has(p, "enabled")
        THEN <<EnableFlags(EnabledAfter(p, ds), ModeAfter(p, ds))>> ELSE <<>>)

ApplyDriverStationPatch(u, p) ==
    \/ Usable(u) /\ Sent(FramesOf(p, entry.ds), StationAfter(p, entry.ds))
    \/ ~Usable(u) /\ EnsureConnected(u)

Joystick(v) == [f \in {"joy"} |-> v]

ApplyJoystickState(u, v) ==
    \/ /\ Usable(u)
       /\ entry' = [entry EXCEPT !.attached = TRUE]
       /\ sock' = [sock EXCEPT ![entry.sock].out = Append(@, Joystick(v)),
                               ![entry.sock].held = v]
    \/ ~Usable(u) /\ EnsureConnected(u)

\* A joystick at rest, then the patch that disables; nothing of either when
\* the bridge is not connected.
ReleaseJoystick(u) ==
    \/ /\ Usable(u)
       /\ entry' = [entry EXCEPT !.attached = TRUE, !.ds.enabled = FALSE]
       /\ sock' = [sock EXCEPT
                     ![entry.sock].out = @ \o
                        <<Joystick(FALSE), EnableFlags(FALSE, entry.ds.mode)>>,
                     ![entry.sock].held = FALSE]
    \/ ~Usable(u) /\ EnsureConnected(u)

----------------------------------------------------------------------------
(* Events of the sockets.                                                  *)

\* Readback of a test or auto flag alone does not tell teleop (parseDsMode).
ModeRead(f, mode) ==
    IF Has(f, "test") /\ f["test"] THEN "test"
    ELSE IF Has(f, "auto") /\ f["auto"] THEN "auto"
    ELSE IF Has(f, "test") /\ Has(f, "auto") THEN "teleop"
    ELSE mode

\* mutant: a flag that is false is taken for one that is absent
StationReadTruthy(f, ds) ==
    [enabled |-> IF Has(f, "estop") /\ f["estop"] THEN FALSE
                 ELSE (Has(f, "enabled") /\ f["enabled"]) \/ ds.enabled,
     mode  |-> ModeRead(f, ds.mode),
     estop |-> IF Has(f, "estop") THEN f["estop"] ELSE ds.estop]

StationRead(f, ds) ==
    [enabled |-> IF Has(f, "estop") /\ f["estop"] THEN FALSE
                 ELSE IF Has(f, "enabled") THEN f["enabled"] ELSE ds.enabled,
     mode  |-> ModeRead(f, ds.mode),
     estop |-> IF Has(f, "estop") THEN f["estop"] ELSE ds.estop]

OnOpen(s) ==
    /\ sock[s].ready = "connecting" /\ sock[s].net = "up"
    /\ sock' = [sock EXCEPT ![s].ready = "open"]
    /\ entry' = IF entry.sock = s /\ entry.attached
                THEN [entry EXCEPT !.conn = "connected"] ELSE entry
    /\ UNCHANGED <<sim, url, run, asked, spent>>

OnMessage(s) ==
    /\ sock[s].ready = "open" /\ sock[s].in # <<>>
    /\ sock' = [sock EXCEPT ![s].in = Tail(@)]
    /\ entry' = IF entry.sock = s /\ entry.attached
                THEN [entry EXCEPT !.ds = StationRead(Head(sock[s].in), @)]
                ELSE entry
    /\ UNCHANGED <<sim, url, run, asked, spent>>

\* mutant: the bridge waits for the next poll
ClosedForGood == [entry EXCEPT
             !.sock = None,
             !.conn = IF entry.attached THEN "reconnecting" ELSE "disconnected"]

Closed == [entry EXCEPT
             !.sock = None,
             !.conn = IF entry.attached THEN "reconnecting" ELSE "disconnected",
             !.timer = entry.timer \/ entry.attached]

\* mutant: no stale guard
OnCloseUnguarded(s) ==
    /\ sock[s].ready # "free" /\ sock[s].net = "down"
    /\ sock[s].ready = "open" => sock[s].in = <<>>
    /\ sock' = [sock EXCEPT ![s] = Unused]
    /\ entry' = Closed
    /\ UNCHANGED <<sim, url, run, asked, spent>>

OnClose(s) ==
    /\ sock[s].ready # "free" /\ sock[s].net = "down"
    /\ sock[s].ready = "open" => sock[s].in = <<>>
    /\ sock' = [sock EXCEPT ![s] = Unused]
    /\ entry' = IF entry.sock = s THEN Closed ELSE entry
    /\ UNCHANGED <<sim, url, run, asked, spent>>

ReconnectTimer ==
    /\ entry.timer
    /\ LET e == [entry EXCEPT !.timer = FALSE] IN
       IF entry.attached /\ entry.sock = None
       THEN Open(e, sock)
       ELSE entry' = e /\ UNCHANGED sock
    /\ UNCHANGED <<sim, url, run, asked, spent>>

----------------------------------------------------------------------------
(* The simulator and the network.                                          *)

Reachable(s) == sim.up /\ sim.serves = None /\ sock[s].to = url

\* The server greets a connection with the state of every device.
Greeting == sim.ds

SimAccepts(s) ==
    /\ sock[s].ready = "connecting" /\ sock[s].net = "connecting"
    /\ Reachable(s)
    /\ sim' = [sim EXCEPT !.serves = s]
    /\ sock' = [sock EXCEPT ![s].net = "up", ![s].in = <<Greeting>>]
    /\ UNCHANGED <<entry, url, run, asked, spent>>

Down(s) ==
    /\ sock[s].ready # "free" /\ sock[s].net # "down"
    /\ sock' = [sock EXCEPT ![s].net = "down", ![s].out = <<>>]
    /\ sim' = IF sim.serves = s THEN [sim EXCEPT !.serves = None] ELSE sim
    /\ UNCHANGED <<entry, url, run, asked>>

\* A second connection is refused; a close goes behind what was sent.
ConnectionEnds(s) ==
    /\ \/ sock[s].ready = "closing" /\ sock[s].out = <<>>
       \/ sock[s].net = "connecting" /\ ~Reachable(s)
    /\ Down(s)
    /\ UNCHANGED spent

ConnectionFails(s) ==
    /\ spent.faults < MaxFaults
    /\ spent' = [spent EXCEPT !.faults = @ + 1]
    /\ Down(s)

\* The simulator reports every driver-station flag that a frame changed, each
\* in a message of its own.
Report(ds, f, d) ==
    IF Has(f, d) /\ f[d] # ds[d] THEN <<[x \in {d} |-> f[d]]>> ELSE <<>>
Reports(ds, f) == Report(ds, f, "enabled") \o Report(ds, f, "auto")
                  \o Report(ds, f, "test") \o Report(ds, f, "estop")
Obeyed(ds, f) == [d \in DsFlags |-> IF Has(f, d) THEN f[d] ELSE ds[d]]

SimReceives(s) ==
    /\ sim.serves = s /\ s \in Sockets /\ sock[s].out # <<>>
    /\ LET f == Head(sock[s].out) IN
       /\ sim' = [sim EXCEPT !.ds = Obeyed(@, f)]
       /\ sock' = [sock EXCEPT
                     ![s].out = Tail(@),
                     ![s].in = IF sock[s].ready = "closing" THEN @
                               ELSE @ \o Reports(sim.ds, f)]
    /\ UNCHANGED <<entry, url, run, asked, spent>>

SimStarts ==
    /\ run \in {"starting", "stopping"} /\ ~sim.up
    /\ sim' = NewSim
    /\ UNCHANGED <<entry, sock, url, run, asked, spent>>

\* The connections of a simulator that is gone go down with it.
Dropped == [s \in Sockets |-> IF sim.serves = s
                              THEN [sock[s] EXCEPT !.net = "down", !.out = <<>>]
                              ELSE sock[s]]

SimExits ==
    /\ sim.up
    /\ sim' = NoSim
    /\ sock' = Dropped
    /\ UNCHANGED <<entry, url, run, asked, spent>>

\* The container is replaced by one with another endpoint.
ContainerMoves ==
    /\ url' \in Urls \ {url}
    /\ spent.faults < MaxFaults
    /\ spent' = [spent EXCEPT !.faults = @ + 1]
    /\ sim' = NoSim
    /\ sock' = Dropped
    /\ UNCHANGED <<entry, run, asked>>

----------------------------------------------------------------------------
(* The run and the routes.                                                 *)

RunReady ==
    /\ run = "starting" /\ sim.up
    /\ run' = "running"
    /\ UNCHANGED <<entry, sock, sim, url, asked, spent>>

RunEnds ==
    /\ run # "idle"
    /\ run' = "idle"
    /\ UNCHANGED <<entry, sock, sim, url, asked, spent>>

\* Every route that starts a run disconnects first; runs.start may throw.
StartRun ==
    /\ spent.starts < MaxStarts
    /\ spent' = [spent EXCEPT !.starts = @ + 1]
    /\ run' \in {"starting", run}
    /\ Disconnect
    /\ UNCHANGED <<sim, url, asked>>

\* Stop, project swap, idle sweep and Leave; the sweep leaves the run to end
\* with its container.
StopRun ==
    /\ run' \in {run, IF run = "idle" THEN "idle" ELSE "stopping"}
    /\ Disconnect
    /\ UNCHANGED <<sim, url, asked, spent>>

\* simStatusSnapshot, after its await.
Poll ==
    /\ IF run # "idle" THEN EnsureConnected(url) ELSE Disconnect
    /\ UNCHANGED <<sim, url, run, asked, spent>>

PatchArrives(p) ==
    /\ run = "running"
    /\ spent.patches < MaxPatches
    /\ spent' = [spent EXCEPT !.patches = @ + 1]
    /\ asked' = asked \cup {p}
    /\ UNCHANGED <<entry, sock, sim, url, run>>

\* The run is not looked at again after the await.
PatchApplies(p) ==
    /\ p \in asked
    /\ asked' = asked \ {p}
    /\ ApplyDriverStationPatch(url, p)
    /\ UNCHANGED <<sim, url, run, spent>>

SocketEvent == \E s \in Sockets : OnOpen(s) \/ OnMessage(s) \/ OnClose(s)
SimEvent    == \E s \in Sockets : SimAccepts(s) \/ SimReceives(s)
                                  \/ ConnectionEnds(s) \/ ConnectionFails(s)

\* What does not touch the run's controller.
BridgeOnly ==
    \/ SocketEvent \/ ReconnectTimer \/ SimEvent
    \/ SimStarts \/ SimExits \/ ContainerMoves
    \/ RunReady \/ RunEnds \/ Poll
    \/ \E p \in Patches : PatchArrives(p) \/ PatchApplies(p)

----------------------------------------------------------------------------
(* Properties of the bridge.                                               *)

\* The bridge holds one upstream connection: no WebSocket is connecting or
\* open but the entry's, whatever closes, timers and new endpoints cross (the
\* stale guards of open in ws-bridge.ts).
OneUpstream ==
    \A s \in Sockets :
        sock[s].ready \in {"connecting", "open"} => entry.sock = s

\* While attached, the bridge has either a socket or a reconnect timer, never
\* both and never neither, so that it cannot be stuck; detached, it has none,
\* and is connected only on an open socket (disconnect, onSocketClosed and
\* ensureConnected in halsim.ts).
AttachedIsTrying ==
    /\ entry.attached <=> (entry.sock # None \/ entry.timer)
    /\ entry.sock = None \/ ~entry.timer
    /\ ~entry.attached => entry.conn = "disconnected"
    /\ entry.conn = "connected" => /\ entry.sock # None
                                  /\ sock[entry.sock].ready = "open"

\* When nothing is under way on a connection, the cached stop is the
\* simulator's, and a robot shown as enabled is enabled: commands and readback
\* that cross each other leave neither value behind (applyDriverStationPatch
\* and handleMessage in halsim.ts).  The converse fails, and so does the same
\* of the mode: see the README.
CacheAgrees ==
    LET s == entry.sock IN
    /\ entry.conn = "connected" /\ sim.serves = s
    /\ sock[s].out = <<>> /\ sock[s].in = <<>>
    => /\ entry.ds.estop = sim.ds["estop"]
       /\ entry.ds.enabled => sim.ds["enabled"]
=============================================================================
