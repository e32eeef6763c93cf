--------------------------- MODULE Gamepad_proofs ---------------------------
(***************************************************************************)
(* Proofs about Gamepad and the HALSim bridge under it, for any WebSockets,*)
(* endpoints, channels, patches and bounds.                                *)
(***************************************************************************)
EXTENDS Gamepad, TLAPS

\* A joystick is held only on a connected bridge.
HeldIsConnected ==
    entry.sock # None /\ sock[entry.sock].held => entry.conn = "connected"

\* What every operation and event of the bridge preserves.
Core ==
    /\ entry \in Entries
    /\ sock \in [Sockets -> SocketStates]
    /\ OneUpstream
    /\ AttachedIsTrying
    /\ HeldIsConnected

\* The joystick payload that the current connection was last sent.
Holding == entry.sock # None /\ sock[entry.sock].held

\* A run that is not ready yet has a connection without a joystick, and one
\* that runs has one only for a selected controller.
HoldingInv ==
    Holding => run # "starting" /\ (run = "running" => session.selected)

\* The tab's channel is open, and messages wait only on channels in use.
ChannelInv ==
    /\ tab.chan # None => chan[tab.chan].st = "open"
    /\ \A c \in Channels : chan[c].q # <<>> => chan[c].st # "free"

IInv == /\ TypeOK
        /\ Core
        /\ HoldingInv
        /\ ChannelInv
        /\ tab.seq <= inputs
        /\ SessionHasChannel

----------------------------------------------------------------------------
(* Data.                                                                   *)

LEMMA FrameType == ASSUME NEW D \in SUBSET Flags, NEW f \in [D -> BOOLEAN]
                   PROVE  f \in Frames
BY DEF Frames, FrameOn

LEMMA PairType == ASSUME NEW f \in Frames, NEW g \in Frames
                  PROVE  <<f, g>> \in Seq(Frames)
OBVIOUS

LEMMA SmallFrames ==
    ASSUME NEW b \in BOOLEAN, NEW m \in Modes
    PROVE  /\ Disabled \in Frames
           /\ ModeFlags(m) \in Frames
           /\ StopFlags(b) \in Frames
           /\ EnableFlags(b, m) \in Frames
           /\ Joystick(b) \in Frames
<1>1. Disabled \in [{"enabled"} -> BOOLEAN]  BY DEF Disabled
<1>2. ModeFlags(m) \in [{"auto", "test"} -> BOOLEAN]  BY DEF ModeFlags
<1>3. \/ StopFlags(b) \in [{"estop", "enabled"} -> BOOLEAN]
      \/ StopFlags(b) \in [{"estop"} -> BOOLEAN]
  BY DEF StopFlags
<1>4. EnableFlags(b, m) \in [{"enabled", "auto", "test"} -> BOOLEAN]
  BY DEF EnableFlags
<1>5. Joystick(b) \in [{"joy"} -> BOOLEAN]  BY DEF Joystick
<1>6. /\ {"enabled"} \in SUBSET Flags /\ {"auto", "test"} \in SUBSET Flags
      /\ {"estop", "enabled"} \in SUBSET Flags /\ {"estop"} \in SUBSET Flags
      /\ {"enabled", "auto", "test"} \in SUBSET Flags
      /\ {"joy"} \in SUBSET Flags
  BY DEF Flags, DsFlags
<1> QED  BY <1>1, <1>2, <1>3, <1>4, <1>5, <1>6, FrameType

\* What a patch leaves in the cache, and the frames it becomes.
LEMMA PatchType ==
    ASSUME NEW p \in Patches, NEW ds \in DriverStations
    PROVE  /\ StationAfter(p, ds) \in DriverStations
           /\ FramesOf(p, ds) \in Seq(Frames)
<1>0. /\ Has(p, "mode") => p.mode \in Modes
      /\ Has(p, "enabled") => p.enabled \in BOOLEAN
      /\ Has(p, "estop") => p.estop \in BOOLEAN
  BY BridgeAssumption DEF Has
<1>1. /\ ds.enabled \in BOOLEAN /\ ds.mode \in Modes /\ ds.estop \in BOOLEAN
  BY DEF DriverStations
<1>2. ModeAfter(p, ds) \in Modes  BY <1>0, <1>1 DEF ModeAfter
<1>3. EStopAfter(p, ds) \in BOOLEAN  BY <1>0, <1>1 DEF EStopAfter
<1>4. EnabledAfter(p, ds) \in BOOLEAN
  BY <1>0, <1>1, <1>3 DEF EnabledAfter
<1>5. StationAfter(p, ds) \in DriverStations
  BY <1>2, <1>3, <1>4 DEF StationAfter, DriverStations
<1>6. /\ Disabled \in Frames
      /\ Has(p, "mode") => ModeFlags(p.mode) \in Frames
      /\ Has(p, "estop") => StopFlags(p.estop) \in Frames
      /\ EnableFlags(EnabledAfter(p, ds), ModeAfter(p, ds)) \in Frames
  BY <1>0, <1>2, <1>4, SmallFrames DEF Modes
<1>7. FramesOf(p, ds) \in Seq(Frames)
  BY <1>6 DEF FramesOf
<1> QED  BY <1>5, <1>7

LEMMA ReadType ==
    ASSUME NEW f \in Frames, NEW ds \in DriverStations
    PROVE  StationRead(f, ds) \in DriverStations
<1>1. PICK D \in SUBSET Flags : f \in [D -> BOOLEAN]  BY DEF Frames, FrameOn
<1>2. \A d \in Flags : Has(f, d) => f[d] \in BOOLEAN  BY <1>1 DEF Has
<1>3. "enabled" \in Flags /\ "estop" \in Flags  BY DEF Flags, DsFlags
<1>4. ModeRead(f, ds.mode) \in Modes
  BY DEF ModeRead, Modes, DriverStations
<1> QED  BY <1>2, <1>3, <1>4 DEF StationRead, DriverStations

LEMMA ReportsType ==
    ASSUME NEW f \in Frames, NEW ds
    PROVE  Reports(ds, f) \in Seq(Frames)
<1>1. PICK D \in SUBSET Flags : f \in [D -> BOOLEAN]  BY DEF Frames, FrameOn
<1>2. ASSUME NEW d \in Flags PROVE Report(ds, f, d) \in Seq(Frames)
  <2>1. CASE Has(f, d)
    <3>1. f[d] \in BOOLEAN  BY <1>1, <2>1 DEF Has
    <3>2. [x \in {d} |-> f[d]] \in Frames
      BY <3>1, FrameType, {d} \in SUBSET Flags
    <3> QED  BY <3>2 DEF Report
  <2>2. CASE ~Has(f, d)  BY <2>2 DEF Report
  <2> QED  BY <2>1, <2>2
<1>3. /\ Report(ds, f, "enabled") \in Seq(Frames)
      /\ Report(ds, f, "auto") \in Seq(Frames)
      /\ Report(ds, f, "test") \in Seq(Frames)
      /\ Report(ds, f, "estop") \in Seq(Frames)
  BY <1>2 DEF Flags, DsFlags
<1> QED  BY <1>3 DEF Reports

LEMMA ObeyedType ==
    ASSUME NEW f \in Frames, NEW ds \in [DsFlags -> BOOLEAN]
    PROVE  Obeyed(ds, f) \in [DsFlags -> BOOLEAN]
<1>1. PICK D \in SUBSET Flags : f \in [D -> BOOLEAN]  BY DEF Frames, FrameOn
<1> QED  BY <1>1 DEF Obeyed, Has

LEMMA EmptyHanded ==
    /\ Unused \in SocketStates
    /\ \A u \in Urls : Opening(u) \in SocketStates /\ NewEntry(u) \in Entries
    /\ \A u \in Urls : Opening(u).ready = "connecting" /\ ~Opening(u).held
    /\ Unused.ready = "free"
<1>1. <<>> \in Seq(Frames)  OBVIOUS
<1> QED
  BY <1>1 DEF Unused, Opening, SocketStates, NewEntry, Entries, DriverStations,
              Modes

----------------------------------------------------------------------------
(* Operations of the bridge.                                               *)

\* A new socket, where no other is connecting or open.
LEMMA OpenCore ==
    ASSUME NEW e \in Entries, NEW others \in [Sockets -> SocketStates],
           e.attached, ~e.timer,
           \A s \in Sockets : others[s].ready \notin {"connecting", "open"},
           Open(e, others)
    PROVE  Core' /\ ~Holding'
<1>1. PICK s \in Sockets :
         /\ entry' = [e EXCEPT !.sock = s, !.conn = "reconnecting"]
         /\ sock' = [others EXCEPT ![s] = Opening(e.url)]
  BY DEF Open
<1>2. e.url \in Urls  BY DEF Entries
<1>3. /\ Opening(e.url) \in SocketStates
      /\ Opening(e.url).ready = "connecting" /\ ~Opening(e.url).held
  BY <1>2, EmptyHanded
<1>4. sock' \in [Sockets -> SocketStates]  BY <1>1, <1>3
<1>5. /\ entry' \in Entries /\ entry'.sock = s /\ entry'.attached
      /\ ~entry'.timer /\ entry'.conn = "reconnecting"
  BY <1>1 DEF Entries
<1>6. s # None  BY BridgeAssumption
<1>7. ~sock'[s].held  BY <1>1, <1>3
<1>8. OneUpstream'
  BY <1>1, <1>5 DEF OneUpstream
<1>9. AttachedIsTrying'  BY <1>5, <1>6 DEF AttachedIsTrying
<1> QED  BY <1>4, <1>5, <1>7, <1>8, <1>9 DEF Core, HeldIsConnected, Holding

\* The sockets that Hangup leaves.
LEMMA HangupQuiet ==
    ASSUME Core
    PROVE  /\ Hangup \in [Sockets -> SocketStates]
           /\ \A s \in Sockets :
                 Hangup[s].ready \notin {"connecting", "open"}
<1>1. <<>> \in Seq(Frames)  OBVIOUS
<1>2. ASSUME NEW s \in Sockets
      PROVE  /\ Hangup[s] \in SocketStates
             /\ Hangup[s].ready \notin {"connecting", "open"}
  <2>1. sock[s] \in SocketStates  BY DEF Core
  <2>2. CASE s = entry.sock
    BY <1>1, <2>1, <2>2 DEF Hangup, SocketStates
  <2>3. CASE s # entry.sock
    <3>1. sock[s].ready \notin {"connecting", "open"}
      BY <2>3 DEF Core, OneUpstream
    <3> QED  BY <2>1, <2>3, <3>1 DEF Hangup
  <2> QED  BY <2>2, <2>3
<1> QED  BY <1>2 DEF Hangup

LEMMA DisconnectCore ==
    ASSUME Core, Disconnect
    PROVE  Core' /\ ~Holding'
<1>1. /\ entry' \in Entries /\ entry'.sock = None /\ ~entry'.attached
      /\ ~entry'.timer /\ entry'.conn = "disconnected"
  BY DEF Disconnect, Core, Entries
<1>2. sock' = Hangup  BY DEF Disconnect
<1>3. OneUpstream'  BY <1>2, HangupQuiet DEF OneUpstream
<1>4. AttachedIsTrying'  BY <1>1 DEF AttachedIsTrying
<1> QED
  BY <1>1, <1>2, <1>3, <1>4, HangupQuiet DEF Core, HeldIsConnected, Holding

\* Nothing is held afterwards that was not held before.
LEMMA EnsureCore ==
    ASSUME Core, NEW u \in Urls, EnsureConnected(u)
    PROVE  /\ Core' /\ (Holding' => Holding)
           /\ ~Usable(u) => ~Holding'
<1>1. CASE /\ KnownAt(u)
           /\ entry.sock # None \/ entry.timer
           /\ entry' = [entry EXCEPT !.attached = TRUE]
           /\ UNCHANGED sock
  <2>1. entry.attached  BY <1>1 DEF Core, AttachedIsTrying
  <2>2. entry' = entry /\ sock' = sock
    BY <1>1, <2>1 DEF Core, Entries
  <2>3. ASSUME Holding PROVE Usable(u)
    BY <1>1, <2>3
    DEF Holding, Core, HeldIsConnected, AttachedIsTrying, Usable
  <2> QED
    BY <2>2, <2>3
    DEF Core, OneUpstream, AttachedIsTrying, HeldIsConnected, Holding
<1>2. CASE /\ KnownAt(u)
           /\ entry.sock = None /\ ~entry.timer
           /\ Open([entry EXCEPT !.attached = TRUE], sock)
  <2> DEFINE e == [entry EXCEPT !.attached = TRUE]
  <2>1. e \in Entries /\ e.attached /\ ~e.timer
    BY <1>2 DEF Core, Entries
  <2>2. \A s \in Sockets : sock[s].ready \notin {"connecting", "open"}
    BY <1>2, BridgeAssumption DEF Core, OneUpstream
  <2>3. sock \in [Sockets -> SocketStates]  BY DEF Core
  <2>4. Open(e, sock)  BY <1>2
  <2> HIDE DEF e
  <2> QED  BY <2>1, <2>2, <2>3, <2>4, OpenCore
<1>3. CASE ~KnownAt(u) /\ Open(NewEntry(u), Hangup)
  <2>1. NewEntry(u) \in Entries  BY EmptyHanded
  <2>2. NewEntry(u).attached /\ ~NewEntry(u).timer  BY DEF NewEntry
  <2> QED  BY <1>3, <2>1, <2>2, HangupQuiet, OpenCore
<1> QED  BY <1>1, <1>2, <1>3 DEF EnsureConnected

\* Frames sent on a connection, which may change what is held on it.
LEMMA SendCore ==
    ASSUME Core, NEW u, Usable(u), NEW ds \in DriverStations, NEW h \in BOOLEAN,
           NEW frames \in Seq(Frames),
           entry' = [entry EXCEPT !.attached = TRUE, !.ds = ds],
           sock' = [sock EXCEPT ![entry.sock].out = @ \o frames,
                                ![entry.sock].held = h]
    PROVE  Core' /\ (Holding' => h)
<1> DEFINE s == entry.sock
<1>1. s \in Sockets /\ s # None /\ entry.conn = "connected"
  BY DEF Usable, Core, Entries
<1>2. entry.attached  BY <1>1 DEF Core, AttachedIsTrying
<1>3. /\ entry' \in Entries /\ entry'.sock = s /\ entry'.attached
      /\ entry'.timer = entry.timer /\ entry'.conn = "connected"
  BY <1>1, <1>2 DEF Core, Entries
<1>4. sock[s] \in SocketStates  BY <1>1 DEF Core
<1>5. sock[s].out \o frames \in Seq(Frames)  BY <1>4 DEF SocketStates
<1>6. [sock[s] EXCEPT !.out = @ \o frames, !.held = h] \in SocketStates
  BY <1>4, <1>5 DEF SocketStates
<1>7. sock' = [sock EXCEPT
                 ![s] = [sock[s] EXCEPT !.out = @ \o frames, !.held = h]]
  BY <1>1 DEF Core
<1>8. sock' \in [Sockets -> SocketStates]  BY <1>6, <1>7 DEF Core
<1>9. /\ \A x \in Sockets : sock'[x].ready = sock[x].ready
      /\ sock'[s].held = h
  BY <1>1, <1>4, <1>7 DEF Core, SocketStates
<1>10. OneUpstream'  BY <1>3, <1>9 DEF Core, OneUpstream
<1>11. AttachedIsTrying'
  BY <1>1, <1>3, <1>9 DEF Core, AttachedIsTrying
<1> QED
  BY <1>3, <1>8, <1>9, <1>10, <1>11 DEF Core, HeldIsConnected, Holding

LEMMA PatchCore ==
    ASSUME Core, NEW u \in Urls, NEW p \in Patches,
           ApplyDriverStationPatch(u, p)
    PROVE  Core' /\ (Holding' => Holding)
<1>1. CASE Usable(u) /\ Sent(FramesOf(p, entry.ds), StationAfter(p, entry.ds))
  <2> DEFINE s == entry.sock  frames == FramesOf(p, entry.ds)
  <2>1. s \in Sockets /\ s # None  BY <1>1 DEF Usable, Core, Entries
  <2>2. entry.ds \in DriverStations  BY DEF Core, Entries
  <2>3. /\ frames \in Seq(Frames)
        /\ StationAfter(p, entry.ds) \in DriverStations
    BY <2>2, PatchType
  <2>4. sock[s] \in SocketStates /\ sock[s].held \in BOOLEAN
    BY <2>1 DEF Core, SocketStates
  <2>5. sock' = [sock EXCEPT ![s].out = @ \o frames, ![s].held = sock[s].held]
    BY <1>1, <2>1, <2>4 DEF Sent, Core, SocketStates
  <2>6. entry' = [entry EXCEPT !.attached = TRUE,
                               !.ds = StationAfter(p, entry.ds)]
    BY <1>1 DEF Sent
  <2> HIDE DEF frames
  <2>7. Core' /\ (Holding' => sock[s].held)
    BY <1>1, <2>3, <2>4, <2>5, <2>6, SendCore
  <2> QED  BY <2>1, <2>7 DEF Holding
<1>2. CASE ~Usable(u) /\ EnsureConnected(u)
  BY <1>2, EnsureCore
<1> QED  BY <1>1, <1>2 DEF ApplyDriverStationPatch

LEMMA JoystickCore ==
    ASSUME Core, NEW u \in Urls, NEW v \in BOOLEAN, ApplyJoystickState(u, v)
    PROVE  Core'
<1>1. CASE /\ Usable(u)
           /\ entry' = [entry EXCEPT !.attached = TRUE]
           /\ sock' = [sock EXCEPT ![entry.sock].out = Append(@, Joystick(v)),
                                   ![entry.sock].held = v]
  <2> DEFINE s == entry.sock  frames == <<Joystick(v)>>
  <2>1. s \in Sockets  BY <1>1 DEF Usable, Core, Entries
  <2>2. entry.ds \in DriverStations  BY DEF Core, Entries
  <2>3. Joystick(v) \in Frames  BY SmallFrames DEF Modes
  <2>4. frames \in Seq(Frames)  BY <2>3
  <2>5. sock[s] \in SocketStates  BY <2>1 DEF Core
  <2>6. Append(sock[s].out, Joystick(v)) = sock[s].out \o frames
    BY SMTT(30), <2>3, <2>5 DEF SocketStates
  <2>7. sock' = [sock EXCEPT ![s].out = @ \o frames, ![s].held = v]
    BY <1>1, <2>6
  <2>8. entry' = [entry EXCEPT !.attached = TRUE, !.ds = entry.ds]
    BY <1>1 DEF Core, Entries
  <2> HIDE DEF frames
  <2> QED  BY <1>1, <2>2, <2>4, <2>7, <2>8, SendCore
<1>2. CASE ~Usable(u) /\ EnsureConnected(u)
  BY <1>2, EnsureCore
<1> QED  BY <1>1, <1>2 DEF ApplyJoystickState

\* Nothing is held after a release: what was held on a connection that is not
\* usable is held no more.
LEMMA ReleaseCore ==
    ASSUME Core, NEW u \in Urls, ReleaseJoystick(u)
    PROVE  Core' /\ ~Holding'
<1>1. CASE /\ Usable(u)
           /\ entry' = [entry EXCEPT !.attached = TRUE, !.ds.enabled = FALSE]
           /\ sock' = [sock EXCEPT
                 ![entry.sock].out = @ \o
                    <<Joystick(FALSE), EnableFlags(FALSE, entry.ds.mode)>>,
                 ![entry.sock].held = FALSE]
  <2> DEFINE s == entry.sock
             frames == <<Joystick(FALSE), EnableFlags(FALSE, entry.ds.mode)>>
             ds == [entry.ds EXCEPT !.enabled = FALSE]
  <2>1. entry.ds \in DriverStations  BY DEF Core, Entries
  <2>2. ds \in DriverStations  BY <2>1 DEF DriverStations
  <2>3. entry.ds.mode \in Modes  BY <2>1 DEF DriverStations
  <2>4. /\ Joystick(FALSE) \in Frames
        /\ EnableFlags(FALSE, entry.ds.mode) \in Frames
    BY <2>3, SmallFrames
  <2>5. frames \in Seq(Frames)  BY <2>4, PairType
  <2>6. entry' = [entry EXCEPT !.attached = TRUE, !.ds = ds]
    BY <1>1, <2>1 DEF Core, Entries
  <2>7. sock' = [sock EXCEPT ![s].out = @ \o frames, ![s].held = FALSE]
    BY <1>1
  <2> HIDE DEF frames, ds
  <2> QED  BY <1>1, <2>2, <2>5, <2>6, <2>7, SendCore
<1>2. CASE ~Usable(u) /\ EnsureConnected(u)
  BY <1>2, EnsureCore
<1> QED  BY <1>1, <1>2 DEF ReleaseJoystick

----------------------------------------------------------------------------
(* Events of the sockets, the simulator and the network.                   *)

\* A socket that is not the entry's, or keeps its readyState and does not gain
\* a held joystick, may change in any other way.
LEMMA OtherCore ==
    ASSUME Core, UNCHANGED entry,
           sock' \in [Sockets -> SocketStates],
           \A s \in Sockets :
              /\ sock'[s].ready \in {sock[s].ready, "free", "closing"}
              /\ s = entry.sock => sock'[s].ready = sock[s].ready
              /\ s = entry.sock /\ sock'[s].held => sock[s].held
    PROVE  Core' /\ (Holding' => Holding)
<1>1. OneUpstream'  BY DEF Core, OneUpstream
<1>2. entry.sock # None => entry.sock \in Sockets  BY DEF Core, Entries
<1>3. AttachedIsTrying'  BY <1>2 DEF Core, AttachedIsTrying
<1> QED  BY <1>1, <1>2, <1>3 DEF Core, HeldIsConnected, Holding

LEMMA OpenEventCore ==
    ASSUME Core, NEW s \in Sockets, OnOpen(s)
    PROVE  Core' /\ (Holding' => Holding)
<1>1. sock[s] \in SocketStates  BY DEF Core
<1>2. /\ sock' = [sock EXCEPT ![s].ready = "open"]
      /\ sock[s].ready = "connecting"
  BY DEF OnOpen
<1>3. sock' \in [Sockets -> SocketStates]
  BY <1>1, <1>2 DEF Core, SocketStates
<1>4. entry.sock = s /\ s # None
  BY <1>2, BridgeAssumption DEF Core, OneUpstream
<1>5. entry.attached  BY <1>4 DEF Core, AttachedIsTrying
<1>6. entry' = [entry EXCEPT !.conn = "connected"]
  BY <1>4, <1>5 DEF OnOpen
<1>7. /\ entry' \in Entries /\ entry'.sock = s /\ entry'.attached
      /\ entry'.timer = entry.timer /\ entry'.conn = "connected"
  BY <1>4, <1>5, <1>6 DEF Core, Entries
<1>8. /\ sock'[s].ready = "open" /\ sock'[s].held = sock[s].held
      /\ \A x \in Sockets : x # s => sock'[x] = sock[x]
  BY <1>1, <1>2 DEF Core, SocketStates
<1>9. OneUpstream'  BY <1>4, <1>7, <1>8 DEF Core, OneUpstream
<1>10. AttachedIsTrying'  BY <1>4, <1>7, <1>8 DEF Core, AttachedIsTrying
<1> QED
  BY <1>3, <1>4, <1>7, <1>8, <1>9, <1>10 DEF Core, HeldIsConnected, Holding

LEMMA MessageCore ==
    ASSUME Core, NEW s \in Sockets, OnMessage(s)
    PROVE  Core' /\ (Holding' => Holding)
<1>1. sock[s] \in SocketStates /\ sock[s].in \in Seq(Frames)
  BY DEF Core, SocketStates
<1>2. sock' = [sock EXCEPT ![s].in = Tail(@)] /\ sock[s].in # <<>>
  BY DEF OnMessage
<1>3. Head(sock[s].in) \in Frames /\ Tail(sock[s].in) \in Seq(Frames)
  BY <1>1, <1>2
<1>4. sock' \in [Sockets -> SocketStates]
  BY <1>1, <1>2, <1>3 DEF Core, SocketStates
<1>5. entry.ds \in DriverStations  BY DEF Core, Entries
<1>6. StationRead(Head(sock[s].in), entry.ds) \in DriverStations
  BY <1>3, <1>5, ReadType
<1>7. /\ entry' \in Entries /\ entry'.sock = entry.sock
      /\ entry'.attached = entry.attached /\ entry'.timer = entry.timer
      /\ entry'.conn = entry.conn
  BY <1>6 DEF OnMessage, Core, Entries
<1>8. \A x \in Sockets :
         sock'[x].ready = sock[x].ready /\ sock'[x].held = sock[x].held
  BY <1>1, <1>2 DEF Core, SocketStates
<1>9. entry.sock # None => entry.sock \in Sockets  BY DEF Core, Entries
<1>10. OneUpstream'  BY <1>7, <1>8 DEF Core, OneUpstream
<1>11. AttachedIsTrying'  BY <1>7, <1>8, <1>9 DEF Core, AttachedIsTrying
<1> QED
  BY <1>4, <1>7, <1>8, <1>9, <1>10, <1>11 DEF Core, HeldIsConnected, Holding

LEMMA CloseCore ==
    ASSUME Core, NEW s \in Sockets, OnClose(s)
    PROVE  Core' /\ (Holding' => Holding)
<1>1. sock' = [sock EXCEPT ![s] = Unused]  BY DEF OnClose
<1>2. sock' \in [Sockets -> SocketStates]  BY <1>1, EmptyHanded DEF Core
<1>3. CASE entry.sock = s
  <2>1. entry' = Closed  BY <1>3 DEF OnClose
  <2>2. entry.attached /\ ~entry.timer
    BY <1>3, BridgeAssumption DEF Core, AttachedIsTrying
  <2>3. /\ entry' \in Entries /\ entry'.sock = None /\ entry'.attached
        /\ entry'.timer /\ entry'.conn = "reconnecting"
    BY <2>1, <2>2 DEF Closed, Core, Entries
  <2>4. OneUpstream'
    BY <1>1, <1>3, EmptyHanded DEF Core, OneUpstream
  <2>5. AttachedIsTrying'  BY <2>3 DEF AttachedIsTrying
  <2> QED  BY <1>2, <2>3, <2>4, <2>5 DEF Core, HeldIsConnected, Holding
<1>4. CASE entry.sock # s
  <2>1. UNCHANGED entry  BY <1>4 DEF OnClose
  <2>2. \A x \in Sockets :
              /\ sock'[x].ready \in {sock[x].ready, "free", "closing"}
              /\ x = entry.sock => sock'[x].ready = sock[x].ready
              /\ x = entry.sock /\ sock'[x].held => sock[x].held
    BY <1>1, <1>4, EmptyHanded DEF Core
  <2> QED  BY <1>2, <2>1, <2>2, OtherCore
<1> QED  BY <1>3, <1>4

LEMMA TimerCore ==
    ASSUME Core, ReconnectTimer
    PROVE  Core' /\ (Holding' => Holding)
<1> DEFINE e == [entry EXCEPT !.timer = FALSE]
<1>1. entry.timer /\ entry.attached /\ entry.sock = None
  BY DEF ReconnectTimer, Core, AttachedIsTrying
<1>2. e \in Entries /\ e.attached /\ ~e.timer
  BY <1>1 DEF Core, Entries
<1>3. Open(e, sock)  BY <1>1 DEF ReconnectTimer
<1>4. \A s \in Sockets : sock[s].ready \notin {"connecting", "open"}
  BY <1>1, BridgeAssumption DEF Core, OneUpstream
<1>5. sock \in [Sockets -> SocketStates]  BY DEF Core
<1> HIDE DEF e
<1> QED  BY <1>2, <1>3, <1>4, <1>5, OpenCore

LEMMA AcceptCore ==
    ASSUME TypeOK, Core, NEW s \in Sockets, SimAccepts(s)
    PROVE  Core' /\ (Holding' => Holding)
<1>1. sim.ds \in [DsFlags -> BOOLEAN]  BY DEF TypeOK, BridgeTypeOK
<1>2. Greeting \in [DsFlags -> BOOLEAN]  BY <1>1 DEF Greeting
<1>3. DsFlags \in SUBSET Flags  BY DEF Flags
<1>4. Greeting \in Frames  BY <1>2, <1>3, FrameType
<1>5. <<Greeting>> \in Seq(Frames)  BY <1>4
<1>6. sock[s] \in SocketStates  BY DEF Core
<1>7. sock' = [sock EXCEPT ![s].net = "up", ![s].in = <<Greeting>>]
  BY DEF SimAccepts
<1>8. sock' \in [Sockets -> SocketStates]
  BY <1>5, <1>6, <1>7 DEF Core, SocketStates
<1>9. \A x \in Sockets :
         sock'[x].ready = sock[x].ready /\ sock'[x].held = sock[x].held
  BY <1>6, <1>7 DEF Core, SocketStates
<1>10. UNCHANGED entry  BY DEF SimAccepts
<1> QED  BY <1>8, <1>9, <1>10, OtherCore

LEMMA DownCore ==
    ASSUME Core, NEW s \in Sockets, Down(s)
    PROVE  Core' /\ (Holding' => Holding)
<1>1. sock[s] \in SocketStates  BY DEF Core
<1>2. sock' = [sock EXCEPT ![s].net = "down", ![s].out = <<>>]  BY DEF Down
<1>3. <<>> \in Seq(Frames)  OBVIOUS
<1>4. sock' \in [Sockets -> SocketStates]
  BY <1>1, <1>2, <1>3 DEF Core, SocketStates
<1>5. \A x \in Sockets :
         sock'[x].ready = sock[x].ready /\ sock'[x].held = sock[x].held
  BY <1>1, <1>2 DEF Core, SocketStates
<1>6. UNCHANGED entry  BY DEF Down
<1> QED  BY <1>4, <1>5, <1>6, OtherCore

LEMMA ReceiveCore ==
    ASSUME Core, NEW s \in Sockets, SimReceives(s)
    PROVE  /\ Core' /\ (Holding' => Holding)
           /\ Head(sock[s].out) \in Frames
<1> DEFINE f == Head(sock[s].out)
           in == IF sock[s].ready = "closing" THEN sock[s].in
                 ELSE sock[s].in \o Reports(sim.ds, f)
<1>1. /\ sock[s] \in SocketStates /\ sock[s].out \in Seq(Frames)
      /\ sock[s].in \in Seq(Frames)
  BY DEF Core, SocketStates
<1>2. sock[s].out # <<>>  BY DEF SimReceives
<1>3. f \in Frames /\ Tail(sock[s].out) \in Seq(Frames)  BY <1>1, <1>2
<1>4. Reports(sim.ds, f) \in Seq(Frames)  BY <1>3, ReportsType
<1>5. in \in Seq(Frames)  BY <1>1, <1>4
<1>6. sock' = [sock EXCEPT ![s].out = Tail(@), ![s].in = in]
  BY DEF SimReceives
<1> HIDE DEF in
<1>7. sock' \in [Sockets -> SocketStates]
  BY <1>1, <1>3, <1>5, <1>6 DEF Core, SocketStates
<1>8. \A x \in Sockets :
         sock'[x].ready = sock[x].ready /\ sock'[x].held = sock[x].held
  BY <1>1, <1>6 DEF Core, SocketStates
<1>9. UNCHANGED entry  BY DEF SimReceives
<1> QED  BY <1>3, <1>7, <1>8, <1>9, OtherCore

LEMMA DroppedCore ==
    ASSUME Core, UNCHANGED entry, sock' = Dropped
    PROVE  Core' /\ (Holding' => Holding)
<1>1. ASSUME NEW s \in Sockets
      PROVE  /\ sock'[s] \in SocketStates
             /\ sock'[s].ready = sock[s].ready /\ sock'[s].held = sock[s].held
  <2>1. sock[s] \in SocketStates  BY DEF Core
  <2>2. <<>> \in Seq(Frames)  OBVIOUS
  <2> QED  BY <2>1, <2>2 DEF Dropped, SocketStates
<1>2. sock' \in [Sockets -> SocketStates]  BY <1>1 DEF Dropped
<1> QED  BY <1>1, <1>2, OtherCore

\* The rest of the type invariant.
Rest ==
    /\ sim \in [up : BOOLEAN, serves : Sockets \cup {None},
                ds : [DsFlags -> BOOLEAN]]
    /\ url \in Urls
    /\ run \in {"idle", "starting", "running", "stopping"}
    /\ asked \subseteq Patches
    /\ spent \in [patches : Nat, starts : Nat, faults : Nat]

PadType ==
    /\ session \in [there : BOOLEAN, selected : BOOLEAN, lastSeq : Sequence]
    /\ chan \in [Channels -> [st : {"free", "open", "left"},
                              q : Seq(Messages)]]
    /\ tab \in [chan : Channels \cup {None}, selected : BOOLEAN,
                seq : Sequence]
    /\ inputs \in Sequence

LEMMA Parts == TypeOK <=> /\ entry \in Entries
                          /\ sock \in [Sockets -> SocketStates]
                          /\ Rest /\ PadType
BY DEF TypeOK, BridgeTypeOK, Rest, PadType

LEMMA PartsNext == TypeOK' <=> /\ entry' \in Entries
                               /\ sock' \in [Sockets -> SocketStates]
                               /\ Rest' /\ PadType'
BY DEF TypeOK, BridgeTypeOK, Rest, PadType

\* Steps of the bridge that neither start a run nor touch the session.
LEMMA BridgeStep ==
    ASSUME TypeOK, Core, BridgeOnly
    PROVE  /\ Core' /\ Rest' /\ (Holding' => Holding)
           /\ run' \in {run, "idle"} \/ (run = "starting" /\ run' = "running")
<1>0. Rest  BY Parts
<1>1. CASE SocketEvent
  <2>1. PICK s \in Sockets : OnOpen(s) \/ OnMessage(s) \/ OnClose(s)
    BY <1>1 DEF SocketEvent
  <2>2. UNCHANGED <<sim, url, run, asked, spent>>
    BY <2>1 DEF OnOpen, OnMessage, OnClose
  <2> QED  BY <1>0, <2>1, <2>2, OpenEventCore, MessageCore, CloseCore DEF Rest
<1>2. CASE ReconnectTimer
  BY <1>0, <1>2, TimerCore DEF ReconnectTimer, Rest
<1>3. CASE SimEvent
  <2>1. PICK s \in Sockets : \/ SimAccepts(s) \/ SimReceives(s)
                             \/ ConnectionEnds(s) \/ ConnectionFails(s)
    BY <1>3 DEF SimEvent
  <2>2. CASE SimAccepts(s)
    <3>1. Core' /\ (Holding' => Holding)  BY <2>2, AcceptCore
    <3>2. Rest' /\ run' = run  BY <1>0, <2>2 DEF SimAccepts, Rest
    <3> QED  BY <3>1, <3>2
  <2>3. CASE SimReceives(s)
    <3>1. Core' /\ (Holding' => Holding) /\ Head(sock[s].out) \in Frames
      BY <2>3, ReceiveCore
    <3>2. Obeyed(sim.ds, Head(sock[s].out)) \in [DsFlags -> BOOLEAN]
      BY <1>0, <3>1, ObeyedType DEF Rest
    <3>3. Rest' /\ run' = run  BY <1>0, <2>3, <3>2 DEF SimReceives, Rest
    <3> QED  BY <3>1, <3>3
  <2>4. CASE ConnectionEnds(s) \/ ConnectionFails(s)
    <3>1. Down(s)  BY <2>4 DEF ConnectionEnds, ConnectionFails
    <3>2. Rest' /\ run' = run
      BY <1>0, <2>4 DEF ConnectionEnds, ConnectionFails, Down, Rest
    <3> QED  BY <3>1, <3>2, DownCore
  <2> QED  BY <2>1, <2>2, <2>3, <2>4
<1>4. CASE SimStarts
  <2>1. UNCHANGED <<entry, sock, run>>  BY <1>4 DEF SimStarts
  <2>2. Rest'  BY <1>0, <1>4 DEF SimStarts, Rest, NewSim
  <2> QED
    BY <2>1, <2>2
    DEF Core, OneUpstream, AttachedIsTrying, HeldIsConnected, Holding
<1>5. CASE SimExits
  <2>1. Rest' /\ run' = run  BY <1>0, <1>5 DEF SimExits, NoSim, NewSim, Rest
  <2> QED  BY <1>5, <2>1, DroppedCore DEF SimExits
<1>6. CASE ContainerMoves
  <2>1. sim' \in [up : BOOLEAN, serves : Sockets \cup {None},
                   ds : [DsFlags -> BOOLEAN]]
    BY <1>0, <1>6 DEF ContainerMoves, NoSim, NewSim, Rest
  <2>2. /\ url' \in Urls /\ run' = run /\ asked' = asked
        /\ spent' \in [patches : Nat, starts : Nat, faults : Nat]
    BY <1>0, <1>6 DEF ContainerMoves, NoSim, NewSim, Rest
  <2>3. Rest' /\ run' = run  BY <1>0, <2>1, <2>2 DEF Rest
  <2> QED  BY <1>6, <2>3, DroppedCore DEF ContainerMoves
<1>7. CASE RunReady \/ RunEnds
  <2>1. UNCHANGED <<entry, sock>>  BY <1>7 DEF RunReady, RunEnds
  <2>2. /\ Rest'
        /\ run' \in {run, "idle"} \/ (run = "starting" /\ run' = "running")
    BY <1>0, <1>7 DEF RunReady, RunEnds, Rest
  <2> QED
    BY <2>1, <2>2
    DEF Core, OneUpstream, AttachedIsTrying, HeldIsConnected, Holding
<1>8. CASE Poll
  <2>1. Rest' /\ run' = run /\ url \in Urls  BY <1>0, <1>8 DEF Poll, Rest
  <2>2. EnsureConnected(url) \/ Disconnect  BY <1>8 DEF Poll
  <2> QED  BY <2>1, <2>2, EnsureCore, DisconnectCore
<1>9. ASSUME NEW p \in Patches, PatchArrives(p)
      PROVE  Core' /\ Rest' /\ (Holding' => Holding) /\ run' = run
  <2>1. UNCHANGED <<entry, sock, run>>  BY <1>9 DEF PatchArrives
  <2>2. Rest'  BY <1>0, <1>9 DEF PatchArrives, Rest
  <2> QED
    BY <2>1, <2>2
    DEF Core, OneUpstream, AttachedIsTrying, HeldIsConnected, Holding
<1>10. ASSUME NEW p \in Patches, PatchApplies(p)
       PROVE  Core' /\ Rest' /\ (Holding' => Holding) /\ run' = run
  <2>1. Rest' /\ run' = run /\ url \in Urls
    BY <1>0, <1>10 DEF PatchApplies, Rest
  <2> QED  BY <1>10, <2>1, PatchCore DEF PatchApplies
<1> QED
  BY <1>1, <1>2, <1>3, <1>4, <1>5, <1>6, <1>7, <1>8, <1>9, <1>10
  DEF BridgeOnly

----------------------------------------------------------------------------
(* The tab, the channels and the session.                                  *)

\* What a step leaves to be shown once the bridge's part is known.
PadInv == PadType /\ ChannelInv /\ tab.seq <= inputs /\ SessionHasChannel

LEMMA MessageType ==
    /\ [kind |-> "select"] \in Messages /\ [kind |-> "release"] \in Messages
    /\ \A n \in Sequence, h \in BOOLEAN :
          [kind |-> "state", seq |-> n, held |-> h] \in Messages
BY DEF Messages

LEMMA SaysPad ==
    ASSUME PadInv, NEW m \in Messages, Says(m)
    PROVE  /\ chan' \in [Channels -> [st : {"free", "open", "left"},
                                      q : Seq(Messages)]]
           /\ \A c \in Channels : chan'[c].st = chan[c].st
           /\ \A c \in Channels : chan'[c].q # <<>> => chan[c].st # "free"
<1>1. CASE tab.chan = None
  <2>1. chan' = chan  BY <1>1 DEF Says
  <2> QED  BY <2>1 DEF PadInv, PadType, ChannelInv
<1>2. CASE tab.chan # None
  <2> DEFINE k == tab.chan
  <2>1. k \in Channels /\ chan[k].st = "open"
    BY <1>2 DEF PadInv, PadType, ChannelInv
  <2>2. chan[k].q \in Seq(Messages)  BY <2>1 DEF PadInv, PadType
  <2>3. Append(chan[k].q, m) \in Seq(Messages)  BY <2>2
  <2>4. chan' = [chan EXCEPT ![k].q = Append(@, m)]  BY <1>2 DEF Says
  <2> QED  BY <2>1, <2>3, <2>4 DEF PadInv, PadType, ChannelInv
<1> QED  BY <1>1, <1>2

\* A step that says m on the tab's channel, and may change the tab otherwise.
LEMMA TabSays ==
    ASSUME PadInv, NEW m \in Messages, Says(m), Input, UNCHANGED session,
           tab' \in [chan : Channels \cup {None}, selected : BOOLEAN,
                     seq : Sequence],
           tab'.chan = tab.chan, tab'.seq <= inputs + 1
    PROVE  PadInv'
<1>1. /\ chan' \in [Channels -> [st : {"free", "open", "left"},
                                 q : Seq(Messages)]]
      /\ \A c \in Channels : chan'[c].st = chan[c].st
      /\ \A c \in Channels : chan'[c].q # <<>> => chan[c].st # "free"
  BY SaysPad
<1>2. inputs' \in Sequence /\ inputs' = inputs + 1
  BY GamepadAssumption DEF PadInv, PadType, Input, Sequence
<1>3. PadType'  BY <1>1, <1>2 DEF PadInv, PadType
<1>4. tab.chan # None => tab.chan \in Channels  BY DEF PadInv, PadType
<1>5. ChannelInv'  BY <1>1, <1>4 DEF PadInv, ChannelInv
<1>6. SessionHasChannel'  BY <1>1 DEF PadInv, SessionHasChannel
<1> QED  BY <1>2, <1>3, <1>5, <1>6 DEF PadInv

TabSteps == TabConnects \/ TabSelects \/ TabReleases \/ TabPushes \/ TabLoses

LEMMA TabStep ==
    ASSUME PadInv, TabSteps
    PROVE  PadInv' /\ UNCHANGED <<session, bridgeVars>>
<1>0. /\ tab \in [chan : Channels \cup {None}, selected : BOOLEAN,
                  seq : Sequence]
      /\ tab.seq \in Sequence /\ tab.seq <= inputs /\ inputs \in Sequence
      /\ 0 \in Sequence
  BY GamepadAssumption DEF PadInv, PadType, Sequence
<1>1. CASE TabConnects
  <2>1. PICK c \in Channels :
          /\ chan[c].st = "free"
          /\ tab' = [tab EXCEPT !.chan = c,
                                !.seq = IF tab.selected THEN 0 ELSE @]
          /\ chan' = [chan EXCEPT ![c] =
                        [st |-> "open",
                         q |-> IF tab.selected THEN <<[kind |-> "select"]>>
                               ELSE <<>>]]
    BY <1>1 DEF TabConnects
  <2>2. UNCHANGED <<session, inputs, bridgeVars>>  BY <1>1 DEF TabConnects
  <2>3. \A q : q = (IF tab.selected THEN <<[kind |-> "select"]>> ELSE <<>>)
               => q \in Seq(Messages)
    BY MessageType
  <2>4. /\ chan' \in [Channels -> [st : {"free", "open", "left"},
                                   q : Seq(Messages)]]
        /\ chan'[c].st = "open"
        /\ \A k \in Channels : k # c => chan'[k] = chan[k]
    BY <2>1, <2>3 DEF PadInv, PadType
  <2>5. /\ tab' \in [chan : Channels \cup {None}, selected : BOOLEAN,
                     seq : Sequence]
        /\ tab'.chan = c /\ tab'.seq <= inputs
    <3> DEFINE n == IF tab.selected THEN 0 ELSE tab.seq
    <3>1. n \in Sequence /\ n <= inputs  BY <1>0 DEF Sequence
    <3>2. tab' = [tab EXCEPT !.chan = c, !.seq = n]  BY <2>1
    <3>3. tab'.chan = c /\ tab'.seq = n  BY <1>0, <3>2
    <3>4. c \in Channels \cup {None}  OBVIOUS
    <3> HIDE DEF n
    <3> QED  BY <1>0, <3>1, <3>2, <3>3, <3>4
  <2>6. PadType' /\ tab'.seq <= inputs'  BY <2>2, <2>4, <2>5 DEF PadInv, PadType
  <2>7. ChannelInv'  BY <2>4, <2>5 DEF PadInv, ChannelInv
  <2>8. SessionHasChannel'  BY <2>2, <2>4 DEF PadInv, SessionHasChannel
  <2> QED  BY <2>2, <2>6, <2>7, <2>8 DEF PadInv
<1>2. CASE TabSelects
  <2>1. /\ Says([kind |-> "select"]) /\ Input
        /\ UNCHANGED <<session, bridgeVars>>
        /\ tab' = [tab EXCEPT !.selected = TRUE, !.seq = 0]
    BY <1>2 DEF TabSelects
  <2>2. /\ tab' \in [chan : Channels \cup {None}, selected : BOOLEAN,
                     seq : Sequence]
        /\ tab'.chan = tab.chan /\ tab'.seq <= inputs + 1
    <3>1. /\ tab' \in [chan : Channels \cup {None}, selected : BOOLEAN,
                       seq : Sequence]
          /\ tab'.chan = tab.chan /\ tab'.seq = 0
      BY <1>0, <2>1
    <3>2. 0 <= inputs + 1  BY <1>0 DEF Sequence
    <3> QED  BY <3>1, <3>2
  <2> QED  BY <2>1, <2>2, MessageType, TabSays
<1>3. CASE TabReleases
  <2>1. /\ Says([kind |-> "release"]) /\ Input
        /\ UNCHANGED <<session, bridgeVars>>
        /\ tab' = [tab EXCEPT !.selected = FALSE]
    BY <1>3 DEF TabReleases
  <2>2. /\ tab' \in [chan : Channels \cup {None}, selected : BOOLEAN,
                     seq : Sequence]
        /\ tab'.chan = tab.chan /\ tab'.seq <= inputs + 1
    <3>1. /\ tab' \in [chan : Channels \cup {None}, selected : BOOLEAN,
                       seq : Sequence]
          /\ tab'.chan = tab.chan /\ tab'.seq = tab.seq
      BY <1>0, <2>1
    <3>2. tab.seq <= inputs + 1  BY <1>0 DEF Sequence
    <3> QED  BY <3>1, <3>2
  <2> QED  BY <2>1, <2>2, MessageType, TabSays
<1>4. CASE TabPushes
  <2>1. PICK held \in BOOLEAN :
          Says([kind |-> "state", seq |-> tab.seq + 1, held |-> held])
    BY <1>4 DEF TabPushes
  <2>2. /\ Input /\ UNCHANGED <<session, bridgeVars>>
        /\ tab' = [tab EXCEPT !.seq = @ + 1]
    BY <1>4 DEF TabPushes
  <2>3. tab.seq + 1 \in Sequence /\ tab.seq + 1 <= inputs + 1
    BY <1>0, <2>2, GamepadAssumption DEF Input, Sequence
  <2>4. /\ tab' \in [chan : Channels \cup {None}, selected : BOOLEAN,
                     seq : Sequence]
        /\ tab'.chan = tab.chan /\ tab'.seq <= inputs + 1
    BY <1>0, <2>2, <2>3
  <2> QED  BY <2>1, <2>2, <2>3, <2>4, MessageType, TabSays
<1>5. CASE TabLoses
  <2> DEFINE k == tab.chan
  <2>1. /\ k # None /\ Input /\ UNCHANGED <<session, bridgeVars>>
        /\ tab' = [tab EXCEPT !.chan = None]
        /\ chan' \in {[chan EXCEPT ![k].st = "left"],
                      [chan EXCEPT ![k] = [st |-> "left", q |-> <<>>]]}
    BY <1>5 DEF TabLoses
  <2>2. k \in Channels  BY <1>0, <2>1
  <2>3. <<>> \in Seq(Messages)  OBVIOUS
  <2>4. /\ chan' \in [Channels -> [st : {"free", "open", "left"},
                                   q : Seq(Messages)]]
        /\ chan'[k].st = "left"
        /\ \A c \in Channels : c # k => chan'[c] = chan[c]
    <3>1. /\ chan \in [Channels -> [st : {"free", "open", "left"},
                                    q : Seq(Messages)]]
          /\ chan[k] \in [st : {"free", "open", "left"}, q : Seq(Messages)]
      BY <2>2 DEF PadInv, PadType
    <3>2. PICK r \in [st : {"free", "open", "left"}, q : Seq(Messages)] :
             r.st = "left" /\ chan' = [chan EXCEPT ![k] = r]
      <4>1. CASE chan' = [chan EXCEPT ![k].st = "left"]
        <5>1. chan' = [chan EXCEPT ![k] = [chan[k] EXCEPT !.st = "left"]]
          BY <4>1
        <5>2. [chan[k] EXCEPT !.st = "left"]
                 \in [st : {"free", "open", "left"}, q : Seq(Messages)]
          BY <3>1
        <5>3. [chan[k] EXCEPT !.st = "left"].st = "left"  BY <3>1
        <5> QED  BY <5>1, <5>2, <5>3
      <4>2. CASE chan' = [chan EXCEPT ![k] = [st |-> "left", q |-> <<>>]]
        BY <2>3, <4>2
      <4> QED  BY <2>1, <4>1, <4>2
    <3> QED  BY <2>2, <3>1, <3>2
  <2>5. /\ tab' \in [chan : Channels \cup {None}, selected : BOOLEAN,
                     seq : Sequence]
        /\ tab'.chan = None /\ tab'.seq = tab.seq
    BY <1>0, <2>1
  <2>6. inputs' \in Sequence /\ inputs' = inputs + 1
    BY <1>0, <2>1, GamepadAssumption DEF Input, Sequence
  <2>7. PadType' /\ tab'.seq <= inputs'
    <3>1. tab'.seq <= inputs'  BY <1>0, <2>5, <2>6 DEF Sequence
    <3> QED  BY <2>1, <2>4, <2>5, <2>6, <3>1 DEF PadInv, PadType
  <2>8. ChannelInv'  BY <2>4, <2>5 DEF PadInv, ChannelInv
  <2>9. SessionHasChannel'  BY <2>1, <2>2, <2>4 DEF PadInv, SessionHasChannel
  <2> QED  BY <2>1, <2>7, <2>8, <2>9 DEF PadInv
<1> QED  BY <1>1, <1>2, <1>3, <1>4, <1>5 DEF TabSteps

\* The channel half of what the control plane does with one: c has lost a
\* message, or it is free again.
LEMMA ChannelRead ==
    ASSUME PadInv, NEW c \in Channels, chan[c].q # <<>>,
           chan' = [chan EXCEPT ![c].q = Tail(@)], UNCHANGED <<tab, inputs>>,
           session' \in [there : BOOLEAN, selected : BOOLEAN,
                         lastSeq : Sequence]
    PROVE  PadInv'
<1>1. /\ chan \in [Channels -> [st : {"free", "open", "left"},
                                q : Seq(Messages)]]
      /\ chan[c] \in [st : {"free", "open", "left"}, q : Seq(Messages)]
      /\ chan[c].q \in Seq(Messages)
  BY DEF PadInv, PadType
<1>2. Tail(chan[c].q) \in Seq(Messages)  BY <1>1
<1>3. /\ chan' \in [Channels -> [st : {"free", "open", "left"},
                                 q : Seq(Messages)]]
      /\ \A k \in Channels : chan'[k].st = chan[k].st
      /\ \A k \in Channels : k # c => chan'[k] = chan[k]
  BY <1>1, <1>2
<1>4. chan[c].st # "free"  BY DEF PadInv, ChannelInv
<1>5. PadType'  BY <1>3 DEF PadInv, PadType
<1>6. tab.chan # None => tab.chan \in Channels  BY DEF PadInv, PadType
<1>7. ChannelInv'  BY <1>3, <1>4, <1>6 DEF PadInv, ChannelInv
<1>8. SessionHasChannel'  BY <1>3, <1>4 DEF SessionHasChannel
<1> QED  BY <1>5, <1>7, <1>8 DEF PadInv

LEMMA ChannelFreed ==
    ASSUME PadInv, NEW c \in Channels, chan[c].st = "left",
           chan' = [chan EXCEPT ![c] = FreeChannel], UNCHANGED <<tab, inputs>>,
           session' = NoSession
    PROVE  PadInv'
<1>1. <<>> \in Seq(Messages)  OBVIOUS
<1>2. /\ chan' \in [Channels -> [st : {"free", "open", "left"},
                                 q : Seq(Messages)]]
      /\ chan'[c].q = <<>>
      /\ \A k \in Channels : k # c => chan'[k] = chan[k]
  BY <1>1 DEF PadInv, PadType, FreeChannel
<1>3. /\ session' \in [there : BOOLEAN, selected : BOOLEAN, lastSeq : Sequence]
      /\ ~session'.there
  BY GamepadAssumption DEF NoSession, Sequence
<1>4. PadType'  BY <1>2, <1>3 DEF PadInv, PadType
<1>5. tab.chan # None => tab.chan \in Channels \ {c}
  BY DEF PadInv, PadType, ChannelInv
<1>6. ChannelInv'  BY <1>2, <1>5 DEF PadInv, ChannelInv
<1>7. SessionHasChannel'  BY <1>3 DEF SessionHasChannel
<1> QED  BY <1>4, <1>6, <1>7 DEF PadInv

\* The robot is let go of when a selection ends.
LEMMA SafetyCore ==
    ASSUME Core, Rest, SafetyRelease
    PROVE  Core' /\ Rest' /\ run' = run /\ (Holding' => Holding /\ ~Leased)
<1>1. Rest' /\ run' = run /\ url \in Urls  BY DEF SafetyRelease, Rest
<1>2. CASE Leased /\ ReleaseJoystick(url)
  BY <1>1, <1>2, ReleaseCore
<1>3. CASE ~Leased /\ UNCHANGED <<entry, sock>>
  BY <1>1, <1>3
  DEF Core, OneUpstream, AttachedIsTrying, HeldIsConnected, Holding
<1> QED  BY <1>2, <1>3 DEF SafetyRelease

LEMMA QuietCore ==
    ASSUME Core, Rest, UNCHANGED bridgeVars
    PROVE  Core' /\ Rest' /\ run' = run /\ (Holding' <=> Holding)
BY DEF bridgeVars, Core, Rest, OneUpstream, AttachedIsTrying,
       HeldIsConnected, Holding

LEMMA EndSelectionCore ==
    ASSUME Core, Rest, HoldingInv, EndSelection(session.selected)
    PROVE  Core' /\ Rest' /\ HoldingInv'
<1>1. CASE session.selected
  <2>1. SafetyRelease  BY <1>1 DEF EndSelection
  <2>2. Core' /\ Rest' /\ run' = run /\ (Holding' => Holding /\ ~Leased)
    BY <2>1, SafetyCore
  <2> QED  BY <2>2 DEF HoldingInv, Leased
<1>2. CASE ~session.selected
  <2>1. UNCHANGED bridgeVars  BY <1>2 DEF EndSelection
  <2>2. Core' /\ Rest' /\ run' = run /\ (Holding' <=> Holding)
    BY <2>1, QuietCore
  <2> QED  BY <1>2, <2>2 DEF HoldingInv
<1> QED  BY <1>1, <1>2

LEMMA StateCore ==
    ASSUME Core, Rest, HoldingInv, NEW m \in Messages, m.kind = "state",
           HandleState(m), PadType
    PROVE  /\ Core' /\ Rest' /\ HoldingInv'
           /\ session' \in [there : BOOLEAN, selected : BOOLEAN,
                            lastSeq : Sequence]
<1>0. /\ session \in [there : BOOLEAN, selected : BOOLEAN, lastSeq : Sequence]
      /\ m.seq \in Sequence /\ m.held \in BOOLEAN /\ url \in Urls
  BY DEF PadType, Messages, Rest
<1>1. CASE Stale(m) /\ session' = [session EXCEPT !.there = TRUE]
           /\ UNCHANGED bridgeVars
  <2>1. /\ session' \in [there : BOOLEAN, selected : BOOLEAN,
                         lastSeq : Sequence]
        /\ session'.selected = session.selected
    BY <1>0, <1>1
  <2>2. Core' /\ Rest' /\ run' = run /\ (Holding' <=> Holding)
    BY <1>1, QuietCore
  <2> QED  BY <2>1, <2>2 DEF HoldingInv
<1>2. CASE /\ ~Stale(m) /\ session' = [session EXCEPT !.lastSeq = m.seq]
           /\ Leased /\ ApplyJoystickState(url, m.held)
           /\ UNCHANGED <<sim, url, run, asked, spent>>
  <2>1. /\ session' \in [there : BOOLEAN, selected : BOOLEAN,
                         lastSeq : Sequence]
        /\ session'.selected
    BY <1>0, <1>2 DEF Stale
  <2>2. Core'  BY <1>0, <1>2, JoystickCore
  <2>3. Rest' /\ run' = "running"  BY <1>2 DEF Rest, Leased
  <2> QED  BY <2>1, <2>2, <2>3 DEF HoldingInv
<1>3. CASE /\ ~Stale(m) /\ session' = [session EXCEPT !.lastSeq = m.seq]
           /\ ~Leased /\ UNCHANGED <<entry, sock>>
           /\ UNCHANGED <<sim, url, run, asked, spent>>
  <2>1. /\ session' \in [there : BOOLEAN, selected : BOOLEAN,
                         lastSeq : Sequence]
        /\ session'.selected = session.selected
    BY <1>0, <1>3
  <2>2. Core' /\ Rest' /\ run' = run /\ (Holding' <=> Holding)
    BY <1>3, QuietCore DEF bridgeVars
  <2> QED  BY <2>1, <2>2 DEF HoldingInv
<1> QED  BY <1>1, <1>2, <1>3 DEF HandleState

----------------------------------------------------------------------------
(* The invariant.                                                          *)

LEMMA InvParts == IInv <=> PadInv /\ Core /\ Rest /\ HoldingInv
BY Parts DEF IInv, PadInv, Core

LEMMA InvPartsNext == IInv' <=> PadInv' /\ Core' /\ Rest' /\ HoldingInv'
BY PartsNext DEF IInv, PadInv, Core

LEMMA InitInv == Init => IInv
<1> SUFFICES ASSUME Init PROVE IInv
  OBVIOUS
<1> USE DEF Init, BridgeInit
<1>1. url \in Urls /\ NewEntry(url) \in Entries  BY EmptyHanded
<1>2. /\ entry \in Entries /\ ~entry.attached /\ ~entry.timer
      /\ entry.sock = None /\ entry.conn = "disconnected"
  BY <1>1 DEF NewEntry, Entries
<1>3. sock \in [Sockets -> SocketStates] /\ OneUpstream
  BY EmptyHanded DEF OneUpstream
<1>4. AttachedIsTrying  BY <1>2 DEF AttachedIsTrying
<1>5. Core /\ HoldingInv
  BY <1>2, <1>3, <1>4 DEF Core, HeldIsConnected, HoldingInv, Holding
<1>6. Rest
  <2>1. sim \in [up : BOOLEAN, serves : Sockets \cup {None},
                ds : [DsFlags -> BOOLEAN]]
    BY DEF NoSim, NewSim
  <2> QED  BY <2>1 DEF Rest
<1>7. <<>> \in Seq(Messages)  OBVIOUS
<1>8. PadType  BY <1>7, GamepadAssumption
               DEF PadType, NoSession, FreeChannel, Sequence
<1>9. ChannelInv /\ tab.seq <= inputs /\ SessionHasChannel
  BY DEF ChannelInv, SessionHasChannel, NoSession, FreeChannel
<1> QED  BY <1>5, <1>6, <1>8, <1>9, InvParts DEF PadInv

\* A step of the bridge or of the runs leaves the channels and the tab alone.
LEMMA PadQuiet ==
    ASSUME PadInv, UNCHANGED <<chan, tab, inputs>>,
           Reset \/ UNCHANGED session
    PROVE  PadInv'
<1>1. /\ session' \in [there : BOOLEAN, selected : BOOLEAN, lastSeq : Sequence]
      /\ session'.there = session.there
  <2>1. session \in [there : BOOLEAN, selected : BOOLEAN, lastSeq : Sequence]
    BY DEF PadInv, PadType
  <2>2. 0 \in Sequence  BY GamepadAssumption DEF Sequence
  <2>3. CASE Reset  BY <2>1, <2>2, <2>3 DEF Reset
  <2>4. CASE UNCHANGED session  BY <2>1, <2>4
  <2> QED  BY <2>3, <2>4
<1>2. PadType'  BY <1>1 DEF PadInv, PadType
<1>3. ChannelInv'  BY DEF PadInv, ChannelInv
<1>4. SessionHasChannel'  BY <1>1 DEF PadInv, SessionHasChannel
<1>5. tab'.seq <= inputs'  BY DEF PadInv
<1> QED  BY <1>2, <1>3, <1>4, <1>5 DEF PadInv

\* Everything a step may be.
Steps == \/ BridgeOnly /\ UNCHANGED padVars
         \/ Starts \/ Stops \/ TabSteps
         \/ \E c \in Channels : ChannelMessage(c)
         \/ \E c \in Channels : ChannelCloses(c)
         \/ UNCHANGED vars

LEMMA StepInv == IInv /\ [Next]_vars => IInv'
<1> SUFFICES ASSUME IInv, [Next]_vars PROVE IInv'
  OBVIOUS
<1>0. PadInv /\ Core /\ Rest /\ HoldingInv /\ TypeOK
  BY InvParts DEF IInv
<1>1. CASE BridgeOnly /\ UNCHANGED padVars
  <2>1. /\ Core' /\ Rest' /\ (Holding' => Holding)
        /\ run' \in {run, "idle"} \/ (run = "starting" /\ run' = "running")
    BY <1>0, <1>1, BridgeStep
  <2>2. UNCHANGED <<session, chan, tab, inputs>>  BY <1>1 DEF padVars
  <2>3. HoldingInv'  BY <1>0, <2>1, <2>2 DEF HoldingInv
  <2>4. PadInv'  BY <1>0, <2>2, PadQuiet
  <2> QED  BY <2>1, <2>3, <2>4, InvPartsNext
<1>2. CASE Starts
  <2>1. Disconnect  BY <1>2 DEF Starts, StartRun
  <2>2. Core' /\ ~Holding'  BY <1>0, <2>1, DisconnectCore
  <2>3. Rest'  BY <1>0, <1>2 DEF Starts, StartRun, Rest
  <2>4. PadInv'  BY <1>0, <1>2, PadQuiet DEF Starts
  <2> QED  BY <2>2, <2>3, <2>4, InvPartsNext DEF HoldingInv
<1>3. CASE Stops
  <2>1. Disconnect  BY <1>3 DEF Stops, StopRun
  <2>2. Core' /\ ~Holding'  BY <1>0, <2>1, DisconnectCore
  <2>3. Rest'  BY <1>0, <1>3 DEF Stops, StopRun, Rest
  <2>4. PadInv'  BY <1>0, <1>3, PadQuiet DEF Stops
  <2> QED  BY <2>2, <2>3, <2>4, InvPartsNext DEF HoldingInv
<1>4. CASE TabSteps
  <2>1. PadInv' /\ UNCHANGED <<session, bridgeVars>>  BY <1>0, <1>4, TabStep
  <2>2. Core' /\ Rest' /\ run' = run /\ (Holding' <=> Holding)
    BY <1>0, <2>1, QuietCore
  <2>3. HoldingInv'  BY <1>0, <2>1, <2>2 DEF HoldingInv
  <2> QED  BY <2>1, <2>2, <2>3, InvPartsNext
<1>5. ASSUME NEW c \in Channels, ChannelMessage(c) PROVE IInv'
  <2> DEFINE m == Head(chan[c].q)
  <2>1. /\ chan[c].q # <<>> /\ chan' = [chan EXCEPT ![c].q = Tail(@)]
        /\ UNCHANGED <<tab, inputs>>
        /\ \/ HandleSelect
           \/ HandleRelease
           \/ m.kind = "state" /\ HandleState(m)
    BY <1>5 DEF ChannelMessage
  <2>2. m \in Messages
    <3>1. chan[c].q \in Seq(Messages)  BY <1>0 DEF PadInv, PadType
    <3> QED  BY <2>1, <3>1
  <2>3. /\ Core' /\ Rest' /\ HoldingInv'
        /\ session' \in [there : BOOLEAN, selected : BOOLEAN,
                         lastSeq : Sequence]
    <3>1. CASE HandleSelect
      <4>1. Core' /\ Rest' /\ run' = run /\ (Holding' <=> Holding)
        BY <1>0, <3>1, QuietCore DEF HandleSelect
      <4>2. /\ session' \in [there : BOOLEAN, selected : BOOLEAN,
                             lastSeq : Sequence]
            /\ session'.selected
        BY <3>1, GamepadAssumption DEF HandleSelect, Sequence
      <4> QED  BY <1>0, <4>1, <4>2 DEF HoldingInv
    <3>2. CASE HandleRelease
      <4>1. Core' /\ Rest' /\ HoldingInv'
        BY <1>0, <3>2, EndSelectionCore DEF HandleRelease
      <4>2. session' \in [there : BOOLEAN, selected : BOOLEAN,
                          lastSeq : Sequence]
        BY <3>2, GamepadAssumption DEF HandleRelease, Sequence
      <4> QED  BY <4>1, <4>2
    <3>3. CASE m.kind = "state" /\ HandleState(m)
      <4>1. PadType  BY <1>0 DEF PadInv
      <4> HIDE DEF m
      <4> QED  BY <1>0, <2>2, <3>3, <4>1, StateCore
    <3> QED  BY <2>1, <3>1, <3>2, <3>3
  <2>4. PadInv'  BY <1>0, <2>1, <2>3, ChannelRead
  <2> QED  BY <2>3, <2>4, InvPartsNext
<1>6. ASSUME NEW c \in Channels, ChannelCloses(c) PROVE IInv'
  <2>1. Core' /\ Rest' /\ HoldingInv'
    BY <1>0, <1>6, EndSelectionCore DEF ChannelCloses
  <2>2. PadInv'  BY <1>0, <1>6, ChannelFreed DEF ChannelCloses
  <2> QED  BY <2>1, <2>2, InvPartsNext
<1>7. CASE UNCHANGED vars
  <2>1. UNCHANGED bridgeVars /\ UNCHANGED <<session, chan, tab, inputs>>
    BY <1>7 DEF vars, padVars
  <2>2. Core' /\ Rest' /\ run' = run /\ (Holding' <=> Holding)
    BY <1>0, <2>1, QuietCore
  <2>3. HoldingInv'  BY <1>0, <2>1, <2>2 DEF HoldingInv
  <2>4. PadInv'  BY <1>0, <2>1, PadQuiet
  <2> QED  BY <2>2, <2>3, <2>4, InvPartsNext
<1>8. Steps  BY DEF Next, TabSteps, Steps
<1> QED
  BY <1>1, <1>2, <1>3, <1>4, <1>5, <1>6, <1>7, <1>8 DEF Steps

\* The invariant holds in every reachable state.
THEOREM Invariant == Spec => []IInv
<1>1. Init => IInv  BY InitInv
<1>2. IInv /\ [Next]_vars => IInv'  BY StepInv
<1> QED  BY <1>1, <1>2, PTL DEF Spec

\* Sockets, sessions, channels and the simulator keep their types.
THEOREM TypeCorrect == Spec => []TypeOK
<1>1. IInv => TypeOK  BY DEF IInv
<1> QED  BY <1>1, Invariant, PTL

\* However closes, timers, new endpoints and operations interleave, the bridge
\* never has two upstream connections (the stale guards of open in
\* ws-bridge.ts).
THEOREM OneUpstreamHolds == Spec => []OneUpstream
<1>1. IInv => OneUpstream  BY DEF IInv, Core
<1> QED  BY <1>1, Invariant, PTL

\* The bridge is never stuck: attached, it has a socket or a timer, and it
\* takes itself for connected only on an open socket (halsim.ts).
THEOREM AttachedIsTryingHolds == Spec => []AttachedIsTrying
<1>1. IInv => AttachedIsTrying  BY DEF IInv, Core
<1> QED  BY <1>1, Invariant, PTL

\* No stick or button is held on a running robot without a controller that is
\* selected (safetyRelease in gamepad.ts).
THEOREM HeldIsSelectedHolds == Spec => []HeldIsSelected
<1>1. IInv => HeldIsSelected
  <2> SUFFICES ASSUME IInv, entry.conn = "connected", run = "running",
                      sock[entry.sock].held
               PROVE  session.selected
    BY DEF HeldIsSelected
  <2>1. entry.sock # None  BY DEF IInv, Core, AttachedIsTrying
  <2> QED  BY <2>1 DEF IInv, HoldingInv, Holding
<1> QED  BY <1>1, Invariant, PTL

\* No session outlives the gamepad sockets of its workspace (closeSession in
\* gamepad.ts).
THEOREM SessionHasChannelHolds == Spec => []SessionHasChannel
<1>1. IInv => SessionHasChannel  BY DEF IInv
<1> QED  BY <1>1, Invariant, PTL

----------------------------------------------------------------------------
(* The cached state.                                                       *)

\* A frame of q carries the flag d, all of those that do agree on v, and the
\* last of those that do says v.
Carries(q, d)   == \E i \in 1 .. Len(q) : Has(q[i], d)
Agrees(q, d, v) == \A i \in 1 .. Len(q) : Has(q[i], d) => q[i][d] = v
EndsWith(q, d, v) ==
    \A i \in 1 .. Len(q) :
        Has(q[i], d) => q[i][d] = v \/ \E j \in 1 .. Len(q) : i < j /\ Has(q[j], d)

\* Of the cache ds, the simulator sd and the frames under way in and out: the
\* last report of a flag is true, and where none is to come, neither from what
\* is under way nor for a command that changes the flag, the cache is right.
Settled(ds, in, out, sd) ==
    /\ EndsWith(in, "enabled", sd["enabled"]) /\ EndsWith(in, "estop", sd["estop"])
    /\ ~Carries(in, "estop") /\ Agrees(out, "estop", sd["estop"])
          => ds.estop = sd["estop"]
    /\ ~Carries(in, "enabled") /\ Agrees(out, "enabled", sd["enabled"])
          => (ds.enabled => sd["enabled"])

ServesInv ==
    /\ sim.serves # None => sock[sim.serves].net = "up"
    /\ \A s \in Sockets : sock[s].ready = "free" => sock[s].net = "down"

\* The connection of the entry is one that the bridge still wants.
OwnInv == entry.sock # None => sock[entry.sock].ready \in {"connecting", "open"}

CacheInv ==
    /\ ServesInv /\ OwnInv
    /\ entry.sock # None /\ sim.serves = entry.sock
       => Settled(entry.ds, sock[entry.sock].in, sock[entry.sock].out, sim.ds)

LEMMA Joined ==
    ASSUME NEW p \in Seq(Frames), NEW q \in Seq(Frames), NEW d, NEW v
    PROVE  /\ Carries(p \o q, d) <=> Carries(p, d) \/ Carries(q, d)
           /\ Agrees(p \o q, d, v) <=> Agrees(p, d, v) /\ Agrees(q, d, v)
           /\ Agrees(q, d, v) /\ (Carries(q, d) \/ EndsWith(p, d, v))
                 => EndsWith(p \o q, d, v)
<1> DEFINE r == p \o q
<1>1. /\ Len(r) = Len(p) + Len(q) /\ Len(p) \in Nat /\ Len(q) \in Nat
      /\ \A i \in 1 .. Len(p) : r[i] = p[i]
      /\ \A i \in 1 .. Len(q) : r[Len(p) + i] = q[i]
  OBVIOUS
<1> HIDE DEF r
<1>2. \A i \in 1 .. Len(p) : i \in 1 .. Len(r)
  BY <1>1
<1>3. \A i \in 1 .. Len(q) : Len(p) + i \in 1 .. Len(r)
  BY <1>1
<1>4. \A i \in 1 .. Len(r) : \/ i \in 1 .. Len(p)
                            \/ \E k \in 1 .. Len(q) : i = Len(p) + k
  <2>1. ASSUME NEW i \in 1 .. Len(r), i \notin 1 .. Len(p)
        PROVE  i - Len(p) \in 1 .. Len(q) /\ i = Len(p) + (i - Len(p))
    BY <1>1, <2>1
  <2>. QED
    BY <2>1
<1>5. Carries(r, d) <=> Carries(p, d) \/ Carries(q, d)
  BY <1>1, <1>2, <1>3, <1>4 DEF Carries
<1>6. Agrees(r, d, v) <=> Agrees(p, d, v) /\ Agrees(q, d, v)
  <2>1. ASSUME Agrees(r, d, v) PROVE Agrees(p, d, v) /\ Agrees(q, d, v)
    BY <1>1, <1>2, <1>3, <2>1 DEF Agrees
  <2>2. ASSUME Agrees(p, d, v), Agrees(q, d, v), NEW i \in 1 .. Len(r), Has(r[i], d)
        PROVE  r[i][d] = v
    <3>1. CASE i \in 1 .. Len(p)
      BY <1>1, <2>2, <3>1 DEF Agrees
    <3>2. ASSUME NEW k \in 1 .. Len(q), i = Len(p) + k PROVE r[i][d] = v
      BY <1>1, <2>2, <3>2 DEF Agrees
    <3>. QED
      BY <1>4, <3>1, <3>2
  <2>. QED
    BY <2>1, <2>2 DEF Agrees
<1>7. ASSUME Agrees(q, d, v), Carries(q, d) \/ EndsWith(p, d, v)
      PROVE  EndsWith(r, d, v)
  <2> SUFFICES ASSUME NEW i \in 1 .. Len(r), Has(r[i], d), r[i][d] # v
               PROVE  \E j \in 1 .. Len(r) : i < j /\ Has(r[j], d)
    BY DEF EndsWith
  <2>1. ASSUME NEW k \in 1 .. Len(q), i = Len(p) + k PROVE FALSE
    BY <1>1, <1>7, <2>1 DEF Agrees
  <2>2. i \in 1 .. Len(p) /\ r[i] = p[i]
    BY <1>1, <1>4, <2>1
  <2>3. CASE Carries(q, d)
    <3>1. PICK k \in 1 .. Len(q) : Has(q[k], d)
      BY <2>3 DEF Carries
    <3>2. i < Len(p) + k /\ r[Len(p) + k] = q[k]
      BY <1>1, <2>2
    <3>. QED
      BY <1>3, <3>1, <3>2
  <2>4. CASE EndsWith(p, d, v)
    <3>1. PICK j \in 1 .. Len(p) : i < j /\ Has(p[j], d)
      BY <2>2, <2>4 DEF EndsWith
    <3>. QED
      BY <1>1, <1>2, <3>1
  <2>. QED
    BY <1>7, <2>3, <2>4
<1>. QED
  BY <1>5, <1>6, <1>7 DEF r

LEMMA Popped ==
    ASSUME NEW q \in Seq(Frames), q # <<>>, NEW d, NEW v
    PROVE  /\ Tail(q) \in Seq(Frames) /\ Head(q) \in Frames
           /\ Carries(q, d) <=> Has(Head(q), d) \/ Carries(Tail(q), d)
           /\ Agrees(q, d, v) <=> (Has(Head(q), d) => Head(q)[d] = v) /\ Agrees(Tail(q), d, v)
           /\ EndsWith(q, d, v) => /\ EndsWith(Tail(q), d, v)
                                   /\ Has(Head(q), d) /\ ~Carries(Tail(q), d)
                                         => Head(q)[d] = v
<1> DEFINE r == Tail(q)
<1>1. /\ Len(r) = Len(q) - 1 /\ Len(q) \in Nat /\ Len(q) >= 1 /\ Head(q) = q[1]
      /\ \A i \in 1 .. Len(r) : r[i] = q[i + 1]
      /\ r \in Seq(Frames) /\ Head(q) \in Frames
  OBVIOUS
<1> HIDE DEF r
<1>2. \A i \in 1 .. Len(r) : i + 1 \in 1 .. Len(q)
  BY <1>1
<1>3. \A i \in 1 .. Len(q) : \/ i = 1
                            \/ \E k \in 1 .. Len(r) : i = k + 1
  <2>1. ASSUME NEW i \in 1 .. Len(q), i # 1
        PROVE  i - 1 \in 1 .. Len(r) /\ i = (i - 1) + 1
    BY <1>1, <2>1
  <2>. QED
    BY <2>1
<1>4. 1 \in 1 .. Len(q)
  BY <1>1
<1>5. Carries(q, d) <=> Has(Head(q), d) \/ Carries(r, d)
  BY <1>1, <1>2, <1>3, <1>4 DEF Carries
<1>6. Agrees(q, d, v) <=> (Has(Head(q), d) => Head(q)[d] = v) /\ Agrees(r, d, v)
  <2>1. ASSUME Agrees(q, d, v), NEW k \in 1 .. Len(r), Has(r[k], d) PROVE r[k][d] = v
    BY <1>1, <1>2, <2>1 DEF Agrees
  <2>2. ASSUME Agrees(q, d, v), Has(Head(q), d) PROVE Head(q)[d] = v
    BY <1>1, <1>4, <2>2 DEF Agrees
  <2>3. ASSUME Agrees(r, d, v), Has(Head(q), d) => Head(q)[d] = v,
               NEW i \in 1 .. Len(q), Has(q[i], d)
        PROVE  q[i][d] = v
    BY <1>1, <1>3, <2>3 DEF Agrees
  <2>. QED
    BY <2>1, <2>2, <2>3 DEF Agrees
<1>7. ASSUME EndsWith(q, d, v), NEW i \in 1 .. Len(r), Has(r[i], d), r[i][d] # v
      PROVE  \E j \in 1 .. Len(r) : i < j /\ Has(r[j], d)
  <2>1. PICK j \in 1 .. Len(q) : i + 1 < j /\ Has(q[j], d)
    BY <1>1, <1>2, <1>7 DEF EndsWith
  <2>2. PICK k \in 1 .. Len(r) : j = k + 1
    BY <1>1, <1>3, <2>1
  <2>. QED
    BY <1>1, <2>1, <2>2
<1>8. ASSUME EndsWith(q, d, v), Has(Head(q), d), ~Carries(r, d) PROVE Head(q)[d] = v
  <2>1. ASSUME NEW j \in 1 .. Len(q), 1 < j PROVE ~Has(q[j], d)
    <3>1. PICK k \in 1 .. Len(r) : j = k + 1
      BY <1>3, <2>1
    <3>2. q[j] = r[k]
      BY <1>1, <3>1
    <3>. QED
      BY <1>8, <3>2 DEF Carries
  <2>. QED
    BY <1>1, <1>4, <1>8, <2>1 DEF EndsWith
<1>. QED
  BY <1>1, <1>5, <1>6, <1>7, <1>8 DEF EndsWith, r

LEMMA Single ==
    ASSUME NEW f, NEW d, NEW v
    PROVE  /\ Carries(<<f>>, d) <=> Has(f, d)
           /\ Agrees(<<f>>, d, v) <=> (Has(f, d) => f[d] = v)
           /\ ~Carries(<<>>, d) /\ Agrees(<<>>, d, v) /\ EndsWith(<<>>, d, v)
           /\ (Has(f, d) => f[d] = v) => EndsWith(<<f>>, d, v)
<1>1. Len(<<f>>) = 1 /\ <<f>>[1] = f /\ Len(<<>>) = 0 /\ 1 \in 1 .. 1
  OBVIOUS
<1>2. \A i \in 1 .. 1 : i = 1
  OBVIOUS
<1>. QED
  BY <1>1, <1>2 DEF Carries, Agrees, EndsWith

(* What the simulator reports of a frame: the flags it changed, as the     *)
(* frame has them.                                                         *)
LEMMA ReportSays ==
    ASSUME NEW f \in Frames, NEW ds, NEW e \in DsFlags, NEW d \in DsFlags
    PROVE  /\ Report(ds, f, e) \in Seq(Frames)
           /\ Carries(Report(ds, f, e), d) <=> d = e /\ Has(f, d) /\ f[d] # ds[d]
           /\ Agrees(Report(ds, f, e), d, f[d])
<1>1. PICK D \in SUBSET Flags : f \in [D -> BOOLEAN]
  BY DEF Frames, FrameOn
<1>2. CASE Has(f, e) /\ f[e] # ds[e]
  <2> DEFINE g == [x \in {e} |-> f[e]]
  <2>1. f[e] \in BOOLEAN /\ {e} \in SUBSET Flags
    BY <1>1, <1>2 DEF Has, Flags
  <2>2. g \in Frames /\ DOMAIN g = {e} /\ g[e] = f[e]
    BY <2>1, FrameType
  <2>3. Report(ds, f, e) = <<g>>
    BY <1>2 DEF Report
  <2>4. Has(g, d) <=> d = e
    BY <2>2 DEF Has
  <2> HIDE DEF g
  <2>5. /\ Carries(<<g>>, d) <=> Has(g, d)
        /\ Agrees(<<g>>, d, f[d]) <=> (Has(g, d) => g[d] = f[d])
    BY Single
  <2>6. <<g>> \in Seq(Frames)
    BY <2>2
  <2>. QED
    BY <1>2, <2>2, <2>3, <2>4, <2>5, <2>6
<1>3. CASE ~(Has(f, e) /\ f[e] # ds[e])
  <2>1. Report(ds, f, e) = <<>>
    BY <1>3 DEF Report
  <2>2. ~Carries(<<>>, d) /\ Agrees(<<>>, d, f[d])
    BY Single
  <2>3. <<>> \in Seq(Frames)
    OBVIOUS
  <2>. QED
    BY <1>3, <2>1, <2>2, <2>3
<1>. QED
  BY <1>2, <1>3

LEMMA ReportsSay ==
    ASSUME NEW f \in Frames, NEW ds, NEW d \in {"enabled", "estop"}
    PROVE  /\ Reports(ds, f) \in Seq(Frames)
           /\ Carries(Reports(ds, f), d) <=> Has(f, d) /\ f[d] # ds[d]
           /\ Agrees(Reports(ds, f), d, f[d])
<1> DEFINE a == Report(ds, f, "enabled")  b == Report(ds, f, "auto")
           c == Report(ds, f, "test")     e == Report(ds, f, "estop")
<1>0. d \in DsFlags /\ d # "auto" /\ d # "test"
      /\ {"enabled", "auto", "test", "estop"} \subseteq DsFlags
  BY DEF DsFlags
<1>1. /\ a \in Seq(Frames) /\ b \in Seq(Frames) /\ c \in Seq(Frames) /\ e \in Seq(Frames)
      /\ Agrees(a, d, f[d]) /\ Agrees(b, d, f[d]) /\ Agrees(c, d, f[d]) /\ Agrees(e, d, f[d])
      /\ Carries(a, d) <=> d = "enabled" /\ Has(f, d) /\ f[d] # ds[d]
      /\ Carries(e, d) <=> d = "estop" /\ Has(f, d) /\ f[d] # ds[d]
      /\ ~Carries(b, d) /\ ~Carries(c, d)
  BY <1>0, ReportSays
<1>2. Reports(ds, f) = ((a \o b) \o c) \o e
  BY DEF Reports
<1> HIDE DEF a, b, c, e
<1>3. a \o b \in Seq(Frames) /\ (a \o b) \o c \in Seq(Frames) /\ ((a \o b) \o c) \o e \in Seq(Frames)
  BY <1>1
<1>4. Agrees(a \o b, d, f[d]) /\ (Carries(a \o b, d) <=> Carries(a, d))
  BY <1>1, Joined
<1>5. Agrees((a \o b) \o c, d, f[d]) /\ (Carries((a \o b) \o c, d) <=> Carries(a, d))
  BY <1>1, <1>3, <1>4, Joined
<1>6. /\ Agrees(((a \o b) \o c) \o e, d, f[d])
      /\ Carries(((a \o b) \o c) \o e, d) <=> Carries(a, d) \/ Carries(e, d)
  BY <1>1, <1>3, <1>5, Joined
<1>. QED
  BY <1>1, <1>2, <1>3, <1>6

----------------------------------------------------------------------------
(* How a connection settles.                                               *)

LEMMA Greeted ==
    ASSUME NEW ds, NEW out \in Seq(Frames), NEW sd \in [DsFlags -> BOOLEAN]
    PROVE  Settled(ds, <<sd>>, out, sd)
<1>1. Has(sd, "enabled") /\ Has(sd, "estop")
  BY DEF Has, DsFlags
<1>2. \A d : Has(sd, d) => Carries(<<sd>>, d) /\ EndsWith(<<sd>>, d, sd[d])
  BY Single
<1>. QED
  BY <1>1, <1>2 DEF Settled

LEMMA SettledByRead ==
    ASSUME NEW ds \in DriverStations, NEW in \in Seq(Frames), NEW out,
           NEW sd \in [DsFlags -> BOOLEAN], in # <<>>, Settled(ds, in, out, sd)
    PROVE  Settled(StationRead(Head(in), ds), Tail(in), out, sd)
<1> DEFINE f == Head(in)  read == StationRead(f, ds)
<1>1. /\ read.estop = IF Has(f, "estop") THEN f["estop"] ELSE ds.estop
      /\ read.enabled => IF Has(f, "enabled") THEN f["enabled"] ELSE ds.enabled
  BY DEF StationRead
<1>2. /\ EndsWith(Tail(in), "enabled", sd["enabled"])
      /\ EndsWith(Tail(in), "estop", sd["estop"])
      /\ Has(f, "enabled") /\ ~Carries(Tail(in), "enabled") => f["enabled"] = sd["enabled"]
      /\ Has(f, "estop") /\ ~Carries(Tail(in), "estop") => f["estop"] = sd["estop"]
      /\ Carries(in, "enabled") <=> Has(f, "enabled") \/ Carries(Tail(in), "enabled")
      /\ Carries(in, "estop") <=> Has(f, "estop") \/ Carries(Tail(in), "estop")
  BY Popped DEF Settled
<1> HIDE DEF f, read
<1>3. ASSUME ~Carries(Tail(in), "estop"), Agrees(out, "estop", sd["estop"])
      PROVE  read.estop = sd["estop"]
  BY <1>1, <1>2, <1>3 DEF Settled
<1>4. ASSUME ~Carries(Tail(in), "enabled"), Agrees(out, "enabled", sd["enabled"]), read.enabled
      PROVE  sd["enabled"]
  <2>1. CASE Has(f, "enabled")
    BY <1>1, <1>2, <1>4, <2>1
  <2>2. CASE ~Has(f, "enabled")
    BY <1>1, <1>2, <1>4, <2>2 DEF Settled
  <2>. QED
    BY <2>1, <2>2
<1>5. Settled(read, Tail(in), out, sd)
  BY <1>2, <1>3, <1>4 DEF Settled
<1>. QED
  BY <1>5 DEF read, f

LEMMA SettledByReport ==
    ASSUME NEW ds, NEW in \in Seq(Frames), NEW out \in Seq(Frames),
           NEW sd \in [DsFlags -> BOOLEAN], out # <<>>, Settled(ds, in, out, sd)
    PROVE  Settled(ds, in \o Reports(sd, Head(out)), Tail(out), Obeyed(sd, Head(out)))
<1> DEFINE f == Head(out)  r == Reports(sd, f)  now == Obeyed(sd, f)
<1>1. f \in Frames /\ Tail(out) \in Seq(Frames)
  BY Popped
<1>2. \A d \in {"enabled", "estop"} : now[d] = IF Has(f, d) THEN f[d] ELSE sd[d]
  BY DEF Obeyed, DsFlags
<1>3. \A d \in {"enabled", "estop"} :
         /\ r \in Seq(Frames) /\ Agrees(r, d, f[d])
         /\ Carries(r, d) <=> Has(f, d) /\ f[d] # sd[d]
  BY <1>1, ReportsSay
<1>4. \A d : Agrees(out, d, sd[d]) <=> (Has(f, d) => f[d] = sd[d]) /\ Agrees(Tail(out), d, sd[d])
  BY Popped
<1> HIDE DEF f, r, now
<1>5. ASSUME NEW d \in {"enabled", "estop"}, EndsWith(in, d, sd[d])
      PROVE  /\ EndsWith(in \o r, d, now[d])
             /\ Carries(in \o r, d) <=> Carries(in, d) \/ Carries(r, d)
             /\ ~Carries(in \o r, d) /\ Agrees(Tail(out), d, now[d])
                   => ~Carries(in, d) /\ Agrees(out, d, sd[d]) /\ now[d] = sd[d]
  <2>1. Carries(in \o r, d) <=> Carries(in, d) \/ Carries(r, d)
    BY <1>3, Joined
  <2>2. CASE Carries(r, d)
    <3>1. now[d] = f[d] /\ Agrees(r, d, now[d])
      BY <1>2, <1>3, <2>2
    <3>2. EndsWith(in \o r, d, now[d])
      BY <1>3, <2>2, <3>1, Joined
    <3>. QED
      BY <2>1, <2>2, <3>2
  <2>3. CASE ~Carries(r, d)
    <3>1. now[d] = sd[d] /\ (Has(f, d) => f[d] = sd[d])
      BY <1>2, <1>3, <2>3
    <3>2. Agrees(r, d, sd[d])
      BY <2>3 DEF Carries, Agrees
    <3>3. EndsWith(in \o r, d, now[d])
      BY <1>3, <1>5, <3>1, <3>2, Joined
    <3>. QED
      BY <1>4, <2>1, <3>1, <3>3
  <2>. QED
    BY <2>2, <2>3
<1>6. Settled(ds, in \o r, Tail(out), now)
  BY <1>5 DEF Settled
<1>. QED
  BY <1>6 DEF now, r, f

\* Commands that say what they leave in the cache, or leave it as it was.
LEMMA SettledByCommand ==
    ASSUME NEW ds, NEW after \in DriverStations, NEW in, NEW out \in Seq(Frames),
           NEW sd \in [DsFlags -> BOOLEAN], NEW frames \in Seq(Frames),
           Settled(ds, in, out, sd),
           \A v \in BOOLEAN :
               /\ Agrees(frames, "estop", v) => after.estop \in {v, ds.estop}
               /\ Agrees(frames, "enabled", v) /\ after.enabled => v \/ ds.enabled
    PROVE  Settled(after, in, out \o frames, sd)
<1>1. \A d \in {"enabled", "estop"} :
         Agrees(out \o frames, d, sd[d])
            => Agrees(out, d, sd[d]) /\ Agrees(frames, d, sd[d]) /\ sd[d] \in BOOLEAN
  BY Joined DEF DsFlags
<1>. QED
  BY <1>1 DEF Settled

LEMMA PatchSays ==
    ASSUME NEW p \in Patches, NEW ds \in DriverStations, NEW v \in BOOLEAN
    PROVE  /\ Agrees(FramesOf(p, ds), "estop", v) => EStopAfter(p, ds) \in {v, ds.estop}
           /\ Agrees(FramesOf(p, ds), "enabled", v) /\ EnabledAfter(p, ds) => v \/ ds.enabled
<1> DEFINE live == IF SwitchesLive(p, ds) THEN <<Disabled>> ELSE <<>>
           mode == IF Has(p, "mode") THEN <<ModeFlags(p.mode)>> ELSE <<>>
           stop == IF Has(p, "estop") THEN <<StopFlags(p.estop)>> ELSE <<>>
           on   == IF Has(p, "enabled")
                   THEN <<EnableFlags(EnabledAfter(p, ds), ModeAfter(p, ds))>> ELSE <<>>
<1>0. /\ Has(p, "mode") => p.mode \in Modes
      /\ Has(p, "enabled") => p.enabled \in BOOLEAN
      /\ Has(p, "estop") => p.estop \in BOOLEAN
      /\ ds.enabled \in BOOLEAN /\ ds.mode \in Modes /\ ds.estop \in BOOLEAN
  BY BridgeAssumption DEF Has, DriverStations
<1>1. ModeAfter(p, ds) \in Modes /\ EStopAfter(p, ds) \in BOOLEAN
  BY <1>0 DEF ModeAfter, EStopAfter
<1>2. EnabledAfter(p, ds) \in BOOLEAN
  BY <1>0, <1>1 DEF EnabledAfter
<1>3. /\ Disabled \in Frames
      /\ Has(p, "mode") => ModeFlags(p.mode) \in Frames
      /\ Has(p, "estop") => StopFlags(p.estop) \in Frames
      /\ EnableFlags(EnabledAfter(p, ds), ModeAfter(p, ds)) \in Frames
  BY <1>0, <1>1, <1>2, SmallFrames DEF Modes
<1>4. live \in Seq(Frames) /\ mode \in Seq(Frames) /\ stop \in Seq(Frames) /\ on \in Seq(Frames)
  BY <1>3
<1>5. FramesOf(p, ds) = ((live \o mode) \o stop) \o on
  BY <1>4 DEF FramesOf
<1>6. /\ Has(p, "estop") => stop = <<StopFlags(p.estop)>>
      /\ Has(p, "enabled") => on = <<EnableFlags(EnabledAfter(p, ds), ModeAfter(p, ds))>>
  OBVIOUS
<1> HIDE DEF live, mode, stop, on
<1>7. ASSUME NEW d, Agrees(FramesOf(p, ds), d, v)
      PROVE  Agrees(stop, d, v) /\ Agrees(on, d, v)
  <2>1. live \o mode \in Seq(Frames) /\ (live \o mode) \o stop \in Seq(Frames)
    BY <1>4
  <2>a. Agrees(((live \o mode) \o stop) \o on, d, v)
    BY <1>5, <1>7
  <2>2. Agrees((live \o mode) \o stop, d, v) /\ Agrees(on, d, v)
    BY <1>4, <2>1, <2>a, Joined
  <2>. QED
    BY <1>4, <2>1, <2>2, Joined
<1>8. ASSUME Agrees(FramesOf(p, ds), "estop", v) PROVE EStopAfter(p, ds) \in {v, ds.estop}
  <2>1. CASE Has(p, "estop")
    <3>1. Agrees(<<StopFlags(p.estop)>>, "estop", v)
      BY <1>6, <1>7, <1>8, <2>1
    <3>2. Has(StopFlags(p.estop), "estop") /\ StopFlags(p.estop)["estop"] = p.estop
      BY <1>0, <2>1 DEF StopFlags, Has
    <3>3. p.estop = v
      BY <3>1, <3>2, Single
    <3>. QED
      BY <2>1, <3>3 DEF EStopAfter
  <2>2. CASE ~Has(p, "estop")
    BY <2>2 DEF EStopAfter
  <2>. QED
    BY <2>1, <2>2
<1>9. ASSUME Agrees(FramesOf(p, ds), "enabled", v), EnabledAfter(p, ds), ~ds.enabled PROVE v
  <2>1. Has(p, "enabled")
    BY <1>9 DEF EnabledAfter
  <2> DEFINE f == EnableFlags(EnabledAfter(p, ds), ModeAfter(p, ds))
  <2>2. Agrees(<<f>>, "enabled", v)
    BY <1>6, <1>7, <1>9, <2>1
  <2>3. Has(f, "enabled") /\ f["enabled"] = EnabledAfter(p, ds)
    BY DEF EnableFlags, Has
  <2> HIDE DEF f
  <2>4. EnabledAfter(p, ds) = v
    BY <2>2, <2>3, Single
  <2>. QED
    BY <1>9, <2>4
<1>. QED
  BY <1>8, <1>9

----------------------------------------------------------------------------
(* The operations and events of the bridge settle what they start.         *)

\* The entry has no connection, or another one than the simulator serves.
LEMMA Unserved ==
    ASSUME ServesInv', OwnInv', entry'.sock = None \/ sim'.serves # entry'.sock
    PROVE  CacheInv'
BY DEF CacheInv

\* Sockets may close, and lose their messages with it.
LEMMA OpenSettles ==
    ASSUME Core, CacheInv, NEW e, NEW others \in [Sockets -> SocketStates],
           e.url \in Urls, UNCHANGED sim, sim.serves \in Sockets \cup {None},
           \A s \in Sockets : /\ others[s].net = sock[s].net
                              /\ others[s].ready = "free" => sock[s].ready = "free",
           e \in Entries, Open(e, others)
    PROVE  CacheInv'
<1>1. PICK s \in Sockets :
         /\ sock[s].ready = "free"
         /\ entry' = [e EXCEPT !.sock = s, !.conn = "reconnecting"]
         /\ sock' = [others EXCEPT ![s] = Opening(e.url)]
  BY DEF Open
<1>2. entry'.sock = s
  BY <1>1 DEF Entries
<1>3. sock[s].net = "down" /\ sim.serves # s
  BY <1>1, BridgeAssumption DEF CacheInv, ServesInv
<1>4. \A x \in Sockets : sock'[x] = IF x = s THEN Opening(e.url) ELSE others[x]
  BY <1>1
<1>5. Opening(e.url).ready = "connecting"
  BY EmptyHanded
<1>6. \A x \in Sockets : sock'[x].ready = "free" => sock'[x].net = "down"
  BY <1>4, <1>5 DEF CacheInv, ServesInv
<1>7. sim.serves # None => sock'[sim.serves].net = "up"
  BY <1>3, <1>4 DEF CacheInv, ServesInv
<1>8. OwnInv'
  BY <1>2, <1>4, <1>5 DEF OwnInv
<1>. QED
  BY <1>2, <1>3, <1>6, <1>7, <1>8, Unserved DEF ServesInv

LEMMA HangupServes ==
    ASSUME Core, NEW s \in Sockets
    PROVE  /\ Hangup[s].net = sock[s].net
           /\ Hangup[s].ready = "free" => sock[s].ready = "free"
<1>1. sock[s] \in SocketStates
  BY DEF Core
<1>. QED
  BY <1>1 DEF Hangup, SocketStates

LEMMA DisconnectSettles ==
    ASSUME Core, CacheInv, UNCHANGED sim, sim.serves \in Sockets \cup {None}, Disconnect
    PROVE  CacheInv'
<1>1. entry'.sock = None /\ sock' = Hangup
  BY DEF Disconnect, Core, Entries
<1>2. ServesInv'
  BY <1>1, HangupServes DEF CacheInv, ServesInv
<1>. QED
  BY <1>1, <1>2, Unserved DEF OwnInv

LEMMA EnsureSettles ==
    ASSUME Core, CacheInv, UNCHANGED sim, sim.serves \in Sockets \cup {None},
           NEW u \in Urls, EnsureConnected(u)
    PROVE  CacheInv'
<1>0. entry \in Entries /\ sock \in [Sockets -> SocketStates]
  BY DEF Core
<1>1. CASE entry' = [entry EXCEPT !.attached = TRUE] /\ UNCHANGED sock
  <2>1. entry'.sock = entry.sock /\ entry'.ds = entry.ds
    BY <1>0, <1>1 DEF Entries
  <2>. QED
    BY <1>1, <2>1 DEF CacheInv, ServesInv, OwnInv
<1>2. CASE Open([entry EXCEPT !.attached = TRUE], sock)
  <2> DEFINE e == [entry EXCEPT !.attached = TRUE]
  <2>1. e \in Entries /\ e.url \in Urls
    BY <1>0 DEF Entries
  <2>2. Open(e, sock)
    BY <1>2
  <2> HIDE DEF e
  <2>. QED
    BY <1>0, <2>1, <2>2, OpenSettles
<1>3. CASE Open(NewEntry(u), Hangup)
  <2>1. NewEntry(u) \in Entries /\ NewEntry(u).url \in Urls
    BY EmptyHanded DEF Entries
  <2>. QED
    BY <1>3, <2>1, HangupQuiet, HangupServes, OpenSettles
<1>. QED
  BY <1>1, <1>2, <1>3 DEF EnsureConnected

SentOn(was, all, h) == [was EXCEPT !.out = all, !.held = h]

LEMMA SendingKeeps ==
    ASSUME NEW was \in SocketStates, NEW all, NEW h
    PROVE  /\ SentOn(was, all, h).in = was.in /\ SentOn(was, all, h).out = all
           /\ SentOn(was, all, h).net = was.net /\ SentOn(was, all, h).ready = was.ready
BY DEF SocketStates, SentOn

\* Frames are sent on the connection of the entry, whose cache becomes ds.
LEMMA SendSettles ==
    ASSUME Core, CacheInv, UNCHANGED sim, sim.ds \in [DsFlags -> BOOLEAN],
           sim.serves \in Sockets \cup {None},
           entry.sock \in Sockets, NEW frames \in Seq(Frames),
           NEW after \in DriverStations, NEW h \in BOOLEAN,
           entry' = [entry EXCEPT !.attached = TRUE, !.ds = after],
           sock' = [sock EXCEPT ![entry.sock].out = @ \o frames,
                                ![entry.sock].held = h],
           \A v \in BOOLEAN :
               /\ Agrees(frames, "estop", v) => after.estop \in {v, entry.ds.estop}
               /\ Agrees(frames, "enabled", v) /\ after.enabled => v \/ entry.ds.enabled
    PROVE  CacheInv'
<1> DEFINE s == entry.sock  was == sock[s]
<1>1. entry'.sock = s /\ entry'.ds = after
  BY DEF Core, Entries
<1>2. was \in SocketStates /\ was.in \in Seq(Frames) /\ was.out \in Seq(Frames)
  BY DEF Core, SocketStates
<1> DEFINE all == was.out \o frames
<1>3. sock' = [sock EXCEPT ![s] = SentOn(was, all, h)]
  BY DEF Core, SentOn
<1>4. /\ sock'[s] = SentOn(was, all, h)
      /\ \A x \in Sockets : x # s => sock'[x] = sock[x]
  BY <1>3 DEF Core
<1>5. /\ sock'[s].in = was.in /\ sock'[s].out = all
      /\ sock'[s].net = was.net /\ sock'[s].ready = was.ready
  <2>1. was \in SocketStates
    BY <1>2
  <2>2. sock'[s] = SentOn(was, all, h)
    BY <1>4
  <2> HIDE DEF was, all, s
  <2>4. /\ SentOn(was, all, h).in = was.in /\ SentOn(was, all, h).out = all
        /\ SentOn(was, all, h).net = was.net /\ SentOn(was, all, h).ready = was.ready
    BY SMTT(30), <2>1, SendingKeeps
  <2>. QED
    BY <2>2, <2>4
<1>6. \A x \in Sockets : sock'[x].net = sock[x].net /\ sock'[x].ready = sock[x].ready
  BY <1>4, <1>5
<1>7. ServesInv' /\ OwnInv'
  <2>1. ServesInv'
    BY ZenonT(60), <1>6 DEF CacheInv, ServesInv
  <2>2. sock[s].ready \in {"connecting", "open"} /\ sock'[s].ready = sock[s].ready
    BY <1>6, BridgeAssumption DEF CacheInv, OwnInv
  <2>. QED
    BY <1>1, <2>1, <2>2 DEF OwnInv
<1> HIDE DEF was
<1>8. ASSUME s # None, sim.serves = s PROVE Settled(after, was.in, was.out \o frames, sim.ds)
  <2>1. Settled(entry.ds, was.in, was.out, sim.ds)
    BY <1>8 DEF CacheInv, was
  <2>. QED
    BY <1>2, <2>1, SettledByCommand
<1>. QED
  BY <1>1, <1>5, <1>7, <1>8 DEF CacheInv

LEMMA PatchSettles ==
    ASSUME Core, Rest, CacheInv, UNCHANGED sim, NEW p \in Patches,
           ApplyDriverStationPatch(url, p)
    PROVE  CacheInv'
<1>0. /\ sim.ds \in [DsFlags -> BOOLEAN] /\ sim.serves \in Sockets \cup {None}
      /\ url \in Urls /\ entry.ds \in DriverStations
  BY DEF Rest, Core, Entries
<1>1. CASE Usable(url) /\ Sent(FramesOf(p, entry.ds), StationAfter(p, entry.ds))
  <2> DEFINE frames == FramesOf(p, entry.ds)  after == StationAfter(p, entry.ds)
             s == entry.sock
  <2>1. s \in Sockets
    BY <1>1 DEF Usable, Core, Entries
  <2>2. frames \in Seq(Frames) /\ after \in DriverStations
    BY <1>0, PatchType
  <2>3. sock[s] \in SocketStates /\ sock[s].held \in BOOLEAN
    BY <2>1 DEF Core, SocketStates
  <2>4. sock' = [sock EXCEPT ![s].out = @ \o frames, ![s].held = sock[s].held]
    BY <1>1, <2>1, <2>3 DEF Sent, Core, SocketStates
  <2>5. entry' = [entry EXCEPT !.attached = TRUE, !.ds = after]
    BY <1>1 DEF Sent
  <2>6. after.estop = EStopAfter(p, entry.ds) /\ after.enabled = EnabledAfter(p, entry.ds)
    BY DEF StationAfter
  <2>7. \A v \in BOOLEAN :
          /\ Agrees(frames, "estop", v) => after.estop \in {v, entry.ds.estop}
          /\ Agrees(frames, "enabled", v) /\ after.enabled => v \/ entry.ds.enabled
    BY <1>0, <2>6, PatchSays
  <2> HIDE DEF frames, after
  <2>. QED
    BY <1>0, <2>1, <2>2, <2>3, <2>4, <2>5, <2>7, SendSettles
<1>2. CASE EnsureConnected(url)
  BY <1>0, <1>2, EnsureSettles
<1>. QED
  BY <1>1, <1>2 DEF ApplyDriverStationPatch

LEMMA JoystickSettles ==
    ASSUME Core, Rest, CacheInv, UNCHANGED sim, NEW h \in BOOLEAN,
           ApplyJoystickState(url, h)
    PROVE  CacheInv'
<1>0. /\ sim.ds \in [DsFlags -> BOOLEAN] /\ sim.serves \in Sockets \cup {None}
      /\ url \in Urls /\ entry.ds \in DriverStations
  BY DEF Rest, Core, Entries
<1>1. CASE /\ Usable(url)
           /\ entry' = [entry EXCEPT !.attached = TRUE]
           /\ sock' = [sock EXCEPT ![entry.sock].out = Append(@, Joystick(h)),
                                   ![entry.sock].held = h]
  <2> DEFINE s == entry.sock  frames == <<Joystick(h)>>
  <2>1. s \in Sockets
    BY <1>1 DEF Usable, Core, Entries
  <2>2. Joystick(h) \in Frames /\ frames \in Seq(Frames)
    BY SmallFrames DEF Modes
  <2>3. sock[s] \in SocketStates
    BY <2>1 DEF Core
  <2>4. Append(sock[s].out, Joystick(h)) = sock[s].out \o frames
    BY <2>2, <2>3 DEF SocketStates
  <2>5. sock' = [sock EXCEPT ![s].out = @ \o frames, ![s].held = h]
    BY <1>1, <2>4
  <2>6. entry' = [entry EXCEPT !.attached = TRUE, !.ds = entry.ds]
    BY <1>1 DEF Core, Entries
  <2> HIDE DEF frames
  <2>. QED
    BY <1>0, <2>1, <2>2, <2>5, <2>6, SendSettles
<1>2. CASE EnsureConnected(url)
  BY <1>0, <1>2, EnsureSettles
<1>. QED
  BY <1>1, <1>2 DEF ApplyJoystickState

LEMMA ReleaseSettles ==
    ASSUME Core, Rest, CacheInv, UNCHANGED sim, ReleaseJoystick(url)
    PROVE  CacheInv'
<1>0. /\ sim.ds \in [DsFlags -> BOOLEAN] /\ sim.serves \in Sockets \cup {None}
      /\ url \in Urls /\ entry.ds \in DriverStations
  BY DEF Rest, Core, Entries
<1>1. CASE /\ Usable(url)
           /\ entry' = [entry EXCEPT !.attached = TRUE, !.ds.enabled = FALSE]
           /\ sock' = [sock EXCEPT
                         ![entry.sock].out = @ \o
                            <<Joystick(FALSE), EnableFlags(FALSE, entry.ds.mode)>>,
                         ![entry.sock].held = FALSE]
  <2> DEFINE s == entry.sock  after == [entry.ds EXCEPT !.enabled = FALSE]
             frames == <<Joystick(FALSE), EnableFlags(FALSE, entry.ds.mode)>>
  <2>1. s \in Sockets
    BY <1>1 DEF Usable, Core, Entries
  <2>2. frames \in Seq(Frames)
    BY <1>0, SmallFrames, PairType DEF DriverStations
  <2>3. after \in DriverStations /\ after.estop = entry.ds.estop /\ ~after.enabled
    BY <1>0 DEF DriverStations
  <2>4. entry' = [entry EXCEPT !.attached = TRUE, !.ds = after]
    BY <1>1 DEF Core, Entries
  <2>5. sock' = [sock EXCEPT ![s].out = @ \o frames, ![s].held = FALSE]
    BY <1>1
  <2> HIDE DEF frames, after
  <2>. QED
    BY <1>0, <2>1, <2>2, <2>3, <2>4, <2>5, SendSettles
<1>2. CASE EnsureConnected(url)
  BY <1>0, <1>2, EnsureSettles
<1>. QED
  BY <1>1, <1>2 DEF ReleaseJoystick

LEMMA MessageSettles ==
    ASSUME Core, Rest, CacheInv, NEW s \in Sockets, OnMessage(s)
    PROVE  CacheInv'
<1> DEFINE was == sock[s]
<1>1. /\ was \in SocketStates /\ was.in \in Seq(Frames) /\ was.in # <<>>
      /\ was.ready = "open" /\ UNCHANGED sim
      /\ sim.ds \in [DsFlags -> BOOLEAN] /\ entry.ds \in DriverStations
  BY DEF Core, SocketStates, OnMessage, Rest, Entries
<1>2. entry.sock = s /\ s # None
  BY <1>1, BridgeAssumption DEF Core, OneUpstream
<1>3. entry.attached
  BY <1>2 DEF Core, AttachedIsTrying
<1>4. entry' = [entry EXCEPT !.ds = StationRead(Head(was.in), entry.ds)]
  BY <1>2, <1>3 DEF OnMessage, Core, Entries
<1>5. entry'.sock = s /\ entry'.ds = StationRead(Head(was.in), entry.ds)
  BY <1>2, <1>4 DEF Core, Entries
<1>6. /\ sock'[s] = [was EXCEPT !.in = Tail(was.in)]
      /\ \A x \in Sockets : x # s => sock'[x] = sock[x]
  BY DEF OnMessage, Core
<1>7. /\ sock'[s].in = Tail(was.in) /\ sock'[s].out = was.out
      /\ sock'[s].net = was.net /\ sock'[s].ready = was.ready
  <2> HIDE DEF was
  <2>. QED
    BY <1>1, <1>6 DEF SocketStates
<1>8. \A x \in Sockets : sock'[x].net = sock[x].net /\ sock'[x].ready = sock[x].ready
  BY <1>6, <1>7
<1>9. ServesInv' /\ OwnInv'
  BY <1>1, <1>2, <1>5, <1>8 DEF CacheInv, ServesInv, OwnInv, Rest
<1>10. ASSUME sim.serves = s
       PROVE  Settled(StationRead(Head(was.in), entry.ds), Tail(was.in), was.out, sim.ds)
  <2>1. Settled(entry.ds, was.in, was.out, sim.ds)
    BY <1>2, <1>10 DEF CacheInv
  <2> HIDE DEF was
  <2>. QED
    BY <1>1, <2>1, SettledByRead
<1> HIDE DEF was
<1>. QED
  BY <1>1, <1>5, <1>7, <1>9, <1>10 DEF CacheInv

\* A socket whose connection does not matter any more.
LEMMA OpenedSettles ==
    ASSUME Core, Rest, CacheInv, NEW s \in Sockets, OnOpen(s)
    PROVE  CacheInv'
<1>1. sock[s] \in SocketStates /\ UNCHANGED sim
  BY DEF Core, OnOpen
<1>2. \A x \in Sockets :
         /\ sock'[x].net = sock[x].net /\ sock'[x].in = sock[x].in
         /\ sock'[x].out = sock[x].out
         /\ sock'[x].ready \in {sock[x].ready, "open"}
  BY <1>1 DEF OnOpen, Core, SocketStates
<1>3. entry'.sock = entry.sock /\ entry'.ds = entry.ds
  BY DEF OnOpen, Core, Entries
<1>4. sim.serves # None => sim.serves \in Sockets
  BY DEF Rest
<1>. QED
  BY <1>1, <1>2, <1>3, <1>4 DEF CacheInv, ServesInv, OwnInv, Core, Entries

LEMMA ClosedSettles ==
    ASSUME Core, Rest, CacheInv, NEW s \in Sockets, OnClose(s)
    PROVE  CacheInv'
<1>1. /\ sock' = [sock EXCEPT ![s] = Unused] /\ UNCHANGED sim /\ sock[s].net = "down"
      /\ sim.serves # None => sim.serves \in Sockets
  BY DEF OnClose, Rest
<1>2. sim.serves # s
  BY <1>1, BridgeAssumption DEF CacheInv, ServesInv
<1>3. \A x \in Sockets : x # s => sock'[x] = sock[x]
  BY <1>1 DEF Core
<1>4. sock'[s].net = "down"
  BY <1>1 DEF Core, Unused
<1>5. ServesInv'
  BY <1>1, <1>2, <1>3, <1>4 DEF CacheInv, ServesInv
<1>6. CASE entry.sock = s
  <2>1. entry'.sock = None
    BY <1>6 DEF OnClose, Closed, Core, Entries
  <2>. QED
    BY <1>5, <2>1, Unserved DEF OwnInv
<1>7. CASE entry.sock # s
  <2>1. UNCHANGED entry
    BY <1>7 DEF OnClose
  <2>. QED
    BY <1>1, <1>3, <1>5, <1>7, <2>1 DEF CacheInv, OwnInv, Core, Entries
<1>. QED
  BY <1>6, <1>7

LEMMA TimerSettles ==
    ASSUME Core, Rest, CacheInv, ReconnectTimer
    PROVE  CacheInv'
<1> DEFINE e == [entry EXCEPT !.timer = FALSE]
<1>1. entry.timer /\ entry.attached /\ entry.sock = None /\ UNCHANGED sim
  BY DEF ReconnectTimer, Core, AttachedIsTrying
<1>2. e \in Entries /\ e.url \in Urls /\ sock \in [Sockets -> SocketStates]
  BY DEF Core, Entries
<1>3. Open(e, sock)
  BY <1>1 DEF ReconnectTimer
<1> HIDE DEF e
<1>. QED
  BY <1>1, <1>2, <1>3, OpenSettles DEF Rest

LEMMA AcceptSettles ==
    ASSUME Core, Rest, CacheInv, NEW s \in Sockets, SimAccepts(s)
    PROVE  CacheInv'
<1>1. /\ sock[s] \in SocketStates /\ sim.ds \in [DsFlags -> BOOLEAN] /\ s # None
      /\ sim' = [sim EXCEPT !.serves = s] /\ UNCHANGED entry /\ sock[s].ready = "connecting"
      /\ sock' = [sock EXCEPT ![s].net = "up", ![s].in = <<sim.ds>>]
  BY BridgeAssumption DEF Core, Rest, SimAccepts, Greeting
<1>2. sim'.serves = s /\ sim'.ds = sim.ds
  BY <1>1 DEF Rest
<1>3. /\ sock'[s].net = "up" /\ sock'[s].in = <<sim.ds>> /\ sock'[s].out = sock[s].out
      /\ sock'[s].ready = "connecting"
      /\ \A x \in Sockets : x # s => sock'[x] = sock[x]
  BY <1>1 DEF Core, SocketStates
<1>4. ServesInv'
  BY <1>2, <1>3 DEF CacheInv, ServesInv
<1>6. OwnInv'
  BY <1>1, <1>3 DEF CacheInv, OwnInv, Core, Entries
<1>5. Settled(entry.ds, <<sim.ds>>, sock[s].out, sim.ds)
  BY <1>1, Greeted DEF SocketStates
<1>. QED
  BY <1>1, <1>2, <1>3, <1>4, <1>5, <1>6 DEF CacheInv, Core, Entries

LEMMA DownSettles ==
    ASSUME Core, Rest, CacheInv, NEW s \in Sockets, Down(s)
    PROVE  CacheInv'
<1>1. /\ sock[s] \in SocketStates /\ UNCHANGED entry
      /\ sock' = [sock EXCEPT ![s].net = "down", ![s].out = <<>>]
      /\ sim' = IF sim.serves = s THEN [sim EXCEPT !.serves = None] ELSE sim
      /\ sim.serves # None => sim.serves \in Sockets
  BY DEF Core, Down, Rest
<1>2. /\ sock'[s].net = "down" /\ sock'[s].ready = sock[s].ready
      /\ \A x \in Sockets : x # s => sock'[x] = sock[x]
  BY <1>1 DEF Core, SocketStates
<1>5. OwnInv'
  BY <1>1, <1>2 DEF CacheInv, OwnInv, Core, Entries
<1>3. CASE sim.serves = s
  <2>1. sim'.serves = None
    BY <1>1, <1>3 DEF Rest
  <2>2. ServesInv'
    BY <1>2, <2>1 DEF CacheInv, ServesInv
  <2>. QED
    BY <1>5, <2>1, <2>2 DEF CacheInv
<1>4. CASE sim.serves # s
  <2>1. UNCHANGED sim
    BY <1>1, <1>4
  <2>2. ServesInv'
    BY <1>1, <1>2, <1>4, <2>1 DEF CacheInv, ServesInv
  <2>. QED
    BY <1>1, <1>2, <1>4, <1>5, <2>1, <2>2 DEF CacheInv
<1>. QED
  BY <1>3, <1>4

LEMMA ReceiveSettles ==
    ASSUME Core, Rest, CacheInv, NEW s \in Sockets, SimReceives(s)
    PROVE  CacheInv'
<1> DEFINE was == sock[s]  f == Head(was.out)
           in == IF was.ready = "closing" THEN was.in ELSE was.in \o Reports(sim.ds, f)
<1>1. /\ was \in SocketStates /\ was.out \in Seq(Frames) /\ was.in \in Seq(Frames)
      /\ was.out # <<>> /\ UNCHANGED entry /\ sim.serves = s /\ s # None
      /\ sim.ds \in [DsFlags -> BOOLEAN]
      /\ sim' = [sim EXCEPT !.ds = Obeyed(sim.ds, f)]
      /\ sock' = [sock EXCEPT ![s].out = Tail(@), ![s].in = in]
  BY BridgeAssumption DEF Core, SocketStates, SimReceives, Rest
<1>2. sim'.serves = s /\ sim'.ds = Obeyed(sim.ds, f)
  BY <1>1 DEF Rest
<1>a. Tail(was.out) \in Seq(Frames) /\ in \in Seq(Frames)
  <2>1. f \in Frames /\ Tail(was.out) \in Seq(Frames)
    BY <1>1, Popped
  <2>2. Reports(sim.ds, f) \in Seq(Frames)
    BY <2>1, ReportsType
  <2>. QED
    BY <1>1, <2>1, <2>2
<1>3. /\ sock'[s] = [was EXCEPT !.out = Tail(was.out), !.in = in]
      /\ \A x \in Sockets : x # s => sock'[x] = sock[x]
  <2> HIDE DEF in
  <2>. QED
    BY <1>1 DEF Core
<1>4. /\ sock'[s].out = Tail(was.out) /\ sock'[s].in = in
      /\ sock'[s].net = was.net /\ sock'[s].ready = was.ready
  <2> DEFINE rest == Tail(was.out)
  <2>1. sock'[s] = [was EXCEPT !.out = rest, !.in = in] /\ was \in SocketStates
    BY <1>1, <1>3
  <2> HIDE DEF was, in, rest
  <2>2. sock'[s].out = rest /\ sock'[s].in = in
    BY <2>1 DEF SocketStates
  <2>3. sock'[s].net = was.net /\ sock'[s].ready = was.ready
    BY <2>1 DEF SocketStates
  <2>. QED
    BY <2>2, <2>3 DEF rest
<1>5. \A x \in Sockets : sock'[x].net = sock[x].net /\ sock'[x].ready = sock[x].ready
  BY <1>3, <1>4
<1>6. ServesInv' /\ OwnInv'
  BY <1>1, <1>2, <1>5 DEF CacheInv, ServesInv, OwnInv, Core, Entries
<1>7. ASSUME entry.sock = s PROVE Settled(entry.ds, in, Tail(was.out), Obeyed(sim.ds, f))
  <2>1. Settled(entry.ds, was.in, was.out, sim.ds)
    BY <1>1, <1>7 DEF CacheInv
  <2>2. was.ready # "closing"
    BY <1>1, <1>7 DEF CacheInv, OwnInv
  <2>3. in = was.in \o Reports(sim.ds, f)
    BY <2>2
  <2>4. Settled(entry.ds, was.in \o Reports(sim.ds, Head(was.out)), Tail(was.out),
                Obeyed(sim.ds, Head(was.out)))
    <3> HIDE DEF was
    <3>. QED
      BY <1>1, <2>1, SettledByReport
  <2>. QED
    BY <2>3, <2>4
<1> HIDE DEF was, in, f
<1>. QED
  BY <1>1, <1>2, <1>4, <1>6, <1>7 DEF CacheInv

LEMMA DroppedSettles ==
    ASSUME Core, Rest, CacheInv, UNCHANGED entry, sock' = Dropped, sim' = NoSim
    PROVE  CacheInv'
<1>1. sim'.serves = None
  BY DEF NoSim, NewSim
<1>2. ASSUME NEW x \in Sockets
      PROVE  /\ sock'[x].ready = sock[x].ready
             /\ sock'[x].net \in {sock[x].net, "down"}
  <2>1. sock[x] \in SocketStates
    BY DEF Core
  <2>. QED
    BY <2>1 DEF Dropped, SocketStates
<1>3. ServesInv' /\ OwnInv'
  BY <1>1, <1>2 DEF CacheInv, ServesInv, OwnInv, Core, Entries
<1>. QED
  BY <1>1, <1>3 DEF CacheInv

LEMMA BridgeSettles ==
    ASSUME TypeOK, Core, CacheInv, BridgeOnly
    PROVE  CacheInv'
<1>0. Rest /\ url \in Urls /\ sim.serves \in Sockets \cup {None}
  BY Parts DEF Rest
<1>1. CASE SocketEvent
  BY <1>0, <1>1, OpenedSettles, MessageSettles, ClosedSettles DEF SocketEvent
<1>2. CASE ReconnectTimer
  BY <1>0, <1>2, TimerSettles
<1>3. CASE SimEvent
  <2>1. PICK s \in Sockets : \/ SimAccepts(s) \/ SimReceives(s)
                             \/ ConnectionEnds(s) \/ ConnectionFails(s)
    BY <1>3 DEF SimEvent
  <2>. QED
    BY <1>0, <2>1, AcceptSettles, ReceiveSettles, DownSettles
       DEF ConnectionEnds, ConnectionFails
<1>4. CASE SimStarts
  <2>1. UNCHANGED <<entry, sock>> /\ sim'.serves = None
    BY <1>4 DEF SimStarts, NewSim
  <2>. QED
    BY <2>1 DEF CacheInv, ServesInv, OwnInv
<1>5. CASE SimExits \/ ContainerMoves
  BY <1>0, <1>5, DroppedSettles DEF SimExits, ContainerMoves
<1>6. CASE RunReady \/ RunEnds
  BY <1>6 DEF RunReady, RunEnds, CacheInv, ServesInv, OwnInv
<1>7. CASE Poll
  <2>1. UNCHANGED sim /\ (EnsureConnected(url) \/ Disconnect)
    BY <1>7 DEF Poll
  <2>. QED
    BY <1>0, <2>1, EnsureSettles, DisconnectSettles
<1>8. ASSUME NEW p \in Patches, PatchArrives(p) \/ PatchApplies(p) PROVE CacheInv'
  <2>1. CASE PatchArrives(p)
    BY <2>1 DEF PatchArrives, CacheInv, ServesInv, OwnInv
  <2>2. CASE PatchApplies(p)
    BY <1>0, <2>2, PatchSettles DEF PatchApplies
  <2>. QED
    BY <1>8, <2>1, <2>2
<1>. QED
  BY <1>1, <1>2, <1>3, <1>4, <1>5, <1>6, <1>7, <1>8 DEF BridgeOnly

LEMMA CacheQuiet == ASSUME CacheInv, UNCHANGED bridgeVars PROVE CacheInv'
BY DEF bridgeVars, CacheInv, ServesInv, OwnInv

LEMMA EndSettles ==
    ASSUME Core, Rest, CacheInv, NEW had, EndSelection(had)
    PROVE  CacheInv'
<1>1. CASE Leased /\ ReleaseJoystick(url) /\ UNCHANGED sim
  BY <1>1, ReleaseSettles
<1>2. CASE UNCHANGED <<entry, sock, sim>>
  BY <1>2 DEF CacheInv, ServesInv, OwnInv
<1>. QED
  BY <1>1, <1>2, CacheQuiet DEF EndSelection, SafetyRelease

LEMMA CacheStep == IInv /\ CacheInv /\ [Next]_vars => CacheInv'
<1> SUFFICES ASSUME IInv, CacheInv, [Next]_vars PROVE CacheInv'
  OBVIOUS
<1>0. PadInv /\ Core /\ Rest /\ TypeOK /\ sim.serves \in Sockets \cup {None}
  BY InvParts DEF IInv, Rest
<1>1. CASE BridgeOnly /\ UNCHANGED padVars
  BY <1>0, <1>1, BridgeSettles
<1>2. CASE Starts \/ Stops
  BY <1>0, <1>2, DisconnectSettles DEF Starts, Stops, StartRun, StopRun
<1>3. CASE TabSteps
  <2>1. UNCHANGED bridgeVars
    BY <1>0, <1>3, TabStep
  <2>. QED
    BY <2>1, CacheQuiet
<1>4. ASSUME NEW c \in Channels, ChannelMessage(c) PROVE CacheInv'
  <2> DEFINE m == Head(chan[c].q)
  <2>1. \/ HandleSelect
        \/ HandleRelease
        \/ m.kind = "state" /\ HandleState(m)
    BY <1>4 DEF ChannelMessage
  <2>2. m \in Messages
    <3>1. chan[c].q \in Seq(Messages) /\ chan[c].q # <<>>
      BY <1>0, <1>4 DEF PadInv, PadType, ChannelMessage
    <3>. QED
      BY <3>1
  <2>3. CASE HandleSelect
    BY <2>3, CacheQuiet DEF HandleSelect
  <2>4. CASE HandleRelease
    BY <1>0, <2>4, EndSettles DEF HandleRelease
  <2>5. CASE m.kind = "state" /\ HandleState(m)
    <3>1. m.held \in BOOLEAN
      BY <2>2, <2>5 DEF Messages
    <3> HIDE DEF m
    <3>2. CASE UNCHANGED bridgeVars
      BY <3>2, CacheQuiet
    <3>3. CASE ApplyJoystickState(url, m.held) /\ UNCHANGED sim
      BY <1>0, <3>1, <3>3, JoystickSettles
    <3>4. CASE UNCHANGED <<entry, sock, sim>>
      BY <3>4 DEF CacheInv, ServesInv, OwnInv
    <3>. QED
      BY <2>5, <3>2, <3>3, <3>4 DEF HandleState
  <2>. QED
    BY <2>1, <2>3, <2>4, <2>5
<1>5. ASSUME NEW c \in Channels, ChannelCloses(c) PROVE CacheInv'
  BY <1>0, <1>5, EndSettles DEF ChannelCloses
<1>6. CASE UNCHANGED vars
  BY <1>6, CacheQuiet DEF vars
<1>7. Steps
  BY DEF Next, TabSteps, Steps
<1>. QED
  BY <1>1, <1>2, <1>3, <1>4, <1>5, <1>6, <1>7 DEF Steps

LEMMA CacheStart == Init => CacheInv
BY DEF Init, BridgeInit, CacheInv, ServesInv, OwnInv, NewEntry, NoSim, NewSim, Unused

(* However commands and readback cross, once nothing is under way the      *)
(* cached stop is the simulator's, and a robot shown as enabled is enabled *)
(* (applyDriverStationPatch and handleMessage in halsim.ts).               *)
THEOREM CacheAgreesHolds == Spec => []CacheAgrees
<1>1. IInv /\ CacheInv => CacheAgrees
  <2> SUFFICES ASSUME IInv, CacheInv, entry.conn = "connected", sim.serves = entry.sock,
                      sock[entry.sock].out = <<>>, sock[entry.sock].in = <<>>
               PROVE  /\ entry.ds.estop = sim.ds["estop"]
                      /\ entry.ds.enabled => sim.ds["enabled"]
    BY DEF CacheAgrees
  <2>1. entry.sock # None
    BY DEF IInv, Core, AttachedIsTrying
  <2>2. Settled(entry.ds, <<>>, <<>>, sim.ds)
    BY <2>1 DEF CacheInv
  <2>. QED
    BY <2>2, Single DEF Settled
<1>. QED
  BY <1>1, CacheStart, CacheStep, Invariant, PTL DEF Spec
=============================================================================
