----------------------------- MODULE Nt4Choosers -----------------------------
(***************************************************************************)
(* The autonomous choosers of one workspace's robot (nt4-auto.ts over      *)
(* ws-bridge.ts, with the routes of app/status.ts and workspace-routes.ts  *)
(* that use it): a WebSocket to the robot's NetworkTables server, opened   *)
(* by the page's polls and by nothing else, the topics and values that     *)
(* arrive on it, and the selections that are published on it.              *)
(*                                                                         *)
(* The bridge keeps its topics, values and publications when a connection  *)
(* is lost; the server forgets them, and numbers its topics anew.          *)
(*                                                                         *)
(* A chooser is its list of options and its active option, one topic each; *)
(* the type and default topics are read like these two.  A frame that      *)
(* cannot be decoded changes nothing that is modelled.                     *)
(***************************************************************************)
EXTENDS Naturals, Sequences, FiniteSets, Functions, SequencesExt

CONSTANTS Sockets,    \* WebSocket objects; one that is closed is used again
          Endpoints,  \* endpoints that the workspace's container may have
          Choosers, Options,
          Ids,        \* numbers the server gives its topics
          Null,
          MaxEvents   \* bound: choosers put up or taken down, selections asked
                      \* for, runs started or stopped, containers moved, and
                      \* connections lost for reasons of their own

Topics == Choosers \X {"options", "active"}

ASSUME Nt4Assumption ==
    /\ Null \notin Sockets \cup Endpoints \cup Options \cup Choosers
               \cup Ids \cup Topics
    /\ Endpoints # {}
    /\ MaxEvents \in Nat

VARIABLES
    entry,   \* entries.get(workspaceId)
    sock,    \* the WebSockets the bridge has made, and what is under way on them
    robot,   \* the robot program and its NetworkTables server
    url,     \* endpoint of the workspace's container
    run,     \* the reported status; "active" is building or stopping
    picks,   \* selections whose handler waits for ensureWorkspaceRunning
    spent    \* events so far

chooserVars == <<entry, sock, robot, url, run, picks, spent>>

Values == (SUBSET Options) \cup Options \cup {Null}

\* Frames of the server name topics that come or go, or carry values by id;
\* those of the bridge subscribe, publish a chooser's selection, or select.
PartialOn(D, R) == UNION {[d -> R] : d \in SUBSET D}
DownFrames == [kind : {"announce"}, topics : PartialOn(Ids, Topics)]
         \cup [kind : {"unannounce"}, topics : SUBSET Topics]
         \cup [kind : {"values"}, of : PartialOn(Ids, Values)]
UpFrames == {<<"subscribe">>} \cup {<<"publish", c>> : c \in Choosers}
            \cup {<<"select", c, o>> : c \in Choosers, o \in Options}

Entries == [there : BOOLEAN, url : Endpoints, sock : Sockets \cup {Null},
            conn : {"disconnected", "reconnecting", "connected"},
            byId : [Ids -> Topics \cup {Null}],
            byName : [Topics -> Ids \cup {Null}],
            values : [Topics -> Values],
            published : Seq(Choosers)]

SocketStates == [ready : {"free", "connecting", "open", "closing"},
                 net : {"connecting", "up", "down"}, to : Endpoints \cup {Null},
                 up : Seq(UpFrames), down : Seq(DownFrames),
                 subscribed : BOOLEAN, pubs : SUBSET Choosers]

Robots == [up : BOOLEAN, topics : [Ids -> Topics \cup {Null}],
           options : [Choosers -> SUBSET Options],
           active : [Choosers -> Options \cup {Null}]]

ChooserTypeOK ==
    /\ entry \in Entries
    /\ sock \in [Sockets -> SocketStates]
    /\ robot \in Robots
    /\ url \in Endpoints
    /\ run \in {"idle", "active", "running"}
    /\ picks \subseteq Choosers \X Options
    /\ spent \in 0 .. MaxEvents

Unused == [ready |-> "free", net |-> "down", to |-> Null, up |-> <<>>,
           down |-> <<>>, subscribed |-> FALSE, pubs |-> {}]
Opening(u) == [Unused EXCEPT !.ready = "connecting", !.net = "connecting",
                             !.to = u]
NewEntry(u) == [there |-> TRUE, url |-> u, sock |-> Null,
                conn |-> "disconnected",
                byId |-> [i \in Ids |-> Null], byName |-> [t \in Topics |-> Null],
                values |-> [t \in Topics |-> Null], published |-> <<>>]
NoRobot == [up |-> FALSE, topics |-> [i \in Ids |-> Null],
            options |-> [c \in Choosers |-> {}],
            active |-> [c \in Choosers |-> Null]]

\* The page may be opened while a run is building.
ChooserInit ==
    /\ url = CHOOSE u \in Endpoints : TRUE
    /\ entry = [NewEntry(url) EXCEPT !.there = FALSE]
    /\ sock = [s \in Sockets |-> Unused]
    /\ robot = NoRobot
    /\ run \in {"idle", "active"}
    /\ picks = {}
    /\ spent = 0

Counts == spent < MaxEvents /\ spent' = spent + 1

----------------------------------------------------------------------------
(* The bridge: ws-bridge.ts and what nt4-auto.ts adds to it. *)

\* What the sockets are once the entry's own is closed.
Hangup == [s \in Sockets |->
             IF s = entry.sock
             THEN [sock[s] EXCEPT !.ready = "closing", !.down = <<>>]
             ELSE sock[s]]

Disconnect ==
    /\ entry' = [entry EXCEPT !.sock = Null, !.conn = "disconnected"]
    /\ sock' = Hangup

\* The entry e gets a new socket; sockets are otherwise as in others.
Open(e, others) ==
    \E s \in Sockets :
        /\ sock[s].ready = "free"
        /\ entry' = [e EXCEPT !.sock = s, !.conn = "reconnecting"]
        /\ sock' = [others EXCEPT ![s] = Opening(e.url)]

KnownAt(u) == entry.there /\ entry.url = u

\* mutant: only a new entry opens a socket
OpensOnce(u) ==
    IF KnownAt(u) THEN UNCHANGED <<entry, sock>> ELSE Open(NewEntry(u), Hangup)
EnsureConnected(u) ==
    IF ~ KnownAt(u) THEN Open(NewEntry(u), Hangup)
    ELSE IF entry.sock = Null THEN Open(entry, sock)
    ELSE UNCHANGED <<entry, sock>>

\* A chooser that the bridge would list: its topics are known by name, and
\* options and an active one have been read.
Listed(c) ==
    /\ \E t \in Topics : t[1] = c /\ entry.byName[t] # Null
    /\ entry.values[<<c, "options">>] \notin Options \cup {Null, {}}
    /\ entry.values[<<c, "active">>] \in Options

Usable(u) == KnownAt(u) /\ entry.sock # Null /\ sock[entry.sock].ready = "open"

\* What is written to a connection that is already lost goes nowhere.
SentOn(frames) == [sock EXCEPT ![entry.sock].up =
                                IF sock[entry.sock].net = "up" THEN @ \o frames ELSE @]

\* A selection is checked against what is listed, and published once.
Select(u, c, o) ==
    IF ~ Usable(u) THEN EnsureConnected(u)
    ELSE IF ~ Listed(c) \/ o \notin entry.values[<<c, "options">>]
    THEN UNCHANGED <<entry, sock>>
    ELSE LET new == c \notin Range(entry.published) IN
         /\ entry' = [entry EXCEPT !.published = IF new THEN Append(@, c) ELSE @]
         /\ sock' = SentOn((IF new THEN <<<<"publish", c>>>> ELSE <<>>)
                          \o <<<<"select", c, o>>>>)

\* mutant: nothing is published again
Subscription == <<<<"subscribe">>>>
\* What a connection starts with.
Handshake == [k \in 1 .. Len(entry.published) |-> <<"publish", entry.published[k]>>]
             \o <<<<"subscribe">>>>

OnOpen(s) ==
    /\ sock[s].ready = "connecting" /\ sock[s].net = "up"
    /\ IF entry.sock = s
       THEN /\ entry' = [entry EXCEPT !.conn = "connected"]
            /\ sock' = [sock EXCEPT ![s].ready = "open", ![s].up = Handshake]
       ELSE entry' = entry /\ sock' = [sock EXCEPT ![s].ready = "open"]
    /\ UNCHANGED <<robot, url, run, picks, spent>>

\* mutant: an id that is known keeps its topic
AnnouncedOnce(e, topics) ==
    [e EXCEPT !.byId = [i \in Ids |-> IF i \in DOMAIN topics /\ @[i] = Null
                                      THEN topics[i] ELSE @[i]],
              !.byName = [t \in Topics |-> IF t \in Range(topics)
                                           THEN CHOOSE i \in DOMAIN topics : topics[i] = t
                                           ELSE @[t]]]
Announced(e, topics) ==
    [e EXCEPT !.byId = [i \in Ids |-> IF i \in DOMAIN topics THEN topics[i] ELSE @[i]],
              !.byName = [t \in Topics |-> IF t \in Range(topics)
                                           THEN CHOOSE i \in DOMAIN topics : topics[i] = t
                                           ELSE @[t]]]

Unannounced(e, topics) ==
    [e EXCEPT !.byId = [i \in Ids |-> IF \E t \in topics : e.byName[t] = i
                                      THEN Null ELSE @[i]],
              !.byName = [t \in Topics |-> IF t \in topics THEN Null ELSE @[t]],
              !.values = [t \in Topics |-> IF t \in topics THEN Null ELSE @[t]]]

\* Values of ids that are not known are dropped.
Read(e, of) ==
    LET current(t) == {i \in DOMAIN of : e.byId[i] = t} IN
    [e EXCEPT !.values = [t \in Topics |->
        IF current(t) = {} THEN @[t] ELSE of[CHOOSE i \in current(t) : TRUE]]]

Handled(e, f) ==
    CASE f.kind = "announce"   -> Announced(e, f.topics)
      [] f.kind = "unannounce" -> Unannounced(e, f.topics)
      [] f.kind = "values"     -> Read(e, f.of)

OnMessage(s) ==
    /\ sock[s].ready = "open" /\ sock[s].down # <<>>
    /\ sock' = [sock EXCEPT ![s].down = Tail(@)]
    /\ entry' = IF entry.sock = s THEN Handled(entry, Head(sock[s].down)) ELSE entry
    /\ UNCHANGED <<robot, url, run, picks, spent>>

\* The stale guard; nothing is scheduled.
OnClose(s) ==
    /\ sock[s].ready # "free" /\ sock[s].net = "down"
    /\ sock[s].ready = "open" => sock[s].down = <<>>
    /\ sock' = [sock EXCEPT ![s] = Unused]
    /\ entry' = IF entry.sock = s
                THEN [entry EXCEPT !.sock = Null, !.conn = "disconnected"]
                ELSE entry
    /\ UNCHANGED <<robot, url, run, picks, spent>>

----------------------------------------------------------------------------
(* The robot, its server and the network. *)

Reachable(s) == robot.up /\ sock[s].to = url

RobotAccepts(s) ==
    /\ sock[s].ready = "connecting" /\ sock[s].net = "connecting" /\ Reachable(s)
    /\ sock' = [sock EXCEPT ![s].net = "up"]
    /\ UNCHANGED <<entry, robot, url, run, picks, spent>>

\* The ids of a set of topics, and the values they carry in robot r.
IdsOf(r, topics) == {i \in Ids : r.topics[i] \in topics}
ValueIn(r, t) == IF t[2] = "options" THEN r.options[t[1]] ELSE r.active[t[1]]
Announces(r, topics) ==
    [kind |-> "announce", topics |-> [i \in IdsOf(r, topics) |-> r.topics[i]]]
Carries(r, topics) ==
    [kind |-> "values", of |-> [i \in IdsOf(r, topics) |-> ValueIn(r, r.topics[i])]]

\* The sockets when the server sends frames to all that have subscribed.
Told(frames) ==
    [s \in Sockets |-> IF sock[s].subscribed /\ sock[s].ready = "open"
                       THEN [sock[s] EXCEPT !.down = @ \o frames] ELSE sock[s]]

\* A team's program puts a chooser on the dashboard, under ids that are free.
TopicsOf(c) == {<<c, "options">>, <<c, "active">>}
WithChooser(c, i, k, os, o) ==
    [robot EXCEPT !.topics[i] = <<c, "options">>, !.topics[k] = <<c, "active">>,
                  !.options[c] = os, !.active[c] = o]
PutsUp(c) ==
    /\ robot.up /\ TopicsOf(c) \cap Range(robot.topics) = {}
    /\ Counts
    /\ \E i, k \in {j \in Ids : robot.topics[j] = Null}, os \in SUBSET Options :
       \E o \in os :
         LET r == WithChooser(c, i, k, os, o) IN
         /\ i # k
         /\ robot' = r
         /\ sock' = Told(<<Announces(r, TopicsOf(c)), Carries(r, TopicsOf(c))>>)
    /\ UNCHANGED <<entry, url, run, picks>>

TakesDown(c) ==
    /\ robot.up /\ TopicsOf(c) \subseteq Range(robot.topics)
    /\ Counts
    /\ robot' = [robot EXCEPT
                   !.topics = [i \in Ids |-> IF @[i] \in TopicsOf(c) THEN Null ELSE @[i]],
                   !.options[c] = {}, !.active[c] = Null]
    /\ sock' = Told(<<[kind |-> "unannounce", topics |-> TopicsOf(c)]>>)
    /\ UNCHANGED <<entry, url, run, picks>>

Receives(s, frame) ==
    CASE frame[1] = "subscribe" ->
           /\ sock' = [sock EXCEPT ![s].up = Tail(@), ![s].subscribed = TRUE,
                                   ![s].down = @ \o <<Announces(robot, Topics),
                                                      Carries(robot, Topics)>>]
           /\ UNCHANGED robot
      [] frame[1] = "publish" ->
           /\ sock' = [sock EXCEPT ![s].up = Tail(@), ![s].pubs = @ \cup {frame[2]}]
           /\ UNCHANGED robot
      [] frame[1] = "select" ->
           LET c == frame[2]  o == frame[3] IN
           IF c \in sock[s].pubs /\ o \in robot.options[c]
           THEN LET r == [robot EXCEPT !.active[c] = o] IN
                /\ robot' = r
                /\ sock' = [Told(<<Carries(r, {<<c, "active">>})>>) EXCEPT ![s].up = Tail(@)]
           ELSE robot' = robot /\ sock' = [sock EXCEPT ![s].up = Tail(@)]

RobotReceives(s) ==
    /\ robot.up /\ sock[s].net = "up" /\ sock[s].up # <<>>
    /\ Receives(s, Head(sock[s].up))
    /\ UNCHANGED <<entry, url, run, picks, spent>>

Down(s) ==
    /\ sock[s].ready # "free" /\ sock[s].net # "down"
    /\ sock' = [sock EXCEPT ![s].net = "down", ![s].up = <<>>, ![s].subscribed = FALSE]
    /\ UNCHANGED <<entry, robot, url, run, picks>>

ConnectionEnds(s) ==
    /\ \/ sock[s].ready = "closing" /\ sock[s].up = <<>>
       \/ sock[s].net = "connecting" /\ ~ Reachable(s)
    /\ Down(s)
    /\ UNCHANGED spent

ConnectionFails(s) == Counts /\ Down(s)

RobotStarts ==
    /\ run = "active" /\ ~ robot.up
    /\ robot' = [NoRobot EXCEPT !.up = TRUE]
    /\ UNCHANGED <<entry, sock, url, run, picks, spent>>

\* The connections of a robot that is gone go down with it.
Dropped == [s \in Sockets |->
              IF sock[s].net = "up"
              THEN [sock[s] EXCEPT !.net = "down", !.up = <<>>, !.subscribed = FALSE]
              ELSE sock[s]]

RobotExits ==
    /\ robot.up
    /\ robot' = NoRobot /\ sock' = Dropped
    /\ UNCHANGED <<entry, url, run, picks, spent>>

\* The container is replaced by one with another endpoint.
ContainerMoves ==
    /\ Counts
    /\ url' \in Endpoints \ {url}
    /\ robot' = NoRobot /\ sock' = Dropped
    /\ UNCHANGED <<entry, run, picks>>

----------------------------------------------------------------------------
(* The run and the routes. *)

RunReady ==
    /\ run = "active" /\ robot.up /\ run' = "running"
    /\ UNCHANGED <<entry, sock, robot, url, picks, spent>>

RunEnds ==
    /\ run # "idle" /\ run' = "idle"
    /\ UNCHANGED <<entry, sock, robot, url, picks, spent>>

\* Every route that starts or stops a run disconnects first, and so do a
\* project swap, the idle sweep and Leave; the last two leave the run to end
\* with its container, and a start may throw.
Commanded ==
    /\ Counts
    /\ run' \in {run, "active"}
    /\ Disconnect
    /\ UNCHANGED <<robot, url, picks>>

\* autoChoosersSnapshot, after its await, with the container running.
Poll ==
    /\ IF run # "idle" THEN EnsureConnected(url) ELSE Disconnect
    /\ UNCHANGED <<robot, url, run, picks, spent>>

PickArrives(c, o) ==
    /\ run = "running"
    /\ Counts
    /\ picks' = picks \cup {<<c, o>>}
    /\ UNCHANGED <<entry, sock, robot, url, run>>

\* The run is not looked at again after the await.
PickApplies(c, o) ==
    /\ <<c, o>> \in picks
    /\ picks' = picks \ {<<c, o>>}
    /\ Select(url, c, o)
    /\ UNCHANGED <<robot, url, run, spent>>

----------------------------------------------------------------------------
SocketEvent(s) == OnOpen(s) \/ OnMessage(s) \/ OnClose(s)
NetworkEvent(s) == RobotAccepts(s) \/ RobotReceives(s) \/ ConnectionEnds(s)

ChooserNext ==
    \/ \E s \in Sockets : SocketEvent(s) \/ NetworkEvent(s) \/ ConnectionFails(s)
    \/ \E c \in Choosers : PutsUp(c) \/ TakesDown(c)
    \/ RobotStarts \/ RobotExits \/ ContainerMoves
    \/ RunReady \/ RunEnds \/ Commanded \/ Poll
    \/ \E c \in Choosers, o \in Options : PickArrives(c, o) \/ PickApplies(c, o)

(* The page polls for ever; what is under way on a connection arrives. *)
ChooserFairness ==
    /\ WF_chooserVars(Poll)
    /\ \A s \in Sockets :
        WF_chooserVars(SocketEvent(s)) /\ WF_chooserVars(NetworkEvent(s))

ChooserSpec == ChooserInit /\ [][ChooserNext]_chooserVars
FairChooserSpec == ChooserSpec /\ ChooserFairness

----------------------------------------------------------------------------
(* A selection is never sent before its topic is published on the same     *)
(* connection, however often the connection is replaced: the server would  *)
(* drop it, and the page be told that it was made.                         *)
PublishedFirst ==
    \A s \in Sockets : \A k \in 1 .. Len(sock[s].up) :
        sock[s].up[k][1] = "select" =>
            \/ sock[s].up[k][2] \in sock[s].pubs
            \/ \E h \in 1 .. k - 1 : sock[s].up[h] = <<"publish", sock[s].up[k][2]>>

\* Nothing is under way between the bridge and the robot that serves it.
Quiet == LET s == entry.sock IN
    /\ entry.conn = "connected" /\ sock[s].net = "up" /\ sock[s].subscribed
    /\ sock[s].up = <<>> /\ sock[s].down = <<>>

\* The bridge has the robot's value of every topic of the robot.
Agrees == \A t \in Topics \cap Range(robot.topics) :
              entry.values[t] = ValueIn(robot, t)

(* Once nothing is under way the bridge knows every topic of the robot by  *)
(* its present value, whatever earlier connections and programs left in    *)
(* its tables under the same names and the same ids.                       *)
QuietAgrees == Quiet => Agrees

(* While a robot runs, polling alone brings the bridge back to it.         *)
PollsReconnect == <>[](run = "running" /\ robot.up) => []<>(Quiet /\ Agrees)
=============================================================================
