----------------------------- MODULE SocketProxy -----------------------------
(***************************************************************************)
(* One proxied WebSocket (app/proxy.ts, app/websocket.ts): the request for *)
(* it, the socket to the browser, the upstream socket to the workspace's   *)
(* container (the simulator's NetworkTables or HALSim server, or VS Code), *)
(* and the messages that wait until the upstream is open.                  *)
(*                                                                         *)
(* Closing the browser's socket runs its close handler in the same turn,   *)
(* and no message of it is handled afterwards; frames on one connection    *)
(* arrive in order.  What the upstream sends is handed on at once and has  *)
(* no state here.                                                          *)
(***************************************************************************)
EXTENDS Naturals, Sequences

CONSTANTS Urls,       \* endpoints that the container may have
          None,
          Limit,      \* PROXY_PENDING_LIMIT
          MaxSends,   \* bound: messages of the browser
          MaxMoves    \* bound: containers started, stopped or moved

ASSUME ProxyAssumption ==
    None \notin Urls /\ Limit \in Nat /\ MaxSends \in Nat /\ MaxMoves \in Nat

VARIABLES
    endpoint,  \* endpoint of the container, None while it is down
    page,      \* the browser's side
    target,    \* ws.data.upstreamUrl
    ws,        \* the control plane's side of the browser's socket
    wire,      \* messages between the browser and the control plane
    pending,   \* ws.data.pendingMessages
    upstream,  \* ws.data.upstream; "open" is with upstreamOpen
    spoken,    \* the subprotocol that the upstream has chosen
    linked,    \* the upstream's connection reaches the container
    flight,    \* messages between the control plane and the container
    sent,      \* number of messages that the browser has sent
    received,  \* messages that the container has received
    moves

vars == <<endpoint, page, target, ws, wire, pending, upstream, spoken, linked,
          flight, sent, received, moves>>

\* The upstream chooses the subprotocol the browser was promised, none, or
\* another of those that were asked for.
Protocols == {"first", "none", "other"}
Agreed == {"first", "none"}
Messages == 1 .. MaxSends

TypeOK ==
    /\ endpoint \in Urls \cup {None} /\ target \in Urls \cup {None}
    /\ page \in {"asking", "waiting", "open", "leaving", "closed"}
    /\ ws \in {"none", "open", "closed"}
    /\ upstream \in {"none", "connecting", "open", "closing", "closed"}
    /\ spoken \in Protocols \cup {"unknown"}
    /\ wire \in Seq(Messages) /\ pending \in Seq(Messages)
    /\ flight \in Seq(Messages) /\ received \in Seq(Messages)
    /\ linked \in BOOLEAN
    /\ sent \in 0 .. MaxSends /\ moves \in 0 .. MaxMoves

Init ==
    /\ endpoint \in Urls \cup {None}
    /\ page = "asking" /\ target = None /\ ws = "none"
    /\ wire = <<>> /\ pending = <<>>
    /\ upstream = "none" /\ spoken = "unknown" /\ linked = FALSE
    /\ flight = <<>>
    /\ sent = 0 /\ received = <<>> /\ moves = 0

----------------------------------------------------------------------------
(* The request: what ensureWorkspaceRunning tells of the endpoint is used   *)
(* after a probe that may take half a minute.                               *)
Ensured ==
    /\ page = "asking"
    /\ IF endpoint = None
       THEN page' = "closed" /\ UNCHANGED target
       ELSE page' = "waiting" /\ target' = endpoint
    /\ UNCHANGED <<endpoint, ws, wire, pending, upstream, spoken, linked, flight, sent,
                   received, moves>>

NeverReady ==
    /\ page = "waiting" /\ page' = "closed"
    /\ UNCHANGED <<endpoint, target, ws, wire, pending, upstream, spoken, linked, flight,
                   sent, received, moves>>

\* server.upgrade, and the open handler with openProxyUpstream.
Upgrade ==
    /\ page = "waiting"
    /\ page' = "open" /\ ws' = "open" /\ upstream' = "connecting"
    /\ UNCHANGED <<endpoint, target, wire, pending, spoken, linked, flight, sent,
                   received, moves>>

----------------------------------------------------------------------------
(* The browser. *)

\* Until it learns that its socket is closed it may send into the void.
BrowserSends ==
    /\ page = "open" /\ sent < MaxSends
    /\ sent' = sent + 1
    /\ wire' = IF ws = "open" THEN Append(wire, sent + 1) ELSE wire
    /\ UNCHANGED <<endpoint, page, target, ws, pending, upstream, spoken, linked, flight,
                   received, moves>>

BrowserCloses ==
    /\ page = "open" /\ page' = "leaving"
    /\ UNCHANGED <<endpoint, target, ws, wire, pending, upstream, spoken, linked, flight,
                   sent, received, moves>>

BrowserLearns ==
    /\ page \in {"open", "leaving"} /\ ws = "closed" /\ page' = "closed"
    /\ UNCHANGED <<endpoint, target, ws, wire, pending, upstream, spoken, linked, flight,
                   sent, received, moves>>

----------------------------------------------------------------------------
(* The handlers of the browser's socket. *)

\* mutant: the upstream is left alone
CloseAlone ==
    /\ ws' = "closed" /\ wire' = <<>>
    /\ pending' = <<>> /\ UNCHANGED upstream
\* The close handler; ws.close runs it too.
Close ==
    /\ ws' = "closed" /\ wire' = <<>>
    /\ pending' = <<>>
    /\ upstream' = IF upstream \in {"connecting", "open"} THEN "closing" ELSE upstream

\* The browser's close frame comes behind its messages; a connection that is
\* lost takes them with it.
WsCloses ==
    /\ ws = "open"
    /\ page = "leaving" => wire = <<>>
    /\ Close
    /\ UNCHANGED <<endpoint, page, target, spoken, linked, flight, sent, received, moves>>

\* What is written to a connection that is lost goes nowhere.
Sent(messages) == IF linked THEN flight \o messages ELSE flight

\* mutant: a message that does not fit pushes the oldest one out
Drops ==
    /\ ws = "open" /\ wire # <<>>
    /\ wire' = Tail(wire)
    /\ IF upstream = "open"
       THEN flight' = Sent(<<Head(wire)>>) /\ UNCHANGED pending
       ELSE /\ pending' = IF Len(pending) >= Limit THEN Append(Tail(pending), Head(wire))
                          ELSE Append(pending, Head(wire))
            /\ UNCHANGED flight
    /\ UNCHANGED <<endpoint, page, target, ws, upstream, spoken, linked, sent, received,
                   moves>>
Message ==
    /\ ws = "open" /\ wire # <<>>
    /\ \/ /\ upstream = "open"
          /\ wire' = Tail(wire) /\ flight' = Sent(<<Head(wire)>>)
          /\ UNCHANGED <<ws, pending, upstream>>
       \/ /\ upstream # "open" /\ Len(pending) < Limit
          /\ wire' = Tail(wire) /\ pending' = Append(pending, Head(wire))
          /\ UNCHANGED <<ws, upstream, flight>>
       \/ /\ upstream # "open" /\ Len(pending) >= Limit
          /\ Close /\ UNCHANGED flight
    /\ UNCHANGED <<endpoint, page, target, spoken, linked, sent, received, moves>>

----------------------------------------------------------------------------
(* The events of the upstream socket. *)

\* mutant: what has waited is forgotten to be sent
OpensWithoutFlush ==
    /\ upstream = "connecting" /\ endpoint = target
    /\ spoken' \in Protocols
    /\ IF spoken' \in Agreed
       THEN /\ upstream' = "open" /\ linked' = TRUE
            /\ UNCHANGED <<ws, wire, pending, flight>>
       ELSE Close /\ UNCHANGED <<linked, flight>>
    /\ UNCHANGED <<endpoint, page, target, sent, received, moves>>
UpstreamOpens ==
    /\ upstream = "connecting" /\ endpoint = target
    /\ spoken' \in Protocols
    /\ IF spoken' \in Agreed
       THEN /\ upstream' = "open" /\ linked' = TRUE
            /\ flight' = flight \o pending /\ pending' = <<>>
            /\ UNCHANGED <<ws, wire>>
       ELSE Close /\ UNCHANGED <<linked, flight>>
    /\ UNCHANGED <<endpoint, page, target, sent, received, moves>>

\* An error, or a close by the container or because it is gone.
UpstreamEnds ==
    /\ \/ upstream \in {"connecting", "open"}
       \/ upstream = "closing" /\ flight = <<>>
    /\ upstream' = "closed" /\ linked' = FALSE /\ flight' = <<>>
    /\ IF ws = "open" THEN ws' = "closed" /\ wire' = <<>> /\ pending' = <<>>
       ELSE UNCHANGED <<ws, wire, pending>>
    /\ UNCHANGED <<endpoint, page, target, spoken, sent, received, moves>>

Arrives ==
    /\ flight # <<>>
    /\ received' = Append(received, Head(flight)) /\ flight' = Tail(flight)
    /\ UNCHANGED <<endpoint, page, target, ws, wire, pending, upstream, spoken, linked,
                   sent, moves>>

\* The container is stopped, started, or replaced by one elsewhere.
Moves ==
    /\ moves < MaxMoves /\ moves' = moves + 1
    /\ endpoint' \in (Urls \cup {None}) \ {endpoint}
    /\ linked' = FALSE /\ flight' = <<>>
    /\ UNCHANGED <<page, target, ws, wire, pending, upstream, spoken, sent, received>>

----------------------------------------------------------------------------
Request == Ensured \/ NeverReady \/ Upgrade
Browser == BrowserSends \/ BrowserCloses \/ BrowserLearns
Handlers == WsCloses \/ Message \/ UpstreamOpens \/ UpstreamEnds

Next == Request \/ Browser \/ Handlers \/ Arrives \/ Moves

(* A request is answered, a close frame and what is under way arrive, and  *)
(* a connection opens or fails.  Nobody has to send, to close or to move.  *)
Fairness ==
    /\ WF_vars(Request) /\ WF_vars(BrowserLearns)
    /\ WF_vars(page = "leaving" /\ WsCloses) /\ WF_vars(Message)
    /\ WF_vars(upstream # "open" /\ (UpstreamOpens \/ UpstreamEnds))
    /\ WF_vars(~ linked /\ UpstreamEnds)
    /\ WF_vars(Arrives)

Spec == Init /\ [][Next]_vars
FairSpec == Spec /\ Fairness

----------------------------------------------------------------------------
ThePipe == INSTANCE Pipe

(* The container receives what the browser sends in order, exactly once    *)
(* and without a gap, whether it waited in the queue or not, and nothing   *)
(* under a subprotocol the browser was not promised.                       *)
RefinesPipe == ThePipe!Spec

\* Both sockets are closed, or the request was refused.
Over == page = "closed" /\ upstream \in {"none", "closed"}

(* Neither socket outlives the other: the browser's close reaches the      *)
(* container, and every end of the upstream reaches the browser.           *)
EndsTogether ==
    (page \in {"leaving", "closed"} \/ ws = "closed" \/ upstream = "closed") ~> Over

(* A message is received, or the browser is told that the socket is gone.  *)
(* None waits for ever, in particular not in the queue of an upstream that *)
(* has opened.                                                             *)
NothingWaits == \A k \in Messages : sent >= k ~> (Len(received) >= k \/ Over)

\* Where message k is while it is under way.
IsIn(k, q) == \E i \in 1 .. Len(q) : q[i] = k
UnderWay(k) ==
    \/ IsIn(k, wire) \/ IsIn(k, flight)
    \/ upstream = "connecting" /\ IsIn(k, pending)

(* No message is nowhere: what the browser has sent and the container has  *)
(* not received is on a wire, or waits for an upstream that is still       *)
(* connecting, unless the connection it went to is lost, which the browser *)
(* is told, or its socket is closed and the upstream with it.              *)
NothingIsNowhere ==
    \A k \in 1 .. sent :
        \/ Len(received) >= k \/ UnderWay(k)
        \/ upstream = "open" /\ ~ linked
        \/ ws = "closed" /\ upstream \in {"closing", "closed"}
=============================================================================
