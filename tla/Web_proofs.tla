----------------------------- MODULE Web_proofs -----------------------------
(***************************************************************************)
(* Proofs about the WebSockets behind a page and the page around them: a   *)
(* proxied socket is a pipe (SocketProxy, Pipe), the panes are laid out as *)
(* they were chosen (PaneLayout), both checked by MCWeb; and the bridge to *)
(* the robot's choosers sends no selection that would be dropped and knows *)
(* what the robot has (Nt4Choosers).                                       *)
(***************************************************************************)
EXTENDS MCWeb, Nt4Choosers, TLAPS

-----------------------------------------------------------------------------
(***************************************************************************)
(* A proxied WebSocket.                                                    *)
(* For any endpoints, queue limit and numbers of messages and moves.       *)
(***************************************************************************)

\* The messages of q are those that follow the first n, in their order.
Follows(q, n) == \A i \in 1 .. Len(q) : q[i] = n + i

(* Taking the next message, adding one and joining two stretches.          *)
LEMMA FollowsTail ==
    ASSUME NEW q \in Seq(Messages), NEW n \in Nat, Follows(q, n), q # <<>>
    PROVE  /\ Head(q) = n + 1 /\ Follows(Tail(q), n + 1)
           /\ Len(Tail(q)) = Len(q) - 1 /\ Len(q) >= 1
BY DEF Follows

LEMMA FollowsAppend ==
    ASSUME NEW q \in Seq(Messages), NEW n \in Nat, Follows(q, n),
           NEW x \in Messages, x = n + Len(q) + 1
    PROVE  Follows(Append(q, x), n)
BY DEF Follows

LEMMA FollowsConcat ==
    ASSUME NEW p \in Seq(Messages), NEW q \in Seq(Messages), NEW n \in Nat,
           Follows(p, n), Follows(q, n + Len(p))
    PROVE  Follows(p \o q, n) /\ Len(p \o q) = Len(p) + Len(q)
BY DEF Follows

LEMMA FollowsNothing == ASSUME NEW n \in Nat PROVE Follows(<<>>, n)
BY DEF Follows

\* Which states of the sockets go together.
PairInv ==
    /\ ws = "none" <=> upstream = "none"
    /\ ws = "open" <=> upstream \in {"connecting", "open"}
    /\ page \in {"asking", "waiting"} => ws = "none"
    /\ page \in {"open", "leaving"} => ws # "none"
    /\ ws = "open" => page # "closed"

\* A connection is there from the time the upstream agreed on a protocol.
LinkInv ==
    /\ upstream \in {"none", "connecting"} => spoken = "unknown" /\ ~ linked
    /\ linked => spoken \in Agreed
    /\ ~ linked => flight = <<>>
    /\ spoken = "unknown" => received = <<>>

\* Where the messages are.  Those that went to a lost connection are nowhere.
Gone == Len(received) + Len(flight)
WhereInv ==
    /\ Follows(received, 0) /\ Follows(flight, Len(received))
    /\ Gone <= sent
    /\ ws = "none" => sent = 0
    /\ ws # "open" => wire = <<>> /\ pending = <<>>
    /\ upstream = "connecting" =>
         /\ Follows(pending, 0) /\ Follows(wire, Len(pending))
         /\ sent = Len(pending) + Len(wire)
    /\ upstream = "open" => pending = <<>>
    /\ upstream = "open" /\ linked => Follows(wire, Gone) /\ sent = Gone + Len(wire)

IInv == TypeOK /\ PairInv /\ LinkInv /\ WhereInv

----------------------------------------------------------------------------
LEMMA InitInv == Init => IInv
<1> SUFFICES ASSUME Init PROVE IInv
  OBVIOUS
<1>1. <<>> \in Seq(Messages) /\ 0 \in 0 .. MaxSends /\ 0 \in 0 .. MaxMoves
  BY ProxyAssumption
<1>2. TypeOK
  BY <1>1 DEF Init, TypeOK
<1>3. PairInv /\ LinkInv
  BY DEF Init, PairInv, LinkInv
<1>4. WhereInv
  BY FollowsNothing DEF Init, WhereInv, Gone
<1> QED
  BY <1>2, <1>3, <1>4 DEF IInv

\* A step that moves no message and leaves the connection as it is.
LEMMA RequestKeeps == IInv /\ Request => IInv'
<1> SUFFICES ASSUME IInv, Request PROVE IInv'
  OBVIOUS
<1> USE DEF IInv
<1>1. CASE Ensured
  BY <1>1 DEF Ensured, TypeOK, PairInv, LinkInv, WhereInv, Gone
<1>2. CASE NeverReady
  BY <1>2 DEF NeverReady, TypeOK, PairInv, LinkInv, WhereInv, Gone
<1>3. CASE Upgrade
  <2>1. ws = "none" /\ sent = 0 /\ pending = <<>> /\ wire = <<>>
    BY <1>3 DEF Upgrade, PairInv, WhereInv
  <2>2. spoken = "unknown" /\ ~ linked
    BY <1>3, <2>1 DEF PairInv, LinkInv
  <2>3. Follows(<<>>, 0) /\ Len(<<>>) = 0
    BY FollowsNothing
  <2>4. TypeOK' /\ PairInv' /\ LinkInv'
    BY <1>3, <2>1, <2>2 DEF Upgrade, TypeOK, PairInv, LinkInv
  <2>5. WhereInv'
    BY <1>3, <2>1, <2>3, FollowsNothing DEF Upgrade, TypeOK, WhereInv, Gone
  <2> QED
    BY <2>4, <2>5
<1> QED
  BY <1>1, <1>2, <1>3 DEF Request

LEMMA SendKeeps == IInv /\ BrowserSends => IInv'
<1> SUFFICES ASSUME IInv, BrowserSends PROVE IInv'
  OBVIOUS
<1> USE DEF IInv
<1>1. /\ sent + 1 \in Messages /\ sent' = sent + 1 /\ sent \in Nat
      /\ Len(received) \in Nat /\ Len(flight) \in Nat /\ Len(wire) \in Nat
      /\ Len(pending) \in Nat
  BY ProxyAssumption DEF BrowserSends, TypeOK, Messages
<1>0. wire' \in Seq(Messages)
  BY <1>1 DEF BrowserSends, TypeOK
<1>5. sent' \in 0 .. MaxSends
  BY <1>1, ProxyAssumption DEF Messages
<1>2. TypeOK' /\ PairInv' /\ LinkInv'
  BY <1>0, <1>5 DEF BrowserSends, TypeOK, PairInv, LinkInv
<1>3. CASE ws = "open"
  <2>1. wire' = Append(wire, sent + 1) /\ Len(wire') = Len(wire) + 1 /\ wire \in Seq(Messages)
    BY <1>1, <1>3 DEF BrowserSends, TypeOK
  <2>2. upstream = "connecting" => Follows(wire', Len(pending)) /\ sent' = Len(pending) + Len(wire')
    BY <1>1, <2>1, FollowsAppend DEF WhereInv
  <2>3. upstream = "open" /\ linked => Follows(wire', Gone) /\ sent' = Gone + Len(wire')
    BY <1>1, <2>1, FollowsAppend DEF WhereInv, Gone
  <2>4. WhereInv'
    BY <1>1, <1>3, <2>2, <2>3 DEF BrowserSends, WhereInv, Gone, PairInv
  <2> QED
    BY <1>2, <2>4
<1>4. CASE ws # "open"
  <2>1. WhereInv'
    BY <1>1, <1>4 DEF BrowserSends, WhereInv, Gone, PairInv
  <2> QED
    BY <1>2, <2>1
<1> QED
  BY <1>3, <1>4

LEMMA BrowserKeeps == IInv /\ (BrowserCloses \/ BrowserLearns) => IInv'
<1> SUFFICES ASSUME IInv, BrowserCloses \/ BrowserLearns PROVE IInv'
  OBVIOUS
<1>1. /\ page' \in {"leaving", "closed"} /\ ws # "none"
      /\ page' = "closed" => ws # "open"
      /\ UNCHANGED <<endpoint, target, ws, wire, pending, upstream, spoken, linked,
                     flight, sent, received, moves>>
  BY DEF IInv, PairInv, BrowserCloses, BrowserLearns
<1>2. TypeOK' /\ PairInv'
  BY <1>1 DEF IInv, TypeOK, PairInv
<1>3. LinkInv' /\ WhereInv'
  BY <1>1 DEF IInv, LinkInv, WhereInv, Gone
<1> QED
  BY <1>2, <1>3 DEF IInv

\* Closing the browser's socket leaves what the upstream has alone.
LEMMA CloseKeeps ==
    ASSUME IInv, ws = "open", Close, UNCHANGED <<flight, linked, received, sent>>,
           UNCHANGED <<endpoint, page, target, moves>>,
           \/ UNCHANGED spoken
           \/ upstream = "connecting" /\ spoken' \in Protocols
    PROVE  IInv'
<1> USE DEF IInv
<1>1. upstream' = "closing" /\ ws' = "closed" /\ wire' = <<>> /\ pending' = <<>>
  BY DEF Close, PairInv
<1>2. TypeOK' /\ PairInv'
  BY <1>1 DEF TypeOK, PairInv, Protocols
<1>3. LinkInv'
  BY <1>1 DEF LinkInv, Protocols, Agreed
<1>4. WhereInv'
  BY <1>1, <1>2 DEF WhereInv, Gone
<1> QED
  BY <1>2, <1>3, <1>4

LEMMA WsClosesKeeps == IInv /\ WsCloses => IInv'
BY CloseKeeps DEF WsCloses

LEMMA MessageKeeps == IInv /\ Message => IInv'
<1> SUFFICES ASSUME IInv, Message PROVE IInv'
  OBVIOUS
<1> USE DEF IInv
<1>0. ws = "open" /\ wire # <<>> /\ wire \in Seq(Messages) /\ pending \in Seq(Messages)
      /\ flight \in Seq(Messages) /\ received \in Seq(Messages)
  BY DEF Message, TypeOK
<1>1. /\ Head(wire) \in Messages /\ Tail(wire) \in Seq(Messages)
      /\ Len(received) \in Nat /\ Len(flight) \in Nat /\ Len(pending) \in Nat /\ Gone \in Nat
      /\ Len(wire) \in Nat
  BY <1>0 DEF Gone
<1>2. CASE upstream = "open" /\ wire' = Tail(wire) /\ flight' = Sent(<<Head(wire)>>)
           /\ UNCHANGED <<ws, pending, upstream>>
  <2>0. UNCHANGED <<endpoint, page, target, spoken, linked, sent, received, moves>>
    BY DEF Message
  <2>1. TypeOK' /\ PairInv'
    BY <1>0, <1>1, <1>2, <2>0 DEF TypeOK, PairInv, Sent
  <2>2. LinkInv'
    BY <1>2, <2>0 DEF LinkInv, Sent
  <2>3. CASE linked
    <3>1. Head(wire) = Gone + 1 /\ Follows(Tail(wire), Gone + 1) /\ Len(Tail(wire)) = Len(wire) - 1
      BY <1>0, <1>1, <1>2, <2>3, FollowsTail DEF WhereInv
    <3>2. Follows(<<Head(wire)>>, Len(received) + Len(flight))
      BY <1>1, <3>1 DEF Follows, Gone
    <3>3. Follows(flight', Len(received)) /\ Len(flight') = Len(flight) + 1
      <4>1. <<Head(wire)>> \in Seq(Messages) /\ Len(<<Head(wire)>>) = 1
        BY <1>1
      <4>2. flight' = flight \o <<Head(wire)>>
        BY <1>2, <2>3 DEF Sent
      <4> QED
        BY <1>0, <1>1, <3>2, <4>1, <4>2, FollowsConcat DEF WhereInv
    <3>4. Gone' = Gone + 1
      BY <1>1, <2>0, <3>3 DEF Gone
    <3>5. WhereInv'
      BY <1>0, <1>1, <1>2, <2>0, <2>3, <3>1, <3>3, <3>4, FollowsTail DEF WhereInv, TypeOK
    <3> QED
      BY <2>1, <2>2, <3>5
  <2>4. CASE ~ linked
    <3>1. flight' = flight
      BY <1>2, <2>4 DEF Sent
    <3>2. WhereInv'
      BY <1>0, <1>2, <2>0, <2>4, <3>1 DEF WhereInv, Gone
    <3> QED
      BY <2>1, <2>2, <3>2
  <2> QED
    BY <2>3, <2>4
<1>3. CASE upstream # "open" /\ wire' = Tail(wire) /\ pending' = Append(pending, Head(wire))
           /\ UNCHANGED <<ws, upstream, flight>>
  <2>0. UNCHANGED <<endpoint, page, target, spoken, linked, sent, received, moves>>
    BY DEF Message
  <2>1. TypeOK' /\ PairInv' /\ LinkInv'
    BY <1>0, <1>1, <1>3, <2>0 DEF TypeOK, PairInv, LinkInv
  <2>2. upstream = "connecting"
    BY <1>0, <1>3 DEF PairInv
  <2>3. Head(wire) = Len(pending) + 1 /\ Follows(Tail(wire), Len(pending) + 1)
        /\ Len(Tail(wire)) = Len(wire) - 1
    BY <1>0, <1>1, <2>2, FollowsTail DEF WhereInv
  <2>4. Follows(pending', 0) /\ Len(pending') = Len(pending) + 1
    BY <1>0, <1>1, <1>3, <2>2, <2>3, FollowsAppend DEF WhereInv
  <2>5. WhereInv'
    BY <1>0, <1>1, <1>3, <2>0, <2>2, <2>3, <2>4 DEF WhereInv, Gone, TypeOK
  <2> QED
    BY <2>1, <2>5
<1>4. CASE Close /\ UNCHANGED flight
  BY <1>0, <1>4, CloseKeeps DEF Message
<1> QED
  BY <1>2, <1>3, <1>4 DEF Message

LEMMA OpensKeeps == IInv /\ UpstreamOpens => IInv'
<1> SUFFICES ASSUME IInv, UpstreamOpens PROVE IInv'
  OBVIOUS
<1> USE DEF IInv
<1>0. ws = "open" /\ upstream = "connecting" /\ spoken = "unknown" /\ ~ linked
      /\ received = <<>> /\ flight = <<>> /\ pending \in Seq(Messages) /\ wire \in Seq(Messages)
  BY DEF UpstreamOpens, PairInv, LinkInv, TypeOK
<1>1. CASE spoken' \in Agreed
  <2>1. upstream' = "open" /\ linked' = TRUE /\ flight' = flight \o pending /\ pending' = <<>>
        /\ UNCHANGED <<ws, wire, endpoint, page, target, sent, received, moves>>
    BY <1>1 DEF UpstreamOpens
  <2>2. flight' = pending
    BY <1>0, <2>1
  <2>3. TypeOK' /\ PairInv' /\ LinkInv'
    BY <1>0, <1>1, <2>1, <2>2 DEF TypeOK, PairInv, LinkInv, Agreed, Protocols
  <2>4. Len(received) = 0 /\ Len(pending) \in Nat /\ Len(wire) \in Nat
    BY <1>0
  <2>5. Gone' = Len(pending)
    BY <2>1, <2>2, <2>4 DEF Gone
  <2>6. WhereInv'
    BY <1>0, <2>1, <2>2, <2>4, <2>5 DEF WhereInv
  <2> QED
    BY <2>3, <2>6
<1>2. CASE spoken' \notin Agreed
  BY <1>0, <1>2, CloseKeeps DEF UpstreamOpens
<1> QED
  BY <1>1, <1>2

LEMMA EndsKeeps == IInv /\ UpstreamEnds => IInv'
<1> SUFFICES ASSUME IInv, UpstreamEnds PROVE IInv'
  OBVIOUS
<1> USE DEF IInv
<1>1. /\ upstream' = "closed" /\ linked' = FALSE /\ flight' = <<>>
      /\ ws' = "closed" /\ wire' = <<>> /\ pending' = <<>>
      /\ UNCHANGED <<endpoint, page, target, spoken, sent, received, moves>>
  BY DEF UpstreamEnds, TypeOK, PairInv, WhereInv
<1>2. upstream # "none"
  BY DEF UpstreamEnds
<1>0. <<>> \in Seq(Messages)
  OBVIOUS
<1>7. TypeOK'
  BY <1>0, <1>1 DEF TypeOK
<1>8. PairInv'
  <2>1. ws # "none"
    BY <1>2 DEF PairInv
  <2>2. page \notin {"asking", "waiting"}
    BY <2>1 DEF PairInv
  <2> QED
    BY <1>1, <2>2 DEF PairInv
<1>9. LinkInv'
  BY <1>1 DEF LinkInv, UpstreamEnds
<1>4. Len(received) \in Nat /\ Len(flight) \in Nat /\ sent \in Nat
  BY DEF TypeOK
<1>5. Len(received) <= sent /\ Len(flight') = 0
  BY <1>1, <1>4 DEF WhereInv, Gone
<1>6. WhereInv'
  BY <1>1, <1>4, <1>5, FollowsNothing DEF WhereInv, Gone
<1> QED
  BY <1>6, <1>7, <1>8, <1>9

LEMMA ArrivesKeeps == IInv /\ Arrives => IInv'
<1> SUFFICES ASSUME IInv, Arrives PROVE IInv'
  OBVIOUS
<1> USE DEF IInv
<1>1. flight \in Seq(Messages) /\ received \in Seq(Messages) /\ flight # <<>>
  BY DEF TypeOK, Arrives
<1>2. Head(flight) \in Messages /\ Tail(flight) \in Seq(Messages)
      /\ Len(received) \in Nat /\ Len(flight) \in Nat
  BY <1>1
<1>3. Head(flight) = Len(received) + 1 /\ Follows(Tail(flight), Len(received) + 1)
      /\ Len(Tail(flight)) = Len(flight) - 1
  BY <1>1, <1>2, FollowsTail DEF WhereInv
<1>4. Follows(received', 0) /\ Len(received') = Len(received) + 1
  BY <1>1, <1>2, <1>3, FollowsAppend DEF Arrives, WhereInv
<1>5. TypeOK' /\ PairInv'
  BY <1>1, <1>2 DEF Arrives, TypeOK, PairInv
<1>6. LinkInv'
  BY <1>1 DEF Arrives, LinkInv, Agreed
<1>7. Gone' = Gone
  BY <1>2, <1>3, <1>4 DEF Arrives, Gone
<1>8. WhereInv'
  BY <1>1, <1>3, <1>4, <1>7 DEF Arrives, WhereInv
<1> QED
  BY <1>5, <1>6, <1>8

LEMMA MovesKeeps == IInv /\ Moves => IInv'
<1> SUFFICES ASSUME IInv, Moves PROVE IInv'
  OBVIOUS
<1> USE DEF IInv
<1>0. moves' \in 0 .. MaxMoves /\ endpoint' \in Urls \cup {None} /\ <<>> \in Seq(Messages)
  BY ProxyAssumption DEF Moves, TypeOK
<1>4. TypeOK'
  BY <1>0 DEF Moves, TypeOK
<1>1. PairInv' /\ LinkInv'
  BY DEF Moves, PairInv, LinkInv
<1>2. Len(received) \in Nat /\ Len(flight) \in Nat /\ sent \in Nat
  BY DEF TypeOK
<1>3. WhereInv'
  BY <1>2, FollowsNothing DEF Moves, WhereInv, Gone, LinkInv
<1> QED
  BY <1>1, <1>3, <1>4

(* The inductive invariant of a proxied socket: which states go together   *)
(* and where each message is.                                              *)
THEOREM Invariance == Spec => []IInv
<1>1. IInv /\ [Next]_vars => IInv'
  <2> SUFFICES ASSUME IInv, [Next]_vars PROVE IInv'
    OBVIOUS
  <2>1. CASE UNCHANGED vars
    BY <2>1 DEF vars, IInv, TypeOK, PairInv, LinkInv, WhereInv, Gone
  <2>2. CASE Next
    BY <2>2, RequestKeeps, SendKeeps, BrowserKeeps, WsClosesKeeps, MessageKeeps, OpensKeeps,
       EndsKeeps, ArrivesKeeps, MovesKeeps
       DEF Next, Browser, Handlers
  <2> QED
    BY <2>1, <2>2
<1> QED
  BY InitInv, <1>1, PTL DEF Spec

(* Every variable of the proxy keeps its type.                             *)
THEOREM TypeCorrect == Spec => []TypeOK
<1>1. IInv => TypeOK
  BY DEF IInv
<1> QED
  BY <1>1, Invariance, PTL

----------------------------------------------------------------------------
LEMMA InitMaps == Init => ThePipe!Init
BY DEF Init, ThePipe!Init

LEMMA StepMaps ==
    IInv /\ [Next]_vars => [ThePipe!Next]_<<spoken, sent, received>>
<1> SUFFICES ASSUME IInv, [Next]_vars
             PROVE  ThePipe!Next \/ UNCHANGED <<spoken, sent, received>>
  OBVIOUS
<1>1. CASE UNCHANGED vars
  BY <1>1 DEF vars
<1>2. CASE Request \/ BrowserCloses \/ BrowserLearns \/ WsCloses \/ Message \/ UpstreamEnds
           \/ Moves
  BY <1>2 DEF Request, Ensured, NeverReady, Upgrade, BrowserCloses, BrowserLearns, WsCloses,
     Message, UpstreamEnds, Moves
<1>3. CASE BrowserSends
  BY <1>3 DEF BrowserSends, ThePipe!Next, ThePipe!Sends
<1>4. CASE UpstreamOpens
  <2>1. spoken = "unknown"
    BY <1>4 DEF UpstreamOpens, IInv, LinkInv
  <2> QED
    BY <1>4, <2>1 DEF UpstreamOpens, ThePipe!Next, ThePipe!Chooses
<1>5. CASE Arrives
  <2>1. flight \in Seq(Messages) /\ received \in Seq(Messages) /\ flight # <<>> /\ sent \in Nat
    BY <1>5 DEF Arrives, IInv, TypeOK
  <2>2. Head(flight) = Len(received) + 1 /\ Len(flight) >= 1
    BY <2>1, FollowsTail DEF IInv, WhereInv
  <2>3. Len(received) < sent
    BY <2>1, <2>2 DEF IInv, WhereInv, Gone
  <2>4. spoken \in Agreed
    BY <2>1 DEF IInv, LinkInv
  <2> QED
    BY <1>5, <2>2, <2>3, <2>4 DEF Arrives, ThePipe!Next, ThePipe!Delivers
<1> QED
  BY <1>1, <1>2, <1>3, <1>4, <1>5 DEF Next, Browser, Handlers

(* A proxied socket implements the pipe: in order, once, without a gap,    *)
(* and under a protocol that the browser was promised.                     *)
THEOREM ImplementsPipe == Spec => RefinesPipe
BY InitMaps, StepMaps, Invariance, PTL DEF Spec, RefinesPipe, ThePipe!Spec

----------------------------------------------------------------------------
\* A message that a stretch reaches is in it.
LEMMA FollowsReaches ==
    ASSUME NEW q \in Seq(Messages), NEW n \in Nat, Follows(q, n),
           NEW k \in Nat, n < k, k <= n + Len(q)
    PROVE  IsIn(k, q)
<1>1. k - n \in 1 .. Len(q)
  OBVIOUS
<1>2. q[k - n] = k
  BY <1>1 DEF Follows
<1>. QED
  BY <1>1, <1>2 DEF IsIn

(* What the browser has sent is received, on its way or waiting, unless    *)
(* the connection it took is lost or the socket is over                    *)
(* (websocket-proxy.ts): why NothingWaits needs no other fairness.         *)
THEOREM NoMessageIsNowhere == Spec => []NothingIsNowhere
<1>1. ASSUME IInv PROVE NothingIsNowhere
  <2>. SUFFICES ASSUME NEW k \in 1 .. sent, ~ (Len(received) >= k),
                       ~ (upstream = "open" /\ ~ linked),
                       ~ (ws = "closed" /\ upstream \in {"closing", "closed"})
                PROVE  UnderWay(k)
    BY DEF NothingIsNowhere
  <2>1. /\ wire \in Seq(Messages) /\ flight \in Seq(Messages)
        /\ pending \in Seq(Messages) /\ received \in Seq(Messages)
        /\ sent \in Nat /\ k \in Nat /\ 1 <= k /\ k <= sent
        /\ Len(received) \in Nat /\ Len(flight) \in Nat /\ Len(pending) \in Nat
        /\ Len(wire) \in Nat /\ Len(received) < k
    BY <1>1, ProxyAssumption DEF IInv, TypeOK
  <2>2. upstream \in {"connecting", "open"}
    BY <1>1, <2>1 DEF IInv, TypeOK, PairInv, WhereInv
  <2>3. CASE upstream = "connecting"
    <3>1. /\ Follows(pending, 0) /\ Follows(wire, Len(pending))
          /\ sent = Len(pending) + Len(wire)
      BY <1>1, <2>3 DEF IInv, WhereInv
    <3>2. CASE k <= Len(pending)
      BY <2>1, <2>3, <3>1, <3>2, FollowsReaches DEF UnderWay
    <3>3. CASE k > Len(pending)
      BY <2>1, <3>1, <3>3, FollowsReaches DEF UnderWay
    <3>. QED
      BY <2>1, <3>2, <3>3
  <2>4. CASE upstream = "open"
    <3>1. /\ Follows(flight, Len(received)) /\ Follows(wire, Gone)
          /\ sent = Gone + Len(wire) /\ Gone = Len(received) + Len(flight)
      BY <1>1, <2>4 DEF IInv, WhereInv, Gone
    <3>2. CASE k <= Gone
      BY <2>1, <3>1, <3>2, FollowsReaches DEF UnderWay
    <3>3. CASE k > Gone
      BY <2>1, <3>1, <3>3, FollowsReaches DEF UnderWay
    <3>. QED
      BY <2>1, <3>1, <3>2, <3>3
  <2>. QED
    BY <2>2, <2>3, <2>4
<1>. QED
  BY <1>1, Invariance, PTL

-----------------------------------------------------------------------------
(***************************************************************************)
(* The run channel and the endpoint of AdvantageScope.                     *)
(* For any number of losses and of switches.                               *)
(***************************************************************************)

\* One channel or one retry, and what the page says of an open one.
FeedInv ==
    /\ FeedTypeOK
    /\ simSlug <=> (runSocket # "none" \/ retryArmed)
    /\ retryArmed => runSocket = "none"
    /\ runSocket = "open" => runConnection = "connected"
    /\ simSlug <=> scope # "unmounted"
    /\ scope # "loaded"

LEMMA FeedStart == FeedInit => FeedInv
<1>1. 0 \in 0 .. MaxLosses /\ 0 \in 0 .. MaxLessons
  BY ChannelAssumption
<1>2. FeedInit => FeedTypeOK
  BY <1>1 DEF FeedInit, FeedTypeOK, Statuses
<1>. QED
  BY <1>2 DEF FeedInit, FeedInv

LEMMA FeedStep == FeedInv /\ [FeedNext]_feedVars => FeedInv'
<1>. SUFFICES ASSUME FeedInv, [FeedNext]_feedVars PROVE FeedInv'
  OBVIOUS
<1>. USE DEF FeedInv, FeedTypeOK
<1>1. CASE LessonSwitches
  <2>1. /\ lessons' \in 0 .. MaxLessons /\ channelFaults' \in 0 .. MaxLosses
        /\ runConnection' = runConnection
    BY <1>1, ChannelAssumption DEF LessonSwitches
  <2>2. CASE simSlug
    BY <1>1, <2>1, <2>2 DEF LessonSwitches
  <2>3. CASE ~ simSlug
    BY <1>1, <2>1, <2>3 DEF LessonSwitches, Connects, Statuses
  <2>. QED
    BY <2>2, <2>3
<1>2. CASE RunSocketOpens \/ \E status \in Statuses : Hears(status)
  BY <1>2 DEF RunSocketOpens, Hears, Statuses
<1>3. CASE RunSocketCloses
  BY <1>3, ChannelAssumption DEF RunSocketCloses, FeedFault, Retries
<1>4. CASE RetryFires
  BY <1>4 DEF RetryFires, Connects, Statuses
<1>5. CASE ScopeLoads
  BY <1>5 DEF ScopeLoads, ScopeLoaded, runVars
<1>6. CASE ScopeReloads
  BY <1>6, ChannelAssumption DEF ScopeReloads, FeedFault, runVars
<1>7. CASE UNCHANGED feedVars
  BY <1>7 DEF feedVars, runVars
<1>. QED
  BY <1>1, <1>2, <1>3, <1>4, <1>5, <1>6, <1>7 DEF FeedNext

LEMMA FeedInvariance == FeedSpec => []FeedInv
BY FeedStart, FeedStep, PTL DEF FeedSpec

(* What is missing of a page is always on its way: a channel or a retry,   *)
(* never both and never neither, and with nothing left to wait for the     *)
(* page has caught up (useRunChannel.ts, useScopeHandshake.ts).            *)
THEOREM FeedsAreHeld == FeedSpec => []NothingIsForgotten
<1>1. ASSUME FeedInv PROVE NothingIsForgotten
  BY <1>1 DEF FeedInv, FeedTypeOK, NothingIsForgotten, FeedsLeft, CaughtUp
<1>. QED
  BY <1>1, FeedInvariance, PTL

(* Nothing but a loss or a switch takes it further away: with the fairness *)
(* of the steps that are left this is why FeedsCatchUp holds.              *)
THEOREM FeedsComeCloser == FeedSpec => EachStepCatchesUp
<1>1. ASSUME FeedInv, [FeedNext]_feedVars
      PROVE  [ \/ FeedsLeft' < FeedsLeft
               \/ channelFaults' > channelFaults \/ lessons' > lessons
               \/ UNCHANGED <<simSlug, runSocket, retryArmed, runConnection, scope>>
             ]_feedVars
  <2>. USE <1>1 DEF FeedInv, FeedTypeOK, FeedsLeft
  <2>1. CASE LessonSwitches \/ RunSocketCloses \/ ScopeReloads
    BY <2>1, ChannelAssumption DEF LessonSwitches, RunSocketCloses, ScopeReloads, FeedFault
  <2>2. CASE RunSocketOpens
    BY <2>2 DEF RunSocketOpens
  <2>3. CASE \E status \in Statuses : Hears(status)
    BY <2>3 DEF Hears
  <2>4. CASE RetryFires
    BY <2>4 DEF RetryFires, Connects
  <2>5. CASE ScopeLoads
    BY <2>5 DEF ScopeLoads, ScopeLoaded, runVars
  <2>. QED
    BY <1>1, <2>1, <2>2, <2>3, <2>4, <2>5 DEF FeedNext
<1>. QED
  BY <1>1, FeedInvariance, PTL DEF FeedSpec, EachStepCatchesUp

-----------------------------------------------------------------------------
(***************************************************************************)
(* The panes of the page.                                                  *)
(* For any shares that a drag may leave and any fallback.                  *)
(***************************************************************************)

\* The size a split has at some share, and the size it has now.
Sized(s, share) == SizeOf(s, visibility, narrow, shownKind, share)

\* What the effect ran for last was right but for the share, which a drag
\* changes without a render.
SplitInv(s) ==
    /\ layout[s] = Sized(s, expanded[s])
    /\ \E share \in 1 .. 99 : seen[s] = Sized(s, share)

\* With storage, what is read again is what was chosen.
StoredInv ==
    /\ storedPanes = choice /\ storedSplit = dragged
    /\ visibility = choice[shownKind]
    /\ \A s \in Splits : expanded[s] = dragged[KeyOf(s, shownKind)]

PaneInv ==
    /\ PaneTypeOK
    /\ storing => StoredInv
    /\ \A s \in Splits : SplitInv(s)

\* A size tells which panes are shown.
LEMMA Sizes ==
    ASSUME NEW s, NEW share \in 1 .. 99
    PROVE  /\ Sized(s, share) \in 0 .. 100
           /\ Sized(s, share) = 0 <=> ~ FirstShown(s, visibility, narrow)
           /\ Sized(s, share) = 100 <=>
                 /\ FirstShown(s, visibility, narrow)
                 /\ ~ SecondShown(s, visibility, narrow, shownKind)
           /\ Sized(s, share) \in {0, 100, share}
           /\ BothShown(s) => Sized(s, share) = share
BY DEF Sized, SizeOf, BothShown

LEMMA SizesNext ==
    ASSUME NEW s, NEW share \in 1 .. 99
    PROVE  /\ Sized(s, share)' \in 0 .. 100
           /\ Sized(s, share)' \in {0, 100, share}
BY DEF Sized, SizeOf

\* A render that leaves the share of a split, changes its key, or resets it,
\* lays the split out.
LEMMA LaidOut ==
    ASSUME PaneInv, NEW reset \in BOOLEAN, LaysOut(reset),
           expanded' \in [Splits -> 1 .. 99],
           \A s \in Splits :
               expanded'[s] = expanded[s] \/ reset \/ KeyOf(s, shownKind') # KeyOf(s, shownKind)
    PROVE  /\ seen' \in [Splits -> 0 .. 100] /\ layout' \in [Splits -> 0 .. 100]
           /\ \A s \in Splits : SplitInv(s)'
<1>1. seen' = [s \in Splits |-> SizeOf(s, visibility', narrow', shownKind', expanded'[s])]
  BY DEF LaysOut
<1>2. \A s \in Splits : seen'[s] = SizeOf(s, visibility', narrow', shownKind', expanded'[s])
  BY <1>1
<1>3. ASSUME NEW s \in Splits
      PROVE  /\ seen'[s] = Sized(s, expanded[s])' /\ seen'[s] \in 0 .. 100
             /\ expanded'[s] \in 1 .. 99 /\ seen'[s] \in {0, 100, expanded'[s]}
  <2>1. expanded'[s] \in 1 .. 99
    OBVIOUS
  <2>2. seen'[s] = Sized(s, expanded[s])'
    BY <1>2 DEF Sized
  <2>3. seen'[s] \in 0 .. 100 /\ seen'[s] \in {0, 100, expanded'[s]}
    BY <1>2, <2>1 DEF SizeOf
  <2>. QED
    BY <2>1, <2>2, <2>3
<1>4. ASSUME NEW s \in Splits PROVE layout'[s] = seen'[s]
  <2>1. layout'[s] = IF \/ seen'[s] # seen[s] \/ reset
                        \/ KeyOf(s, shownKind') # KeyOf(s, shownKind)
                     THEN seen'[s] ELSE layout[s]
    BY DEF LaysOut
  <2>2. ASSUME seen'[s] = seen[s], expanded'[s] = expanded[s] PROVE layout[s] = seen'[s]
    <3>1. /\ expanded[s] \in 1 .. 99 /\ layout[s] = Sized(s, expanded[s])
          /\ \E share \in 1 .. 99 : seen[s] = Sized(s, share)
      BY DEF PaneInv, PaneTypeOK, SplitInv
    <3>2. PICK share \in 1 .. 99 : seen[s] = Sized(s, share)
      BY <3>1
    <3>3. CASE seen[s] = 0
      BY <3>1, <3>2, <3>3, <2>2, Sizes
    <3>4. CASE seen[s] = 100
      <4>1. /\ FirstShown(s, visibility, narrow)
            /\ ~ SecondShown(s, visibility, narrow, shownKind)
        BY <3>2, <3>4, Sizes
      <4>2. Sized(s, expanded[s]) = 100
        BY <3>1, <4>1, Sizes
      <4> QED BY <3>1, <3>4, <4>2, <2>2
    <3>5. CASE seen[s] # 0 /\ seen[s] # 100
      <4>1. BothShown(s)
        BY <3>2, <3>5, Sizes DEF BothShown
      <4>2. layout[s] = expanded[s]
        BY <3>1, <4>1, Sizes
      <4>3. seen'[s] = expanded'[s]
        BY <1>3, <2>2, <3>5
      <4>. QED
        BY <2>2, <4>2, <4>3
    <3>. QED
      BY <3>3, <3>4, <3>5
  <2>. QED
    BY <2>1, <2>2
<1>5. layout' = [s \in Splits |-> layout'[s]]
  BY DEF LaysOut
<1>6. \A s \in Splits : SplitInv(s)'
  <2> SUFFICES ASSUME NEW s \in Splits PROVE SplitInv(s)'
    OBVIOUS
  <2>1. PICK share \in 1 .. 99 : share = expanded'[s]
    BY <1>3
  <2>2. seen'[s] = Sized(s, share)'
    BY <1>2, <2>1 DEF Sized
  <2>. QED
    BY <1>3, <1>4, <2>1, <2>2 DEF SplitInv
<1>. QED
  BY <1>1, <1>3, <1>4, <1>5, <1>6

LEMMA PaneStart == PaneInit => PaneInv
<1> SUFFICES ASSUME PaneInit PROVE PaneInv
  OBVIOUS
<1>1. Fallback \in 1 .. 99 /\ Shares \subseteq 1 .. 99 /\ \A k : DefaultPanes(k) \in Panes
  BY PaneAssumption DEF DefaultPanes, Panes
<1>2. storedSplit \in [Keys -> 1 .. 99]
  BY <1>1 DEF PaneInit
<1>3. \A s \in Splits : KeyOf(s, "robot") \in Keys
  BY DEF Splits, KeyOf, Keys
<1>4. expanded \in [Splits -> 1 .. 99]
  BY <1>2, <1>3 DEF PaneInit
<1>5. /\ shownKind = "robot" /\ shownKind \in ProjectKinds /\ narrow \in BOOLEAN
      /\ storing \in BOOLEAN /\ storedPanes \in [ProjectKinds -> Panes]
      /\ visibility \in Panes /\ visibility = choice[shownKind]
      /\ choice = storedPanes /\ dragged = storedSplit
  BY <1>1 DEF PaneInit, ProjectKinds
<1>6. /\ seen = [s \in Splits |-> Sized(s, expanded[s])] /\ layout = seen
  BY <1>5 DEF PaneInit, Sized
<1>7. \A s \in Splits : expanded[s] \in 1 .. 99
  BY <1>4
<1>8. seen \in [Splits -> 0 .. 100] /\ \A s \in Splits : SplitInv(s)
  BY <1>6, <1>7, Sizes DEF SplitInv
<1>9. \A s \in Splits : expanded[s] = dragged[KeyOf(s, shownKind)]
  BY <1>5 DEF PaneInit
<1>. QED
  BY <1>2, <1>4, <1>5, <1>6, <1>8, <1>9 DEF PaneInv, PaneTypeOK, StoredInv

LEMMA SplitKeys ==
    ASSUME NEW k \in ProjectKinds
    PROVE  /\ \A s \in Splits : KeyOf(s, k) \in Keys
           /\ KeyOf("rows", k) = "ide-rows" /\ KeyOf("columns", k) # "ide-rows"
           /\ Splits = {"rows", "columns"}
BY DEF Splits, KeyOf, Keys

\* A choice is saved and laid out.
LEMMA Choosing ==
    ASSUME PaneInv, NEW v \in Panes, Saves(v), ChoiceOnly, LaysOut(FALSE)
    PROVE  PaneInv'
<1>1. /\ \A s \in Splits : SplitInv(s)'
      /\ seen' \in [Splits -> 0 .. 100] /\ layout' \in [Splits -> 0 .. 100]
  BY LaidOut DEF ChoiceOnly, PaneInv, PaneTypeOK
<1>2. PaneTypeOK'
  BY <1>1 DEF PaneInv, PaneTypeOK, Saves, ChoiceOnly
<1>3. storing' => StoredInv'
  BY DEF PaneInv, PaneTypeOK, StoredInv, Saves, ChoiceOnly
<1>. QED
  BY <1>1, <1>2, <1>3 DEF PaneInv

LEMMA PanesAre ==
    ASSUME PaneInv, NEW visible \in BOOLEAN
    PROVE  /\ WithEditor(visible) \in Panes /\ WithRight(visible) \in Panes
           /\ [visibility EXCEPT !.bottom = visible] \in Panes
BY DEF PaneInv, PaneTypeOK, Panes, WithEditor, WithRight

LEMMA ChoosesKeep ==
    ASSUME PaneInv, NEW visible \in BOOLEAN,
           \/ SetEditorVisible(visible) \/ SetRightVisible(visible) \/ SetBottomVisible(visible)
           \/ \E s \in Splits : DragsShut(s, visible)
    PROVE  PaneInv'
<1>1. CASE SetEditorVisible(visible) \/ SetRightVisible(visible) \/ SetBottomVisible(visible)
  BY <1>1, PanesAre, Choosing DEF SetEditorVisible, SetRightVisible, SetBottomVisible
<1>2. ASSUME NEW s \in Splits, DragsShut(s, visible) PROVE PaneInv'
  <2>1. PICK v \in Panes : Saves(v) /\ ChoiceOnly /\ LaysOut(FALSE)
    BY <1>2, PanesAre DEF DragsShut
  <2>. QED
    BY <2>1, Choosing
<1>. QED
  BY <1>1, <1>2

LEMMA DragKeeps ==
    ASSUME PaneInv, NEW s \in Splits, NEW share \in Shares, Drags(s, share)
    PROVE  PaneInv'
<1>1. /\ share \in 1 .. 99 /\ share \in 0 .. 100 /\ KeyOf(s, shownKind) \in Keys
      /\ shownKind \in ProjectKinds
  BY PaneAssumption, SplitKeys DEF PaneInv, PaneTypeOK
<1>2. PaneTypeOK'
  BY <1>1 DEF PaneInv, PaneTypeOK, Drags
<1>3. \A r, q : Sized(r, q)' = Sized(r, q)
  BY DEF Sized, Drags
<1>4. ASSUME NEW r \in Splits PROVE SplitInv(r)'
  <2>1. /\ layout'[r] = IF r = s THEN share ELSE layout[r]
        /\ expanded'[r] = IF r = s THEN share ELSE expanded[r]
        /\ seen'[r] = seen[r]
    BY DEF Drags, PaneInv, PaneTypeOK
  <2>2. BothShown(s)
    BY DEF Drags
  <2>3. layout'[r] = Sized(r, expanded'[r])
    BY <1>1, <2>1, <2>2, Sizes DEF PaneInv, SplitInv
  <2>4. PICK q \in 1 .. 99 : seen[r] = Sized(r, q)
    BY DEF PaneInv, SplitInv
  <2>5. layout'[r] = Sized(r, expanded[r])'
    BY <2>3 DEF Sized, Drags
  <2>6. seen'[r] = Sized(r, q)'
    BY <1>3, <2>1, <2>4
  <2>. QED
    BY <2>5, <2>6 DEF SplitInv
<1>5. storing' => StoredInv'
  <2> SUFFICES ASSUME storing PROVE StoredInv'
    BY DEF Drags
  <2>1. StoredInv /\ storedSplit' = dragged' /\ UNCHANGED <<storedPanes, choice, visibility, shownKind>>
    BY DEF PaneInv, Drags, StoredInv
  <2>2. ASSUME NEW r \in Splits PROVE expanded'[r] = dragged'[KeyOf(r, shownKind)]
    <3>1. /\ dragged \in [Keys -> 1 .. 99] /\ expanded \in [Splits -> 1 .. 99]
          /\ dragged' = [dragged EXCEPT ![KeyOf(s, shownKind)] = share]
          /\ expanded' = [expanded EXCEPT ![s] = share]
          /\ expanded[r] = dragged[KeyOf(r, shownKind)]
      BY <2>1 DEF PaneInv, PaneTypeOK, Drags, StoredInv
    <3>2. KeyOf(r, shownKind) \in Keys /\ (r # s => KeyOf(r, shownKind) # KeyOf(s, shownKind))
      BY <1>1, SplitKeys
    <3>. QED
      BY <1>1, <3>1, <3>2
  <2>. QED
    BY <2>1, <2>2 DEF StoredInv
<1>. QED
  BY <1>2, <1>4, <1>5 DEF PaneInv

LEMMA ResizeKeeps == ASSUME PaneInv, WindowResized PROVE PaneInv'
<1>1. /\ UNCHANGED <<shownKind, storing, visibility, storedPanes, storedSplit, expanded,
                     choice, dragged>>
      /\ LaysOut(FALSE) /\ narrow' \in BOOLEAN
  BY DEF WindowResized, PaneInv, PaneTypeOK
<1>2. /\ \A s \in Splits : SplitInv(s)'
      /\ seen' \in [Splits -> 0 .. 100] /\ layout' \in [Splits -> 0 .. 100]
  BY <1>1, LaidOut DEF PaneInv, PaneTypeOK
<1>3. PaneTypeOK'
  BY <1>1, <1>2 DEF PaneInv, PaneTypeOK
<1>4. storing' => StoredInv'
  BY <1>1 DEF PaneInv, StoredInv
<1>. QED
  BY <1>2, <1>3, <1>4 DEF PaneInv

LEMMA SwitchKeeps == ASSUME PaneInv, NEW k \in ProjectKinds, SwitchKind(k) PROVE PaneInv'
<1>1. /\ shownKind' = k /\ k # shownKind /\ shownKind \in ProjectKinds /\ LaysOut(FALSE)
      /\ visibility' = storedPanes[k] /\ visibility' \in Panes
      /\ storedPanes' \in [ProjectKinds -> Panes] /\ storedPanes' = storedPanes
      /\ expanded' = [expanded EXCEPT !["columns"] = storedSplit[KeyOf("columns", k)]]
      /\ UNCHANGED <<narrow, storing, storedSplit, choice, dragged>>
  BY DEF SwitchKind, Switched, PaneInv, PaneTypeOK
<1>2. expanded' \in [Splits -> 1 .. 99]
  BY <1>1, SplitKeys DEF PaneInv, PaneTypeOK
<1>3. KeyOf("columns", k) # KeyOf("columns", shownKind)
  BY <1>1 DEF KeyOf, ProjectKinds
<1>4. \A s \in Splits : expanded'[s] = expanded[s] \/ KeyOf(s, shownKind') # KeyOf(s, shownKind)
  BY <1>1, <1>3, SplitKeys DEF PaneInv, PaneTypeOK
<1>5. /\ \A s \in Splits : SplitInv(s)'
      /\ seen' \in [Splits -> 0 .. 100] /\ layout' \in [Splits -> 0 .. 100]
  BY <1>1, <1>2, <1>4, LaidOut
<1>6. PaneTypeOK'
  BY <1>1, <1>2, <1>5 DEF PaneInv, PaneTypeOK
<1>7. storing' => StoredInv'
  <2> SUFFICES ASSUME storing PROVE StoredInv'
    BY <1>1
  <2>1. StoredInv
    BY DEF PaneInv
  <2>2. ASSUME NEW s \in Splits PROVE expanded'[s] = dragged'[KeyOf(s, shownKind')]
    <3>1. CASE s = "columns"
      BY <1>1, <2>1, <3>1, SplitKeys DEF StoredInv, PaneInv, PaneTypeOK
    <3>2. CASE s = "rows"
      BY <1>1, <2>1, <3>2, SplitKeys DEF StoredInv, PaneInv, PaneTypeOK
    <3>. QED
      BY <3>1, <3>2, SplitKeys
  <2>. QED
    BY <1>1, <2>1, <2>2 DEF StoredInv
<1>. QED
  BY <1>5, <1>6, <1>7 DEF PaneInv

LEMMA ResetKeeps == ASSUME PaneInv, ResetLayout PROVE PaneInv'
<1>1. /\ Fallback \in 1 .. 99 /\ DefaultPanes(shownKind) \in Panes
  BY PaneAssumption DEF DefaultPanes, Panes
<1>2. /\ Saves(DefaultPanes(shownKind)) /\ LaysOut(TRUE)
      /\ storedSplit' = [key \in Keys |-> Fallback] /\ dragged' = storedSplit'
      /\ expanded' = [s \in Splits |-> Fallback] /\ UNCHANGED <<shownKind, narrow, storing>>
  BY DEF ResetLayout
<1>3. expanded' \in [Splits -> 1 .. 99] /\ storedSplit' \in [Keys -> 1 .. 99]
  BY <1>1, <1>2
<1>4. /\ \A s \in Splits : SplitInv(s)'
      /\ seen' \in [Splits -> 0 .. 100] /\ layout' \in [Splits -> 0 .. 100]
  BY <1>2, <1>3, LaidOut
<1>5. PaneTypeOK'
  BY <1>1, <1>2, <1>3, <1>4 DEF PaneInv, PaneTypeOK, Saves
<1>6. storing' => StoredInv'
  <2>1. \A s \in Splits : expanded'[s] = dragged'[KeyOf(s, shownKind')]
    BY <1>2, SplitKeys DEF PaneInv, PaneTypeOK
  <2>. QED
    BY <1>2, <2>1 DEF PaneInv, PaneTypeOK, StoredInv, Saves
<1>. QED
  BY <1>4, <1>5, <1>6 DEF PaneInv

LEMMA ReloadKeeps == ASSUME PaneInv, ReloadTab PROVE PaneInv'
<1>1. /\ shownKind' = "robot" /\ "robot" \in ProjectKinds /\ visibility' = storedPanes["robot"]
      /\ visibility' \in Panes /\ storedPanes' = storedPanes
      /\ expanded' = [s \in Splits |-> storedSplit[KeyOf(s, "robot")]]
      /\ seen' = [s \in Splits |-> SizeOf(s, visibility', narrow, "robot", expanded'[s])]
      /\ layout' = seen'
      /\ UNCHANGED <<narrow, storing, storedSplit, choice, dragged>>
  BY DEF ReloadTab, PaneInv, PaneTypeOK, ProjectKinds
<1>2. expanded' \in [Splits -> 1 .. 99]
  BY <1>1, SplitKeys DEF PaneInv, PaneTypeOK
<1>3. ASSUME NEW s \in Splits
      PROVE  /\ SplitInv(s)' /\ seen'[s] \in 0 .. 100
  <2>1. PICK share \in 1 .. 99 : share = expanded'[s]
    BY <1>2
  <2>2. seen'[s] = Sized(s, share)' /\ layout'[s] = Sized(s, expanded[s])'
    BY <1>1, <2>1 DEF Sized
  <2>3. seen'[s] \in 0 .. 100
    BY <1>1, <2>1 DEF SizeOf
  <2>. QED
    BY <2>2, <2>3 DEF SplitInv
<1>4. seen' \in [Splits -> 0 .. 100]
  BY <1>1, <1>3
<1>5. PaneTypeOK'
  BY <1>1, <1>2, <1>4 DEF PaneInv, PaneTypeOK
<1>6. storing' => StoredInv'
  BY <1>1 DEF PaneInv, StoredInv
<1>. QED
  BY <1>3, <1>5, <1>6 DEF PaneInv

LEMMA PanesInvariance == PaneSpec => []PaneInv
<1>1. ASSUME PaneInv, PaneNext PROVE PaneInv'
  BY <1>1, ChoosesKeep, DragKeeps, ResizeKeeps, SwitchKeeps, ResetKeeps, ReloadKeeps DEF PaneNext
<1>2. ASSUME PaneInv, UNCHANGED paneVars PROVE PaneInv'
  BY <1>2 DEF paneVars, PaneInv, PaneTypeOK, StoredInv, SplitInv, Sized
<1>. QED
  BY <1>1, <1>2, PaneStart, PTL DEF PaneSpec

(* The panes are laid out as they were chosen and dragged last, whatever   *)
(* was hidden, narrowed, switched, reloaded or reset meanwhile             *)
(* (usePaneVisibility.ts, useSplit in IDELayout.tsx).                      *)
THEOREM PanesAreAsChosen == PaneSpec => []PanesFollowChoices
<1>1. ASSUME PaneInv PROVE PanesFollowChoices
  <2>1. EditorVisible(visibility, narrow) \/ RightVisible(visibility, narrow)
    BY <1>1 DEF PaneInv, PaneTypeOK, Panes, EditorVisible, RightVisible
  <2>. QED
    BY <1>1, <2>1 DEF PaneInv, SplitInv, Sized, StoredInv, PanesFollowChoices
<1>. QED
  BY <1>1, PanesInvariance, PTL

-----------------------------------------------------------------------------
(***************************************************************************)
(* Together.                                                               *)
(* Each part does its own steps, or none.                                  *)
(***************************************************************************)

LEMMA PartsRun == TabSpec => Spec /\ PaneSpec
<1>1. TabInit => Init /\ PaneInit
  BY DEF TabInit
<1>2. TabNext => (Next \/ UNCHANGED vars) /\ (PaneNext \/ UNCHANGED paneVars)
  BY Zenon DEF TabNext
<1>3. UNCHANGED tabVars => UNCHANGED <<vars, paneVars>>
  BY Zenon DEF tabVars
<1>4. [TabNext]_tabVars => [Next]_vars /\ [PaneNext]_paneVars
  BY <1>2, <1>3, Zenon
<1>. QED
  BY <1>1, <1>4, PTL DEF TabSpec, Spec, PaneSpec

(* What the web run checks of the safety of the proxy and of the panes     *)
(* (websocket-proxy.ts, usePaneVisibility.ts, IDELayout.tsx) holds of both *)
(* side by side, for every value of the constants.                         *)
THEOREM TabHolds == TabSpec => RefinesPipe /\ []PanesFollowChoices
BY PartsRun, ImplementsPipe, PanesAreAsChosen, PTL

-----------------------------------------------------------------------------
(***************************************************************************)
(* The autonomous choosers.                                                *)
(* For any WebSockets, endpoints, choosers, options, ids and events.       *)
(***************************************************************************)

\* What the bridge knows of a robot's topics.
Tables == [byId : [Ids -> Topics \cup {Null}], byName : [Topics -> Ids \cup {Null}],
           values : [Topics -> Values]]
TablesOf(e) == [byId |-> e.byId, byName |-> e.byName, values |-> e.values]

\* They are right about names and ids, about the values of some topics, and about
\* everything that robot r has.
Knows(tab, r) == \A i \in Ids : r.topics[i] # Null =>
    tab.byId[i] = r.topics[i] /\ tab.byName[r.topics[i]] = i
HasValues(tab, r, topics) == \A i \in Ids : r.topics[i] \in topics =>
    tab.values[r.topics[i]] = ValueIn(r, r.topics[i])
Faithful(tab, r) == Knows(tab, r) /\ HasValues(tab, r, Topics)

\* No topic has two ids.
Separate(r) == \A i, j \in Ids : r.topics[i] = r.topics[j] => i = j \/ r.topics[i] = Null

(* Topics have names, and Null is not one of them.                         *)
LEMMA NullIsNoTopic == Null \notin Topics /\ Null \notin Ids
BY Nt4Assumption

(* A function on part of a set is one of PartialOn.                        *)
LEMMA PartialIntro ==
    ASSUME NEW D, NEW R, NEW d \in SUBSET D, NEW f \in [d -> R]
    PROVE  f \in PartialOn(D, R)
BY DEF PartialOn

LEMMA PartialElim ==
    ASSUME NEW D, NEW R, NEW f \in PartialOn(D, R)
    PROVE  DOMAIN f \subseteq D /\ \A x \in DOMAIN f : f[x] \in R
BY DEF PartialOn

(* What the server sends about its topics are frames.                      *)
LEMMA ValueTyped ==
    ASSUME NEW r \in Robots, NEW t \in Topics PROVE ValueIn(r, t) \in Values
<1>1. t[1] \in Choosers
  BY DEF Topics
<1>2. r.options[t[1]] \in SUBSET Options /\ r.active[t[1]] \in Options \cup {Null}
  BY <1>1 DEF Robots
<1> QED BY <1>2 DEF ValueIn, Values

LEMMA AnnouncesTyped ==
    ASSUME NEW r \in Robots, NEW topics \in SUBSET Topics
    PROVE  /\ Announces(r, topics) \in DownFrames
           /\ Announces(r, topics).kind = "announce"
           /\ DOMAIN Announces(r, topics).topics = IdsOf(r, topics)
           /\ \A i \in IdsOf(r, topics) : Announces(r, topics).topics[i] = r.topics[i]
<1> DEFINE f == [i \in IdsOf(r, topics) |-> r.topics[i]]
<1>1. f \in [IdsOf(r, topics) -> Topics]
  BY DEF IdsOf
<1>2. IdsOf(r, topics) \in SUBSET Ids
  BY DEF IdsOf
<1>3. f \in PartialOn(Ids, Topics)
  BY <1>1, <1>2, PartialIntro
<1>4. Announces(r, topics) = [kind |-> "announce", topics |-> f]
  BY DEF Announces
<1> HIDE DEF f
<1>5. [kind |-> "announce", topics |-> f] \in DownFrames
  BY <1>3 DEF DownFrames
<1> QED BY <1>4, <1>5 DEF f

LEMMA CarriesTyped ==
    ASSUME NEW r \in Robots, NEW topics \in SUBSET Topics
    PROVE  /\ Carries(r, topics) \in DownFrames
           /\ Carries(r, topics).kind = "values"
           /\ DOMAIN Carries(r, topics).of = IdsOf(r, topics)
           /\ \A i \in IdsOf(r, topics) :
                Carries(r, topics).of[i] = ValueIn(r, r.topics[i])
<1> DEFINE f == [i \in IdsOf(r, topics) |-> ValueIn(r, r.topics[i])]
<1>1. f \in [IdsOf(r, topics) -> Values]
  BY ValueTyped DEF IdsOf
<1>2. IdsOf(r, topics) \in SUBSET Ids
  BY DEF IdsOf
<1>3. f \in PartialOn(Ids, Values)
  BY <1>1, <1>2, PartialIntro
<1>4. Carries(r, topics) = [kind |-> "values", of |-> f]
  BY DEF Carries
<1> HIDE DEF f
<1>5. [kind |-> "values", of |-> f] \in DownFrames
  BY <1>3 DEF DownFrames
<1> QED BY <1>4, <1>5 DEF f

(* Handling a frame: an announcement, a withdrawal, values.                *)
LEMMA KindOfFrame ==
    ASSUME NEW f \in DownFrames
    PROVE  \/ f.kind = "announce" /\ f.topics \in PartialOn(Ids, Topics)
           \/ f.kind = "unannounce" /\ f.topics \in SUBSET Topics
           \/ f.kind = "values" /\ f.of \in PartialOn(Ids, Values)
BY DEF DownFrames

LEMMA AnnouncedTables ==
    ASSUME NEW tab \in Tables, NEW f \in PartialOn(Ids, Topics)
    PROVE  LET a == Announced(tab, f) IN
           /\ a \in Tables
           /\ \A i \in Ids : a.byId[i] = IF i \in DOMAIN f THEN f[i] ELSE tab.byId[i]
           /\ \A t \in Topics : a.byName[t] = IF t \in Range(f)
                                   THEN CHOOSE i \in DOMAIN f : f[i] = t ELSE tab.byName[t]
           /\ a.values = tab.values
<1> DEFINE ids == [i \in Ids |-> IF i \in DOMAIN f THEN f[i] ELSE tab.byId[i]]
           names == [t \in Topics |-> IF t \in Range(f)
                      THEN CHOOSE i \in DOMAIN f : f[i] = t ELSE tab.byName[t]]
           a == Announced(tab, f)
<1>1. tab.byId \in [Ids -> Topics \cup {Null}] /\ tab.byName \in [Topics -> Ids \cup {Null}]
      /\ tab.values \in [Topics -> Values]
  BY DEF Tables
<1>2. tab = [byId |-> tab.byId, byName |-> tab.byName, values |-> tab.values]
  BY DEF Tables
<1>3. a = [byId |-> ids, byName |-> names, values |-> tab.values]
  <2>1. a = [tab EXCEPT !.byId = ids, !.byName = names]
    BY DEF Announced
  <2> HIDE DEF a, ids, names
  <2> QED BY <2>1, <1>2
<1>4. DOMAIN f \subseteq Ids /\ \A i \in DOMAIN f : f[i] \in Topics
  BY PartialElim
<1>5. ids \in [Ids -> Topics \cup {Null}]
  BY <1>1, <1>4
<1>6. ASSUME NEW t \in Topics, t \in Range(f)
      PROVE  (CHOOSE i \in DOMAIN f : f[i] = t) \in Ids
  BY <1>4, <1>6 DEF Range
<1>7. names \in [Topics -> Ids \cup {Null}]
  BY <1>1, <1>6
<1>8. a \in Tables
  BY <1>1, <1>3, <1>5, <1>7 DEF Tables
<1> QED BY <1>3, <1>8

LEMMA UnannouncedTables ==
    ASSUME NEW tab \in Tables, NEW topics \in SUBSET Topics
    PROVE  LET a == Unannounced(tab, topics) IN
           /\ a \in Tables
           /\ \A i \in Ids : a.byId[i] = IF \E t \in topics : tab.byName[t] = i
                                         THEN Null ELSE tab.byId[i]
           /\ \A t \in Topics : a.byName[t] = IF t \in topics THEN Null ELSE tab.byName[t]
           /\ \A t \in Topics : a.values[t] = IF t \in topics THEN Null ELSE tab.values[t]
<1> DEFINE ids == [i \in Ids |-> IF \E t \in topics : tab.byName[t] = i
                                 THEN Null ELSE tab.byId[i]]
           names == [t \in Topics |-> IF t \in topics THEN Null ELSE tab.byName[t]]
           vals == [t \in Topics |-> IF t \in topics THEN Null ELSE tab.values[t]]
           a == Unannounced(tab, topics)
<1>1. tab.byId \in [Ids -> Topics \cup {Null}] /\ tab.byName \in [Topics -> Ids \cup {Null}]
      /\ tab.values \in [Topics -> Values]
  BY DEF Tables
<1>2. tab = [byId |-> tab.byId, byName |-> tab.byName, values |-> tab.values]
  BY DEF Tables
<1>3. a = [byId |-> ids, byName |-> names, values |-> vals]
  <2>1. a = [tab EXCEPT !.byId = ids, !.byName = names, !.values = vals]
    BY DEF Unannounced
  <2> HIDE DEF a, ids, names, vals
  <2> QED BY <2>1, <1>2
<1>4. Null \in Values
  BY DEF Values
<1>5. ids \in [Ids -> Topics \cup {Null}] /\ names \in [Topics -> Ids \cup {Null}]
      /\ vals \in [Topics -> Values]
  BY <1>1, <1>4
<1>6. a \in Tables
  BY <1>3, <1>5 DEF Tables
<1> QED BY <1>3, <1>6

LEMMA ReadTables ==
    ASSUME NEW tab \in Tables, NEW of \in PartialOn(Ids, Values)
    PROVE  LET a == Read(tab, of) IN
           /\ a \in Tables
           /\ a.byId = tab.byId /\ a.byName = tab.byName
           /\ \A t \in Topics :
                LET current == {i \in DOMAIN of : tab.byId[i] = t} IN
                a.values[t] = IF current = {} THEN tab.values[t]
                              ELSE of[CHOOSE i \in current : TRUE]
<1> DEFINE current(t) == {i \in DOMAIN of : tab.byId[i] = t}
           vals == [t \in Topics |-> IF current(t) = {} THEN tab.values[t]
                                     ELSE of[CHOOSE i \in current(t) : TRUE]]
           a == Read(tab, of)
<1>1. tab.byId \in [Ids -> Topics \cup {Null}] /\ tab.byName \in [Topics -> Ids \cup {Null}]
      /\ tab.values \in [Topics -> Values]
  BY DEF Tables
<1>2. tab = [byId |-> tab.byId, byName |-> tab.byName, values |-> tab.values]
  BY DEF Tables
<1>3. a = [byId |-> tab.byId, byName |-> tab.byName, values |-> vals]
  BY <1>2 DEF Read
<1>4. \A i \in DOMAIN of : of[i] \in Values
  BY PartialElim
<1>5. ASSUME NEW t \in Topics, current(t) # {}
      PROVE  of[CHOOSE i \in current(t) : TRUE] \in Values
  <2>1. (CHOOSE i \in current(t) : TRUE) \in current(t)
    BY <1>5
  <2> QED BY <2>1, <1>4
<1>6. vals \in [Topics -> Values]
  BY <1>1, <1>5
<1>7. a \in Tables
  BY <1>1, <1>3, <1>6 DEF Tables
<1> QED BY <1>3, <1>7

LEMMA HandledTables ==
    ASSUME NEW tab \in Tables, NEW f \in DownFrames
    PROVE  Handled(tab, f) \in Tables
<1>1. CASE f.kind = "announce" /\ f.topics \in PartialOn(Ids, Topics)
  BY <1>1, AnnouncedTables DEF Handled
<1>2. CASE f.kind = "unannounce" /\ f.topics \in SUBSET Topics
  BY <1>2, UnannouncedTables DEF Handled
<1>3. CASE f.kind = "values" /\ f.of \in PartialOn(Ids, Values)
  BY <1>3, ReadTables DEF Handled
<1> QED BY <1>1, <1>2, <1>3, KindOfFrame

(* The entry is its tables and what no frame touches.                      *)
LEMMA HandledEntry ==
    ASSUME NEW e \in Entries, NEW f \in DownFrames
    PROVE  LET d == Handled(e, f) IN
           /\ d \in Entries
           /\ TablesOf(e) \in Tables
           /\ TablesOf(d) = Handled(TablesOf(e), f)
           /\ d.sock = e.sock /\ d.conn = e.conn /\ d.published = e.published
           /\ d.there = e.there /\ d.url = e.url
<1> DEFINE d == Handled(e, f)
           tab == TablesOf(e)
           q == [e EXCEPT !.byId = Handled(tab, f).byId, !.byName = Handled(tab, f).byName,
                          !.values = Handled(tab, f).values]
<1>1. tab \in Tables
  BY DEF Tables, TablesOf, Entries
<1>2. Handled(tab, f) \in Tables
  BY <1>1, HandledTables
<1>3. tab.byId = e.byId /\ tab.byName = e.byName /\ tab.values = e.values
  BY DEF TablesOf
<1>4. e = [there |-> e.there, url |-> e.url, sock |-> e.sock, conn |-> e.conn,
           byId |-> e.byId, byName |-> e.byName, values |-> e.values,
           published |-> e.published]
  BY DEF Entries
<1>5. tab = [byId |-> e.byId, byName |-> e.byName, values |-> e.values]
  BY DEF TablesOf
<1>6. d = q
  <2>1. CASE f.kind = "announce"
    <3>1. d = Announced(e, f.topics) /\ Handled(tab, f) = Announced(tab, f.topics)
      BY <2>1 DEF Handled
    <3> DEFINE ids == [i \in Ids |-> IF i \in DOMAIN f.topics THEN f.topics[i]
                                   ELSE e.byId[i]]
               names == [t \in Topics |-> IF t \in Range(f.topics)
                  THEN CHOOSE i \in DOMAIN f.topics : f.topics[i] = t ELSE e.byName[t]]
    <3>2. Announced(e, f.topics) = [e EXCEPT !.byId = ids, !.byName = names]
      BY DEF Announced
    <3>3. Announced(tab, f.topics) = [tab EXCEPT !.byId = ids, !.byName = names]
      BY <1>3 DEF Announced
    <3> HIDE DEF ids, names, tab
    <3>4. Handled(tab, f) = [byId |-> ids, byName |-> names, values |-> e.values]
      BY <3>1, <3>3, <1>5
    <3>5. d = [e EXCEPT !.byId = ids, !.byName = names]
      BY <3>1, <3>2
    <3>6. Handled(tab, f).values = e.values
      BY <3>4
    <3>7. Handled(tab, f).byId = ids /\ Handled(tab, f).byName = names
      BY <3>4
    <3>8. d = [there |-> e.there, url |-> e.url, sock |-> e.sock, conn |-> e.conn,
               byId |-> ids, byName |-> names, values |-> e.values,
               published |-> e.published]
      BY <3>5, <1>4
    <3>9. q = [there |-> e.there, url |-> e.url, sock |-> e.sock, conn |-> e.conn,
               byId |-> ids, byName |-> names, values |-> e.values,
               published |-> e.published]
      <4>1. q = [e EXCEPT !.byId = ids, !.byName = names, !.values = e.values]
        BY <3>6, <3>7
      <4> HIDE DEF q
      <4> QED BY <4>1, <1>4
    <3> QED BY <3>8, <3>9
  <2>2. CASE f.kind = "unannounce"
    <3>1. d = Unannounced(e, f.topics) /\ Handled(tab, f) = Unannounced(tab, f.topics)
      BY <2>2 DEF Handled
    <3> QED BY <3>1, <1>4, <1>5 DEF Unannounced
  <2>3. CASE f.kind = "values"
    <3>1. d = Read(e, f.of) /\ Handled(tab, f) = Read(tab, f.of)
      BY <2>3 DEF Handled
    <3> DEFINE current(t) == {i \in DOMAIN f.of : e.byId[i] = t}
               vals == [t \in Topics |-> IF current(t) = {} THEN e.values[t]
                                         ELSE f.of[CHOOSE i \in current(t) : TRUE]]
    <3>2. Read(e, f.of) = [e EXCEPT !.values = vals]
      BY DEF Read
    <3>3. Read(tab, f.of) = [tab EXCEPT !.values = vals]
      BY <1>3 DEF Read
    <3> HIDE DEF vals, tab
    <3>4. Handled(tab, f) = [byId |-> e.byId, byName |-> e.byName, values |-> vals]
      BY <3>1, <3>3, <1>5
    <3>5. d = [e EXCEPT !.values = vals]
      BY <3>1, <3>2
    <3>6. Handled(tab, f).byId = e.byId /\ Handled(tab, f).byName = e.byName
          /\ Handled(tab, f).values = vals
      BY <3>4
    <3>7. d = [there |-> e.there, url |-> e.url, sock |-> e.sock, conn |-> e.conn,
               byId |-> e.byId, byName |-> e.byName, values |-> vals,
               published |-> e.published]
      BY <3>5, <1>4
    <3>8. q = [there |-> e.there, url |-> e.url, sock |-> e.sock, conn |-> e.conn,
               byId |-> e.byId, byName |-> e.byName, values |-> vals,
               published |-> e.published]
      <4>1. q = [e EXCEPT !.byId = e.byId, !.byName = e.byName, !.values = vals]
        BY <3>6
      <4> HIDE DEF q
      <4> QED BY <4>1, <1>4
    <3> QED BY <3>7, <3>8
  <2> QED BY <2>1, <2>2, <2>3, KindOfFrame
<1> HIDE DEF d
<1>7. q \in Entries
  BY <1>2 DEF Tables, Entries
<1>8. TablesOf(q) = Handled(tab, f)
  <2>1. Handled(tab, f) = [byId |-> Handled(tab, f).byId, byName |-> Handled(tab, f).byName,
                          values |-> Handled(tab, f).values]
    BY <1>2 DEF Tables
  <2> QED BY <2>1, <1>4 DEF TablesOf
<1>9. q.sock = e.sock /\ q.conn = e.conn /\ q.published = e.published
      /\ q.there = e.there /\ q.url = e.url
  BY <1>4
<1> QED BY <1>1, <1>6, <1>7, <1>8, <1>9 DEF d

(* Announcing topics and carrying their values makes the tables right      *)
(* about them, and leaves them right about the others.                     *)
LEMMA CarriedIsFaithful ==
    ASSUME NEW tab \in Tables, NEW r \in Robots, NEW topics \in SUBSET Topics,
           Separate(r), Knows(tab, r), HasValues(tab, r, Topics \ topics)
    PROVE  LET b == Handled(tab, Carries(r, topics)) IN b \in Tables /\ Faithful(b, r)
<1> DEFINE of == Carries(r, topics).of
           b == Read(tab, of)
<1>1. /\ Carries(r, topics).kind = "values" /\ of \in PartialOn(Ids, Values)
      /\ DOMAIN of = IdsOf(r, topics)
      /\ \A i \in IdsOf(r, topics) : of[i] = ValueIn(r, r.topics[i])
  BY CarriesTyped, KindOfFrame
<1>2. Handled(tab, Carries(r, topics)) = b
  BY <1>1 DEF Handled
<1> HIDE DEF of
<1>3. /\ b \in Tables /\ b.byId = tab.byId /\ b.byName = tab.byName
      /\ \A t \in Topics :
           LET current == {i \in DOMAIN of : tab.byId[i] = t} IN
           b.values[t] = IF current = {} THEN tab.values[t]
                         ELSE of[CHOOSE i \in current : TRUE]
  BY <1>1, ReadTables
<1> HIDE DEF b
<1>4. Knows(b, r)
  BY <1>3 DEF Knows
<1>5. ASSUME NEW i \in Ids, r.topics[i] \in Topics
      PROVE  b.values[r.topics[i]] = ValueIn(r, r.topics[i])
  <2> DEFINE t == r.topics[i]
             current == {j \in DOMAIN of : tab.byId[j] = t}
  <2>1. \A j \in IdsOf(r, topics) : j \in Ids /\ r.topics[j] \in topics /\ tab.byId[j] = r.topics[j]
    BY NullIsNoTopic DEF IdsOf, Knows
  <2>2. t # Null
    BY <1>5, NullIsNoTopic
  <2>3. \A j \in current : j = i
    BY <2>1, <2>2, <1>1 DEF Separate
  <2>4. CASE t \in topics
    <3>1. i \in IdsOf(r, topics)
      BY <2>4 DEF IdsOf
    <3>2. i \in current
      BY <3>1, <2>1, <1>1
    <3>3. (CHOOSE j \in current : TRUE) = i
      BY <3>2, <2>3
    <3>4. b.values[t] = of[CHOOSE j \in current : TRUE]
      BY <1>3, <1>5, <3>2
    <3> QED BY <3>1, <3>3, <3>4, <1>1
  <2>5. CASE t \notin topics
    <3>1. i \notin DOMAIN of
      BY <2>5, <1>1 DEF IdsOf
    <3>2. current = {}
      BY <3>1, <2>3
    <3>3. b.values[t] = tab.values[t]
      BY <1>3, <1>5, <3>2
    <3> QED BY <3>3, <2>5, <1>5 DEF HasValues
  <2> QED BY <2>4, <2>5
<1> QED BY <1>2, <1>3, <1>4, <1>5 DEF Faithful, HasValues

LEMMA AnnouncedIsFaithful ==
    ASSUME NEW tab \in Tables, NEW r \in Robots, NEW topics \in SUBSET Topics,
           Separate(r),
           \A i \in Ids : r.topics[i] # Null /\ r.topics[i] \notin topics =>
             /\ tab.byId[i] = r.topics[i] /\ tab.byName[r.topics[i]] = i
             /\ tab.values[r.topics[i]] = ValueIn(r, r.topics[i])
    PROVE  LET a == Handled(tab, Announces(r, topics))
               b == Handled(a, Carries(r, topics))
           IN  a \in Tables /\ b \in Tables /\ Faithful(b, r)
<1> DEFINE f == Announces(r, topics).topics
           a == Announced(tab, f)
<1>1. /\ Announces(r, topics).kind = "announce" /\ f \in PartialOn(Ids, Topics)
      /\ DOMAIN f = IdsOf(r, topics)
      /\ \A i \in IdsOf(r, topics) : f[i] = r.topics[i]
  BY AnnouncesTyped, KindOfFrame
<1>2. Handled(tab, Announces(r, topics)) = a
  BY <1>1 DEF Handled
<1> HIDE DEF f
<1>3. /\ a \in Tables
      /\ \A i \in Ids : a.byId[i] = IF i \in DOMAIN f THEN f[i] ELSE tab.byId[i]
      /\ \A t \in Topics : a.byName[t] = IF t \in Range(f)
                              THEN CHOOSE i \in DOMAIN f : f[i] = t ELSE tab.byName[t]
      /\ a.values = tab.values
  BY <1>1, AnnouncedTables
<1> HIDE DEF a
<1>4. \A i \in Ids : r.topics[i] \in Topics \cup {Null}
  BY DEF Robots
<1>5. ASSUME NEW i \in Ids, r.topics[i] # Null
      PROVE  a.byId[i] = r.topics[i] /\ a.byName[r.topics[i]] = i
  <2> DEFINE t == r.topics[i]
  <2>1. CASE t \in topics
    <3>1. i \in DOMAIN f /\ f[i] = t
      BY <2>1, <1>1 DEF IdsOf
    <3>2. \A j \in DOMAIN f : f[j] = t => j = i
      BY <1>1, <1>5 DEF IdsOf, Separate
    <3>3. t \in Range(f) /\ (CHOOSE j \in DOMAIN f : f[j] = t) = i
      BY <3>1, <3>2 DEF Range
    <3> QED BY <3>1, <3>3, <1>3, <1>4, <1>5
  <2>2. CASE t \notin topics
    <3>1. i \notin DOMAIN f /\ t \notin Range(f)
      BY <2>2, <1>1 DEF IdsOf, Range
    <3> QED BY <3>1, <2>2, <1>3, <1>4, <1>5
  <2> QED BY <2>1, <2>2
<1>6. Knows(a, r)
  BY <1>5 DEF Knows
<1>7. HasValues(a, r, Topics \ topics)
  BY <1>3, NullIsNoTopic DEF HasValues
<1> QED BY <1>2, <1>3, <1>6, <1>7, CarriedIsFaithful

(* Withdrawing topics leaves the tables right about the others.            *)
LEMMA WithdrawnIsFaithful ==
    ASSUME NEW tab \in Tables, NEW r \in Robots, NEW after \in Robots,
           NEW topics \in SUBSET Topics, Separate(r), Faithful(tab, r),
           topics \subseteq Range(r.topics),
           \A i \in Ids : after.topics[i] = IF r.topics[i] \in topics THEN Null
                                            ELSE r.topics[i],
           \A t \in Topics \ topics : ValueIn(after, t) = ValueIn(r, t)
    PROVE  LET a == Handled(tab, [kind |-> "unannounce", topics |-> topics]) IN
           a \in Tables /\ Faithful(a, after)
<1> DEFINE f == [kind |-> "unannounce", topics |-> topics]
           a == Unannounced(tab, topics)
<1>1. Handled(tab, f) = a
  BY DEF Handled
<1>2. /\ a \in Tables
      /\ \A i \in Ids : a.byId[i] = IF \E t \in topics : tab.byName[t] = i
                                    THEN Null ELSE tab.byId[i]
      /\ \A t \in Topics : a.byName[t] = IF t \in topics THEN Null ELSE tab.byName[t]
      /\ \A t \in Topics : a.values[t] = IF t \in topics THEN Null ELSE tab.values[t]
  BY UnannouncedTables
<1> HIDE DEF a
<1>3. r.topics \in [Ids -> Topics \cup {Null}]
  BY DEF Robots
<1>4. ASSUME NEW i \in Ids, after.topics[i] # Null
      PROVE  /\ r.topics[i] \in Topics \ topics
             /\ after.topics[i] = r.topics[i]
             /\ a.byId[i] = r.topics[i] /\ a.byName[r.topics[i]] = i
             /\ a.values[r.topics[i]] = ValueIn(r, r.topics[i])
  <2>1. r.topics[i] \in Topics \ topics /\ after.topics[i] = r.topics[i]
    BY <1>3, <1>4
  <2>2. tab.byId[i] = r.topics[i] /\ tab.byName[r.topics[i]] = i
        /\ tab.values[r.topics[i]] = ValueIn(r, r.topics[i])
    BY <2>1, NullIsNoTopic DEF Faithful, Knows, HasValues
  <2>3. ASSUME NEW t \in topics PROVE tab.byName[t] # i
    <3>1. PICK j \in Ids : r.topics[j] = t
      BY <1>3 DEF Range
    <3>2. tab.byName[t] = j
      BY <3>1, NullIsNoTopic DEF Faithful, Knows
    <3> QED BY <3>1, <3>2, <2>1
  <2> QED BY <2>1, <2>2, <2>3, <1>2
<1>5. Knows(a, after)
  BY <1>4 DEF Knows
<1>6. HasValues(a, after, Topics)
  BY <1>4, NullIsNoTopic DEF HasValues
<1> QED BY <1>1, <1>2, <1>5, <1>6 DEF Faithful

-----------------------------------------------------------------------------
\* ch lists the tables on the way of the frames q, from tab to what they lead to;
\* reading q, the tables come to agree with robot r.
Leads(ch, tab, q) ==
    /\ ch \in [0 .. Len(q) -> Tables]
    /\ ch[0] = tab
    /\ \A k \in 1 .. Len(q) : ch[k] = Handled(ch[k - 1], q[k])
Reaches(tab, q, r) ==
    \E ch \in [0 .. Len(q) -> Tables] : Leads(ch, tab, q) /\ Faithful(ch[Len(q)], r)

LEMMA ReachesNow ==
    ASSUME NEW tab \in Tables, NEW r, Faithful(tab, r) PROVE Reaches(tab, <<>>, r)
<1> DEFINE ch == [k \in 0 .. 0 |-> tab]
<1>1. /\ Len(<<>>) = 0 /\ 1 .. Len(<<>>) = {}
      /\ ch \in [0 .. Len(<<>>) -> Tables] /\ ch[0] = tab
  OBVIOUS
<1> HIDE DEF ch
<1>2. Leads(ch, tab, <<>>)
  BY <1>1 DEF Leads
<1> QED BY <1>1, <1>2 DEF Reaches

LEMMA ReachedNow ==
    ASSUME NEW tab, NEW r, Reaches(tab, <<>>, r) PROVE Faithful(tab, r)
BY DEF Reaches, Leads

(* One more frame at the end.                                              *)
LEMMA LeadsOn ==
    ASSUME NEW q \in Seq(DownFrames), NEW f \in DownFrames, NEW tab,
           NEW ch \in [0 .. Len(q) -> Tables], Leads(ch, tab, q)
    PROVE  \E on \in [0 .. Len(Append(q, f)) -> Tables] :
             /\ Leads(on, tab, Append(q, f))
             /\ on[Len(Append(q, f))] = Handled(ch[Len(q)], f)
<1> DEFINE n == Len(q)
           last == Handled(ch[n], f)
           on == [k \in 0 .. n + 1 |-> IF k = n + 1 THEN last ELSE ch[k]]
<1>1. n \in Nat /\ Len(Append(q, f)) = n + 1
  OBVIOUS
<1>2. ch[n] \in Tables
  BY <1>1
<1>3. last \in Tables
  BY <1>2, HandledTables
<1> HIDE DEF last
<1>4. on \in [0 .. n + 1 -> Tables]
  BY <1>1, <1>3
<1>5. on[0] = tab /\ on[n + 1] = last
  BY <1>1 DEF Leads
<1>6. ASSUME NEW k \in 1 .. n + 1 PROVE on[k] = Handled(on[k - 1], Append(q, f)[k])
  <2>1. CASE k = n + 1
    <3>1. Append(q, f)[k] = f /\ on[k - 1] = ch[n] /\ on[k] = last
      BY <2>1, <1>1
    <3> QED BY <3>1 DEF last
  <2>2. CASE k # n + 1
    <3>1. k \in 1 .. n
      BY <2>2, <1>1
    <3>2. Append(q, f)[k] = q[k] /\ on[k - 1] = ch[k - 1] /\ on[k] = ch[k]
      BY <3>1, <1>1
    <3> QED BY <3>1, <3>2 DEF Leads
  <2> QED BY <2>1, <2>2
<1> HIDE DEF on
<1>7. Leads(on, tab, Append(q, f))
  BY <1>1, <1>4, <1>5, <1>6 DEF Leads
<1> QED BY <1>1, <1>4, <1>5, <1>7 DEF last

LEMMA ReachesOn ==
    ASSUME NEW q \in Seq(DownFrames), NEW f \in DownFrames, NEW tab, NEW r, NEW after,
           Reaches(tab, q, r),
           \A t \in Tables : Faithful(t, r) => Faithful(Handled(t, f), after)
    PROVE  Reaches(tab, Append(q, f), after)
<1>1. PICK ch \in [0 .. Len(q) -> Tables] : Leads(ch, tab, q) /\ Faithful(ch[Len(q)], r)
  BY DEF Reaches
<1>2. PICK on \in [0 .. Len(Append(q, f)) -> Tables] :
        /\ Leads(on, tab, Append(q, f))
        /\ on[Len(Append(q, f))] = Handled(ch[Len(q)], f)
  BY <1>1, LeadsOn
<1>3. ch[Len(q)] \in Tables
  OBVIOUS
<1> QED BY <1>1, <1>2, <1>3 DEF Reaches

LEMMA ReachesOnTwice ==
    ASSUME NEW q \in Seq(DownFrames), NEW f \in DownFrames, NEW g \in DownFrames,
           NEW tab, NEW r, NEW after, Reaches(tab, q, r),
           \A t \in Tables : Faithful(t, r) => Faithful(Handled(Handled(t, f), g), after)
    PROVE  Reaches(tab, q \o <<f, g>>, after)
<1>1. PICK ch \in [0 .. Len(q) -> Tables] : Leads(ch, tab, q) /\ Faithful(ch[Len(q)], r)
  BY DEF Reaches
<1> DEFINE p == Append(q, f)
<1>2. PICK on \in [0 .. Len(p) -> Tables] :
        Leads(on, tab, p) /\ on[Len(p)] = Handled(ch[Len(q)], f)
  BY <1>1, LeadsOn
<1>3. p \in Seq(DownFrames)
  OBVIOUS
<1> HIDE DEF p
<1>4. PICK to \in [0 .. Len(Append(p, g)) -> Tables] :
        Leads(to, tab, Append(p, g)) /\ to[Len(Append(p, g))] = Handled(on[Len(p)], g)
  BY <1>2, <1>3, LeadsOn
<1>5. ch[Len(q)] \in Tables
  OBVIOUS
<1>6. Faithful(to[Len(Append(p, g))], after)
  BY <1>1, <1>2, <1>4, <1>5
<1>7. Reaches(tab, Append(p, g), after)
  BY <1>4, <1>6 DEF Reaches
<1>8. Append(p, g) = q \o <<f, g>>
  BY DEF p
<1> QED BY <1>7, <1>8

(* The first frame is handled.                                             *)
LEMMA ReachesAfterFirst ==
    ASSUME NEW q \in Seq(DownFrames), q # <<>>, NEW tab \in Tables, NEW r, Reaches(tab, q, r)
    PROVE  Reaches(Handled(tab, Head(q)), Tail(q), r)
<1>1. PICK ch \in [0 .. Len(q) -> Tables] : Leads(ch, tab, q) /\ Faithful(ch[Len(q)], r)
  BY DEF Reaches
<1> DEFINE n == Len(Tail(q))
           on == [k \in 0 .. n |-> ch[k + 1]]
<1>2. n \in Nat /\ Len(q) = n + 1 /\ \A k \in 1 .. n : Tail(q)[k] = q[k + 1]
  OBVIOUS
<1>3. on \in [0 .. n -> Tables] /\ on[n] = ch[Len(q)]
  BY <1>2
<1>4. on[0] = Handled(tab, Head(q))
  <2>1. ch[1] = Handled(ch[1 - 1], q[1]) /\ ch[0] = tab
    BY <1>1, <1>2 DEF Leads
  <2> QED BY <2>1, <1>2
<1>5. ASSUME NEW k \in 1 .. n PROVE on[k] = Handled(on[k - 1], Tail(q)[k])
  <2>1. k + 1 \in 1 .. Len(q) /\ (k + 1) - 1 = k
    BY <1>2
  <2>2. ch[k + 1] = Handled(ch[k], q[k + 1])
    BY <2>1, <1>1 DEF Leads
  <2>3. on[k] = ch[k + 1] /\ on[k - 1] = ch[k]
    BY <1>2
  <2> QED BY <2>2, <2>3, <1>2
<1> HIDE DEF on
<1>6. Leads(on, Handled(tab, Head(q)), Tail(q))
  BY <1>3, <1>4, <1>5 DEF Leads
<1> QED BY <1>1, <1>3, <1>6 DEF Reaches

-----------------------------------------------------------------------------
\* No selection waits before its topic is published.
SelectsPublished(k) ==
    \A h \in 1 .. Len(k.up) : k.up[h][1] = "select" =>
        \/ k.up[h][2] \in k.pubs
        \/ \E g \in 1 .. h - 1 : k.up[g] = <<"publish", k.up[h][2]>>

\* A connection: what is under way on it, and when nothing can be.
Orderly(k) ==
    /\ k \in SocketStates
    /\ k.subscribed => k.net = "up"
    /\ k.ready = "connecting" => k.up = <<>> /\ ~ k.subscribed
    /\ ~ k.subscribed /\ k.net # "down" => k.down = <<>>
    /\ k.net = "down" => k.up = <<>>
    /\ SelectsPublished(k)

\* What is under way on the entry's connection k leads its tables to what the
\* robot r has now, and whatever it published before is published here too.
InStep(e, k, r) == k.net = "up" /\ k.subscribed => Reaches(TablesOf(e), k.down, r)
Promised(k, c) == c \in k.pubs \/ \E h \in 1 .. Len(k.up) : k.up[h] = <<"publish", c>>
Republished(e, k) == k.net = "up" /\ k.ready = "open" =>
    \A c \in Range(e.published) : Promised(k, c)

ConnectionInv ==
    /\ entry \in Entries
    /\ sock \in [Sockets -> SocketStates]
    /\ \A s \in Sockets : Orderly(sock[s])
CurrentInv ==
    /\ entry.sock # Null =>
         /\ sock[entry.sock].ready \in {"connecting", "open"}
         /\ InStep(entry, sock[entry.sock], robot)
         /\ Republished(entry, sock[entry.sock])
    /\ entry.conn = "connected" => entry.sock # Null /\ sock[entry.sock].ready = "open"
RobotInv == robot \in Robots /\ Separate(robot) /\ (~ robot.up => robot = NoRobot)

BridgeInv == ConnectionInv /\ CurrentInv /\ RobotInv

RoutesTypeOK ==
    /\ url \in Endpoints
    /\ run \in {"idle", "active", "running"}
    /\ picks \subseteq Choosers \X Options
    /\ spent \in 0 .. MaxEvents

ChooserInv == BridgeInv /\ RoutesTypeOK

LEMMA NullIsNoSocket == Null \notin Sockets
BY Nt4Assumption

(* Frames of the bridge.                                                   *)
LEMMA UpFrameKinds ==
    ASSUME NEW f \in UpFrames
    PROVE  \/ f = <<"subscribe">> /\ f[1] = "subscribe"
           \/ \E c \in Choosers : f = <<"publish", c>> /\ f[1] = "publish" /\ f[2] = c
           \/ \E c \in Choosers, o \in Options :
                f = <<"select", c, o>> /\ f[1] = "select" /\ f[2] = c /\ f[3] = o
BY DEF UpFrames

LEMMA HandshakeTyped ==
    ASSUME entry \in Entries
    PROVE  /\ Handshake \in Seq(UpFrames)
           /\ \A h \in 1 .. Len(Handshake) : Handshake[h][1] # "select"
           /\ \A c \in Range(entry.published) :
                \E h \in 1 .. Len(Handshake) : Handshake[h] = <<"publish", c>>
<1> DEFINE p == entry.published
           n == Len(p)
           q == [k \in 1 .. n |-> <<"publish", p[k]>>]
           f == <<"subscribe">>
<1>1. p \in Seq(Choosers) /\ n \in Nat
  BY DEF Entries
<1>2. \A k \in 1 .. n : p[k] \in Choosers
  BY <1>1
<1>3. \A k \in 1 .. n : <<"publish", p[k]>> \in UpFrames
  BY <1>2 DEF UpFrames
<1>4. q \in Seq(UpFrames) /\ Len(q) = n
  BY <1>1, <1>3
<1>5. f \in UpFrames
  BY DEF UpFrames
<1>6. Handshake = q \o <<f>>
  BY DEF Handshake
<1> HIDE DEF f
<1>7. Len(q \o <<f>>) = n + 1 /\ (q \o <<f>>)[n + 1] = f
      /\ \A k \in 1 .. n : (q \o <<f>>)[k] = q[k]
  BY <1>1, <1>4
<1>8. q \o <<f>> \in Seq(UpFrames)
  BY <1>4, <1>5
<1>9. ASSUME NEW h \in 1 .. n + 1 PROVE (q \o <<f>>)[h][1] # "select"
  <2>1. CASE h = n + 1
    <3>1. f[1] = "subscribe"
      BY DEF f
    <3> QED BY <3>1, <2>1, <1>7
  <2>2. CASE h # n + 1
    <3>1. h \in 1 .. n
      BY <2>2, <1>1
    <3>2. (q \o <<f>>)[h] = <<"publish", p[h]>>
      BY <3>1, <1>7
    <3>3. <<"publish", p[h]>>[1] # "select"
      OBVIOUS
    <3> QED BY <3>2, <3>3
  <2> QED BY <2>1, <2>2
<1>10. ASSUME NEW c \in Range(p) PROVE \E h \in 1 .. n + 1 : (q \o <<f>>)[h] = <<"publish", c>>
  <2>1. PICK k \in 1 .. n : p[k] = c
    BY <1>1 DEF Range
  <2>2. k \in 1 .. n + 1 /\ (q \o <<f>>)[k] = <<"publish", c>>
    BY <2>1, <1>1, <1>7
  <2> QED BY <2>2
<1> QED BY <1>6, <1>7, <1>8, <1>9, <1>10

-----------------------------------------------------------------------------
(* A connection k becomes d by losing what waits to be sent, by being told *)
(* something, ...; each keeps it orderly.                                  *)
LEMMA LostIsOrderly ==
    ASSUME NEW k, Orderly(k), NEW d \in SocketStates,
           d.net = "down", d.up = <<>>, ~ d.subscribed
    PROVE  Orderly(d)
BY DEF Orderly, SelectsPublished

LEMMA UnusedIsOrderly ==
    /\ Unused \in SocketStates /\ Orderly(Unused)
    /\ \A u \in Endpoints : Opening(u) \in SocketStates /\ Orderly(Opening(u))
<1>1. Unused \in SocketStates /\ Unused.up = <<>>
  BY DEF Unused, SocketStates
<1>2. Orderly(Unused)
  BY <1>1 DEF Orderly, SelectsPublished, Unused
<1>3. ASSUME NEW u \in Endpoints
      PROVE  Opening(u) \in SocketStates /\ Orderly(Opening(u))
  <2>1. Opening(u) \in SocketStates
    BY <1>1 DEF SocketStates, Opening
  <2>2. Opening(u).up = <<>> /\ ~ Opening(u).subscribed /\ Opening(u).down = <<>>
    BY DEF Opening, Unused
  <2> QED BY <2>1, <2>2 DEF Orderly, SelectsPublished
<1> QED BY <1>1, <1>2, <1>3

(* Hanging up leaves every connection orderly and closes the entry's.      *)
LEMMA HangupIsOrderly ==
    ASSUME ConnectionInv
    PROVE  /\ Hangup \in [Sockets -> SocketStates]
           /\ \A s \in Sockets : Orderly(Hangup[s])
<1>1. ASSUME NEW s \in Sockets
      PROVE  /\ [sock[s] EXCEPT !.ready = "closing", !.down = <<>>] \in SocketStates
             /\ Orderly([sock[s] EXCEPT !.ready = "closing", !.down = <<>>])
  <2> DEFINE k == sock[s]
             d == [k EXCEPT !.ready = "closing", !.down = <<>>]
  <2>1. k \in SocketStates /\ Orderly(k)
    BY DEF ConnectionInv
  <2> HIDE DEF k
  <2>9. <<>> \in Seq(DownFrames)
    OBVIOUS
  <2>2. d \in SocketStates
    BY <2>1,  <2>9 DEF SocketStates
  <2>3. d.ready = "closing" /\ d.down = <<>> /\ d.up = k.up /\ d.net = k.net
        /\ d.subscribed = k.subscribed /\ d.pubs = k.pubs
    BY <2>1 DEF SocketStates
  <2> HIDE DEF d
  <2>4. Orderly(d)
    BY <2>1, <2>2, <2>3 DEF Orderly, SelectsPublished
  <2> QED BY <2>2, <2>4 DEF d, k
<1>2. \A s \in Sockets : Hangup[s] = IF s = entry.sock
        THEN [sock[s] EXCEPT !.ready = "closing", !.down = <<>>] ELSE sock[s]
  BY DEF Hangup
<1>3. \A s \in Sockets : Hangup[s] \in SocketStates /\ Orderly(Hangup[s])
  BY <1>1, <1>2 DEF ConnectionInv
<1>4. Hangup \in [Sockets -> SocketStates]
  BY <1>3 DEF Hangup
<1> QED BY <1>3, <1>4

LEMMA Disconnects ==
    ASSUME BridgeInv, Disconnect, robot' = robot PROVE BridgeInv'
<1>1. entry' \in Entries /\ entry'.sock = Null /\ entry'.conn = "disconnected"
  BY DEF BridgeInv, ConnectionInv, Disconnect, Entries
<1>2. sock' = Hangup
  BY DEF Disconnect
<1>3. ConnectionInv'
  BY <1>1, <1>2, HangupIsOrderly DEF BridgeInv, ConnectionInv
<1>4. CurrentInv'
  BY <1>1 DEF CurrentInv
<1>5. RobotInv'
  BY DEF BridgeInv, RobotInv
<1> QED BY <1>3, <1>4, <1>5 DEF BridgeInv

(* A new socket, of a new entry or one that had none.                      *)
LEMMA Opens ==
    ASSUME BridgeInv, NEW e \in Entries, NEW others \in [Sockets -> SocketStates],
           \A s \in Sockets : Orderly(others[s]), Open(e, others), robot' = robot
    PROVE  BridgeInv'
<1>1. PICK s \in Sockets :
        /\ entry' = [e EXCEPT !.sock = s, !.conn = "reconnecting"]
        /\ sock' = [others EXCEPT ![s] = Opening(e.url)]
  BY DEF Open
<1>2. entry' \in Entries /\ entry'.sock = s /\ entry'.conn = "reconnecting"
  BY <1>1 DEF Entries
<1>3. e.url \in Endpoints
  BY DEF Entries
<1>4. Opening(e.url) \in SocketStates /\ Orderly(Opening(e.url))
  BY <1>3, UnusedIsOrderly
<1>5. /\ sock' \in [Sockets -> SocketStates] /\ sock'[s] = Opening(e.url)
      /\ \A t \in Sockets \ {s} : sock'[t] = others[t]
  BY <1>1, <1>4
<1>6. ConnectionInv'
  BY <1>2, <1>4, <1>5 DEF ConnectionInv
<1>7. Opening(e.url).ready = "connecting" /\ Opening(e.url).net = "connecting"
  BY DEF Opening, Unused
<1>8. CurrentInv'
  BY <1>2, <1>5, <1>7 DEF CurrentInv, InStep, Republished
<1>9. RobotInv'
  BY DEF BridgeInv, RobotInv
<1> QED BY <1>6, <1>8, <1>9 DEF BridgeInv

LEMMA NewEntryTyped == \A u \in Endpoints : NewEntry(u) \in Entries
<1> SUFFICES ASSUME NEW u \in Endpoints PROVE NewEntry(u) \in Entries
  OBVIOUS
<1>1. [t \in Topics |-> Null] \in [Topics -> Values]
  BY DEF Values
<1> QED BY <1>1 DEF NewEntry, Entries

LEMMA SameBridge ==
    ASSUME BridgeInv, UNCHANGED <<entry, sock, robot>> PROVE BridgeInv'
BY DEF BridgeInv, ConnectionInv, CurrentInv, RobotInv

LEMMA EnsuresConnection ==
    ASSUME BridgeInv, NEW u \in Endpoints, EnsureConnected(u), robot' = robot
    PROVE  BridgeInv'
<1>1. CASE ~ KnownAt(u)
  <2>1. Open(NewEntry(u), Hangup)
    BY <1>1 DEF EnsureConnected
  <2> QED BY <2>1, NewEntryTyped, HangupIsOrderly, Opens DEF BridgeInv
<1>2. CASE KnownAt(u) /\ entry.sock = Null
  <2>1. Open(entry, sock)
    BY <1>2 DEF EnsureConnected
  <2> QED BY <2>1, Opens DEF BridgeInv, ConnectionInv
<1>3. CASE KnownAt(u) /\ entry.sock # Null
  BY <1>3, SameBridge DEF EnsureConnected
<1> QED BY <1>1, <1>2, <1>3

-----------------------------------------------------------------------------
(* Only one connection changes; d is what becomes of connection s.         *)
LEMMA OneChanges ==
    ASSUME ConnectionInv, NEW s \in Sockets, NEW d \in SocketStates, Orderly(d),
           sock' = [sock EXCEPT ![s] = d], entry' \in Entries
    PROVE  /\ ConnectionInv' /\ sock'[s] = d
           /\ \A t \in Sockets \ {s} : sock'[t] = sock[t]
BY DEF ConnectionInv

(* The entry's connection is another one.                                  *)
LEMMA AnotherChanges ==
    ASSUME BridgeInv, entry' = entry, robot' = robot,
           entry.sock # Null => sock'[entry.sock] = sock[entry.sock]
    PROVE  CurrentInv' /\ RobotInv'
BY DEF BridgeInv, CurrentInv, RobotInv, InStep, Republished

(* The events of a WebSocket.                                              *)
LEMMA OpenEvent == ASSUME BridgeInv, NEW s \in Sockets, OnOpen(s) PROVE BridgeInv'
<1> DEFINE k == sock[s]
<1>1. /\ k \in SocketStates /\ Orderly(k) /\ k.ready = "connecting" /\ k.net = "up"
      /\ entry \in Entries /\ robot' = robot
  BY DEF BridgeInv, ConnectionInv, OnOpen
<1>2. k.up = <<>> /\ ~ k.subscribed /\ k.down = <<>>
  BY <1>1 DEF Orderly
<1>3. CASE entry.sock = s
  <2> DEFINE d == [k EXCEPT !.ready = "open", !.up = Handshake]
  <2>1. sock' = [sock EXCEPT ![s] = d] /\ entry' = [entry EXCEPT !.conn = "connected"]
    BY <1>3 DEF OnOpen, BridgeInv, ConnectionInv
  <2>2. entry' \in Entries /\ entry'.sock = s /\ entry'.conn = "connected"
        /\ entry'.published = entry.published
    BY <1>1, <1>3, <2>1 DEF Entries
  <2> HIDE DEF k
  <2>3. /\ Handshake \in Seq(UpFrames)
        /\ \A h \in 1 .. Len(Handshake) : Handshake[h][1] # "select"
        /\ \A c \in Range(entry.published) :
             \E h \in 1 .. Len(Handshake) : Handshake[h] = <<"publish", c>>
    BY <1>1, HandshakeTyped
  <2>4. d \in SocketStates
    BY <1>1, <2>3 DEF SocketStates
  <2>5. d.ready = "open" /\ d.up = Handshake /\ d.net = "up" /\ ~ d.subscribed
        /\ d.down = <<>>
    BY <1>1, <1>2 DEF SocketStates
  <2> HIDE DEF d
  <2>6. Orderly(d)
    BY <2>3, <2>4, <2>5 DEF Orderly, SelectsPublished
  <2>7. ConnectionInv' /\ sock'[s] = d
    BY <2>1, <2>2, <2>4, <2>6, OneChanges DEF BridgeInv
  <2>8. CurrentInv'
    BY <2>2, <2>3, <2>5, <2>7, NullIsNoSocket DEF CurrentInv, InStep, Republished, Promised
  <2> QED BY <1>1, <2>7, <2>8 DEF BridgeInv, RobotInv
<1>4. CASE entry.sock # s
  <2> DEFINE d == [k EXCEPT !.ready = "open"]
  <2>1. sock' = [sock EXCEPT ![s] = d] /\ entry' = entry
    BY <1>4 DEF OnOpen, BridgeInv, ConnectionInv
  <2> HIDE DEF k
  <2>2. d \in SocketStates
    BY <1>1 DEF SocketStates
  <2>3. d.ready = "open" /\ d.up = <<>> /\ d.net = "up" /\ ~ d.subscribed /\ d.down = <<>>
    BY <1>1, <1>2 DEF SocketStates
  <2> HIDE DEF d
  <2>4. Orderly(d)
    BY <2>2, <2>3 DEF Orderly, SelectsPublished
  <2>5. ConnectionInv' /\ \A t \in Sockets \ {s} : sock'[t] = sock[t]
    BY <1>1, <2>1, <2>2, <2>4, OneChanges DEF BridgeInv
  <2>6. entry.sock # Null => entry.sock \in Sockets \ {s}
    BY <1>1, <1>4 DEF Entries
  <2>7. CurrentInv' /\ RobotInv'
    BY <1>1, <2>1, <2>5, <2>6, AnotherChanges
  <2> QED BY <2>5, <2>7 DEF BridgeInv
<1> QED BY <1>3, <1>4

LEMMA MessageEvent == ASSUME BridgeInv, NEW s \in Sockets, OnMessage(s) PROVE BridgeInv'
<1> DEFINE k == sock[s]
           d == [k EXCEPT !.down = Tail(@)]
           f == Head(k.down)
<1>1. /\ k \in SocketStates /\ Orderly(k) /\ k.ready = "open" /\ k.down # <<>>
      /\ entry \in Entries /\ robot' = robot
      /\ entry' = IF entry.sock = s THEN Handled(entry, f) ELSE entry
  BY DEF BridgeInv, ConnectionInv, OnMessage
<1>2. sock' = [sock EXCEPT ![s] = d]
  BY DEF OnMessage, BridgeInv, ConnectionInv
<1>3. entry.sock = s => InStep(entry, k, robot) /\ Republished(entry, k)
  BY NullIsNoSocket DEF BridgeInv, CurrentInv
<1> HIDE DEF k
<1>4. k.down \in Seq(DownFrames)
  BY <1>1 DEF SocketStates
<1>5. f \in DownFrames /\ Tail(k.down) \in Seq(DownFrames)
  BY <1>1, <1>4
<1>6. d \in SocketStates
  BY <1>1, <1>5 DEF SocketStates
<1>7. d.ready = "open" /\ d.up = k.up /\ d.net = k.net /\ d.subscribed = k.subscribed
      /\ d.down = Tail(k.down) /\ d.pubs = k.pubs
  BY <1>1 DEF SocketStates
<1> HIDE DEF d, f
<1>8. Orderly(d)
  BY <1>1, <1>6, <1>7 DEF Orderly, SelectsPublished
<1>9. CASE entry.sock = s
  <2>1. /\ entry' \in Entries /\ TablesOf(entry) \in Tables
        /\ TablesOf(entry') = Handled(TablesOf(entry), f)
        /\ entry'.sock = s /\ entry'.published = entry.published
    BY <1>1, <1>5, <1>9, HandledEntry
  <2>2. ConnectionInv' /\ sock'[s] = d
    BY <1>2, <1>6, <1>8, <2>1, OneChanges DEF BridgeInv
  <2>3. InStep(entry', d, robot')
    BY <1>1, <1>3, <1>4, <1>7, <1>9, <2>1, ReachesAfterFirst DEF InStep, f
  <2>4. Republished(entry', d)
    BY <1>1, <1>3, <1>7, <1>9, <2>1 DEF Republished, Promised
  <2>5. CurrentInv'
    BY <1>7, <2>1, <2>2, <2>3, <2>4, NullIsNoSocket DEF CurrentInv
  <2> QED BY <1>1, <2>2, <2>5 DEF BridgeInv, RobotInv
<1>10. CASE entry.sock # s
  <2>1. entry' = entry
    BY <1>1, <1>10
  <2>2. ConnectionInv' /\ \A t \in Sockets \ {s} : sock'[t] = sock[t]
    BY <1>1, <1>2, <1>6, <1>8, <2>1, OneChanges DEF BridgeInv
  <2>3. entry.sock # Null => entry.sock \in Sockets \ {s}
    BY <1>1, <1>10 DEF Entries
  <2>4. CurrentInv' /\ RobotInv'
    BY <1>1, <2>1, <2>2, <2>3, AnotherChanges
  <2> QED BY <2>2, <2>4 DEF BridgeInv
<1> QED BY <1>9, <1>10

LEMMA CloseEvent == ASSUME BridgeInv, NEW s \in Sockets, OnClose(s) PROVE BridgeInv'
<1>1. sock' = [sock EXCEPT ![s] = Unused] /\ robot' = robot /\ entry \in Entries
  BY DEF OnClose, BridgeInv, ConnectionInv
<1>2. CASE entry.sock = s
  <2>1. entry' = [entry EXCEPT !.sock = Null, !.conn = "disconnected"]
    BY <1>2 DEF OnClose
  <2>2. entry' \in Entries /\ entry'.sock = Null /\ entry'.conn = "disconnected"
    BY <1>1, <2>1 DEF Entries
  <2>3. ConnectionInv'
    BY <1>1, <2>2, UnusedIsOrderly, OneChanges DEF BridgeInv
  <2> QED BY <1>1, <2>2, <2>3 DEF BridgeInv, CurrentInv, RobotInv
<1>3. CASE entry.sock # s
  <2>1. entry' = entry
    BY <1>3 DEF OnClose
  <2>2. ConnectionInv' /\ \A t \in Sockets \ {s} : sock'[t] = sock[t]
    BY <1>1, <2>1, UnusedIsOrderly, OneChanges DEF BridgeInv
  <2>3. entry.sock # Null => entry.sock \in Sockets \ {s}
    BY <1>1, <1>3 DEF Entries
  <2>4. CurrentInv' /\ RobotInv'
    BY <1>1, <2>1, <2>2, <2>3, AnotherChanges
  <2> QED BY <2>2, <2>4 DEF BridgeInv
<1> QED BY <1>2, <1>3

(* A connection is accepted, or goes down.                                 *)
LEMMA Accepting == ASSUME BridgeInv, NEW s \in Sockets, RobotAccepts(s) PROVE BridgeInv'
<1> DEFINE k == sock[s]
           d == [k EXCEPT !.net = "up"]
<1>1. /\ k \in SocketStates /\ Orderly(k) /\ k.ready = "connecting" /\ k.net = "connecting"
      /\ entry \in Entries /\ robot' = robot /\ entry' = entry
  BY DEF BridgeInv, ConnectionInv, RobotAccepts
<1>2. sock' = [sock EXCEPT ![s] = d]
  BY DEF RobotAccepts, BridgeInv, ConnectionInv
<1> HIDE DEF k
<1>3. k.up = <<>> /\ ~ k.subscribed /\ k.down = <<>>
  BY <1>1 DEF Orderly
<1>4. d \in SocketStates
  BY <1>1 DEF SocketStates
<1>5. d.ready = "connecting" /\ d.up = <<>> /\ ~ d.subscribed /\ d.down = <<>>
  BY <1>1, <1>3 DEF SocketStates
<1> HIDE DEF d
<1>6. Orderly(d)
  BY <1>4, <1>5 DEF Orderly, SelectsPublished, SocketStates
<1>7. ConnectionInv' /\ sock'[s] = d /\ \A t \in Sockets \ {s} : sock'[t] = sock[t]
  BY <1>1, <1>2, <1>4, <1>6, OneChanges DEF BridgeInv
<1>8. CASE entry.sock = s
  <2>1. CurrentInv'
    <3>1. entry.conn # "connected"
      BY <1>1, <1>8 DEF BridgeInv, CurrentInv, k
    <3> QED BY <1>1, <1>5, <1>7, <1>8, <3>1 DEF CurrentInv, InStep, Republished
  <2> QED BY <1>1, <1>7, <2>1 DEF BridgeInv, RobotInv
<1>9. CASE entry.sock # s
  <2>1. entry.sock # Null => entry.sock \in Sockets \ {s}
    BY <1>1, <1>9 DEF Entries
  <2>2. CurrentInv' /\ RobotInv'
    BY <1>1, <1>7, <2>1, AnotherChanges
  <2> QED BY <1>7, <2>2 DEF BridgeInv
<1> QED BY <1>8, <1>9

LEMMA GoingDown == ASSUME BridgeInv, NEW s \in Sockets, Down(s) PROVE BridgeInv'
<1> DEFINE k == sock[s]
           d == [k EXCEPT !.net = "down", !.up = <<>>, !.subscribed = FALSE]
<1>1. /\ k \in SocketStates /\ Orderly(k)
      /\ entry \in Entries /\ robot' = robot /\ entry' = entry
  BY DEF BridgeInv, ConnectionInv, Down
<1>2. sock' = [sock EXCEPT ![s] = d]
  BY DEF Down, BridgeInv, ConnectionInv
<1> HIDE DEF k
<1>3. d \in SocketStates
  <2>1. <<>> \in Seq(UpFrames)
    OBVIOUS
  <2> QED BY <1>1, <2>1 DEF SocketStates
<1>4. d.ready = k.ready /\ d.up = <<>> /\ ~ d.subscribed /\ d.net = "down"
  BY <1>1 DEF SocketStates
<1> HIDE DEF d
<1>5. Orderly(d)
  BY <1>1, <1>3, <1>4, LostIsOrderly
<1>6. ConnectionInv' /\ sock'[s] = d /\ \A t \in Sockets \ {s} : sock'[t] = sock[t]
  BY <1>1, <1>2, <1>3, <1>5, OneChanges DEF BridgeInv
<1>7. CASE entry.sock = s
  <2>1. CurrentInv'
    BY <1>1, <1>4, <1>6, <1>7 DEF BridgeInv, CurrentInv, InStep, Republished, k
  <2> QED BY <1>1, <1>6, <2>1 DEF BridgeInv, RobotInv
<1>8. CASE entry.sock # s
  <2>1. entry.sock # Null => entry.sock \in Sockets \ {s}
    BY <1>1, <1>8 DEF Entries
  <2>2. CurrentInv' /\ RobotInv'
    BY <1>1, <1>6, <2>1, AnotherChanges
  <2> QED BY <1>6, <2>2 DEF BridgeInv
<1> QED BY <1>7, <1>8

LEMMA DroppedIsOrderly ==
    ASSUME ConnectionInv
    PROVE  /\ Dropped \in [Sockets -> SocketStates]
           /\ \A s \in Sockets : /\ Orderly(Dropped[s]) /\ Dropped[s].net # "up"
                                 /\ Dropped[s].ready = sock[s].ready
<1>1. ASSUME NEW s \in Sockets
      PROVE  LET d == IF sock[s].net = "up"
                      THEN [sock[s] EXCEPT !.net = "down", !.up = <<>>, !.subscribed = FALSE]
                      ELSE sock[s]
             IN  d \in SocketStates /\ Orderly(d) /\ d.net # "up" /\ d.ready = sock[s].ready
  <2> DEFINE k == sock[s]
             d == [k EXCEPT !.net = "down", !.up = <<>>, !.subscribed = FALSE]
  <2>1. k \in SocketStates /\ Orderly(k)
    BY DEF ConnectionInv
  <2> HIDE DEF k
  <2>2. d \in SocketStates
    <3>1. <<>> \in Seq(UpFrames)
      OBVIOUS
    <3> QED BY <2>1, <3>1 DEF SocketStates
  <2>3. d.ready = k.ready /\ d.up = <<>> /\ ~ d.subscribed /\ d.net = "down"
    BY <2>1 DEF SocketStates
  <2> HIDE DEF d
  <2>4. Orderly(d)
    BY <2>1, <2>2, <2>3, LostIsOrderly
  <2> QED BY <2>1, <2>2, <2>3, <2>4 DEF d, k
<1>2. \A s \in Sockets : Dropped[s] \in SocketStates /\ Orderly(Dropped[s])
        /\ Dropped[s].net # "up" /\ Dropped[s].ready = sock[s].ready
  BY <1>1 DEF Dropped
<1>3. Dropped \in [Sockets -> SocketStates]
  BY <1>2 DEF Dropped
<1> QED BY <1>2, <1>3

LEMMA NoRobotInv ==
    /\ NoRobot \in Robots /\ Separate(NoRobot) /\ ~ NoRobot.up
    /\ \A i \in Ids : NoRobot.topics[i] = Null
BY DEF NoRobot, Robots, Separate

(* The robot program goes, and every connection with it.                   *)
LEMMA Exiting ==
    ASSUME BridgeInv, robot' = NoRobot, sock' = Dropped, entry' = entry PROVE BridgeInv'
<1>1. /\ sock' \in [Sockets -> SocketStates]
      /\ \A s \in Sockets : /\ Orderly(sock'[s]) /\ sock'[s].net # "up"
                            /\ sock'[s].ready = sock[s].ready
  BY DroppedIsOrderly DEF BridgeInv
<1>2. ConnectionInv'
  BY <1>1 DEF BridgeInv, ConnectionInv
<1>3. entry.sock # Null => entry.sock \in Sockets
  BY DEF BridgeInv, ConnectionInv, Entries
<1>4. CurrentInv'
  BY <1>1, <1>3 DEF BridgeInv, CurrentInv, InStep, Republished
<1>5. RobotInv'
  BY NoRobotInv DEF RobotInv
<1> QED BY <1>2, <1>4, <1>5 DEF BridgeInv

LEMMA Starting == ASSUME BridgeInv, RobotStarts PROVE BridgeInv'
<1> DEFINE r == [NoRobot EXCEPT !.up = TRUE]
<1>1. robot = NoRobot /\ robot' = r /\ UNCHANGED <<entry, sock>>
  BY DEF RobotStarts, BridgeInv, RobotInv
<1>2. r \in Robots /\ r.up /\ r.topics = NoRobot.topics
  BY NoRobotInv DEF Robots
<1> HIDE DEF r
<1>3. \A t : Faithful(t, r)
  BY <1>2, NoRobotInv, NullIsNoTopic DEF Faithful, Knows, HasValues
<1>4. Separate(r)
  BY <1>2, NoRobotInv DEF Separate
<1>5. \A tab, q : Reaches(tab, q, robot) => Reaches(tab, q, r)
  BY <1>3 DEF Reaches
<1>6. ConnectionInv'
  BY <1>1 DEF BridgeInv, ConnectionInv
<1>7. CurrentInv'
  BY <1>1, <1>5 DEF BridgeInv, CurrentInv, InStep, Republished
<1>8. RobotInv'
  BY <1>1, <1>2, <1>4 DEF RobotInv
<1> QED BY <1>6, <1>7, <1>8 DEF BridgeInv

-----------------------------------------------------------------------------
(* The server tells its subscribers something.                             *)
LEMMA ToldIsOrderly ==
    ASSUME ConnectionInv, NEW frames \in Seq(DownFrames)
    PROVE  /\ Told(frames) \in [Sockets -> SocketStates]
           /\ \A s \in Sockets :
                LET k == sock[s]  d == Told(frames)[s] IN
                /\ Orderly(d) /\ d.ready = k.ready /\ d.net = k.net /\ d.up = k.up
                /\ d.subscribed = k.subscribed /\ d.pubs = k.pubs
                /\ d.down = IF k.subscribed /\ k.ready = "open" THEN k.down \o frames
                            ELSE k.down
<1>1. ASSUME NEW s \in Sockets
      PROVE  LET k == sock[s]
                 d == IF k.subscribed /\ k.ready = "open"
                      THEN [k EXCEPT !.down = @ \o frames] ELSE k
             IN /\ d \in SocketStates
                /\ Orderly(d) /\ d.ready = k.ready /\ d.net = k.net /\ d.up = k.up
                /\ d.subscribed = k.subscribed /\ d.pubs = k.pubs
                /\ d.down = IF k.subscribed /\ k.ready = "open" THEN k.down \o frames
                            ELSE k.down
  <2> DEFINE k == sock[s]
             d == [k EXCEPT !.down = @ \o frames]
  <2>1. k \in SocketStates /\ Orderly(k)
    BY DEF ConnectionInv
  <2> HIDE DEF k
  <2>2. k.down \in Seq(DownFrames)
    BY <2>1 DEF SocketStates
  <2>3. k.down \o frames \in Seq(DownFrames)
    BY <2>2
  <2>4. d \in SocketStates
    BY <2>1, <2>3 DEF SocketStates
  <2>5. d.ready = k.ready /\ d.net = k.net /\ d.up = k.up /\ d.subscribed = k.subscribed
        /\ d.pubs = k.pubs /\ d.down = k.down \o frames
    BY <2>1 DEF SocketStates
  <2> HIDE DEF d
  <2>6. k.subscribed => Orderly(d)
    BY <2>1, <2>4, <2>5 DEF Orderly, SelectsPublished
  <2> QED BY <2>1, <2>4, <2>5, <2>6 DEF d, k
<1>2. \A s \in Sockets : Told(frames)[s] =
        IF sock[s].subscribed /\ sock[s].ready = "open"
        THEN [sock[s] EXCEPT !.down = @ \o frames] ELSE sock[s]
  BY DEF Told
<1>3. Told(frames) \in [Sockets -> SocketStates]
  BY <1>1, <1>2 DEF Told
<1> QED BY <1>1, <1>2, <1>3

\* What the frames say of a robot that becomes r.
Tells(frames, r) == \A tab \in Tables, q \in Seq(DownFrames) :
    Reaches(tab, q, robot) => Reaches(tab, q \o frames, r)

LEMMA Telling ==
    ASSUME BridgeInv, NEW frames \in Seq(DownFrames), NEW r \in Robots, Separate(r),
           Tells(frames, r), r.up, robot' = r, sock' = Told(frames), entry' = entry
    PROVE  BridgeInv'
<1>1. /\ sock' \in [Sockets -> SocketStates]
      /\ \A s \in Sockets :
           LET k == sock[s]  d == sock'[s] IN
           /\ Orderly(d) /\ d.ready = k.ready /\ d.net = k.net /\ d.up = k.up
           /\ d.subscribed = k.subscribed /\ d.pubs = k.pubs
           /\ d.down = IF k.subscribed /\ k.ready = "open" THEN k.down \o frames ELSE k.down
  BY ToldIsOrderly DEF BridgeInv
<1>2. ConnectionInv'
  BY <1>1 DEF BridgeInv, ConnectionInv
<1>3. RobotInv'
  BY DEF RobotInv
<1>4. CASE entry.sock = Null
  BY <1>2, <1>3, <1>4 DEF BridgeInv, CurrentInv
<1>5. CASE entry.sock # Null
  <2> DEFINE s == entry.sock
             k == sock[s]
             d == sock'[s]
  <2>1. s \in Sockets /\ TablesOf(entry) \in Tables
    BY <1>5 DEF BridgeInv, ConnectionInv, Entries, TablesOf, Tables
  <2>2. /\ k \in SocketStates /\ Orderly(k) /\ k.ready \in {"connecting", "open"}
        /\ InStep(entry, k, robot) /\ Republished(entry, k)
    BY <1>5, <2>1 DEF BridgeInv, ConnectionInv, CurrentInv
  <2>3. /\ d.ready = k.ready /\ d.net = k.net /\ d.up = k.up
        /\ d.subscribed = k.subscribed /\ d.pubs = k.pubs
        /\ d.down = IF k.subscribed /\ k.ready = "open" THEN k.down \o frames ELSE k.down
    BY <1>1, <2>1
  <2>4. k.down \in Seq(DownFrames)
    BY <2>2 DEF SocketStates
  <2> HIDE DEF k, d
  <2>5. InStep(entry, d, r)
    <3>1. k.subscribed => k.ready = "open"
      BY <2>2 DEF Orderly
    <3> QED BY <2>1, <2>2, <2>3, <2>4, <3>1 DEF InStep, Tells
  <2>6. Republished(entry, d)
    BY <2>2, <2>3 DEF Republished, Promised
  <2>7. CurrentInv'
    BY <2>2, <2>3, <2>5, <2>6, <1>5 DEF BridgeInv, CurrentInv, d, k
  <2> QED BY <1>2, <1>3, <2>7 DEF BridgeInv
<1> QED BY <1>4, <1>5

LEMMA BothTopics ==
    ASSUME NEW c \in Choosers
    PROVE  /\ TopicsOf(c) \in SUBSET Topics
           /\ \A t \in Topics : t[1] = c => t \in TopicsOf(c)
           /\ \A t \in TopicsOf(c) : t[1] = c
           /\ <<c, "options">> \in TopicsOf(c) /\ <<c, "active">> \in TopicsOf(c)
           /\ <<c, "options">> # <<c, "active">>
BY DEF Topics, TopicsOf

LEMMA PuttingUp == ASSUME BridgeInv, NEW c \in Choosers, PutsUp(c) PROVE BridgeInv'
<1> DEFINE both == TopicsOf(c)
<1>0. PICK i \in Ids, k \in Ids, os \in SUBSET Options : \E o \in os :
        /\ robot.topics[i] = Null /\ robot.topics[k] = Null /\ i # k
        /\ robot' = WithChooser(c, i, k, os, o)
        /\ sock' = Told(<<Announces(robot', both), Carries(robot', both)>>)
  BY DEF PutsUp
<1>1. PICK o \in os :
        /\ robot.topics[i] = Null /\ robot.topics[k] = Null /\ i # k
        /\ robot' = WithChooser(c, i, k, os, o)
        /\ sock' = Told(<<Announces(robot', both), Carries(robot', both)>>)
  BY <1>0
<1> DEFINE top == [robot.topics EXCEPT ![i] = <<c, "options">>, ![k] = <<c, "active">>]
           opt == [robot.options EXCEPT ![c] = os]
           act == [robot.active EXCEPT ![c] = o]
           r == [robot EXCEPT !.topics = top, !.options = opt, !.active = act]
<1>2. /\ robot \in Robots /\ Separate(robot) /\ robot.up /\ entry' = entry
      /\ robot.topics \in [Ids -> Topics \cup {Null}]
      /\ robot.options \in [Choosers -> SUBSET Options]
      /\ robot.active \in [Choosers -> Options \cup {Null}]
  BY DEF BridgeInv, RobotInv, PutsUp, Robots
<1>3. \A j \in Ids : robot.topics[j] \notin both
  <2>1. both \cap Range(robot.topics) = {}
    BY DEF PutsUp
  <2>2. \A j \in Ids : robot.topics[j] \in Range(robot.topics)
    BY <1>2 DEF Range
  <2>3. both \in SUBSET Topics
    BY BothTopics
  <2> HIDE DEF both
  <2> QED BY <2>1, <2>2, <2>3
<1>4. /\ both \in SUBSET Topics /\ Null \notin both
      /\ <<c, "options">> \in both /\ <<c, "active">> \in both
      /\ <<c, "options">> # <<c, "active">>
  BY BothTopics, NullIsNoTopic
<1>5. /\ top \in [Ids -> Topics \cup {Null}]
      /\ \A j \in Ids : top[j] = IF j = k THEN <<c, "active">>
                                 ELSE IF j = i THEN <<c, "options">> ELSE robot.topics[j]
  BY <1>2, <1>4
<1>6. /\ opt \in [Choosers -> SUBSET Options] /\ act \in [Choosers -> Options \cup {Null}]
      /\ \A x \in Choosers \ {c} : opt[x] = robot.options[x] /\ act[x] = robot.active[x]
  BY <1>2
<1>7. robot' = r
  BY <1>1, <1>2 DEF Robots, WithChooser
<1> HIDE DEF top, opt, act
<1>8. r \in Robots /\ r.up /\ r.topics = top /\ r.options = opt /\ r.active = act
  BY <1>2, <1>5, <1>6 DEF Robots
<1> HIDE DEF r
<1>9. Separate(r)
  BY <1>1, <1>2, <1>3, <1>4, <1>5, <1>8 DEF Separate
<1> DEFINE A == Announces(r, both)
           B == Carries(r, both)
<1>10. A \in DownFrames /\ B \in DownFrames
  BY <1>4, <1>8, AnnouncesTyped, CarriesTyped
<1>11. ASSUME NEW tab \in Tables, Faithful(tab, robot)
       PROVE  Faithful(Handled(Handled(tab, A), B), r)
  <2>1. ASSUME NEW j \in Ids, r.topics[j] # Null, r.topics[j] \notin both
        PROVE  /\ tab.byId[j] = r.topics[j] /\ tab.byName[r.topics[j]] = j
               /\ tab.values[r.topics[j]] = ValueIn(r, r.topics[j])
    <3> DEFINE t == r.topics[j]
    <3>1. t = robot.topics[j] /\ t \in Topics
      BY <2>1, <1>2, <1>4, <1>5, <1>8
    <3>2. t[1] \in Choosers /\ t[1] # c
      BY <2>1, <3>1, BothTopics DEF Topics
    <3>3. ValueIn(r, t) = ValueIn(robot, t)
      BY <3>2, <1>6, <1>8 DEF ValueIn
    <3> QED BY <3>1, <3>3, <2>1, <1>11 DEF Faithful, Knows, HasValues
  <2> HIDE DEF both
  <2> QED BY <2>1, <1>4, <1>8, <1>9, AnnouncedIsFaithful
<1> HIDE DEF A, B
<1>12. Tells(<<A, B>>, r)
  BY <1>10, <1>11, ReachesOnTwice DEF Tells
<1>13. <<A, B>> \in Seq(DownFrames) /\ sock' = Told(<<A, B>>)
  BY <1>1, <1>7, <1>10 DEF A, B
<1> QED BY <1>2, <1>7, <1>8, <1>9, <1>12, <1>13, Telling

LEMMA TakingDown == ASSUME BridgeInv, NEW c \in Choosers, TakesDown(c) PROVE BridgeInv'
<1> DEFINE both == TopicsOf(c)
           top == [i \in Ids |-> IF robot.topics[i] \in both THEN Null ELSE robot.topics[i]]
           opt == [robot.options EXCEPT ![c] = {}]
           act == [robot.active EXCEPT ![c] = Null]
           r == [robot EXCEPT !.topics = top, !.options = opt, !.active = act]
           f == [kind |-> "unannounce", topics |-> both]
<1>1. /\ robot \in Robots /\ Separate(robot) /\ robot.up /\ entry' = entry
      /\ robot.topics \in [Ids -> Topics \cup {Null}]
      /\ robot.options \in [Choosers -> SUBSET Options]
      /\ robot.active \in [Choosers -> Options \cup {Null}]
  BY DEF BridgeInv, RobotInv, TakesDown, Robots
<1>2. both \in SUBSET Topics /\ both \subseteq Range(robot.topics)
  BY BothTopics DEF TakesDown
<1>3. robot' = r
  <2>1. robot' = [robot EXCEPT !.topics = top, !.options[c] = {}, !.active[c] = Null]
    BY DEF TakesDown
  <2> HIDE DEF top
  <2> QED BY <2>1, <1>1 DEF Robots
<1>4. sock' = Told(<<f>>)
  BY DEF TakesDown
<1>5. /\ top \in [Ids -> Topics \cup {Null}]
      /\ opt \in [Choosers -> SUBSET Options] /\ act \in [Choosers -> Options \cup {Null}]
      /\ \A x \in Choosers \ {c} : opt[x] = robot.options[x] /\ act[x] = robot.active[x]
  BY <1>1
<1>6. \A i \in Ids : top[i] = IF robot.topics[i] \in both THEN Null ELSE robot.topics[i]
  OBVIOUS
<1> HIDE DEF top, opt, act
<1>7. r \in Robots /\ r.up /\ r.topics = top /\ r.options = opt /\ r.active = act
  BY <1>1, <1>5 DEF Robots
<1> HIDE DEF r
<1>8. Separate(r)
  BY <1>1, <1>6, <1>7 DEF Separate
<1>9. f \in DownFrames
  BY <1>2 DEF DownFrames
<1>10. \A t \in Topics \ both : ValueIn(r, t) = ValueIn(robot, t)
  <2> SUFFICES ASSUME NEW t \in Topics \ both PROVE ValueIn(r, t) = ValueIn(robot, t)
    OBVIOUS
  <2>1. t[1] \in Choosers /\ t[1] # c
    BY BothTopics DEF Topics
  <2> QED BY <2>1, <1>5, <1>7 DEF ValueIn
<1> HIDE DEF both
<1>11. ASSUME NEW tab \in Tables, Faithful(tab, robot)
       PROVE  Faithful(Handled(tab, f), r)
  BY <1>1, <1>2, <1>6, <1>7, <1>10, <1>11, WithdrawnIsFaithful
<1> HIDE DEF f
<1>12. Tells(<<f>>, r)
  <2> SUFFICES ASSUME NEW tab \in Tables, NEW q \in Seq(DownFrames), Reaches(tab, q, robot)
               PROVE  Reaches(tab, q \o <<f>>, r)
    BY DEF Tells
  <2>1. Reaches(tab, Append(q, f), r)
    BY <1>9, <1>11, ReachesOn
  <2>2. q \o <<f>> = Append(q, f)
    BY <1>9
  <2> QED BY <2>1, <2>2
<1>13. <<f>> \in Seq(DownFrames)
  BY <1>9
<1> QED BY <1>1, <1>3, <1>4, <1>7, <1>8, <1>12, <1>13, Telling

-----------------------------------------------------------------------------
(* The first frame on the way to the server is received.                   *)
LEMMA FirstReceived ==
    ASSUME NEW k \in SocketStates, SelectsPublished(k), k.up # <<>>,
           NEW d \in SocketStates, d.up = Tail(k.up), k.pubs \subseteq d.pubs,
           \A c : Head(k.up) = <<"publish", c>> => c \in d.pubs
    PROVE  /\ SelectsPublished(d)
           /\ \A c : Promised(k, c) => Promised(d, c)
<1>1. k.up \in Seq(UpFrames)
  BY DEF SocketStates
<1>2. /\ Len(k.up) \in Nat /\ Len(k.up) >= 1 /\ Len(d.up) = Len(k.up) - 1
      /\ Head(k.up) = k.up[1] /\ \A h \in 1 .. Len(d.up) : d.up[h] = k.up[h + 1]
  BY <1>1
<1>3. ASSUME NEW h \in 1 .. Len(d.up), d.up[h][1] = "select"
      PROVE  \/ d.up[h][2] \in d.pubs
             \/ \E g \in 1 .. h - 1 : d.up[g] = <<"publish", d.up[h][2]>>
  <2> DEFINE c == d.up[h][2]
  <2>1. h + 1 \in 1 .. Len(k.up) /\ k.up[h + 1] = d.up[h]
    BY <1>2
  <2> DEFINE j == h + 1
  <2>2. c \in k.pubs \/ \E g \in 1 .. h : k.up[g] = <<"publish", c>>
    <3>1. j \in 1 .. Len(k.up) /\ k.up[j] = d.up[h] /\ j - 1 = h
      BY <2>1, <1>2
    <3> HIDE DEF j
    <3>2. k.up[j][1] = "select" /\ k.up[j][2] = c
      BY <3>1, <1>3
    <3> HIDE DEF c
    <3>3. \/ k.up[j][2] \in k.pubs
          \/ \E g \in 1 .. j - 1 : k.up[g] = <<"publish", k.up[j][2]>>
      BY <3>1, <3>2 DEF SelectsPublished
    <3> QED BY <3>1, <3>2, <3>3
  <2>3. ASSUME NEW g \in 1 .. h, k.up[g] = <<"publish", c>>, g # 1
        PROVE  g - 1 \in 1 .. h - 1 /\ d.up[g - 1] = <<"publish", c>>
    BY <2>3, <1>2
  <2>4. ASSUME NEW g \in 1 .. h, k.up[g] = <<"publish", c>>, g = 1 PROVE c \in d.pubs
    BY <2>4, <1>2
  <2> QED BY <2>2, <2>3, <2>4
<1>4. ASSUME NEW c, NEW h \in 1 .. Len(k.up), k.up[h] = <<"publish", c>>
      PROVE  c \in d.pubs \/ \E g \in 1 .. Len(d.up) : d.up[g] = <<"publish", c>>
  <2>1. CASE h = 1
    BY <2>1, <1>2, <1>4
  <2>2. CASE h # 1
    <3>1. h - 1 \in 1 .. Len(d.up) /\ d.up[h - 1] = <<"publish", c>>
      BY <2>2, <1>2, <1>4
    <3> QED BY <3>1
  <2> QED BY <2>1, <2>2
<1> QED BY <1>3, <1>4 DEF SelectsPublished, Promised

(* A subscriber is told everything.                                        *)
LEMMA Subscribing ==
    ASSUME BridgeInv, NEW s \in Sockets, sock[s].net = "up", sock[s].up # <<>>,
           Head(sock[s].up) = <<"subscribe">>,
           sock' = [sock EXCEPT ![s].up = Tail(@), ![s].subscribed = TRUE,
                                ![s].down = @ \o <<Announces(robot, Topics),
                                                   Carries(robot, Topics)>>],
           UNCHANGED <<entry, robot>>
    PROVE  BridgeInv'
<1> DEFINE k == sock[s]
           A == Announces(robot, Topics)
           B == Carries(robot, Topics)
           d == [k EXCEPT !.up = Tail(@), !.subscribed = TRUE, !.down = @ \o <<A, B>>]
<1>1. /\ k \in SocketStates /\ Orderly(k) /\ entry \in Entries
      /\ robot \in Robots /\ Separate(robot)
  BY DEF BridgeInv, ConnectionInv, RobotInv
<1>2. A \in DownFrames /\ B \in DownFrames
  BY <1>1, AnnouncesTyped, CarriesTyped
<1>3. \A tab \in Tables : Faithful(Handled(Handled(tab, A), B), robot)
  <2>1. \A i \in Ids : robot.topics[i] \in Topics \cup {Null}
    BY <1>1 DEF Robots
  <2> QED BY <1>1, <2>1, AnnouncedIsFaithful
<1>4. entry.sock = s => InStep(entry, k, robot) /\ Republished(entry, k)
                        /\ k.ready \in {"connecting", "open"}
  BY NullIsNoSocket DEF BridgeInv, CurrentInv
<1>5. sock' = [sock EXCEPT ![s] = d]
  BY DEF BridgeInv, ConnectionInv
<1> HIDE DEF A, B
<1>6. k.down \in Seq(DownFrames) /\ k.up \in Seq(UpFrames) /\ k.up # <<>> /\ k.net = "up"
      /\ Head(k.up) = <<"subscribe">>
  BY <1>1 DEF SocketStates
<1> HIDE DEF k
<1>7. k.down \o <<A, B>> \in Seq(DownFrames) /\ Tail(k.up) \in Seq(UpFrames)
  BY <1>2, <1>6
<1>8. d \in SocketStates
  BY <1>1, <1>7 DEF SocketStates
<1>9. d.ready = k.ready /\ d.net = "up" /\ d.up = Tail(k.up) /\ d.pubs = k.pubs
      /\ d.subscribed /\ d.down = k.down \o <<A, B>>
  BY <1>1, <1>6 DEF SocketStates
<1> HIDE DEF d
<1>10. \A c : Head(k.up) # <<"publish", c>>
  BY <1>6
<1>11. /\ SelectsPublished(d)
       /\ \A c : Promised(k, c) => Promised(d, c)
  <2>1. SelectsPublished(k) /\ k.pubs \subseteq d.pubs
    BY <1>1, <1>9 DEF Orderly
  <2>2. d.up = Tail(k.up) /\ \A c : Head(k.up) = <<"publish", c>> => c \in d.pubs
    BY <1>9, <1>10
  <2> QED BY <1>1, <1>6, <1>8, <2>1, <2>2, FirstReceived
<1>12. k.ready # "connecting"
  BY <1>1, <1>6 DEF Orderly
<1>13. Orderly(d)
  BY <1>8, <1>9, <1>11, <1>12 DEF Orderly
<1>14. ConnectionInv' /\ sock'[s] = d /\ \A t \in Sockets \ {s} : sock'[t] = sock[t]
  BY <1>1, <1>5, <1>8, <1>13, OneChanges DEF BridgeInv
<1>15. CASE entry.sock = s
  <2>1. TablesOf(entry) \in Tables
    BY <1>1 DEF Entries, TablesOf, Tables
  <2>2. Reaches(TablesOf(entry), k.down \o <<A, B>>, robot)
    <3>1. CASE k.subscribed
      BY <1>2, <1>3, <1>4, <1>6, <1>15, <2>1, <3>1, ReachesOnTwice DEF InStep
    <3>2. CASE ~ k.subscribed
      <4>1. k.down = <<>>
        BY <1>1, <1>6, <3>2 DEF Orderly
      <4>2. Faithful(TablesOf(entry), NoRobot)
        BY NoRobotInv, NullIsNoTopic DEF Faithful, Knows, HasValues
      <4>3. Reaches(TablesOf(entry), k.down, NoRobot)
        BY <2>1, <4>1, <4>2, ReachesNow
      <4> QED BY <1>2, <1>3, <1>6, <2>1, <4>3, ReachesOnTwice
    <3> QED BY <3>1, <3>2
  <2>3. InStep(entry', d, robot')
    BY <2>2, <1>9 DEF InStep
  <2>4. Republished(entry', d)
    BY <1>4, <1>6, <1>9, <1>11, <1>15 DEF Republished
  <2>5. CurrentInv'
    BY <1>4, <1>9, <1>14, <1>15, <2>3, <2>4 DEF BridgeInv, CurrentInv, k
  <2> QED BY <1>14, <2>5 DEF BridgeInv, RobotInv
<1>16. CASE entry.sock # s
  <2>1. entry.sock # Null => entry.sock \in Sockets \ {s}
    BY <1>1, <1>16 DEF Entries
  <2>2. CurrentInv' /\ RobotInv'
    BY <1>14, <2>1, AnotherChanges
  <2> QED BY <1>14, <2>2 DEF BridgeInv
<1> QED BY <1>15, <1>16

(* A frame that changes no more than the connection's publications.        *)
LEMMA ReceivingFirst ==
    ASSUME BridgeInv, NEW s \in Sockets, sock[s].net = "up", sock[s].up # <<>>,
           NEW pubs \in SUBSET Choosers, sock[s].pubs \subseteq pubs,
           \A c : Head(sock[s].up) = <<"publish", c>> => c \in pubs,
           sock' = [sock EXCEPT ![s].up = Tail(@), ![s].pubs = pubs],
           UNCHANGED <<entry, robot>>
    PROVE  BridgeInv'
<1> DEFINE k == sock[s]
           d == [k EXCEPT !.up = Tail(@), !.pubs = pubs]
<1>1. k \in SocketStates /\ Orderly(k) /\ entry \in Entries
  BY DEF BridgeInv, ConnectionInv
<1>2. entry.sock = s => InStep(entry, k, robot) /\ Republished(entry, k)
                        /\ k.ready \in {"connecting", "open"}
  BY NullIsNoSocket DEF BridgeInv, CurrentInv
<1>3. sock' = [sock EXCEPT ![s] = d]
  BY DEF BridgeInv, ConnectionInv
<1>4. /\ k.up \in Seq(UpFrames) /\ k.up # <<>> /\ k.net = "up" /\ k.pubs \subseteq pubs
      /\ \A c : Head(k.up) = <<"publish", c>> => c \in pubs
  BY <1>1 DEF SocketStates
<1> HIDE DEF k
<1>5. Tail(k.up) \in Seq(UpFrames)
  BY <1>4
<1>6. d \in SocketStates
  BY <1>1, <1>5 DEF SocketStates
<1>7. d.ready = k.ready /\ d.net = k.net /\ d.up = Tail(k.up) /\ d.pubs = pubs
      /\ d.subscribed = k.subscribed /\ d.down = k.down
  BY <1>1 DEF SocketStates
<1> HIDE DEF d
<1>8. /\ SelectsPublished(d)
      /\ \A c : Promised(k, c) => Promised(d, c)
  BY <1>1, <1>4, <1>6, <1>7, FirstReceived DEF Orderly
<1>9. k.ready # "connecting"
  BY <1>1, <1>4 DEF Orderly
<1>10. Orderly(d)
  BY <1>1, <1>4, <1>6, <1>7, <1>8, <1>9 DEF Orderly
<1>11. ConnectionInv' /\ sock'[s] = d /\ \A t \in Sockets \ {s} : sock'[t] = sock[t]
  BY <1>1, <1>3, <1>6, <1>10, OneChanges DEF BridgeInv
<1>12. CASE entry.sock = s
  <2>1. InStep(entry', d, robot')
    BY <1>2, <1>7, <1>12 DEF InStep
  <2>2. Republished(entry', d)
    BY <1>2, <1>7, <1>8, <1>12 DEF Republished
  <2>3. CurrentInv'
    BY <1>2, <1>7, <1>11, <1>12, <2>1, <2>2 DEF BridgeInv, CurrentInv, k
  <2> QED BY <1>11, <2>3 DEF BridgeInv, RobotInv
<1>13. CASE entry.sock # s
  <2>1. entry.sock # Null => entry.sock \in Sockets \ {s}
    BY <1>1, <1>13 DEF Entries
  <2>2. CurrentInv' /\ RobotInv'
    BY <1>11, <2>1, AnotherChanges
  <2> QED BY <1>11, <2>2 DEF BridgeInv
<1> QED BY <1>12, <1>13


(* A selection that the server accepts is told to its subscribers.         *)
LEMMA SelectedIsFaithful ==
    ASSUME RobotInv, NEW c \in Choosers, NEW o \in Options, NEW r \in Robots,
           r.topics = robot.topics, r.options = robot.options,
           \A x \in Choosers : r.active[x] = IF x = c THEN o ELSE robot.active[x]
    PROVE  LET f == Carries(r, {<<c, "active">>}) IN
           f \in DownFrames /\ Separate(r) /\ Tells(<<f>>, r)
<1> DEFINE one == {<<c, "active">>}
           f == Carries(r, one)
<1>1. robot \in Robots /\ Separate(robot)
  BY DEF RobotInv
<1>2. one \in SUBSET Topics
  BY DEF Topics
<1>3. f \in DownFrames
  BY <1>2, CarriesTyped
<1>4. Separate(r)
  BY <1>1 DEF Separate
<1>5. ASSUME NEW t \in Topics \ one PROVE ValueIn(r, t) = ValueIn(robot, t)
  <2>1. t[1] \in Choosers /\ (t[2] = "options" \/ t[1] # c)
    BY <1>5 DEF Topics
  <2> QED BY <2>1 DEF ValueIn
<1> HIDE DEF one
<1>6. ASSUME NEW tab \in Tables, Faithful(tab, robot)
      PROVE  Faithful(Handled(tab, f), r)
  <2>1. Knows(tab, r)
    BY <1>6 DEF Faithful, Knows
  <2>2. HasValues(tab, r, Topics \ one)
    BY <1>5, <1>6 DEF Faithful, HasValues
  <2> QED BY <1>2, <1>4, <2>1, <2>2, CarriedIsFaithful
<1> HIDE DEF f
<1>7. Tells(<<f>>, r)
  <2> SUFFICES ASSUME NEW tab \in Tables, NEW q \in Seq(DownFrames), Reaches(tab, q, robot)
               PROVE  Reaches(tab, q \o <<f>>, r)
    BY DEF Tells
  <2>1. Reaches(tab, Append(q, f), r)
    BY <1>3, <1>6, ReachesOn
  <2>2. q \o <<f>> = Append(q, f)
    BY <1>3
  <2> QED BY <2>1, <2>2
<1> QED BY <1>3, <1>4, <1>7 DEF f, one

LEMMA Accepted ==
    ASSUME BridgeInv, NEW s \in Sockets, sock[s].net = "up", sock[s].up # <<>>,
           \A c : Head(sock[s].up) # <<"publish", c>>,
           NEW f \in DownFrames, NEW r \in Robots, Separate(r), Tells(<<f>>, r), r.up,
           robot' = r, sock' = [Told(<<f>>) EXCEPT ![s].up = Tail(@)], entry' = entry
    PROVE  BridgeInv'
<1> DEFINE T == Told(<<f>>)
           d == [T[s] EXCEPT !.up = Tail(@)]
<1>1. <<f>> \in Seq(DownFrames)
  OBVIOUS
<1>2. /\ T \in [Sockets -> SocketStates]
      /\ \A t \in Sockets :
           LET k == sock[t]  m == T[t] IN
           /\ Orderly(m) /\ m.ready = k.ready /\ m.net = k.net /\ m.up = k.up
           /\ m.subscribed = k.subscribed /\ m.pubs = k.pubs
           /\ m.down = IF k.subscribed /\ k.ready = "open" THEN k.down \o <<f>> ELSE k.down
  BY <1>1, ToldIsOrderly DEF BridgeInv
<1> HIDE DEF T
<1>3. sock' = [T EXCEPT ![s] = d]
  BY <1>2 DEF T
<1> DEFINE m == T[s]
<1>4. m \in SocketStates /\ Orderly(m) /\ m.up # <<>> /\ m.net = "up"
      /\ \A c : Head(m.up) # <<"publish", c>>
  BY <1>2
<1> HIDE DEF m
<1>5. Tail(m.up) \in Seq(UpFrames) /\ d = [m EXCEPT !.up = Tail(m.up)]
  <2>1. m.up \in Seq(UpFrames)
    BY <1>4 DEF SocketStates
  <2> QED BY <2>1, <1>4 DEF m
<1> HIDE DEF d
<1>6. d \in SocketStates
  BY <1>4, <1>5 DEF SocketStates
<1>7. d.ready = m.ready /\ d.net = m.net /\ d.up = Tail(m.up) /\ d.pubs = m.pubs
      /\ d.subscribed = m.subscribed /\ d.down = m.down
  BY <1>4, <1>5 DEF SocketStates
<1>8. /\ SelectsPublished(d)
      /\ \A c : Promised(m, c) => Promised(d, c)
  <2>1. SelectsPublished(m) /\ m.pubs \subseteq d.pubs
    BY <1>4, <1>7 DEF Orderly
  <2>2. d.up = Tail(m.up) /\ \A c : Head(m.up) = <<"publish", c>> => c \in d.pubs
    BY <1>4, <1>7
  <2> QED BY <1>4, <1>6, <2>1, <2>2, FirstReceived
<1>9. m.ready # "connecting"
  BY <1>4 DEF Orderly
<1>10. Orderly(d)
  BY <1>4, <1>6, <1>7, <1>8, <1>9 DEF Orderly
<1>11. sock' \in [Sockets -> SocketStates] /\ sock'[s] = d
       /\ \A t \in Sockets \ {s} : sock'[t] = T[t]
  BY <1>2, <1>3, <1>6
<1>12. ConnectionInv'
  BY <1>2, <1>10, <1>11 DEF BridgeInv, ConnectionInv
<1>13. RobotInv'
  BY DEF RobotInv
<1>14. CurrentInv'
  <2>1. CASE entry.sock = Null
    BY <2>1 DEF BridgeInv, CurrentInv
  <2>2. CASE entry.sock # Null
    <3> DEFINE t == entry.sock
               k == sock[t]
               n == sock'[t]
    <3>1. t \in Sockets
      BY <2>2 DEF BridgeInv, ConnectionInv, Entries
    <3>2. k \in SocketStates /\ Orderly(k) /\ k.ready \in {"connecting", "open"}
          /\ InStep(entry, k, robot) /\ Republished(entry, k)
      BY <2>2, <3>1 DEF BridgeInv, ConnectionInv, CurrentInv
    <3>3. /\ n.ready = k.ready /\ n.net = k.net
          /\ n.subscribed = k.subscribed /\ n.pubs = k.pubs
          /\ n.down = IF k.subscribed /\ k.ready = "open" THEN k.down \o <<f>> ELSE k.down
          /\ t # s => n.up = k.up
      <4> HIDE DEF t
      <4>1. CASE t = s
        BY <1>2, <1>7, <1>11, <4>1 DEF m
      <4>2. CASE t # s
        <5>1. n = T[t]
          BY <1>11, <3>1, <4>2
        <5> HIDE DEF n, k
        <5> QED BY <1>2, <3>1, <4>2, <5>1 DEF k
      <4> QED BY <4>1, <4>2
    <3>4. t = s => n = d /\ k.up = m.up /\ k.pubs = m.pubs
      BY <1>2, <1>11 DEF m
    <3>5. TablesOf(entry) \in Tables
      BY DEF BridgeInv, ConnectionInv, Entries, TablesOf, Tables
    <3> HIDE DEF k, n
    <3>6. InStep(entry, n, r)
      <4>1. k.subscribed => k.ready = "open"
        BY <3>2 DEF Orderly
      <4>2. k.down \in Seq(DownFrames)
        BY <3>2 DEF SocketStates
      <4> QED BY <3>2, <3>3, <3>5, <4>1, <4>2 DEF InStep, Tells
    <3>7. Republished(entry, n)
      <4>1. CASE t = s
        <5>1. \A c : Promised(k, c) => Promised(m, c)
          BY <3>4, <4>1 DEF Promised
        <5>2. \A c : Promised(m, c) => Promised(n, c)
          BY <1>8, <3>4, <4>1
        <5> QED BY <3>2, <3>3, <5>1, <5>2 DEF Republished
      <4>2. CASE t # s
        BY <4>2, <3>2, <3>3 DEF Republished, Promised
      <4> QED BY <4>1, <4>2
    <3>8. entry'.conn = "connected" => n.ready = "open"
      BY <3>3 DEF BridgeInv, CurrentInv, k
    <3> QED BY <2>2, <3>2, <3>3, <3>6, <3>7, <3>8 DEF CurrentInv, n
  <2> QED BY <2>1, <2>2
<1> QED BY <1>12, <1>13, <1>14 DEF BridgeInv

LEMMA Receiving == ASSUME BridgeInv, NEW s \in Sockets, RobotReceives(s) PROVE BridgeInv'
<1> DEFINE g == Head(sock[s].up)
           pubs == sock[s].pubs
<1>1. /\ sock[s] \in SocketStates /\ sock[s].net = "up" /\ sock[s].up # <<>>
      /\ Receives(s, g) /\ entry' = entry /\ robot.up
      /\ sock \in [Sockets -> SocketStates]
  <2>1. sock \in [Sockets -> SocketStates]
    BY DEF BridgeInv, ConnectionInv
  <2>2. sock[s].net = "up" /\ sock[s].up # <<>> /\ Receives(s, g) /\ entry' = entry /\ robot.up
    BY DEF RobotReceives
  <2> HIDE DEF g, pubs
  <2> QED BY <2>1, <2>2
<1>2. g \in UpFrames /\ pubs \in SUBSET Choosers
  <2>1. sock[s].up \in Seq(UpFrames)
    BY <1>1 DEF SocketStates
  <2> QED BY <1>1, <2>1 DEF SocketStates
<1>3. CASE g = <<"subscribe">> /\ g[1] = "subscribe"
  BY <1>1, <1>3, Subscribing DEF Receives
<1>4. ASSUME NEW c \in Choosers, g = <<"publish", c>>, g[1] = "publish", g[2] = c
      PROVE  BridgeInv'
  <2> DEFINE on == pubs \cup {c}
  <2>1. sock' = [sock EXCEPT ![s].up = Tail(@), ![s].pubs = on] /\ robot' = robot
    BY <1>1, <1>4 DEF Receives
  <2>2. on \in SUBSET Choosers /\ pubs \subseteq on
    BY <1>2
  <2>3. \A x : g = <<"publish", x>> => x \in on
    BY <1>4
  <2> HIDE DEF on
  <2> QED BY <1>1, <2>1, <2>2, <2>3, ReceivingFirst
<1>5. ASSUME NEW c \in Choosers, NEW o \in Options, g = <<"select", c, o>>,
             g[1] = "select", g[2] = c, g[3] = o
      PROVE  BridgeInv'
  <2>1. \A x : g # <<"publish", x>>
    BY <1>5
  <2>2. CASE c \in pubs /\ o \in robot.options[c]
    <3> DEFINE r == [robot EXCEPT !.active[c] = o]
               f == Carries(r, {<<c, "active">>})
    <3>1. robot' = r /\ sock' = [Told(<<f>>) EXCEPT ![s].up = Tail(@)]
      BY <1>1, <1>5, <2>2 DEF Receives
    <3>2. robot \in Robots
      BY DEF BridgeInv, RobotInv
    <3>3. /\ r \in Robots /\ r.up
          /\ r.topics = robot.topics /\ r.options = robot.options
          /\ \A x \in Choosers : r.active[x] = IF x = c THEN o ELSE robot.active[x]
      BY <1>1, <3>2 DEF Robots
    <3> HIDE DEF r
    <3>4. f \in DownFrames /\ Separate(r) /\ Tells(<<f>>, r)
      BY <3>3, SelectedIsFaithful DEF BridgeInv
    <3> HIDE DEF f
    <3> QED BY <1>1, <2>1, <3>1, <3>3, <3>4, Accepted
  <2>3. CASE ~ (c \in pubs /\ o \in robot.options[c])
    <3>1. robot' = robot /\ sock' = [sock EXCEPT ![s].up = Tail(@)]
      BY <1>1, <1>5, <2>3 DEF Receives
    <3>2. sock' = [sock EXCEPT ![s].up = Tail(@), ![s].pubs = pubs]
      BY <1>1, <3>1 DEF SocketStates
    <3> HIDE DEF pubs
    <3>3. \A x : g = <<"publish", x>> => x \in pubs
      BY <2>1
    <3>4. sock[s].pubs \subseteq pubs
      BY DEF pubs
    <3> QED BY <1>1, <1>2, <3>1, <3>2, <3>3, <3>4, ReceivingFirst
  <2> QED BY <2>2, <2>3
<1> QED BY <1>2, <1>3, <1>4, <1>5, UpFrameKinds

-----------------------------------------------------------------------------
(* The bridge sends a frame on an open connection: a publication, or a     *)
(* selection of what has been published on it.                             *)
LEMMA FrameSent ==
    ASSUME NEW k, Orderly(k), k.net = "up", k.ready = "open", NEW f \in UpFrames,
           f[1] = "select" => Promised(k, f[2]),
           NEW d \in SocketStates, d.ready = "open", d.net = "up", d.up = Append(k.up, f),
           d.subscribed = k.subscribed, d.down = k.down, d.pubs = k.pubs
    PROVE  /\ Orderly(d)
           /\ \A c : Promised(k, c) => Promised(d, c)
           /\ \A c : f = <<"publish", c>> => Promised(d, c)
<1> DEFINE n == Len(k.up)
<1>1. SelectsPublished(k) /\ k.up \in Seq(UpFrames)
  BY DEF Orderly, SocketStates
<1>2. /\ n \in Nat /\ Len(Append(k.up, f)) = n + 1
      /\ Append(k.up, f)[n + 1] = f
      /\ \A h \in 1 .. n : Append(k.up, f)[h] = k.up[h]
  BY <1>1
<1> HIDE DEF n
<1>6. /\ Len(d.up) = n + 1 /\ d.up[n + 1] = f
      /\ \A h \in 1 .. n : d.up[h] = k.up[h]
  BY <1>2
<1>7. ASSUME NEW h \in 1 .. n + 1, d.up[h][1] = "select"
      PROVE  \/ d.up[h][2] \in d.pubs
             \/ \E g \in 1 .. h - 1 : d.up[g] = <<"publish", d.up[h][2]>>
  <2>1. CASE h = n + 1
    <3>1. Promised(k, f[2])
      BY <1>6, <1>7, <2>1
    <3>2. ASSUME NEW g \in 1 .. n, k.up[g] = <<"publish", f[2]>>
          PROVE  g \in 1 .. h - 1 /\ d.up[g] = <<"publish", f[2]>>
      BY <1>2, <1>6, <2>1, <3>2
    <3> QED BY <1>6, <2>1, <3>1, <3>2 DEF Promised, n
  <2>2. CASE h # n + 1
    <3>1. h \in 1 .. n /\ d.up[h] = k.up[h]
      BY <2>2, <1>2, <1>6
    <3>2. \/ k.up[h][2] \in k.pubs
          \/ \E g \in 1 .. h - 1 : k.up[g] = <<"publish", k.up[h][2]>>
      BY <3>1, <1>1, <1>7 DEF SelectsPublished, n
    <3>3. \A g \in 1 .. h - 1 : d.up[g] = k.up[g]
      BY <3>1, <1>2, <1>6
    <3> QED BY <3>1, <3>2, <3>3
  <2> QED BY <2>1, <2>2
<1>8. Orderly(d)
  <2>1. SelectsPublished(d)
    BY <1>6, <1>7 DEF SelectsPublished
  <2> QED BY <2>1 DEF Orderly
<1>9. \A c : Promised(k, c) => Promised(d, c)
  <2> SUFFICES ASSUME NEW c, Promised(k, c) PROVE Promised(d, c)
    OBVIOUS
  <2>1. \A h \in 1 .. n : h \in 1 .. Len(d.up) /\ d.up[h] = k.up[h]
    BY <1>2, <1>6
  <2> QED BY <2>1 DEF Promised, n
<1>10. \A c : f = <<"publish", c>> => Promised(d, c)
  <2>1. n + 1 \in 1 .. Len(d.up)
    BY <1>2, <1>6
  <2> QED BY <1>6, <2>1 DEF Promised
<1> QED BY <1>8, <1>9, <1>10

LEMMA TwoAppended ==
    ASSUME NEW T, NEW q \in Seq(T), NEW x \in T, NEW y \in T
    PROVE  q \o (<<x>> \o <<y>>) = Append(Append(q, x), y)
OBVIOUS

LEMMA BothSent ==
    ASSUME NEW k, Orderly(k), k.net = "up", k.ready = "open",
           NEW c, NEW p \in UpFrames, p = <<"publish", c>>, p[1] # "select",
           NEW g \in UpFrames, g[2] = c,
           NEW d \in SocketStates, d.ready = "open", d.net = "up",
           d.up = Append(Append(k.up, p), g),
           d.subscribed = k.subscribed, d.down = k.down, d.pubs = k.pubs
    PROVE  Orderly(d) /\ Promised(d, c) /\ \A x : Promised(k, x) => Promised(d, x)
<1> DEFINE m == [k EXCEPT !.up = Append(k.up, p)]
<1>1. k \in SocketStates /\ k.up \in Seq(UpFrames)
  BY DEF Orderly, SocketStates
<1>2. Append(k.up, p) \in Seq(UpFrames)
  BY <1>1
<1>3. m \in SocketStates
  BY <1>1, <1>2 DEF SocketStates
<1>4. /\ m.ready = "open" /\ m.net = "up" /\ m.up = Append(k.up, p)
      /\ m.subscribed = k.subscribed /\ m.down = k.down /\ m.pubs = k.pubs
  BY <1>1 DEF SocketStates
<1> HIDE DEF m
<1>5. Orderly(m) /\ Promised(m, c) /\ \A x : Promised(k, x) => Promised(m, x)
  <2>1. /\ Orderly(m) /\ \A x : Promised(k, x) => Promised(m, x)
        /\ \A x : p = <<"publish", x>> => Promised(m, x)
    BY <1>3, <1>4, FrameSent, ZenonT(30)
  <2> QED BY <2>1
<1>6. d.up = Append(m.up, g) /\ d.subscribed = m.subscribed /\ d.down = m.down
      /\ d.pubs = m.pubs
  BY <1>4
<1>7. Orderly(d) /\ \A x : Promised(m, x) => Promised(d, x)
  BY <1>4, <1>5, <1>6, FrameSent
<1> QED BY <1>5, <1>7

LEMMA Selecting ==
    ASSUME BridgeInv, NEW u \in Endpoints, NEW c \in Choosers, NEW o \in Options,
           Select(u, c, o), robot' = robot
    PROVE  BridgeInv'
<1>1. CASE ~ Usable(u)
  BY <1>1, EnsuresConnection DEF Select
<1>2. CASE Usable(u) /\ (~ Listed(c) \/ o \notin entry.values[<<c, "options">>])
  BY <1>2, SameBridge DEF Select
<1>3. CASE Usable(u) /\ ~ (~ Listed(c) \/ o \notin entry.values[<<c, "options">>])
  <2> DEFINE s == entry.sock
             k == sock[s]
             new == c \notin Range(entry.published)
             list == IF new THEN Append(entry.published, c) ELSE entry.published
             p == <<"publish", c>>
             g == <<"select", c, o>>
             F == (IF new THEN <<p>> ELSE <<>>) \o <<g>>
             d == [k EXCEPT !.up = @ \o F]
  <2>1. /\ entry' = [entry EXCEPT !.published = list]
        /\ sock' = SentOn(F)
    BY <1>3 DEF Select
  <2>2. /\ entry \in Entries /\ s \in Sockets /\ k \in SocketStates /\ Orderly(k)
        /\ k.ready = "open" /\ Republished(entry, k) /\ InStep(entry, k, robot)
        /\ sock \in [Sockets -> SocketStates]
    BY <1>3 DEF BridgeInv, ConnectionInv, CurrentInv, Usable, Entries
  <2>3. entry.published \in Seq(Choosers)
    BY <2>2 DEF Entries
  <2>4. list \in Seq(Choosers)
    BY <2>3
  <2>5. Range(list) \subseteq Range(entry.published) \cup {c}
    <3>1. CASE new
      <4>1. /\ Len(list) = Len(entry.published) + 1 /\ list[Len(list)] = c
            /\ \A h \in 1 .. Len(entry.published) : list[h] = entry.published[h]
            /\ DOMAIN list = 1 .. Len(list)
            /\ DOMAIN entry.published = 1 .. Len(entry.published)
            /\ Len(entry.published) \in Nat
        BY <2>3, <3>1
      <4> HIDE DEF list
      <4>2. ASSUME NEW h \in DOMAIN list
            PROVE  \/ list[h] = c
                   \/ h \in DOMAIN entry.published /\ list[h] = entry.published[h]
        <5>1. h \in 1 .. Len(list)
          BY <4>1
        <5>2. h = Len(list) \/ h \in 1 .. Len(entry.published)
          BY <5>1, <4>1
        <5>3. CASE h = Len(list)
          BY <5>3, <4>1
        <5>4. CASE h \in 1 .. Len(entry.published)
          BY <5>4, <4>1
        <5> QED BY <5>2, <5>3, <5>4
      <4> QED BY <4>2 DEF Range
    <3>2. CASE ~ new
      BY <3>2
    <3> QED BY <3>1, <3>2
  <2> HIDE DEF list, new
  <2>6. /\ entry' \in Entries /\ entry'.sock = s /\ entry'.conn = entry.conn
        /\ entry'.published = list /\ TablesOf(entry') = TablesOf(entry)
    BY <2>1, <2>2, <2>4 DEF Entries, TablesOf
  <2>7. CASE k.net = "up"
    <3>1. ~ new => Promised(k, c)
      BY <2>2, <2>7 DEF Republished, new
    <3>2. new \in BOOLEAN
      BY DEF new
    <3>3. sock' = [sock EXCEPT ![s] = d]
      BY <2>1, <2>2, <2>7 DEF SentOn
    <3>4. F = (IF new THEN <<p>> ELSE <<>>) \o <<g>>
      OBVIOUS
    <3> HIDE DEF k, F
    <3>5. p \in UpFrames /\ g \in UpFrames
      BY DEF UpFrames
    <3>6. p = <<"publish", c>> /\ p[1] # "select" /\ g[2] = c
      OBVIOUS
    <3> HIDE DEF p, g
    <3>7. (new => F = <<p>> \o <<g>>) /\ (~ new => F = <<>> \o <<g>>)
      BY <3>4
    <3>8. F \in Seq(UpFrames) /\ k.up \in Seq(UpFrames)
      <4>1. <<p>> \o <<g>> \in Seq(UpFrames)
        BY <3>5
      <4>2. <<>> \o <<g>> \in Seq(UpFrames)
        BY <3>5
      <4>3. k.up \in Seq(UpFrames)
        BY <2>2 DEF SocketStates
      <4> QED BY <3>2, <3>7, <4>1, <4>2, <4>3
    <3>9. k.up \o F \in Seq(UpFrames)
      BY <3>8
    <3>10. d \in SocketStates
      BY <2>2, <3>9 DEF SocketStates
    <3>11. /\ d.ready = "open" /\ d.net = "up" /\ d.up = k.up \o F
           /\ d.subscribed = k.subscribed /\ d.down = k.down /\ d.pubs = k.pubs
      BY <2>2, <2>7 DEF SocketStates
    <3> HIDE DEF d
    <3>12. Orderly(d) /\ Promised(d, c) /\ \A x : Promised(k, x) => Promised(d, x)
      <4>1. CASE new
        <5>1. d.up = Append(Append(k.up, p), g)
          <6>1. k.up \o (<<p>> \o <<g>>) = Append(Append(k.up, p), g)
            BY <3>5, <3>8, TwoAppended
          <6> QED BY <3>7, <3>11, <4>1, <6>1
        <5>2. d.subscribed = k.subscribed /\ d.down = k.down /\ d.pubs = k.pubs
              /\ d.ready = "open" /\ d.net = "up"
          BY <3>11
        <5>3. Orderly(k) /\ k.net = "up" /\ k.ready = "open"
          BY <2>2, <2>7
        <5> QED BY <3>5, <3>6, <3>10, <5>1, <5>2, <5>3, BothSent
      <4>2. CASE ~ new
        <5>1. d.up = Append(k.up, g)
          <6>1. k.up \o (<<>> \o <<g>>) = Append(k.up, g)
            <7>1. <<>> \o <<g>> = <<g>>
              BY <3>5
            <7>2. k.up \o <<g>> = Append(k.up, g)
              BY <3>5, <3>8
            <7> QED BY <7>1, <7>2
          <6> QED BY <3>7, <3>11, <4>2, <6>1
        <5>2. Orderly(d) /\ \A x : Promised(k, x) => Promised(d, x)
          BY <2>2, <2>7, <3>1, <3>5, <3>6, <3>10, <3>11, <4>2, <5>1, FrameSent
        <5> QED BY <3>1, <4>2, <5>2
      <4> QED BY <4>1, <4>2
    <3> HIDE DEF s
    <3>13. ConnectionInv' /\ sock'[s] = d
      BY <2>2, <2>6, <3>3, <3>10, <3>12, OneChanges DEF BridgeInv
    <3>14. InStep(entry', d, robot')
      BY <2>2, <2>6, <2>7, <3>11 DEF InStep
    <3>15. Republished(entry', d)
      BY <2>2, <2>5, <2>6, <2>7, <3>12 DEF Republished
    <3>16. CurrentInv'
      BY <2>2, <2>6, <3>11, <3>13, <3>14, <3>15, NullIsNoSocket DEF CurrentInv
    <3> QED BY <3>13, <3>16 DEF BridgeInv, RobotInv
  <2>8. CASE k.net # "up"
    <3>1. sock' = sock
      BY <2>1, <2>2, <2>8 DEF SentOn, SocketStates
    <3>2. ConnectionInv'
      BY <2>6, <3>1 DEF BridgeInv, ConnectionInv
    <3>3. CurrentInv'
      <4> HIDE DEF s
      <4>1. sock'[entry'.sock] = k /\ entry'.sock # Null
        BY <2>2, <2>6, <3>1, NullIsNoSocket DEF s
      <4> HIDE DEF k
      <4> QED BY <2>2, <2>8, <4>1 DEF CurrentInv, InStep, Republished
    <3> QED BY <3>2, <3>3 DEF BridgeInv, RobotInv
  <2> QED BY <2>7, <2>8
<1> QED BY <1>1, <1>2, <1>3

-----------------------------------------------------------------------------
(* Every step, whether of a socket, the robot, the run or a route.         *)
LEMMA RoutesTyped == ASSUME ChooserInv, ChooserNext PROVE RoutesTypeOK'
<1> USE DEF ChooserInv, RoutesTypeOK
<1>1. ASSUME NEW s \in Sockets, SocketEvent(s) \/ NetworkEvent(s) \/ ConnectionFails(s)
      PROVE  RoutesTypeOK'
  BY <1>1, Nt4Assumption DEF SocketEvent, OnOpen, OnMessage, OnClose, NetworkEvent,
        RobotAccepts, RobotReceives, ConnectionEnds, ConnectionFails, Down, Counts
<1>2. ASSUME NEW c \in Choosers, PutsUp(c) \/ TakesDown(c) PROVE RoutesTypeOK'
  BY <1>2, Nt4Assumption DEF PutsUp, TakesDown, Counts
<1>3. CASE RobotStarts \/ RobotExits \/ RunReady \/ RunEnds \/ Poll
  BY <1>3 DEF RobotStarts, RobotExits, RunReady, RunEnds, Poll
<1>4. CASE ContainerMoves \/ Commanded
  BY <1>4, Nt4Assumption DEF ContainerMoves, Commanded, Counts
<1>5. ASSUME NEW c \in Choosers, NEW o \in Options, PickArrives(c, o) \/ PickApplies(c, o)
      PROVE  RoutesTypeOK'
  BY <1>5, Nt4Assumption DEF PickArrives, PickApplies, Counts
<1> QED BY <1>1, <1>2, <1>3, <1>4, <1>5 DEF ChooserNext

LEMMA BridgeKept == ASSUME ChooserInv, ChooserNext PROVE BridgeInv'
<1>1. BridgeInv /\ url \in Endpoints
  BY DEF ChooserInv, RoutesTypeOK
<1>2. ASSUME NEW s \in Sockets, SocketEvent(s) PROVE BridgeInv'
  BY <1>1, <1>2, OpenEvent, MessageEvent, CloseEvent DEF SocketEvent
<1>3. ASSUME NEW s \in Sockets, NetworkEvent(s) PROVE BridgeInv'
  BY <1>1, <1>3, Accepting, Receiving, GoingDown DEF NetworkEvent, ConnectionEnds
<1>4. ASSUME NEW s \in Sockets, ConnectionFails(s) PROVE BridgeInv'
  BY <1>1, <1>4, GoingDown DEF ConnectionFails
<1>5. ASSUME NEW c \in Choosers, PutsUp(c) \/ TakesDown(c) PROVE BridgeInv'
  BY <1>1, <1>5, PuttingUp, TakingDown
<1>6. CASE RobotStarts
  BY <1>1, <1>6, Starting
<1>7. CASE RobotExits \/ ContainerMoves
  BY <1>1, <1>7, Exiting DEF RobotExits, ContainerMoves
<1>8. CASE RunReady \/ RunEnds
  BY <1>1, <1>8, SameBridge DEF RunReady, RunEnds
<1>9. CASE Commanded
  BY <1>1, <1>9, Disconnects DEF Commanded
<1>10. CASE Poll
  BY <1>1, <1>10, EnsuresConnection, Disconnects DEF Poll
<1>11. ASSUME NEW c \in Choosers, NEW o \in Options, PickArrives(c, o) PROVE BridgeInv'
  BY <1>1, <1>11, SameBridge DEF PickArrives
<1>12. ASSUME NEW c \in Choosers, NEW o \in Options, PickApplies(c, o) PROVE BridgeInv'
  BY <1>1, <1>12, Selecting DEF PickApplies
<1> QED BY <1>2, <1>3, <1>4, <1>5, <1>6, <1>7, <1>8, <1>9, <1>10, <1>11, <1>12
        DEF ChooserNext

LEMMA ChooserInvInit == ChooserInit => ChooserInv
<1> SUFFICES ASSUME ChooserInit PROVE ChooserInv
  OBVIOUS
<1>1. url \in Endpoints
  BY Nt4Assumption DEF ChooserInit
<1>2. NewEntry(url) \in Entries
  BY <1>1, NewEntryTyped
<1>3. entry \in Entries /\ entry.sock = Null /\ entry.conn = "disconnected"
  <2>1. NewEntry(url).sock = Null /\ NewEntry(url).conn = "disconnected"
    BY DEF NewEntry
  <2>2. entry = [NewEntry(url) EXCEPT !.there = FALSE]
    BY DEF ChooserInit
  <2> QED BY <1>2, <2>1, <2>2 DEF Entries
<1>4. sock \in [Sockets -> SocketStates] /\ \A s \in Sockets : Orderly(sock[s])
  BY UnusedIsOrderly DEF ChooserInit
<1>5. RobotInv
  BY NoRobotInv DEF ChooserInit, RobotInv
<1>6. RoutesTypeOK
  BY <1>1, Nt4Assumption DEF ChooserInit, RoutesTypeOK
<1> QED BY <1>3, <1>4, <1>5, <1>6
        DEF ChooserInv, BridgeInv, ConnectionInv, CurrentInv

(* In every reachable state each connection is orderly, what is under way  *)
(* on the current one leads the bridge's tables to what the robot has, and *)
(* what the bridge has published is published on it.                       *)
THEOREM ChoosersInvariance == ChooserSpec => []ChooserInv
<1>1. ChooserInv /\ [ChooserNext]_chooserVars => ChooserInv'
  <2>1. ASSUME ChooserInv, ChooserNext PROVE ChooserInv'
    BY <2>1, RoutesTyped, BridgeKept DEF ChooserInv
  <2>2. ASSUME ChooserInv, UNCHANGED chooserVars PROVE ChooserInv'
    BY <2>2, SameBridge DEF ChooserInv, RoutesTypeOK, chooserVars
  <2> QED BY <2>1, <2>2
<1> QED BY <1>1, ChooserInvInit, PTL DEF ChooserSpec

(* The tables, the sockets and what is under way always have their types.  *)
THEOREM ChoosersTyped == ChooserSpec => []ChooserTypeOK
<1>1. ChooserInv => ChooserTypeOK
  BY DEF ChooserInv, BridgeInv, ConnectionInv, RobotInv, RoutesTypeOK, ChooserTypeOK
<1> QED BY <1>1, ChoosersInvariance, PTL

(* No selection is ever sent on a connection before its topic is published *)
(* there (ws-bridge.ts publishes again on every open), whatever becomes of *)
(* the connection, the run and the container: the server would drop it.    *)
THEOREM SelectionsAreHeard == ChooserSpec => []PublishedFirst
<1>1. ChooserInv => PublishedFirst
  BY DEF ChooserInv, BridgeInv, ConnectionInv, Orderly, SelectsPublished, PublishedFirst
<1> QED BY <1>1, ChoosersInvariance, PTL

(* When nothing is under way the bridge knows the robot's present choosers *)
(* and selections: neither an id used again nor a topic that an earlier    *)
(* connection or program left in the tables misleads it.                   *)
THEOREM QuietMeansRight == ChooserSpec => []QuietAgrees
<1>1. ASSUME ChooserInv, Quiet PROVE Agrees
  <2> DEFINE s == entry.sock
             tab == TablesOf(entry)
  <2>1. s # Null /\ InStep(entry, sock[s], robot) /\ robot \in Robots
    BY <1>1 DEF ChooserInv, BridgeInv, CurrentInv, RobotInv, Quiet
  <2>2. Reaches(tab, <<>>, robot)
    BY <1>1, <2>1 DEF Quiet, InStep
  <2>3. Faithful(tab, robot)
    <3> HIDE DEF tab
    <3> QED BY <2>2, ReachedNow
  <2>4. ASSUME NEW t \in Topics \cap Range(robot.topics)
        PROVE  entry.values[t] = ValueIn(robot, t)
    <3>1. PICK i \in Ids : robot.topics[i] = t
      BY <2>1 DEF Robots, Range
    <3> QED BY <2>3, <3>1 DEF Faithful, HasValues, TablesOf
  <2> QED BY <2>4 DEF Agrees
<1>2. ChooserInv => QuietAgrees
  BY <1>1 DEF QuietAgrees
<1> QED BY <1>2, ChoosersInvariance, PTL
=============================================================================
