----------------------------- MODULE Page_proofs -----------------------------
(***************************************************************************)
(* Proofs about WorkspacePage, for any number of swaps, faults and inputs. *)
(***************************************************************************)
EXTENDS WorkspacePage, FiniteSetTheorems, TLAPS

-----------------------------------------------------------------------------
(* The sockets and the messages under way                                  *)

HasDone(s) == \E i \in DOMAIN socks[s].q : socks[s].q[i].type = "done"
Active(s)  == jobs[s].st \notin {"none", "ended"}
Live(s)    == Active(s) \/ HasDone(s)

\* Only the current socket connects or is open.
SocketInv ==
    /\ swap.st = "idle" => swap.sock = 0
    /\ \A s \in Swaps :
        /\ socks[s].st \in {"connecting", "open"} => swap.sock = s
        /\ socks[s].st # "open" => socks[s].q = <<>>
        /\ socks[s].st \in {"new", "connecting"} => jobs[s].st = "none"

\* A success is told once, after it was recorded.
MessageInv ==
    \A s \in Swaps : \A i \in DOMAIN socks[s].q :
        socks[s].q[i].type = "done" =>
            /\ jobs[s].st = "ended"
            /\ socks[s].q[i].era <= record.era
            /\ \A j \in DOMAIN socks[s].q : socks[s].q[j].type = "done" => j = i

\* Swaps that may still succeed, and those whose success may still be told.
Pending == {s \in Swaps : jobs[s].st # "ended"}
Owing   == {s \in Swaps : jobs[s].st # "ended" \/ HasDone(s)}

EraInv ==
    /\ acked <= record.era
    /\ record.era + Cardinality(Pending) <= MaxSwaps
    /\ nonce + Cardinality(Owing) <= MaxSwaps

\* While the dialog has not spoken of a failure, a success that may still come
\* comes over the open socket of a swap the dialog shows as under way.
LastWordInv ==
    ~ warned => \A s \in Swaps : Live(s) => socks[s].st = "open" /\ Busy

\* The newest session request leads to the project that is loaded.
Fresh ==
    \/ fetches[nonce].st = "asked"
    \/ fetches[nonce].st \in {"authed", "answered"} /\ fetches[nonce].rec.era = record.era
    \/ fetches[nonce].st = "over" /\ (session.st = "error" \/ session.rec.era = record.era)
FreshInv == warned \/ Fresh \/ (Busy /\ \E s \in Swaps : socks[s].st = "open")

SwapInv ==
    /\ SwapTypeOK
    /\ SocketInv /\ MessageInv /\ EraInv
    /\ LastWordInv /\ FreshInv

\* What the preview asks for and shows was read after the last swap told.
ListInv ==
    /\ PreviewTypeOK
    /\ ~ active => list = Over
    /\ list.st \in {"read", "parsed"} => list.era >= acked
    /\ PreviewIsCurrent

ControlsInv == ControlsTypeOK(Eras) /\ HeldOnlyWhenCaptured

IInv ==
    /\ SwapInv /\ ListInv /\ ControlsInv
    /\ inputs \in 0 .. MaxInputs
-----------------------------------------------------------------------------
(* What the types are made of, and the counts                              *)

Socks     == [st : {"new", "connecting", "open", "closing", "closed"},
              q : Seq(Messages)]
Jobs      == [st : {"none", "asked", "working", "replaced", "ended"}, kind : Kinds]
SwapState == [st : {"idle", "connecting", "running", "done", "error"},
              ok : BOOLEAN, sock : 0 .. MaxSwaps]
Requested == [st : {"none", "asked", "authed", "answered", "over"}, rec : Records]

USE SwapAssumption

LEMMA Bounds ==
    /\ 0 \in Eras /\ Eras \subseteq Nat
    /\ 0 \notin Swaps /\ Swaps \subseteq 0 .. MaxSwaps /\ Swaps \subseteq Nat
    /\ IsFiniteSet(Swaps) /\ Cardinality(Swaps) = MaxSwaps
<1>1. 0 \in Eras /\ Eras \subseteq Nat /\ 0 \notin Swaps
      /\ Swaps \subseteq 0 .. MaxSwaps /\ Swaps \subseteq Nat
  BY DEF Eras, Swaps
<1>2. 1 \in Int /\ MaxSwaps \in Int
  OBVIOUS
<1>3. IsFiniteSet(1 .. MaxSwaps)
      /\ Cardinality(1 .. MaxSwaps) = IF 1 > MaxSwaps THEN 0 ELSE MaxSwaps - 1 + 1
  BY <1>2, FS_Interval
<1> QED
  BY <1>1, <1>3 DEF Swaps

LEMMA Counted ==
    ASSUME NEW T \in SUBSET Swaps, NEW S \in SUBSET T
    PROVE  /\ Cardinality(S) \in Nat /\ Cardinality(T) \in Nat
           /\ Cardinality(S) <= Cardinality(T)
           /\ S # T => Cardinality(S) + 1 <= Cardinality(T)
<1>1. IsFiniteSet(T)
  BY Bounds, FS_Subset
<1>2. IsFiniteSet(S) /\ Cardinality(S) <= Cardinality(T)
      /\ (Cardinality(S) = Cardinality(T) => T = S)
  BY <1>1, FS_Subset
<1>3. Cardinality(S) \in Nat /\ Cardinality(T) \in Nat
  BY <1>1, <1>2, FS_CardinalityType
<1> QED
  BY <1>2, <1>3

LEMMA TailOf ==
    ASSUME NEW q \in Seq(Messages), q # <<>>
    PROVE  /\ Tail(q) \in Seq(Messages)
           /\ 1 \in DOMAIN q /\ Head(q) = q[1] /\ Head(q) \in Messages
           /\ \A i \in DOMAIN Tail(q) : i + 1 \in DOMAIN q /\ Tail(q)[i] = q[i + 1]
           /\ \A i \in DOMAIN Tail(q) : i + 1 # 1
OBVIOUS

LEMMA Closes ==
    ASSUME NEW ss \in [Swaps -> Socks], NEW x \in 0 .. MaxSwaps
    PROVE  /\ Closing(ss, x) \in [Swaps -> Socks]
           /\ \A t \in Swaps :
               Closing(ss, x)[t] = IF t = x /\ ss[t].st # "closed"
                                   THEN [st |-> "closing", q |-> <<>>] ELSE ss[t]
<1>1. [st |-> "closing", q |-> <<>>] \in Socks
  BY DEF Socks
<1>2. x = 0 \/ x \in Swaps
  BY DEF Swaps
<1> QED
  BY <1>1, <1>2, Bounds DEF Closing

LEMMA Appended ==
    ASSUME NEW q \in Seq(Messages), NEW m \in Seq(Messages)
    PROVE  /\ q \o m \in Seq(Messages)
           /\ \A i \in DOMAIN (q \o m) :
                 \/ i \in DOMAIN q /\ (q \o m)[i] = q[i]
                 \/ \E j \in 1 .. Len(m) : i = Len(q) + j /\ (q \o m)[i] = m[j]
<1>1. q \o m \in Seq(Messages) /\ DOMAIN (q \o m) = 1 .. Len(q) + Len(m)
      /\ DOMAIN q = 1 .. Len(q) /\ Len(q) \in Nat /\ Len(m) \in Nat
  OBVIOUS
<1> SUFFICES ASSUME NEW i \in 1 .. Len(q) + Len(m)
             PROVE  \/ i \in DOMAIN q /\ (q \o m)[i] = q[i]
                    \/ \E j \in 1 .. Len(m) : i = Len(q) + j /\ (q \o m)[i] = m[j]
  BY <1>1
<1>2. CASE i <= Len(q)
  BY <1>1, <1>2
<1>3. CASE ~ (i <= Len(q))
  <2>1. i - Len(q) \in 1 .. Len(m) /\ i = Len(q) + (i - Len(q))
    BY <1>1, <1>3
  <2>2. (q \o m)[i] = m[i - Len(q)]
    BY <1>1, <1>3
  <2>. QED
    BY <2>1, <2>2
<1> QED
  BY <1>2, <1>3

LEMMA SendsOne ==
    ASSUME socks \in [Swaps -> Socks], NEW s \in Swaps, NEW r \in Records,
           Sends(s, <<"hello">>, r)
    PROVE  /\ socks' \in [Swaps -> Socks]
           /\ \A t \in Swaps : socks'[t].st = socks[t].st
           /\ \A t \in Swaps : socks[t].st # "open" => socks'[t] = socks[t]
           /\ \A t \in Swaps : t # s => socks'[t] = socks[t]
           /\ \A i \in DOMAIN socks'[s].q :
                 \/ i \in DOMAIN socks[s].q /\ socks'[s].q[i] = socks[s].q[i]
                 \/ socks'[s].q[i].type = "hello"
<1> DEFINE m == [i \in DOMAIN <<"hello">> |-> Message(<<"hello">>[i], r)]
           q == socks[s].q \o m
<1>1. m \in Seq(Messages) /\ Len(m) = 1 /\ m[1].type = "hello"
  <2>1. Message("hello", r) \in Messages /\ Message("hello", r).type = "hello"
    BY DEF Message, Messages, Records
  <2>2. m = <<Message("hello", r)>>
    OBVIOUS
  <2>. QED
    BY <2>1, <2>2
<1> HIDE DEF m
<1>2. socks[s] \in Socks /\ socks[s].q \in Seq(Messages)
  BY DEF Socks
<1>3. q \in Seq(Messages)
      /\ \A i \in DOMAIN q : \/ i \in DOMAIN socks[s].q /\ q[i] = socks[s].q[i]
                             \/ q[i].type = "hello"
  <2>1. \A j \in 1 .. Len(m) : j = 1
    BY <1>1
  <2>. QED
    BY <1>1, <1>2, <2>1, Appended
<1>4. \/ socks' = socks
      \/ socks' = [socks EXCEPT ![s].q = q] /\ socks[s].st = "open"
  BY DEF Sends, m
<1> HIDE DEF q
<1>5. CASE socks' = socks
  BY <1>5
<1>6. CASE socks' = [socks EXCEPT ![s].q = q] /\ socks[s].st = "open"
  <2>1. socks' = [socks EXCEPT ![s] = [socks[s] EXCEPT !.q = q]]
    BY <1>6
  <2>2. [socks[s] EXCEPT !.q = q] \in Socks
    BY <1>2, <1>3 DEF Socks
  <2>. QED
    BY <1>2, <1>3, <1>6, <2>1, <2>2 DEF Socks
<1> QED
  BY <1>4, <1>5, <1>6

LEMMA SendsTwo ==
    ASSUME socks \in [Swaps -> Socks], NEW s \in Swaps, NEW r \in Records,
           NEW type \in {"error", "failed", "done"}, Sends(s, <<type, "close">>, r)
    PROVE  /\ socks' \in [Swaps -> Socks]
           /\ \A t \in Swaps : socks'[t].st = socks[t].st
           /\ \A t \in Swaps : socks[t].st # "open" => socks'[t] = socks[t]
           /\ \A t \in Swaps : t # s => socks'[t] = socks[t]
           /\ \A i \in DOMAIN socks'[s].q :
                 \/ i \in DOMAIN socks[s].q /\ socks'[s].q[i] = socks[s].q[i]
                 \/ socks'[s].q[i].type = "close"
                 \/ /\ i = Len(socks[s].q) + 1
                    /\ socks'[s].q[i].type = type /\ socks'[s].q[i].era = r.era
<1> DEFINE m == [i \in DOMAIN <<type, "close">> |-> Message(<<type, "close">>[i], r)]
           q == socks[s].q \o m
<1>1. m \in Seq(Messages) /\ Len(m) = 2 /\ m[1].type = type /\ m[1].era = r.era
      /\ m[2].type = "close"
  <2>1. /\ Message(type, r) \in Messages /\ Message("close", r) \in Messages
        /\ Message(type, r).type = type /\ Message(type, r).era = r.era
        /\ Message("close", r).type = "close"
    BY DEF Message, Messages, Records
  <2>2. m = <<Message(type, r), Message("close", r)>>
    OBVIOUS
  <2>. QED
    BY <2>1, <2>2
<1> HIDE DEF m
<1>2. socks[s] \in Socks /\ socks[s].q \in Seq(Messages)
  BY DEF Socks
<1>3. q \in Seq(Messages)
      /\ \A i \in DOMAIN q : \/ i \in DOMAIN socks[s].q /\ q[i] = socks[s].q[i]
                             \/ q[i].type = "close"
                             \/ /\ i = Len(socks[s].q) + 1
                                /\ q[i].type = type /\ q[i].era = r.era
  <2>1. \A j \in 1 .. Len(m) : j = 1 \/ j = 2
    BY <1>1
  <2>. QED
    BY <1>1, <1>2, <2>1, Appended
<1>4. \/ socks' = socks
      \/ socks' = [socks EXCEPT ![s].q = q] /\ socks[s].st = "open"
  BY DEF Sends, m
<1> HIDE DEF q
<1>5. CASE socks' = socks
  BY <1>5
<1>6. CASE socks' = [socks EXCEPT ![s].q = q] /\ socks[s].st = "open"
  <2>1. socks' = [socks EXCEPT ![s] = [socks[s] EXCEPT !.q = q]]
    BY <1>6
  <2>2. [socks[s] EXCEPT !.q = q] \in Socks
    BY <1>2, <1>3 DEF Socks
  <2>. QED
    BY <1>2, <1>3, <1>6, <2>1, <2>2 DEF Socks
<1> QED
  BY <1>4, <1>5, <1>6

-----------------------------------------------------------------------------
(* Steps of the swap that record nothing and tell of no success            *)

\* What is under way was under way before, at the same place or one further.
NoNews ==
    \A t \in Swaps : \E d \in {0, 1} : \A i \in DOMAIN socks'[t].q :
        socks'[t].q[i].type = "done" =>
            i + d \in DOMAIN socks[t].q /\ socks'[t].q[i] = socks[t].q[i + d]

Dialogs == [open : BOOLEAN, pending : {"none"} \cup Kinds, auto : BOOLEAN]

LEMMA CalmStep ==
    ASSUME SwapTypeOK, SwapTypeOK', MessageInv, EraInv, NoNews,
           \A t \in Swaps : jobs[t].st = "ended" => jobs'[t].st = "ended",
           record'.era = record.era
    PROVE  /\ MessageInv'
           /\ \A t \in Swaps : HasDone(t)' => HasDone(t)
           /\ nonce' = nonce /\ acked' = acked => EraInv'
<1>1. \A t \in Swaps : DOMAIN socks[t].q \subseteq Nat /\ DOMAIN socks'[t].q \subseteq Nat
  BY DEF SwapTypeOK
<1>2. MessageInv'
  <2> SUFFICES ASSUME NEW s \in Swaps, NEW i \in DOMAIN socks'[s].q,
                      socks'[s].q[i].type = "done"
               PROVE  /\ jobs'[s].st = "ended"
                      /\ socks'[s].q[i].era <= record'.era
                      /\ \A j \in DOMAIN socks'[s].q :
                            socks'[s].q[j].type = "done" => j = i
    BY DEF MessageInv
  <2>1. PICK d \in {0, 1} : \A j \in DOMAIN socks'[s].q :
            socks'[s].q[j].type = "done" =>
                j + d \in DOMAIN socks[s].q /\ socks'[s].q[j] = socks[s].q[j + d]
    BY DEF NoNews
  <2>2. i + d \in DOMAIN socks[s].q /\ socks'[s].q[i] = socks[s].q[i + d]
    BY <2>1
  <2>3. /\ jobs[s].st = "ended" /\ socks[s].q[i + d].era <= record.era
        /\ \A j \in DOMAIN socks[s].q : socks[s].q[j].type = "done" => j = i + d
    BY <2>2 DEF MessageInv
  <2>4. \A j \in DOMAIN socks'[s].q : socks'[s].q[j].type = "done" => j + d = i + d
    BY <2>1, <2>3
  <2>. QED
    BY <1>1, <2>2, <2>3, <2>4
<1>3. \A t \in Swaps : HasDone(t)' => HasDone(t)
  BY DEF HasDone, NoNews
<1>4. ASSUME nonce' = nonce, acked' = acked PROVE EraInv'
  <2>1. Pending' \in SUBSET Pending /\ Pending \in SUBSET Swaps
    BY DEF Pending
  <2>2. Owing' \in SUBSET Owing /\ Owing \in SUBSET Swaps
    BY <1>3 DEF Owing
  <2>3. /\ Cardinality(Pending') <= Cardinality(Pending)
        /\ Cardinality(Pending) \in Nat /\ Cardinality(Pending') \in Nat
    BY <2>1, Counted
  <2>4. /\ Cardinality(Owing') <= Cardinality(Owing)
        /\ Cardinality(Owing) \in Nat /\ Cardinality(Owing') \in Nat
    BY <2>2, Counted
  <2>5. record.era \in Nat /\ nonce \in Nat /\ acked \in Nat
    BY Bounds DEF SwapTypeOK, Records
  <2>6. /\ acked <= record.era
        /\ record.era + Cardinality(Pending) <= MaxSwaps
        /\ nonce + Cardinality(Owing) <= MaxSwaps
    BY DEF EraInv
  <2>7. /\ record'.era + Cardinality(Pending') <= MaxSwaps
        /\ nonce' + Cardinality(Owing') <= MaxSwaps
    BY <1>4, <2>3, <2>4, <2>5, <2>6
  <2>. QED
    BY <1>4, <2>6, <2>7 DEF EraInv
<1> QED
  BY <1>2, <1>3, <1>4

LEMMA SameSocks ==
    ASSUME SwapTypeOK, socks' = socks
    PROVE  NoNews
<1>1. \A t \in Swaps : \A i \in DOMAIN socks[t].q : i + 0 = i
  BY DEF SwapTypeOK
<1> QED
  BY <1>1 DEF NoNews

LEMMA Apart ==
    ASSUME SwapInv, SwapTypeOK',
           UNCHANGED <<record, jobs, socks, swap, nonce, acked, session, fetches, warned>>
    PROVE  SwapInv'
<1>1. NoNews
  BY SameSocks DEF SwapInv
<1>2. MessageInv' /\ EraInv'
  BY <1>1, CalmStep DEF SwapInv
<1>3. SocketInv'
  BY DEF SwapInv, SocketInv
<1>4. LastWordInv'
  BY DEF SwapInv, LastWordInv, Live, Active, HasDone, Busy
<1>5. FreshInv'
  BY DEF SwapInv, FreshInv, Fresh, Busy
<1> QED
  BY <1>2, <1>3, <1>4, <1>5 DEF SwapInv

LEMMA Starts ==
    ASSUME SwapInv, NEW k \in Kinds, swap.st = "idle", StartSwap(k), dialog' \in Dialogs,
           UNCHANGED <<record, nonce, acked, session, fetches, warned, faults>>
    PROVE  SwapInv'
<1>1. PICK s \in Swaps :
        /\ socks[s].st = "new"
        /\ socks' = [Closing(socks, swap.sock) EXCEPT ![s].st = "connecting"]
        /\ jobs' = [jobs EXCEPT ![s].kind = k]
        /\ swap' = [st |-> "connecting", ok |-> FALSE, sock |-> s]
  BY DEF StartSwap
<1>2. swap.sock = 0 /\ socks \in [Swaps -> Socks] /\ jobs \in [Swaps -> Jobs]
  BY DEF SwapInv, SocketInv, SwapTypeOK, Socks, Jobs
<1>3. Closing(socks, swap.sock) = socks
  BY <1>2 DEF Closing
<1>4. socks' = [socks EXCEPT ![s] = [socks[s] EXCEPT !.st = "connecting"]]
  BY <1>1, <1>3
<1>5. jobs' = [jobs EXCEPT ![s] = [jobs[s] EXCEPT !.kind = k]]
  BY <1>1
<1>6. [socks[s] EXCEPT !.st = "connecting"] \in Socks /\ [jobs[s] EXCEPT !.kind = k] \in Jobs
  BY <1>2 DEF Socks, Jobs
<1>7. /\ \A t \in Swaps : socks'[t].q = socks[t].q /\ jobs'[t].st = jobs[t].st
      /\ \A t \in Swaps : t # s => socks'[t].st = socks[t].st
      /\ socks'[s].st = "connecting"
      /\ socks' \in [Swaps -> Socks] /\ jobs' \in [Swaps -> Jobs]
  BY <1>2, <1>4, <1>5, <1>6 DEF Socks, Jobs
<1>8. SwapTypeOK'
  <2>1. swap' \in SwapState
    BY <1>1, Bounds DEF SwapState
  <2>. QED
    BY <1>7, <2>1 DEF SwapInv, SwapTypeOK, Socks, Jobs, SwapState, Dialogs
<1>9. NoNews
  <2>1. \A t \in Swaps : \A i \in DOMAIN socks[t].q : i + 0 = i
    BY <1>2 DEF Socks
  <2>. QED
    BY <1>7, <2>1 DEF NoNews
<1>10. MessageInv' /\ EraInv'
  BY <1>7, <1>8, <1>9, CalmStep DEF SwapInv
<1>11. SocketInv'
  <2>1. \A t \in Swaps : socks[t].st \notin {"connecting", "open"}
    BY <1>2, Bounds DEF SwapInv, SocketInv
  <2>2. swap'.st = "connecting" /\ swap'.sock = s
    BY <1>1
  <2>3. \A t \in Swaps : /\ socks[t].st # "open" => socks[t].q = <<>>
                         /\ socks[t].st \in {"new", "connecting"} => jobs[t].st = "none"
    BY DEF SwapInv, SocketInv
  <2>. QED
    BY <1>1, <1>7, <2>1, <2>2, <2>3 DEF SocketInv
<1>12. LastWordInv'
  BY <1>7 DEF SwapInv, LastWordInv, Live, Active, HasDone, Busy
<1>13. FreshInv'
  BY <1>1 DEF SwapInv, FreshInv, Fresh, Busy
<1> QED
  BY <1>8, <1>10, <1>11, <1>12, <1>13 DEF SwapInv

LEMMA Resets ==
    ASSUME SwapInv, ~ Busy, Reset, dialog' \in Dialogs
    PROVE  SwapInv'
<1>1. /\ socks \in [Swaps -> Socks] /\ swap.sock \in 0 .. MaxSwaps
      /\ socks' = Closing(socks, swap.sock) /\ swap' = Idle
      /\ UNCHANGED <<record, jobs, nonce, acked, session, fetches, warned, faults>>
  BY DEF SwapInv, SwapTypeOK, Socks, Reset
<1>2. /\ socks' \in [Swaps -> Socks]
      /\ \A t \in Swaps : socks'[t] = IF t = swap.sock /\ socks[t].st # "closed"
                                      THEN [st |-> "closing", q |-> <<>>] ELSE socks[t]
  BY <1>1, Closes
<1>3. SwapTypeOK'
  BY <1>1, <1>2, Bounds DEF SwapInv, SwapTypeOK, Socks, Dialogs, Idle
<1>4. NoNews
  <2>1. \A t \in Swaps : \A i \in DOMAIN socks[t].q : i + 0 = i
    BY <1>1 DEF Socks
  <2>2. \A t \in Swaps : socks'[t].q = socks[t].q \/ DOMAIN socks'[t].q = {}
    BY <1>2
  <2>. QED
    BY <2>1, <2>2 DEF NoNews
<1>5. MessageInv' /\ EraInv' /\ \A t \in Swaps : HasDone(t)' => HasDone(t)
  BY <1>1, <1>3, <1>4, CalmStep DEF SwapInv
<1>6. SocketInv'
  BY <1>1, <1>2 DEF SwapInv, SocketInv, Idle
<1>7. LastWordInv'
  BY <1>1, <1>5 DEF SwapInv, LastWordInv, Live, Active
<1>8. FreshInv'
  BY <1>1 DEF SwapInv, FreshInv, Fresh, Busy
<1> QED
  BY <1>3, <1>5, <1>6, <1>7, <1>8 DEF SwapInv

LEMMA Ends ==
    ASSUME SwapInv, NEW s \in Swaps, CloseEvent(s), faults' \in 0 .. MaxFaults,
           UNCHANGED <<record, jobs, dialog, nonce, acked, session, fetches>>
    PROVE  SwapInv'
<1>1. /\ socks \in [Swaps -> Socks] /\ swap \in SwapState /\ warned \in BOOLEAN
      /\ socks' = [socks EXCEPT ![s] = [st |-> "closed", q |-> <<>>]]
      /\ swap'.st = IF Busy THEN "error" ELSE swap.st
      /\ swap'.sock = IF swap.sock = s THEN 0 ELSE swap.sock
      /\ warned' = (warned \/ Busy)
  BY DEF SwapInv, SwapTypeOK, Socks, SwapState, CloseEvent
<1>2. swap' \in SwapState
  <2>2. (swap.ok /\ ~ Busy) \in BOOLEAN /\ (IF Busy THEN "error" ELSE swap.st) \in
           {"idle", "connecting", "running", "done", "error"}
        /\ (IF swap.sock = s THEN 0 ELSE swap.sock) \in 0 .. MaxSwaps
    BY <1>1 DEF SwapState
  <2>. QED
    BY <2>2 DEF SwapState, CloseEvent
<1>3. /\ socks' \in [Swaps -> Socks]
      /\ \A t \in Swaps : t # s => socks'[t] = socks[t]
      /\ socks'[s].st = "closed" /\ socks'[s].q = <<>> /\ DOMAIN socks'[s].q = {}
  BY <1>1 DEF Socks
<1>4. SwapTypeOK'
  BY <1>1, <1>2, <1>3 DEF SwapInv, SwapTypeOK, Socks, SwapState
<1>5. NoNews
  <2>1. \A t \in Swaps : \A i \in DOMAIN socks[t].q : i + 0 = i
    BY <1>1 DEF Socks
  <2>2. \A t \in Swaps : socks'[t].q = socks[t].q \/ DOMAIN socks'[t].q = {}
    BY <1>3
  <2>. QED
    BY <2>1, <2>2 DEF NoNews
<1>6. MessageInv' /\ EraInv' /\ \A t \in Swaps : HasDone(t)' => HasDone(t)
  BY <1>4, <1>5, CalmStep DEF SwapInv
<1>7. SocketInv'
  BY <1>1, <1>3, Bounds DEF SwapInv, SocketInv
<1>8. LastWordInv'
  BY <1>1, <1>6 DEF SwapInv, LastWordInv, Live, Active
<1>9. FreshInv'
  BY <1>1 DEF SwapInv, FreshInv, Fresh
<1> QED
  BY <1>4, <1>6, <1>7, <1>8, <1>9 DEF SwapInv

LEMMA Opens ==
    ASSUME SwapInv, NEW s \in Swaps, SocketOpens(s)
    PROVE  SwapInv'
<1>1. /\ socks \in [Swaps -> Socks] /\ jobs \in [Swaps -> Jobs] /\ swap \in SwapState
      /\ socks[s].st = "connecting" /\ swap.sock = s /\ jobs[s].st = "none"
  BY DEF SwapInv, SwapTypeOK, Socks, Jobs, SwapState, SocketInv, SocketOpens
<1>2. /\ socks' = [socks EXCEPT ![s] = [socks[s] EXCEPT !.st = "open"]]
      /\ jobs' = [jobs EXCEPT ![s] = [jobs[s] EXCEPT !.st = "asked"]]
      /\ swap' = [swap EXCEPT !.st = "running"]
      /\ UNCHANGED <<record, dialog, nonce, acked, session, fetches, warned, faults>>
  BY DEF SocketOpens
<1>3. /\ [socks[s] EXCEPT !.st = "open"] \in Socks
      /\ [jobs[s] EXCEPT !.st = "asked"] \in Jobs
      /\ swap' \in SwapState /\ swap'.st = "running" /\ swap'.sock = s
  <2>1. [socks[s] EXCEPT !.st = "open"] \in Socks
    BY <1>1 DEF Socks
  <2>2. [jobs[s] EXCEPT !.st = "asked"] \in Jobs
    BY <1>1 DEF Jobs
  <2>3. swap' \in SwapState /\ swap'.st = "running" /\ swap'.sock = s
    BY <1>1, <1>2 DEF SwapState
  <2>. QED
    BY <2>1, <2>2, <2>3
<1>4. /\ socks' \in [Swaps -> Socks] /\ jobs' \in [Swaps -> Jobs]
      /\ \A t \in Swaps : socks'[t].q = socks[t].q
      /\ \A t \in Swaps : t # s => socks'[t] = socks[t] /\ jobs'[t] = jobs[t]
      /\ socks'[s].st = "open" /\ jobs'[s].st = "asked"
  BY <1>1, <1>2, <1>3 DEF Socks, Jobs
<1>5. SwapTypeOK'
  BY <1>2, <1>3, <1>4 DEF SwapInv, SwapTypeOK, Socks, Jobs, SwapState
<1>6. NoNews
  <2>1. \A t \in Swaps : \A i \in DOMAIN socks[t].q : i + 0 = i
    BY <1>1 DEF Socks
  <2>. QED
    BY <1>4, <2>1 DEF NoNews
<1>7. MessageInv' /\ EraInv' /\ \A t \in Swaps : HasDone(t)' => HasDone(t)
  <2>1. \A t \in Swaps : jobs[t].st = "ended" => jobs'[t].st = "ended"
    BY <1>1, <1>4
  <2>. QED
    BY <1>2, <1>5, <1>6, <2>1, CalmStep DEF SwapInv
<1>8. SocketInv'
  BY <1>1, <1>3, <1>4, Bounds DEF SwapInv, SocketInv
<1>9. LastWordInv'
  BY <1>1, <1>2, <1>3, <1>4, <1>7 DEF SwapInv, LastWordInv, Live, Active, Busy
<1>10. FreshInv'
  BY <1>2, <1>3, <1>4 DEF SwapInv, FreshInv, Fresh, Busy
<1> QED
  BY <1>5, <1>7, <1>8, <1>9, <1>10 DEF SwapInv

\* The messages after the first.
LEMMA Takes ==
    ASSUME socks \in [Swaps -> Socks], NEW s \in Swaps, socks[s].q # <<>>, Taken(s)
    PROVE  /\ socks' \in [Swaps -> Socks]
           /\ \A t \in Swaps : socks'[t].st = socks[t].st
           /\ \A t \in Swaps : t # s => socks'[t] = socks[t]
           /\ \A t \in Swaps : socks[t].q = <<>> => socks'[t].q = <<>>
           /\ socks'[s].q = Tail(socks[s].q)
           /\ NoNews
<1>1. socks[s] \in Socks /\ socks[s].q \in Seq(Messages)
  BY DEF Socks
<1>2. socks' = [socks EXCEPT ![s] = [socks[s] EXCEPT !.q = Tail(socks[s].q)]]
  BY DEF Taken
<1>3. Tail(socks[s].q) \in Seq(Messages)
      /\ \A i \in DOMAIN Tail(socks[s].q) :
            i + 1 \in DOMAIN socks[s].q /\ Tail(socks[s].q)[i] = socks[s].q[i + 1]
  BY <1>1, TailOf
<1>4. [socks[s] EXCEPT !.q = Tail(socks[s].q)] \in Socks
  BY <1>1, <1>3 DEF Socks
<1>5. /\ socks' \in [Swaps -> Socks]
      /\ \A t \in Swaps : socks'[t].st = socks[t].st
      /\ \A t \in Swaps : t # s => socks'[t] = socks[t]
      /\ socks'[s].q = Tail(socks[s].q)
  BY <1>1, <1>2, <1>4 DEF Socks
<1>6. NoNews
  <2>1. \A t \in Swaps : \A i \in DOMAIN socks[t].q : i + 0 = i
    BY DEF Socks
  <2>. QED
    BY <1>3, <1>5, <2>1 DEF NoNews
<1> QED
  BY <1>5, <1>6

LEMMA HearsHello ==
    ASSUME SwapInv, NEW s \in Swaps, HearHello(s)
    PROVE  SwapInv'
<1>1. /\ socks \in [Swaps -> Socks] /\ swap \in SwapState
      /\ socks[s].st = "open" /\ socks[s].q # <<>> /\ Taken(s) /\ swap.sock = s
      /\ swap' = [swap EXCEPT !.st = "running"]
      /\ UNCHANGED <<record, jobs, dialog, nonce, acked, session, fetches, warned, faults>>
  BY DEF SwapInv, SwapTypeOK, Socks, SwapState, SocketInv, HearHello, Arrives
<1>2. /\ socks' \in [Swaps -> Socks] /\ NoNews
      /\ \A t \in Swaps : socks'[t].st = socks[t].st
      /\ \A t \in Swaps : socks[t].q = <<>> => socks'[t].q = <<>>
  BY <1>1, Takes
<1>3. swap' \in SwapState /\ swap'.st = "running" /\ swap'.sock = swap.sock
  BY <1>1 DEF SwapState
<1>4. SwapTypeOK'
  BY <1>1, <1>2, <1>3 DEF SwapInv, SwapTypeOK, Socks, SwapState
<1>5. MessageInv' /\ EraInv' /\ \A t \in Swaps : HasDone(t)' => HasDone(t)
  BY <1>1, <1>2, <1>4, CalmStep DEF SwapInv
<1>6. SocketInv'
  BY <1>1, <1>2, <1>3 DEF SwapInv, SocketInv
<1>7. LastWordInv'
  BY <1>1, <1>2, <1>3, <1>5 DEF SwapInv, LastWordInv, Live, Active, Busy
<1>8. FreshInv'
  BY <1>1, <1>2, <1>3 DEF SwapInv, FreshInv, Fresh, Busy
<1> QED
  BY <1>4, <1>5, <1>6, <1>7, <1>8 DEF SwapInv

LEMMA HearsFailure ==
    ASSUME SwapInv, NEW s \in Swaps, HearFailure(s)
    PROVE  SwapInv'
<1>1. /\ socks \in [Swaps -> Socks] /\ swap \in SwapState
      /\ socks[s].q # <<>> /\ Taken(s) /\ warned' = TRUE
      /\ UNCHANGED <<record, jobs, dialog, nonce, acked, session, fetches, faults>>
  BY DEF SwapInv, SwapTypeOK, Socks, SwapState, HearFailure, Arrives
<1>2. /\ socks' \in [Swaps -> Socks] /\ NoNews
      /\ \A t \in Swaps : socks'[t].st = socks[t].st
      /\ \A t \in Swaps : socks[t].q = <<>> => socks'[t].q = <<>>
  BY <1>1, Takes
<1>3. PICK st \in {"done", "error"} : swap' = [swap EXCEPT !.st = st, !.ok = FALSE]
  BY DEF HearFailure
<1>4. swap' \in SwapState /\ swap'.st \in {"done", "error"} /\ swap'.sock = swap.sock
  BY <1>1, <1>3 DEF SwapState
<1>5. SwapTypeOK'
  BY <1>1, <1>2, <1>4 DEF SwapInv, SwapTypeOK, Socks, SwapState
<1>6. MessageInv' /\ EraInv'
  BY <1>1, <1>2, <1>5, CalmStep DEF SwapInv
<1>7. SocketInv'
  BY <1>1, <1>2, <1>4 DEF SwapInv, SocketInv
<1>8. LastWordInv' /\ FreshInv'
  BY <1>1 DEF LastWordInv, FreshInv
<1> QED
  BY <1>5, <1>6, <1>7, <1>8 DEF SwapInv

(* The success that was owed is told: one more swap the tab knows of, one  *)
(* less that it may still be told of.                                      *)
LEMMA HearsDone ==
    ASSUME SwapInv, NEW s \in Swaps, HearDone(s)
    PROVE  SwapInv' /\ acked' <= record.era
<1>1. /\ socks \in [Swaps -> Socks] /\ swap \in SwapState
      /\ fetches \in [Eras -> Requested] /\ nonce \in Nat /\ warned \in BOOLEAN
      /\ record.era \in Nat
      /\ socks[s].st = "open" /\ socks[s].q # <<>> /\ Taken(s) /\ swap.sock = s
      /\ socks[s].q \in Seq(Messages)
      /\ swap' = [swap EXCEPT !.st = "done", !.ok = TRUE]
      /\ nonce' = nonce + 1 /\ acked' = Head(socks[s].q).era
      /\ fetches' = [fetches EXCEPT ![nonce + 1].st = "asked"]
      /\ warned' = (warned /\ \E t \in Swaps : Active(t))
      /\ UNCHANGED <<record, jobs, dialog, session, faults>>
  BY Bounds DEF SwapInv, SwapTypeOK, Socks, SwapState, Requested, Records, SocketInv,
                HearDone, Arrives, Active
<1>2. /\ socks' \in [Swaps -> Socks] /\ NoNews
      /\ \A t \in Swaps : socks'[t].st = socks[t].st
      /\ \A t \in Swaps : socks[t].q = <<>> => socks'[t].q = <<>>
      /\ \A t \in Swaps : t # s => socks'[t] = socks[t]
      /\ socks'[s].q = Tail(socks[s].q)
  BY <1>1, Takes
<1>3. /\ 1 \in DOMAIN socks[s].q /\ socks[s].q[1].type = "done"
      /\ acked' = socks[s].q[1].era /\ acked' \in Eras
      /\ \A i \in DOMAIN Tail(socks[s].q) :
            /\ i + 1 \in DOMAIN socks[s].q /\ Tail(socks[s].q)[i] = socks[s].q[i + 1]
            /\ i + 1 # 1
  BY <1>1, TailOf DEF HearDone, Arrives, Messages
<1>4. /\ jobs[s].st = "ended" /\ acked' <= record.era
      /\ \A j \in DOMAIN socks[s].q : socks[s].q[j].type = "done" => j = 1
  BY <1>3 DEF SwapInv, MessageInv
<1>5. ~ HasDone(s)'
  BY <1>2, <1>3, <1>4 DEF HasDone
<1>6. \A t \in Swaps : HasDone(t)' => HasDone(t)
  BY <1>2, <1>5 DEF HasDone
<1>7. nonce' + Cardinality(Owing') <= MaxSwaps /\ nonce + 1 <= MaxSwaps
  <2>1. s \in Owing /\ s \notin Owing' /\ Owing' \in SUBSET Owing /\ Owing \in SUBSET Swaps
    <3>1. HasDone(s)
      BY <1>3 DEF HasDone
    <3>. QED
      BY <1>1, <1>4, <1>5, <1>6, <3>1 DEF Owing
  <2>2. /\ Cardinality(Owing') \in Nat /\ Cardinality(Owing) \in Nat
        /\ Cardinality(Owing') + 1 <= Cardinality(Owing)
    BY <2>1, Counted
  <2>3. nonce + Cardinality(Owing) <= MaxSwaps
    BY DEF SwapInv, EraInv
  <2>. QED
    BY <1>1, <2>2, <2>3
<1>8. /\ nonce + 1 \in Eras /\ fetches' \in [Eras -> Requested]
      /\ fetches'[nonce'].st = "asked"
  <2>1. nonce + 1 \in Eras
    BY <1>1, <1>7 DEF Eras
  <2>2. fetches' = [fetches EXCEPT ![nonce + 1] = [fetches[nonce + 1] EXCEPT !.st = "asked"]]
    BY <1>1
  <2>3. [fetches[nonce + 1] EXCEPT !.st = "asked"] \in Requested
        /\ [fetches[nonce + 1] EXCEPT !.st = "asked"].st = "asked"
    BY <1>1, <2>1 DEF Requested
  <2>. QED
    BY <1>1, <2>1, <2>2, <2>3
<1>9. swap' \in SwapState /\ swap'.st = "done" /\ swap'.sock = s
  BY <1>1 DEF SwapState
<1>10. SwapTypeOK'
  <2>1. warned' \in BOOLEAN
    BY <1>1
  <2>. QED
    BY <1>1, <1>2, <1>3, <1>8, <1>9, <2>1
       DEF SwapInv, SwapTypeOK, Socks, SwapState, Requested
<1>11. MessageInv'
  BY <1>1, <1>2, <1>10, CalmStep DEF SwapInv
<1>12. EraInv'
  <2>1. Pending' = Pending
    BY <1>1 DEF Pending
  <2>. QED
    BY <1>1, <1>4, <1>7, <2>1 DEF SwapInv, EraInv
<1>13. SocketInv'
  BY <1>1, <1>2, <1>9, Bounds DEF SwapInv, SocketInv
<1>14. LastWordInv'
  <2> SUFFICES ASSUME ~ warned', NEW t \in Swaps, Live(t)' PROVE FALSE
    BY DEF LastWordInv
  <2>1. t # s
    BY <1>1, <1>4, <1>5 DEF Live, Active
  <2>2. CASE ~ warned
    <3>1. Live(t)
      BY <1>1, <1>6 DEF Live, Active
    <3>2. socks[t].st = "open"
      BY <2>2, <3>1 DEF SwapInv, LastWordInv
    <3>. QED
      BY <1>1, <2>1, <3>2 DEF SwapInv, SocketInv
  <2>3. CASE ~ \E u \in Swaps : Active(u)
    <3>1. HasDone(t)
      BY <1>1, <1>6, <2>3 DEF Live, Active
    <3>2. socks[t].st = "open"
      BY <1>1, <3>1 DEF HasDone, SwapInv, SocketInv
    <3>. QED
      BY <1>1, <2>1, <3>2 DEF SwapInv, SocketInv
  <2>. QED
    BY <1>1, <2>2, <2>3
<1>15. FreshInv'
  BY <1>8 DEF FreshInv, Fresh
<1> QED
  BY <1>4, <1>10, <1>11, <1>12, <1>13, <1>14, <1>15 DEF SwapInv

LEMMA Loses ==
    ASSUME SwapInv, NEW s \in Swaps, SocketLost(s)
    PROVE  SwapInv'
<1> DEFINE c == [type |-> "close", era |-> 0]
<1>1. /\ socks \in [Swaps -> Socks]
      /\ socks[s].st = "open" /\ faults' \in 0 .. MaxFaults
      /\ socks' = [socks EXCEPT ![s] = [socks[s] EXCEPT !.q = <<c>>]]
      /\ UNCHANGED <<record, jobs, swap, dialog, nonce, acked, session, fetches, warned>>
  BY DEF SwapInv, SwapTypeOK, Socks, SocketLost, Fault
<1>2. c \in Messages /\ c.type = "close"
  BY Bounds DEF Messages
<1> HIDE DEF c
<1>3. <<c>> \in Seq(Messages) /\ \A i \in DOMAIN <<c>> : <<c>>[i].type = "close"
  BY <1>2
<1>4. [socks[s] EXCEPT !.q = <<c>>] \in Socks
  BY <1>1, <1>3 DEF Socks
<1>5. /\ socks' \in [Swaps -> Socks]
      /\ \A t \in Swaps : socks'[t].st = socks[t].st
      /\ \A t \in Swaps : t # s => socks'[t] = socks[t]
      /\ \A i \in DOMAIN socks'[s].q : socks'[s].q[i].type = "close"
  BY <1>1, <1>3, <1>4 DEF Socks
<1>6. SwapTypeOK'
  BY <1>1, <1>5 DEF SwapInv, SwapTypeOK, Socks
<1>7. NoNews
  <2>1. \A t \in Swaps : \A i \in DOMAIN socks[t].q : i + 0 = i
    BY <1>1 DEF Socks
  <2>. QED
    BY <1>5, <2>1 DEF NoNews
<1>8. MessageInv' /\ EraInv' /\ \A t \in Swaps : HasDone(t)' => HasDone(t)
  BY <1>1, <1>6, <1>7, CalmStep DEF SwapInv
<1>9. SocketInv'
  BY <1>1, <1>5 DEF SwapInv, SocketInv
<1>10. LastWordInv'
  BY <1>1, <1>5, <1>8 DEF SwapInv, LastWordInv, Live, Active, Busy
<1>11. FreshInv'
  BY <1>1, <1>5 DEF SwapInv, FreshInv, Fresh, Busy
<1> QED
  BY <1>6, <1>8, <1>9, <1>10, <1>11 DEF SwapInv

-----------------------------------------------------------------------------
(* The server's steps                                                      *)

\* A job that goes on, or ends without a success.
LEMMA GoesOn ==
    ASSUME SwapInv, NEW s \in Swaps, NEW from \in {"asked", "working"},
           NEW to \in {"working", "replaced", "ended"}, Job(s, from, to),
           record' \in Records, record'.era = record.era,
           socks' \in [Swaps -> Socks], NoNews,
           \A t \in Swaps : socks'[t].st = socks[t].st,
           \A t \in Swaps : socks[t].st # "open" => socks'[t] = socks[t],
           ClientKeeps
    PROVE  SwapInv'
<1>1. /\ jobs \in [Swaps -> Jobs] /\ jobs[s].st = from
      /\ jobs' = [jobs EXCEPT ![s] = [jobs[s] EXCEPT !.st = to]]
      /\ UNCHANGED <<swap, dialog, nonce, acked, session, fetches, warned, faults>>
  BY DEF SwapInv, SwapTypeOK, Jobs, Job, ClientKeeps
<1>2. [jobs[s] EXCEPT !.st = to] \in Jobs
  BY <1>1 DEF Jobs
<1>3. /\ jobs' \in [Swaps -> Jobs] /\ jobs'[s].st = to
      /\ \A t \in Swaps : t # s => jobs'[t] = jobs[t]
  BY <1>1, <1>2 DEF Jobs
<1>4. SwapTypeOK'
  BY <1>1, <1>3 DEF SwapInv, SwapTypeOK, Socks, Jobs
<1>5. MessageInv' /\ EraInv' /\ \A t \in Swaps : HasDone(t)' => HasDone(t)
  <2>1. \A t \in Swaps : jobs[t].st = "ended" => jobs'[t].st = "ended"
    BY <1>1, <1>3
  <2>. QED
    BY <1>1, <1>4, <2>1, CalmStep DEF SwapInv
<1>6. SocketInv'
  BY <1>1, <1>3 DEF SwapInv, SocketInv
<1>7. LastWordInv'
  <2>1. \A t \in Swaps : Live(t)' => Live(t)
    BY <1>1, <1>3, <1>5 DEF Live, Active
  <2>. QED
    BY <1>1, <2>1 DEF SwapInv, LastWordInv, Busy
<1>8. FreshInv'
  BY <1>1 DEF SwapInv, FreshInv, Fresh, Busy
<1> QED
  BY <1>4, <1>5, <1>6, <1>7, <1>8 DEF SwapInv

LEMMA JobStartsKeeps ==
    ASSUME SwapInv, NEW s \in Swaps, JobStarts(s)
    PROVE  SwapInv'
<1>1. socks \in [Swaps -> Socks] /\ record \in Records
  BY DEF SwapInv, SwapTypeOK, Socks
<1>2. /\ socks' \in [Swaps -> Socks]
      /\ \A t \in Swaps : socks'[t].st = socks[t].st
      /\ \A t \in Swaps : socks[t].st # "open" => socks'[t] = socks[t]
      /\ \A t \in Swaps : t # s => socks'[t] = socks[t]
      /\ \A i \in DOMAIN socks'[s].q :
            \/ i \in DOMAIN socks[s].q /\ socks'[s].q[i] = socks[s].q[i]
            \/ socks'[s].q[i].type = "hello"
  BY <1>1, SendsOne DEF JobStarts
<1>3. NoNews
  <2>1. \A t \in Swaps : \A i \in DOMAIN socks[t].q : i + 0 = i
    BY <1>1 DEF Socks
  <2>. QED
    BY <1>2, <2>1 DEF NoNews
<1>4. Job(s, "asked", "working") /\ record' = record /\ ClientKeeps
  BY DEF JobStarts
<1> QED
  BY <1>1, <1>2, <1>3, <1>4, GoesOn

LEMMA JobEndsKeeps ==
    ASSUME SwapInv, NEW s \in Swaps, JobRefused(s) \/ JobFails(s)
    PROVE  SwapInv'
<1>1. socks \in [Swaps -> Socks] /\ record \in Records
  BY DEF SwapInv, SwapTypeOK, Socks
<1>2. PICK type \in {"error", "failed"}, from \in {"asked", "working"} :
        Sends(s, <<type, "close">>, record) /\ Job(s, from, "ended")
  BY DEF JobRefused, JobFails
<1>3. /\ socks' \in [Swaps -> Socks]
      /\ \A t \in Swaps : socks'[t].st = socks[t].st
      /\ \A t \in Swaps : socks[t].st # "open" => socks'[t] = socks[t]
      /\ \A t \in Swaps : t # s => socks'[t] = socks[t]
      /\ \A i \in DOMAIN socks'[s].q :
            \/ i \in DOMAIN socks[s].q /\ socks'[s].q[i] = socks[s].q[i]
            \/ socks'[s].q[i].type = "close"
            \/ /\ i = Len(socks[s].q) + 1
               /\ socks'[s].q[i].type = type /\ socks'[s].q[i].era = record.era
  BY <1>1, <1>2, SendsTwo
<1>4. NoNews
  <2>1. \A t \in Swaps : \A i \in DOMAIN socks[t].q : i + 0 = i
    BY <1>1 DEF Socks
  <2>. QED
    BY <1>3, <2>1 DEF NoNews
<1>5. record' = record /\ ClientKeeps
  BY DEF JobRefused, JobFails
<1> QED
  BY <1>1, <1>2, <1>3, <1>4, <1>5, GoesOn

LEMMA JobReplacesKeeps ==
    ASSUME SwapInv, NEW s \in Swaps, JobReplaces(s)
    PROVE  SwapInv'
<1>1. socks \in [Swaps -> Socks] /\ record \in Records /\ socks' = socks
      /\ record' = [record EXCEPT !.empty = FALSE]
      /\ Job(s, "working", "replaced") /\ ClientKeeps
  BY DEF SwapInv, SwapTypeOK, Socks, JobReplaces
<1>2. record' \in Records /\ record'.era = record.era
  BY <1>1 DEF Records
<1>3. NoNews
  BY <1>1, SameSocks DEF SwapInv
<1> QED
  BY <1>1, <1>2, <1>3, GoesOn

(* A swap succeeds: if it is the tab's last word, it is told over an open  *)
(* socket.                                                                 *)
LEMMA JobRecordsKeeps ==
    ASSUME SwapInv, NEW s \in Swaps, JobRecords(s)
    PROVE  SwapInv' /\ record.era <= record'.era
<1>1. /\ socks \in [Swaps -> Socks] /\ jobs \in [Swaps -> Jobs] /\ record \in Records
      /\ jobs[s].st = "replaced" /\ record.era \in Nat /\ nonce \in Nat /\ acked \in Nat
      /\ jobs' = [jobs EXCEPT ![s] = [jobs[s] EXCEPT !.st = "ended"]]
      /\ record' = [record EXCEPT !.era = record.era + 1, !.kind = jobs[s].kind]
      /\ Sends(s, <<"done", "close">>, record')
      /\ UNCHANGED <<swap, dialog, nonce, acked, session, fetches, warned, faults>>
  BY Bounds DEF SwapInv, SwapTypeOK, Socks, Jobs, Records, JobRecords, Job, ClientKeeps
<1>2. [jobs[s] EXCEPT !.st = "ended"] \in Jobs
  BY <1>1 DEF Jobs
<1>3. /\ jobs' \in [Swaps -> Jobs] /\ jobs'[s].st = "ended"
      /\ \A t \in Swaps : t # s => jobs'[t] = jobs[t]
  BY <1>1, <1>2 DEF Jobs
<1>4. /\ Pending' \in SUBSET Pending /\ Pending \in SUBSET Swaps
      /\ s \in Pending /\ s \notin Pending'
  BY <1>1, <1>3 DEF Pending
<1>5. /\ Cardinality(Pending') \in Nat /\ Cardinality(Pending) \in Nat
      /\ Cardinality(Pending') + 1 <= Cardinality(Pending)
  BY <1>4, Counted
<1>6. /\ acked <= record.era
      /\ record.era + Cardinality(Pending) <= MaxSwaps
      /\ nonce + Cardinality(Owing) <= MaxSwaps
  BY DEF SwapInv, EraInv
<1>7. record.era + 1 \in Eras /\ record.era + 1 + Cardinality(Pending') <= MaxSwaps
  BY <1>1, <1>5, <1>6 DEF Eras
<1>8. record' \in Records /\ record'.era = record.era + 1
  BY <1>1, <1>7 DEF Records, Jobs
<1>9. /\ socks' \in [Swaps -> Socks]
      /\ \A t \in Swaps : socks'[t].st = socks[t].st
      /\ \A t \in Swaps : socks[t].st # "open" => socks'[t] = socks[t]
      /\ \A t \in Swaps : t # s => socks'[t] = socks[t]
      /\ \A i \in DOMAIN socks'[s].q :
            \/ i \in DOMAIN socks[s].q /\ socks'[s].q[i] = socks[s].q[i]
            \/ socks'[s].q[i].type = "close"
            \/ /\ i = Len(socks[s].q) + 1
               /\ socks'[s].q[i].type = "done" /\ socks'[s].q[i].era = record'.era
  BY <1>1, <1>8, SendsTwo
<1>10. SwapTypeOK'
  BY <1>1, <1>3, <1>8, <1>9 DEF SwapInv, SwapTypeOK, Socks, Jobs
<1>11. MessageInv'
  <2> SUFFICES ASSUME NEW t \in Swaps, NEW i \in DOMAIN socks'[t].q,
                      socks'[t].q[i].type = "done"
               PROVE  /\ jobs'[t].st = "ended"
                      /\ socks'[t].q[i].era <= record'.era
                      /\ \A j \in DOMAIN socks'[t].q :
                            socks'[t].q[j].type = "done" => j = i
    BY DEF MessageInv
  <2>1. CASE t = s
    <3>1. \A j \in DOMAIN socks[s].q : socks[s].q[j].type # "done"
      BY <1>1 DEF SwapInv, MessageInv
    <3>2. \A j \in DOMAIN socks'[s].q : socks'[s].q[j].type = "done" =>
             j = Len(socks[s].q) + 1 /\ socks'[s].q[j].era = record'.era
      BY <1>9, <3>1
    <3>3. record'.era \in Nat /\ i = Len(socks[s].q) + 1 /\ socks'[s].q[i].era = record'.era
      BY <1>1, <1>8, <2>1, <3>2
    <3>. QED
      BY <1>3, <2>1, <3>2, <3>3
  <2>2. CASE t # s
    <3>1. socks'[t] = socks[t] /\ jobs'[t] = jobs[t] /\ socks[t] \in Socks
      BY <1>3, <1>9, <2>2
    <3>2. /\ jobs[t].st = "ended" /\ socks[t].q[i].era <= record.era
          /\ \A j \in DOMAIN socks[t].q : socks[t].q[j].type = "done" => j = i
      BY <3>1 DEF SwapInv, MessageInv
    <3>3. socks[t].q[i].era \in Nat
      <4>1. socks[t].q \in Seq(Messages) /\ i \in DOMAIN socks[t].q
        BY <3>1 DEF Socks
      <4>2. socks[t].q[i] \in Messages
        BY <4>1
      <4>. QED
        BY <4>2, Bounds DEF Messages
    <3>. QED
      BY <1>1, <1>8, <3>1, <3>2, <3>3
  <2>. QED
    BY <2>1, <2>2
<1>12. Owing' \in SUBSET Owing
  BY <1>1, <1>3, <1>9 DEF Owing, HasDone
<1>13. EraInv'
  <2>1. Owing \in SUBSET Swaps
    BY DEF Owing
  <2>2. /\ Cardinality(Owing') \in Nat /\ Cardinality(Owing) \in Nat
        /\ Cardinality(Owing') <= Cardinality(Owing)
    BY <1>12, <2>1, Counted
  <2>. QED
    BY <1>1, <1>6, <1>7, <1>8, <2>2 DEF EraInv
<1>14. SocketInv'
  BY <1>1, <1>3, <1>9 DEF SwapInv, SocketInv
<1>15. Active(s)
  BY <1>1 DEF Active
<1>16. LastWordInv'
  <2>1. \A t \in Swaps : Live(t)' => Live(t)
    BY <1>3, <1>9, <1>15 DEF Live, Active, HasDone
  <2>. QED
    BY <1>1, <1>9, <2>1 DEF SwapInv, LastWordInv, Busy
<1>17. FreshInv'
  <2>1. warned \/ (Busy /\ socks[s].st = "open")
    BY <1>15 DEF SwapInv, LastWordInv, Live
  <2>. QED
    BY <1>1, <1>9, <2>1 DEF FreshInv, Busy
<1>18. record.era <= record'.era
  BY <1>1, <1>8
<1> QED
  BY <1>10, <1>11, <1>13, <1>14, <1>16, <1>17, <1>18 DEF SwapInv

-----------------------------------------------------------------------------
(* The session requests                                                    *)

Sessions == [st : {"loading", "ready", "error"}, rec : Records]

LEMMA Fetched ==
    ASSUME SwapInv, NEW n \in Eras, NEW from, NEW to \in Requested, Fetch(n, from, to),
           FetchKeeps, dialog' \in Dialogs, session' \in Sessions,
           faults' \in 0 .. MaxFaults,
           n # nonce => session' = session,
           n = nonce /\ Fresh => Fresh'
    PROVE  SwapInv'
<1>1. /\ fetches \in [Eras -> Requested]
      /\ fetches' = [fetches EXCEPT ![n] = to]
      /\ UNCHANGED <<record, jobs, socks, swap, nonce, acked, warned>>
  BY DEF SwapInv, SwapTypeOK, Requested, Fetch, FetchKeeps
<1>2. fetches' \in [Eras -> Requested] /\ \A m \in Eras : m # n => fetches'[m] = fetches[m]
  BY <1>1
<1>3. SwapTypeOK'
  BY <1>1, <1>2 DEF SwapInv, SwapTypeOK, Requested, Dialogs, Sessions
<1>4. NoNews
  BY <1>1, SameSocks DEF SwapInv
<1>5. MessageInv' /\ EraInv'
  BY <1>1, <1>3, <1>4, CalmStep DEF SwapInv
<1>6. SocketInv'
  BY <1>1 DEF SwapInv, SocketInv
<1>7. LastWordInv'
  BY <1>1 DEF SwapInv, LastWordInv, Live, Active, HasDone, Busy
<1>8. Fresh => Fresh'
  <2>1. CASE n # nonce
    <3>1. nonce \in Eras
      BY DEF SwapInv, SwapTypeOK
    <3>. QED
      BY <1>1, <1>2, <2>1, <3>1 DEF Fresh
  <2>. QED
    BY <2>1
<1>9. FreshInv'
  BY <1>1, <1>8 DEF SwapInv, FreshInv, Busy
<1> QED
  BY <1>3, <1>5, <1>6, <1>7, <1>9 DEF SwapInv

LEMMA AutoOpens ==
    ASSUME SwapTypeOK, NEW rec \in Records, AutoOpened(rec)
    PROVE  dialog' \in Dialogs
<1>1. dialog \in Dialogs /\ rec.empty \in BOOLEAN
  BY DEF SwapTypeOK, Dialogs, Records
<1>2. (dialog.open \/ (rec.empty /\ ~ dialog.auto)) \in BOOLEAN
  BY Zenon
<1> DEFINE opens == dialog.open \/ (rec.empty /\ ~ dialog.auto)
<1>3. dialog' = [dialog EXCEPT !.open = opens, !.auto = rec.empty]
  BY DEF AutoOpened
<1>4. opens \in BOOLEAN
  BY <1>2
<1> HIDE DEF opens
<1> QED
  BY <1>1, <1>3, <1>4 DEF Dialogs

LEMMA SessionKeeps ==
    ASSUME SwapInv, NEW n \in Eras, SessionNext(n)
    PROVE  SwapInv'
<1>1. /\ fetches \in [Eras -> Requested] /\ fetches[n] \in Requested
      /\ record \in Records /\ NoRecord \in Records
      /\ dialog \in Dialogs /\ session \in Sessions /\ faults \in 0 .. MaxFaults
      /\ SwapTypeOK
  BY Bounds DEF SwapInv, SwapTypeOK, Requested, Dialogs, Sessions, NoRecord, Records, Kinds
<1> DEFINE over == [Unasked EXCEPT !.st = "over"]
<1>2. over \in Requested /\ over.st = "over"
  BY <1>1 DEF Unasked, Requested
<1>3. fetches[n].rec \in Records
  BY <1>1 DEF Requested
<1>4. CASE SessionAuthed(n)
  <2> DEFINE to == [st |-> "authed", rec |-> record]
  <2>1. to \in Requested /\ to.st = "authed" /\ to.rec = record
    BY <1>1 DEF Requested
  <2>2. /\ Fetch(n, "asked", to) /\ UNCHANGED <<dialog, session, faults>>
        /\ FetchKeeps
    BY <1>4 DEF SessionAuthed
  <2>3. fetches' = [fetches EXCEPT ![n] = to] /\ record' = record /\ nonce' = nonce
    BY <2>2 DEF Fetch, FetchKeeps
  <2> HIDE DEF to
  <2>4. n = nonce => Fresh'
    BY <1>1, <2>1, <2>3 DEF Fresh
  <2>. QED
    BY <1>1, <2>1, <2>2, <2>4, Fetched
<1>5. CASE SessionAnswered(n)
  <2> DEFINE rec == [fetches[n].rec EXCEPT !.empty = record.empty]
             to == [st |-> "answered", rec |-> rec]
  <2>1. rec \in Records /\ rec.era = fetches[n].rec.era
    BY <1>1, <1>3 DEF Records
  <2>2. to \in Requested /\ to.st = "answered" /\ to.rec = rec
    BY <2>1 DEF Requested
  <2>3. /\ Fetch(n, "authed", to) /\ UNCHANGED <<dialog, session, faults>>
        /\ FetchKeeps
    BY <1>5 DEF SessionAnswered
  <2>4. /\ fetches' = [fetches EXCEPT ![n] = to] /\ record' = record /\ nonce' = nonce
        /\ fetches[n].st = "authed"
    BY <2>3 DEF Fetch, FetchKeeps
  <2> HIDE DEF to, rec
  <2>5. n = nonce /\ Fresh => Fresh'
    BY <1>1, <2>1, <2>2, <2>4 DEF Fresh
  <2>. QED
    BY <1>1, <2>2, <2>3, <2>5, Fetched
<1>6. CASE SessionArrives(n)
  <2>1. Fetch(n, "answered", over) /\ FetchKeeps /\ faults' = faults
    BY <1>6 DEF SessionArrives
  <2>2. /\ fetches' = [fetches EXCEPT ![n] = over] /\ record' = record /\ nonce' = nonce
        /\ fetches[n].st = "answered"
    BY <2>1 DEF Fetch, FetchKeeps
  <2> HIDE DEF over
  <2>3. CASE n = nonce
    <3> DEFINE new == [st |-> "ready", rec |-> fetches[n].rec]
    <3>1. session' = new /\ AutoOpened(fetches[n].rec)
      BY <1>6, <2>3 DEF SessionArrives
    <3>2. new \in Sessions /\ new.rec = fetches[n].rec
      BY <1>3 DEF Sessions
    <3>3. dialog' \in Dialogs
      BY <1>1, <1>3, <3>1, AutoOpens
    <3> HIDE DEF new
    <3>4. Fresh => Fresh'
      BY <1>1, <1>2, <2>2, <2>3, <3>1, <3>2 DEF Fresh
    <3>. QED
      BY <1>1, <1>2, <2>1, <2>3, <3>1, <3>2, <3>3, <3>4, Fetched
  <2>4. CASE n # nonce
    <3>1. session' = session /\ dialog' = dialog
      BY <1>6, <2>4 DEF SessionArrives
    <3>. QED
      BY <1>1, <1>2, <2>1, <2>4, <3>1, Fetched
  <2>. QED
    BY <2>3, <2>4
<1>7. CASE SessionFails(n)
  <2>1. /\ fetches[n].st \in {"asked", "authed"} /\ faults' \in 0 .. MaxFaults
        /\ fetches' = [fetches EXCEPT ![n] = over] /\ FetchKeeps
    BY <1>1, <1>7 DEF SessionFails, Fault
  <2>2. record' = record /\ nonce' = nonce /\ Fetch(n, fetches[n].st, over)
    BY <2>1 DEF Fetch, FetchKeeps
  <2> HIDE DEF over
  <2>3. CASE n = nonce
    <3> DEFINE new == [st |-> "error", rec |-> NoRecord]
    <3>1. session' = new /\ AutoOpened(NoRecord)
      BY <1>7, <2>3 DEF SessionFails
    <3>2. new \in Sessions /\ new.st = "error"
      BY <1>1 DEF Sessions
    <3>3. dialog' \in Dialogs
      BY <1>1, <3>1, AutoOpens
    <3> HIDE DEF new
    <3>4. Fresh'
      BY <1>1, <1>2, <2>1, <2>2, <2>3, <3>1, <3>2 DEF Fresh
    <3>. QED
      BY <1>1, <1>2, <2>1, <2>2, <2>3, <3>1, <3>2, <3>3, <3>4, Fetched
  <2>4. CASE n # nonce
    <3>1. session' = session /\ dialog' = dialog
      BY <1>7, <2>4 DEF SessionFails
    <3>. QED
      BY <1>1, <1>2, <2>1, <2>2, <2>4, <3>1, Fetched
  <2>. QED
    BY <2>3, <2>4
<1> QED
  BY <1>4, <1>5, <1>6, <1>7 DEF SessionNext

-----------------------------------------------------------------------------
(* The swap as a whole                                                     *)

LEMMA DialogKeeps ==
    ASSUME SwapInv, DialogNext \/ OpenDialog
    PROVE  SwapInv' /\ acked' = acked /\ session' = session
<1>1. dialog \in Dialogs /\ SwapTypeOK
  BY DEF SwapInv, SwapTypeOK, Dialogs
<1>2. CASE OpenDialog
  <2>1. dialog' = [dialog EXCEPT !.open = TRUE] /\ dialog' \in Dialogs
    BY <1>1, <1>2 DEF OpenDialog, Dialogs
  <2>2. UNCHANGED <<record, jobs, socks, swap, nonce, acked, session, fetches, warned,
                    faults>>
    BY <1>2 DEF OpenDialog
  <2>3. SwapTypeOK'
    BY <1>1, <2>1, <2>2 DEF SwapTypeOK, Dialogs
  <2>. QED
    BY <2>2, <2>3, Apart
<1>3. ASSUME NEW k \in Kinds, Choose(k)
      PROVE  SwapInv' /\ acked' = acked /\ session' = session
  <2>1. UNCHANGED <<record, nonce, acked, session, fetches, warned, faults>>
        /\ swap.st = "idle"
    BY <1>3 DEF Choose, Browsing
  <2>2. CASE StartSwap(k) /\ UNCHANGED dialog
    BY <1>1, <2>1, <2>2, Starts
  <2>3. CASE dialog' = [dialog EXCEPT !.pending = k] /\ UNCHANGED <<jobs, socks, swap>>
    <3>1. dialog' \in Dialogs
      BY <1>1, <2>3 DEF Dialogs
    <3>2. SwapTypeOK'
      BY <1>1, <2>1, <2>3, <3>1 DEF SwapTypeOK, Dialogs
    <3>. QED
      BY <2>1, <2>3, <3>2, Apart
  <2>. QED
    BY <1>3, <2>2, <2>3 DEF Choose
<1>4. CASE Confirm
  <2>1. /\ swap.st = "idle" /\ StartSwap(dialog.pending) /\ dialog' = dialog
        /\ dialog.pending \in Kinds
        /\ UNCHANGED <<record, nonce, acked, session, fetches, warned, faults>>
    BY <1>1, <1>4 DEF Confirm, Confirming, Dialogs
  <2>. QED
    BY <1>1, <2>1, Starts
<1>5. CASE BackToChoices
  <2>1. dialog' = [dialog EXCEPT !.pending = "none"] /\ dialog' \in Dialogs
    BY <1>1, <1>5 DEF BackToChoices, Dialogs
  <2>2. UNCHANGED <<record, jobs, socks, swap, nonce, acked, session, fetches, warned,
                    faults>>
    BY <1>5 DEF BackToChoices
  <2>3. SwapTypeOK'
    BY <1>1, <2>1, <2>2 DEF SwapTypeOK, Dialogs
  <2>. QED
    BY <2>2, <2>3, Apart
<1>6. CASE BackAfterFailure \/ CloseDialog
  <2>1. /\ ~ Busy /\ Reset
        /\ \/ dialog' = [dialog EXCEPT !.pending = "none"]
           \/ dialog' = [dialog EXCEPT !.open = FALSE, !.pending = "none"]
    BY <1>6 DEF BackAfterFailure, CloseDialog, Finished, Busy
  <2>2. dialog' \in Dialogs
    BY <1>1, <2>1 DEF Dialogs
  <2>. QED
    BY <2>1, <2>2, Resets DEF Reset
<1> QED
  BY <1>2, <1>3, <1>4, <1>5, <1>6 DEF DialogNext

LEMMA SocketKeeps ==
    ASSUME SwapInv, NEW s \in Swaps,
           SocketNext(s) \/ HearNext(s) \/ SocketLost(s) \/ JobNext(s)
    PROVE  SwapInv' /\ acked' = acked /\ session' = session
<1>1. CASE SocketOpens(s)
  BY <1>1, Opens DEF SocketOpens
<1>2. CASE SocketCloses(s) \/ SocketRefused(s) \/ HearClose(s)
  <2>1. /\ CloseEvent(s) /\ faults' \in 0 .. MaxFaults
        /\ UNCHANGED <<record, jobs, dialog, nonce, acked, session, fetches>>
    <3>1. faults \in 0 .. MaxFaults
      BY DEF SwapInv, SwapTypeOK
    <3>. QED
      BY <1>2, <3>1 DEF SocketCloses, SocketRefused, HearClose, Fault
  <2>. QED
    BY <2>1, Ends
<1>3. CASE HearHello(s)
  BY <1>3, HearsHello DEF HearHello
<1>4. CASE HearFailure(s)
  BY <1>4, HearsFailure DEF HearFailure
<1>5. CASE SocketLost(s)
  BY <1>5, Loses DEF SocketLost
<1>6. CASE JobStarts(s)
  BY <1>6, JobStartsKeeps DEF JobStarts, ClientKeeps
<1>7. CASE JobRefused(s) \/ JobFails(s)
  BY <1>7, JobEndsKeeps DEF JobRefused, JobFails, ClientKeeps
<1>8. CASE JobReplaces(s)
  BY <1>8, JobReplacesKeeps DEF JobReplaces, ClientKeeps
<1>9. CASE JobRecords(s)
  BY <1>9, JobRecordsKeeps DEF JobRecords, ClientKeeps
<1> QED
  BY <1>1, <1>2, <1>3, <1>4, <1>5, <1>6, <1>7, <1>8, <1>9
     DEF SocketNext, HearNext, JobNext

LEMMA FaultKeeps ==
    ASSUME SwapInv, Fault,
           UNCHANGED <<record, jobs, socks, swap, dialog, nonce, acked, session, fetches,
                       warned>>
    PROVE  SwapInv'
<1>1. SwapTypeOK'
  BY DEF SwapInv, SwapTypeOK, Fault
<1> QED
  BY <1>1, Apart

LEMMA UnchangedKeeps ==
    ASSUME SwapInv, UNCHANGED swapVars
    PROVE  SwapInv' /\ acked' = acked /\ session' = session
<1>1. UNCHANGED <<record, jobs, socks, swap, dialog, nonce, acked, session, fetches,
                  warned, faults>>
  BY DEF swapVars
<1>2. SwapTypeOK'
  BY <1>1 DEF SwapInv, SwapTypeOK
<1> QED
  BY <1>1, <1>2, Apart

-----------------------------------------------------------------------------
(* The preview pane                                                        *)

Blank == [NoFrame EXCEPT !.st = "blank"]

LEMMA FrameFacts ==
    ASSUME record \in Records
    PROVE  /\ NoFrame \in Frames /\ NoFrame.st = "none"
           /\ Blank \in Frames /\ Blank.st = "blank"
           /\ \A f \in Frames : /\ Served(f) \in Frames /\ Served(f).era = record.era
                                /\ Refused(f) \in Frames /\ Refused(f).st = "notice"
<1>1. NoFrame \in Frames /\ NoFrame.st = "none"
  BY Bounds DEF NoFrame, Frames
<1>2. Blank \in Frames /\ Blank.st = "blank"
  BY <1>1 DEF Blank, Frames
<1>3. \A f \in Frames : Served(f) \in Frames /\ Served(f).era = record.era
  BY DEF Served, Frames, Records
<1>4. \A f \in Frames : Refused(f) \in Frames /\ Refused(f).st = "notice"
  BY DEF Refused, Frames
<1> QED
  BY <1>1, <1>2, <1>3, <1>4

LEMMA ListFacts ==
    /\ Asked \in Requests /\ Asked.st = "asked"
    /\ Over \in Requests /\ Over.st = "over"
    /\ NoList.st = "none" /\ NoList \in [st : {"none", "loaded", "error"}, era : Eras,
                                         has : BOOLEAN]
    /\ [NoList EXCEPT !.st = "error"] \in [st : {"none", "loaded", "error"}, era : Eras,
                                           has : BOOLEAN]
    /\ [NoList EXCEPT !.st = "error"].st = "error"
<1>1. Asked \in Requests /\ Asked.st = "asked"
  BY Bounds DEF Asked, Requests
<1>2. Over \in Requests /\ Over.st = "over"
  BY <1>1 DEF Over, Requests
<1>3. NoList \in [st : {"none", "loaded", "error"}, era : Eras, has : BOOLEAN]
      /\ NoList.st = "none"
  BY Bounds DEF NoList
<1> QED
  BY <1>1, <1>2, <1>3

LEMMA AsksIs ==
    ASSUME ListInv, Asks
    PROVE  list' \in Requests /\ late' \in SUBSET Requests /\ list'.st = "asked"
BY ListFacts DEF ListInv, PreviewTypeOK, Asks

\* What a reload shows does not matter, for it shows nothing.
LEMMA DroppedKeeps ==
    ASSUME SwapInv, ListInv, Dropped, active' \in BOOLEAN,
           \/ Asks /\ active'
           \/ ~ active' /\ active' = active /\ UNCHANGED <<list, late>>
    PROVE  ListInv'
<1>1. record \in Records
  BY DEF SwapInv, SwapTypeOK
<1>2. /\ listed' = NoList /\ selected' = FALSE /\ frame' = NoFrame /\ behind' = NoFrame
  BY DEF Dropped
<1>3. PreviewIsCurrent'
  BY <1>1, <1>2, ListFacts, FrameFacts DEF PreviewIsCurrent
<1>4. CASE Asks /\ active'
  <2>1. list' \in Requests /\ late' \in SUBSET Requests /\ list'.st = "asked"
    BY <1>4, AsksIs
  <2>. QED
    BY <1>1, <1>2, <1>3, <1>4, <2>1, ListFacts, FrameFacts DEF ListInv, PreviewTypeOK
<1>5. CASE ~ active' /\ active' = active /\ UNCHANGED <<list, late>>
  <2>1. list = Over
    BY <1>5 DEF ListInv
  <2>. QED
    BY <1>1, <1>2, <1>3, <1>5, <2>1, ListFacts, FrameFacts DEF ListInv, PreviewTypeOK
<1> QED
  BY <1>4, <1>5

LEMMA PaneIs ==
    ASSUME NEW l, NEW sel, Pane(l, sel)
    PROVE  frame' \in {NoFrame, frame, Blank} /\ behind' \in {NoFrame, Blank}
BY DEF Pane, Blank

LEMMA PreviewKeeps ==
    ASSUME SwapInv, ListInv, acked' = acked,
           Activate \/ Refresh \/ ListNext \/ ListFails \/ FrameLoads \/ BehindLoads
    PROVE  ListInv'
<1>1. /\ record \in Records /\ record.era \in Eras /\ acked \in Eras /\ Eras \subseteq Nat
      /\ acked <= record.era
  BY Bounds DEF SwapInv, SwapTypeOK, EraInv, Records
<1>2. /\ active \in BOOLEAN /\ list \in Requests /\ late \in SUBSET Requests
      /\ listed \in [st : {"none", "loaded", "error"}, era : Eras, has : BOOLEAN]
      /\ selected \in BOOLEAN /\ frame \in Frames /\ behind \in Frames
      /\ (~ active => list = Over)
      /\ (list.st \in {"read", "parsed"} => list.era >= acked)
      /\ PreviewIsCurrent
  BY DEF ListInv, PreviewTypeOK
<1>3. CASE Activate \/ Refresh
  <2>1. Asks /\ active' = TRUE /\ UNCHANGED <<listed, selected, frame, behind>>
    BY <1>2, <1>3 DEF Activate, Refresh
  <2>2. list' \in Requests /\ late' \in SUBSET Requests /\ list'.st = "asked"
    BY <2>1, AsksIs
  <2>. QED
    BY <1>2, <2>1, <2>2 DEF ListInv, PreviewTypeOK, PreviewIsCurrent
<1>4. CASE ListRead
  <2>1. PICK h \in BOOLEAN : list' = [st |-> "read", era |-> record.era, has |-> h]
    BY <1>4 DEF ListRead
  <2>2. list' \in Requests /\ list'.era = record.era
    BY <1>1, <2>1 DEF Requests
  <2>3. active /\ UNCHANGED <<active, late, listed, selected, frame, behind>>
    BY <1>2, <1>4, ListFacts DEF ListRead
  <2>. QED
    BY <1>1, <1>2, <2>2, <2>3 DEF ListInv, PreviewTypeOK, PreviewIsCurrent
<1>5. CASE ListParsed
  <2>1. list.st = "read" /\ list' = [list EXCEPT !.st = "parsed"]
        /\ UNCHANGED <<active, late, listed, selected, frame, behind>>
    BY <1>5 DEF ListParsed
  <2>2. list' \in Requests /\ list'.era = list.era
    BY <1>2, <2>1 DEF Requests
  <2>3. active
    BY <1>2, <2>1, ListFacts
  <2>. QED
    BY <1>1, <1>2, <2>1, <2>2, <2>3 DEF ListInv, PreviewTypeOK, PreviewIsCurrent
<1>6. CASE ListArrives
  <2> DEFINE l == [list EXCEPT !.st = "loaded"]
  <2>1. /\ list.st = "parsed" /\ list' = Over /\ listed' = l
        /\ selected' = (selected \/ list.has) /\ Pane(listed', selected')
        /\ UNCHANGED <<active, late>>
    BY <1>6 DEF ListArrives, ListShown
  <2>2. l \in [st : {"none", "loaded", "error"}, era : Eras, has : BOOLEAN]
        /\ l.era = list.era
    BY <1>2 DEF Requests
  <2> HIDE DEF l
  <2>3. frame' \in {NoFrame, frame, Blank} /\ behind' \in {NoFrame, Blank}
    BY <2>1, PaneIs DEF Pane, Blank
  <2>4. selected' \in BOOLEAN
    BY <2>1
  <2>5. PreviewIsCurrent'
    BY <1>1, <1>2, <2>1, <2>2, <2>3, FrameFacts DEF PreviewIsCurrent
  <2>. QED
    BY <1>1, <1>2, <2>1, <2>2, <2>3, <2>4, <2>5, FrameFacts, ListFacts
       DEF ListInv, PreviewTypeOK
<1>7. CASE \E l \in late : LateArrives(l)
  <2>1. late' \in SUBSET Requests /\ UNCHANGED <<active, list, listed, selected, frame, behind>>
    BY <1>2, <1>7 DEF LateArrives
  <2>. QED
    BY <1>2, <2>1 DEF ListInv, PreviewTypeOK, PreviewIsCurrent
<1>8. CASE ListFails
  <2>1. /\ list' = Over /\ listed' = [NoList EXCEPT !.st = "error"]
        /\ frame' = NoFrame /\ behind' = NoFrame
        /\ UNCHANGED <<active, late, selected>>
    BY <1>8 DEF ListFails
  <2>2. PreviewIsCurrent'
    BY <1>1, <2>1, FrameFacts, ListFacts DEF PreviewIsCurrent
  <2>. QED
    BY <1>1, <1>2, <2>1, <2>2, FrameFacts, ListFacts DEF ListInv, PreviewTypeOK
<1>9. CASE FrameLoads \/ BehindLoads
  <2>1. PICK f \in Frames : frame' \in {Served(f), Refused(f)}
    BY <1>2, <1>9 DEF FrameLoads, BehindLoads
  <2>2. behind' \in {behind, NoFrame} /\ UNCHANGED <<active, list, late, listed, selected>>
    BY <1>9 DEF FrameLoads, BehindLoads
  <2>3. frame' \in Frames /\ (frame'.st = "doc" => frame'.era = record.era)
    BY <1>1, <2>1, FrameFacts
  <2>4. PreviewIsCurrent'
    BY <1>1, <1>2, <2>2, <2>3 DEF PreviewIsCurrent
  <2>. QED
    BY <1>1, <1>2, <2>2, <2>3, <2>4, FrameFacts DEF ListInv, PreviewTypeOK
<1> QED
  BY <1>3, <1>4, <1>5, <1>6, <1>7, <1>8, <1>9 DEF ListNext

LEMMA ListKept ==
    ASSUME ListInv, acked' = acked, UNCHANGED previewVars
    PROVE  ListInv'
BY DEF ListInv, PreviewTypeOK, PreviewIsCurrent, previewVars

-----------------------------------------------------------------------------
(* The driver station                                                      *)

Station == [focused : BOOLEAN, visible : BOOLEAN, keys : States,
            mode : {"controller", "keyboard"}]
Channel == [line : [Eras -> LineStates], sock : Eras \cup {NoLine},
            timer : Eras \cup {NoLine}, selected : BOOLEAN,
            last : States \cup {"none"}]
Robots  == States \cup {"off"}

\* HeldIsCaptured of a driver station that is there (m), of its state and of
\* whether one was unmounted under a key that is still held.
CapturedBy(m, st, o) ==
    st.keys = "held" => (m /\ st.visible /\ st.mode = "keyboard" /\ st.focused) \/ o

LEMMA ControlsAre ==
    ControlsInv <=> /\ station \in Station /\ channel \in Channel
                    /\ robot \in Robots /\ orphaned \in BOOLEAN
                    /\ CapturedBy(Mounted, station, orphaned)
<1>1. HeldOnlyWhenCaptured <=> CapturedBy(Mounted, station, orphaned)
  BY Zenon DEF HeldOnlyWhenCaptured, HeldIsCaptured, Captures, Keyboard, CapturedBy
<1>2. ControlsTypeOK(Eras) <=> /\ station \in Station /\ channel \in Channel
                               /\ robot \in Robots /\ orphaned \in BOOLEAN
  BY DEF ControlsTypeOK, Station, Channel, Robots, Eras
<1> QED
  BY <1>1, <1>2, Zenon DEF ControlsInv

LEMMA ControlsNextAre ==
    ControlsInv' <=> /\ station' \in Station /\ channel' \in Channel
                     /\ robot' \in Robots /\ orphaned' \in BOOLEAN
                     /\ CapturedBy(Mounted', station', orphaned')
<1>1. HeldOnlyWhenCaptured' <=> CapturedBy(Mounted', station', orphaned')
  BY Zenon DEF HeldOnlyWhenCaptured, HeldIsCaptured, Captures, Keyboard, CapturedBy
<1>2. ControlsTypeOK(Eras)' <=> /\ station' \in Station /\ channel' \in Channel
                               /\ robot' \in Robots /\ orphaned' \in BOOLEAN
  BY DEF ControlsTypeOK, Station, Channel, Robots, Eras
<1> QED
  BY <1>1, <1>2, Zenon DEF ControlsInv

\* What a step of the driver station leaves of a key that was set apart.
LEMMA OrphanIs ==
    ASSUME orphaned \in BOOLEAN, OrphanStays
    PROVE  orphaned' \in BOOLEAN /\ (orphaned /\ station'.keys = "held" => orphaned')
BY DEF OrphanStays

LEMMA BridgedIs ==
    ASSUME channel \in Channel, robot \in Robots, NEW state \in States, NEW soon,
           Bridged(state, soon) \/ UNCHANGED <<channel, robot>>
    PROVE  channel' \in Channel /\ robot' \in Robots
<1>1. [channel EXCEPT !.last = state] \in Channel
  BY DEF Channel
<1> QED
  BY <1>1 DEF Bridged, Robots

LEMMA ReleasedIs ==
    ASSUME station \in Station
    PROVE  /\ Released(station) \in Station
           /\ Released(station).mode = station.mode
           /\ Released(station).keys = IF Keyboard THEN "neutral" ELSE station.keys
BY DEF Station, States, Released

\* A line that connects, and one that closes.
LEMMA LineIs ==
    ASSUME channel \in Channel, NEW l \in Eras
    PROVE  /\ Connects(l) \in Channel
           /\ [Connects(l) EXCEPT !.timer = IF @ = l THEN NoLine ELSE @] \in Channel
           /\ LineCloses(l) => channel' \in Channel
           /\ robot \in Robots => SessionDropped(l) \subseteq Robots
<1>1. /\ channel.line \in [Eras -> LineStates] /\ channel.timer \in Eras \cup {NoLine}
      /\ channel.sock \in Eras \cup {NoLine}
  BY DEF Channel
<1>2. \A st \in LineStates : [channel.line EXCEPT ![l] = st] \in [Eras -> LineStates]
  BY <1>1
<1>3. "opening" \in LineStates /\ "waiting" \in LineStates
  BY DEF LineStates
<1>4. Connects(l) \in Channel /\ Connects(l).timer = channel.timer
  BY <1>1, <1>2, <1>3 DEF Connects, Channel
<1>5. [Connects(l) EXCEPT !.timer = IF @ = l THEN NoLine ELSE @] \in Channel
  BY <1>1, <1>4 DEF Channel
<1>6. ASSUME LineCloses(l) PROVE channel' \in Channel
  <2>1. (IF channel.sock = l THEN NoLine ELSE channel.sock) \in Eras \cup {NoLine}
    BY <1>1
  <2>. QED
    BY <1>1, <1>2, <1>3, <1>6, <2>1 DEF LineCloses, Channel
<1>7. robot \in Robots => SessionDropped(l) \subseteq Robots
  BY DEF SessionDropped, Robots
<1> QED
  BY <1>4, <1>5, <1>6, <1>7

LEMMA ControlsKept ==
    ASSUME ControlsInv, Mounted' = Mounted, UNCHANGED controlVars
    PROVE  ControlsInv'
<1>1. station' = station /\ channel' = channel /\ robot' = robot /\ orphaned' = orphaned
  BY DEF controlVars
<1> QED
  BY <1>1, ControlsAre, ControlsNextAre

\* Keys that are not captured any more are released, if they were not set apart.
LEMMA BlurKeeps ==
    ASSUME ControlsInv, Mounted' = Mounted, NEW soon, Blur(soon)
    PROVE  ControlsInv'
<1>1. /\ station \in Station /\ channel \in Channel /\ robot \in Robots
      /\ orphaned \in BOOLEAN /\ CapturedBy(Mounted, station, orphaned)
      /\ "neutral" \in States
  BY ControlsAre DEF States
<1>2. station' = Released(station) /\ OrphanStays /\ Bridged("neutral", soon)
  BY DEF Blur
<1>3. channel' \in Channel /\ robot' \in Robots
  BY <1>1, <1>2, BridgedIs
<1>4. station' \in Station /\ CapturedBy(Mounted', station', orphaned')
  BY <1>1, <1>2, ReleasedIs, OrphanIs DEF CapturedBy, Keyboard
<1> QED
  BY <1>1, <1>2, <1>3, <1>4, OrphanIs, ControlsNextAre

LEMMA ChannelKeeps ==
    ASSUME ControlsInv, Mounted' = Mounted,
           \/ \E l \in Eras : LineNext(l) \/ ChannelLost(l)
           \/ Renders
    PROVE  ControlsInv'
<1>1. /\ station \in Station /\ channel \in Channel /\ robot \in Robots
      /\ orphaned \in BOOLEAN /\ CapturedBy(Mounted, station, orphaned)
      /\ station.keys \in States
  BY ControlsAre DEF Station
<1>2. UNCHANGED <<station, orphaned>>
  BY DEF LineNext, TimerFires, ChannelOpens, CloseHeard, ChannelLost, Renders
<1>3. channel' \in Channel /\ robot' \in Robots
  <2>1. ASSUME NEW l \in Eras, TimerFires(l) PROVE channel' \in Channel /\ robot' \in Robots
    BY <1>1, <2>1, LineIs DEF TimerFires
  <2>2. ASSUME NEW l \in Eras, ChannelOpens(l) PROVE channel' \in Channel /\ robot' \in Robots
    <3>1. "open" \in LineStates /\ channel.last \in States \cup {"none"}
          /\ channel.line \in [Eras -> LineStates]
      BY <1>1 DEF LineStates, Channel
    <3>2. (IF channel.selected THEN "none" ELSE channel.last) \in States \cup {"none"}
          /\ [channel.line EXCEPT ![l] = "open"] \in [Eras -> LineStates]
      BY <3>1
    <3>3. channel' \in Channel
      BY <1>1, <2>2, <3>2 DEF ChannelOpens, Channel
    <3>4. robot' \in Robots
      BY <1>1, <2>2 DEF ChannelOpens, Robots, States
    <3>. QED
      BY <3>3, <3>4
  <2>3. ASSUME NEW l \in Eras, CloseHeard(l) PROVE channel' \in Channel /\ robot' \in Robots
    BY <1>1, <2>3, LineIs DEF CloseHeard
  <2>4. ASSUME NEW l \in Eras, ChannelLost(l) PROVE channel' \in Channel /\ robot' \in Robots
    BY <1>1, <2>4, LineIs DEF ChannelLost
  <2>5. CASE Renders
    BY <1>1, <2>5, BridgedIs DEF Renders
  <2>. QED
    BY <2>1, <2>2, <2>3, <2>4, <2>5 DEF LineNext
<1> QED
  BY <1>1, <1>2, <1>3, ControlsNextAre

LEMMA ControlsKeep ==
    ASSUME ControlsInv, Mounted' = Mounted,
           \/ \E soon \in BOOLEAN :
                 \/ KeyDown(Mounted, soon) \/ KeyUp(Mounted, soon)
                 \/ Blur(soon) \/ Hide(soon)
           \/ Focus(Mounted) \/ Show
           \/ PickKeyboard(Mounted) \/ PickController(Mounted)
    PROVE  ControlsInv'
<1>1. /\ station \in Station /\ channel \in Channel /\ robot \in Robots
      /\ orphaned \in BOOLEAN /\ CapturedBy(Mounted, station, orphaned)
      /\ "held" \in States /\ "neutral" \in States
      /\ station.keys \in States
  BY ControlsAre DEF States, Station
<1>2. ASSUME NEW soon \in BOOLEAN, KeyDown(Mounted, soon) PROVE ControlsInv'
  <2>1. Captures(Mounted) /\ station' = [station EXCEPT !.keys = "held"]
        /\ Bridged("held", soon) /\ OrphanStays
    BY <1>2 DEF KeyDown
  <2>2. channel' \in Channel /\ robot' \in Robots
    BY <1>1, <2>1, BridgedIs
  <2>3. station' \in Station /\ CapturedBy(Mounted, station', orphaned')
    BY <1>1, <2>1 DEF Captures, Keyboard, CapturedBy, Station
  <2>. QED
    BY <1>1, <2>1, <2>2, <2>3, OrphanIs, ControlsNextAre
<1>3. ASSUME NEW soon \in BOOLEAN, KeyUp(Mounted, soon) PROVE ControlsInv'
  <2>1. station' = [station EXCEPT !.keys = "neutral"]
        /\ Bridged("neutral", soon) /\ OrphanStays
    BY <1>3 DEF KeyUp
  <2>2. channel' \in Channel /\ robot' \in Robots
    BY <1>1, <2>1, BridgedIs
  <2>3. station' \in Station /\ CapturedBy(Mounted, station', orphaned')
    BY <1>1, <2>1 DEF CapturedBy, Station
  <2>. QED
    BY <1>1, <2>1, <2>2, <2>3, OrphanIs, ControlsNextAre
<1>4. ASSUME NEW soon \in BOOLEAN, Blur(soon) PROVE ControlsInv'
  BY <1>4, BlurKeeps
<1>5. ASSUME NEW soon \in BOOLEAN, Hide(soon) PROVE ControlsInv'
  <2> DEFINE left == IF station.focused THEN Released(station) ELSE station
  <2>1. station' = [left EXCEPT !.visible = FALSE] /\ OrphanStays
        /\ (Bridged("neutral", soon) \/ UNCHANGED <<channel, robot>>)
    BY <1>5 DEF Hide
  <2>2. channel' \in Channel /\ robot' \in Robots
    BY <1>1, <2>1, BridgedIs
  <2>3. left \in Station
    BY <1>1, ReleasedIs
  <2>4. left.keys = "held" => orphaned
    BY <1>1, ReleasedIs DEF CapturedBy, Keyboard
  <2> HIDE DEF left
  <2>5. station' \in Station /\ station'.keys = left.keys
    BY <2>1, <2>3 DEF Station
  <2>6. CapturedBy(Mounted, station', orphaned')
    BY <1>1, <2>1, <2>4, <2>5, OrphanIs DEF CapturedBy
  <2>. QED
    BY <1>1, <2>1, <2>2, <2>5, <2>6, OrphanIs, ControlsNextAre
<1>6. CASE Focus(Mounted) \/ Show
  <2>1. PICK s2 \in Station :
           station' = s2 /\ s2.keys = station.keys /\ s2.mode = station.mode
           /\ (station.visible => s2.visible) /\ (station.focused => s2.focused)
    <3>1. CASE Focus(Mounted)
      <4>1. station' = [station EXCEPT !.focused = TRUE]
        BY <3>1 DEF Focus
      <4>2. station' \in Station
        BY <1>1, <4>1 DEF Station
      <4>3. /\ station'.keys = station.keys /\ station'.mode = station.mode
            /\ station'.visible = station.visible /\ station'.focused = TRUE
        BY <1>1, <4>1 DEF Station
      <4>. QED
        BY <4>2, <4>3
    <3>2. CASE Show
      <4>1. station' = [station EXCEPT !.visible = TRUE]
        BY <3>2 DEF Show
      <4>2. station' \in Station
        BY <1>1, <4>1 DEF Station
      <4>3. /\ station'.keys = station.keys /\ station'.mode = station.mode
            /\ station'.focused = station.focused /\ station'.visible = TRUE
        BY <1>1, <4>1 DEF Station
      <4>. QED
        BY <4>2, <4>3
    <3>. QED
      BY <1>6, <3>1, <3>2
  <2>2. UNCHANGED <<channel, robot, orphaned>>
    BY <1>6 DEF Focus, Show
  <2>3. CapturedBy(Mounted, station', orphaned')
    BY <1>1, <2>1, <2>2 DEF CapturedBy
  <2>. QED
    BY <1>1, <2>1, <2>2, <2>3, ControlsNextAre
<1>7. CASE PickKeyboard(Mounted) \/ PickController(Mounted)
  <2>1. PICK m \in {"controller", "keyboard"} : Picks(Mounted, m)
    BY <1>7 DEF PickKeyboard, PickController
  <2>2. station' = [station EXCEPT !.mode = m, !.keys = "neutral", !.focused = TRUE]
        /\ OrphanStays
    BY <2>1 DEF Picks
  <2>3. PICK sel \in BOOLEAN, l \in {"neutral", "none"} :
           channel' = [channel EXCEPT !.selected = sel, !.last = l]
    BY <1>7 DEF PickKeyboard, PickController
  <2>4. robot' \in Robots
    BY <1>1, <1>7 DEF PickKeyboard, PickController, Robots
  <2>5. station' \in Station /\ station'.keys = "neutral"
    BY <1>1, <2>2 DEF Station
  <2>6. channel' \in Channel
    BY <1>1, <2>3 DEF Channel
  <2>7. CapturedBy(Mounted, station', orphaned')
    BY <2>5 DEF CapturedBy
  <2>. QED
    BY <1>1, <2>2, <2>4, <2>5, <2>6, <2>7, OrphanIs, ControlsNextAre
<1> QED
  BY <1>2, <1>3, <1>4, <1>5, <1>6, <1>7

(* A key that is held when the driver station is unmounted is set apart;   *)
(* one that comes back had nothing held but such a key.                    *)
LEMMA LayoutKeeps ==
    ASSUME ControlsInv, NEW n \in Eras,
           Mounted /\ ~ Mounted' => Unmounts,
           ~ Mounted /\ Mounted' => Mounts(n),
           Mounted = Mounted' =>
               (\E soon \in BOOLEAN : Blur(soon)) \/ UNCHANGED controlVars
    PROVE  ControlsInv'
<1>0. Mounted \in BOOLEAN /\ Mounted' \in BOOLEAN
  BY DEF Mounted
<1>1. /\ station \in Station /\ channel \in Channel /\ robot \in Robots
      /\ orphaned \in BOOLEAN /\ CapturedBy(Mounted, station, orphaned)
  BY ControlsAre
<1>2. CASE Mounted /\ ~ Mounted'
  <2>1. Unmounts
    BY <1>2
  <2>2. station' = [station EXCEPT !.focused = FALSE]
        /\ orphaned' = (station.keys = "held")
    BY <2>1 DEF Unmounts
  <2>3. station' \in Station /\ station'.keys = station.keys
    BY <1>1, <2>2 DEF Station
  <2>4. channel' \in Channel
    <3>1. channel.line \in [Eras -> LineStates] /\ "closing" \in LineStates
          /\ "none" \in LineStates
      BY <1>1 DEF Channel, LineStates
    <3>2. PICK f \in [Eras -> LineStates] :
             channel' = [channel EXCEPT !.timer = NoLine, !.sock = NoLine, !.line = f]
      <4> DEFINE f == [l \in Eras |-> CASE l = channel.sock  -> "closing"
                                        [] l = channel.timer -> "none"
                                        [] OTHER             -> channel.line[l]]
      <4>1. f \in [Eras -> LineStates]
        BY <3>1
      <4>2. channel' = [channel EXCEPT !.timer = NoLine, !.sock = NoLine, !.line = f]
        BY <1>1, <2>1, <3>1 DEF Unmounts, Channel
      <4>. QED
        BY <4>1, <4>2
    <3>. QED
      BY <1>1, <3>2 DEF Channel
  <2>5. robot' \in Robots
    <3>1. channel.sock \in Eras \cup {NoLine}
      BY <1>1 DEF Channel
    <3>. QED
      BY <1>1, <2>1, <3>1, LineIs DEF Unmounts
  <2>6. orphaned' \in BOOLEAN /\ CapturedBy(Mounted', station', orphaned')
    BY <2>2, <2>3 DEF CapturedBy
  <2>. QED
    BY <2>3, <2>4, <2>5, <2>6, ControlsNextAre
<1>3. CASE ~ Mounted /\ Mounted'
  <2>1. channel' = Connects(n) /\ UNCHANGED <<station, robot, orphaned>>
    BY <1>3 DEF Mounts
  <2>. QED
    BY <1>1, <1>3, <2>1, LineIs, ControlsNextAre DEF CapturedBy
<1>4. CASE Mounted = Mounted'
  BY <1>4, BlurKeeps, ControlsKept
<1> QED
  BY <1>0, <1>2, <1>3, <1>4

-----------------------------------------------------------------------------
(* The page                                                                *)

LEMMA InitIInv == Init => IInv
<1> SUFFICES ASSUME Init PROVE IInv
  OBVIOUS
<1>1. /\ record \in Records /\ record.era = 0
      /\ NoRecord \in Records /\ acked = 0 /\ nonce = 0
  <2>1. NoRecord \in Records /\ NoRecord.era = 0
    BY Bounds DEF NoRecord, Records, Kinds
  <2>2. PICK e \in BOOLEAN : record = [NoRecord EXCEPT !.empty = e]
    BY DEF Init, SwapInit
  <2>. QED
    BY <2>1, <2>2 DEF Init, SwapInit, Records
<1>2. <<>> \in Seq(Messages) /\ DOMAIN (<<>>) = {}
  OBVIOUS
<1>3. /\ socks = [s \in Swaps |-> [st |-> "new", q |-> <<>>]]
      /\ jobs = [s \in Swaps |-> [st |-> "none", kind |-> "robot"]]
      /\ \A s \in Swaps : /\ socks[s].st = "new" /\ socks[s].q = <<>>
                          /\ jobs[s].st = "none"
  BY DEF Init, SwapInit
<1>4. SwapTypeOK
  <2>1. socks \in [Swaps -> Socks] /\ jobs \in [Swaps -> Jobs]
    BY <1>2, <1>3 DEF Socks, Jobs, Kinds
  <2>2. swap \in SwapState /\ dialog \in Dialogs
    BY Bounds DEF Init, SwapInit, Idle, SwapState, Dialogs
  <2>3. fetches \in [Eras -> Requested]
    <3>1. Unasked \in Requested /\ [Unasked EXCEPT !.st = "asked"] \in Requested
      BY <1>1 DEF Unasked, Requested
    <3>. QED
      BY <3>1 DEF Init, SwapInit
  <2>4. session \in Sessions
    BY <1>1 DEF Init, SwapInit, Sessions
  <2>5. warned \in BOOLEAN /\ faults \in 0 .. MaxFaults
    <3>1. warned = FALSE /\ faults = 0
      BY DEF Init, SwapInit
    <3>2. warned \in BOOLEAN
      BY <3>1, Zenon
    <3>. QED
      BY <3>1, <3>2
  <2>. QED
    BY <1>1, <2>1, <2>2, <2>3, <2>4, <2>5, Bounds
       DEF SwapTypeOK, Socks, Jobs, SwapState, Dialogs, Requested, Sessions
<1>5. SocketInv /\ MessageInv /\ LastWordInv
  <2>1. swap.sock = 0
    BY DEF Init, SwapInit, Idle
  <2>. QED
    BY <1>2, <1>3, <2>1 DEF SocketInv, MessageInv, LastWordInv, Live, Active, HasDone
<1>6. EraInv
  <2>1. Pending = Swaps /\ Owing = Swaps
    BY <1>3 DEF Pending, Owing
  <2>. QED
    BY <1>1, <2>1, Bounds DEF EraInv
<1>7. FreshInv
  <2>1. fetches[0].st = "asked"
    BY Bounds DEF Init, SwapInit, Unasked
  <2>. QED
    BY <1>1, <2>1 DEF FreshInv, Fresh
<1>8. ListInv
  BY <1>1, ListFacts, FrameFacts
     DEF Init, PreviewInit, ListInv, PreviewTypeOK, PreviewIsCurrent
<1>9. ControlsInv
  <2>1. PICK m \in {"controller", "keyboard"} :
           station = [focused |-> FALSE, visible |-> TRUE, keys |-> "neutral", mode |-> m]
    BY DEF Init, ControlsInit
  <2>2. station \in Station /\ station.keys = "neutral"
    BY <2>1 DEF Station, States
  <2>3. channel \in Channel /\ robot \in Robots /\ orphaned \in BOOLEAN
    BY Bounds DEF Init, ControlsInit, Channel, LineStates, States, Robots
  <2>. QED
    BY <2>2, <2>3, ControlsAre DEF CapturedBy
<1>10. inputs \in 0 .. MaxInputs
  BY PageAssumption DEF Init
<1> QED
  BY <1>4, <1>5, <1>6, <1>7, <1>8, <1>9, <1>10 DEF IInv, SwapInv

LEMMA Layout == session' = session => Mounted' = Mounted
BY DEF Mounted, ConsoleShown, Shown

LEMMA StepIInv == IInv /\ [Next]_vars => IInv'
<1> SUFFICES ASSUME IInv, [Next]_vars PROVE IInv'
  OBVIOUS
<1>1. SwapInv /\ ListInv /\ ControlsInv /\ inputs \in 0 .. MaxInputs
  BY DEF IInv
<1>2. CASE UNCHANGED vars
  <2>1. UNCHANGED swapVars /\ UNCHANGED previewVars /\ UNCHANGED controlVars
        /\ inputs' = inputs
    BY <1>2 DEF vars
  <2>. QED
    BY <1>1, <2>1, UnchangedKeeps, ListKept, ControlsKept, Layout DEF IInv
<1>3. CASE UsesDialog
  <2>1. /\ inputs' \in 0 .. MaxInputs /\ UNCHANGED previewVars
        /\ DialogNext \/ OpenDialog
        /\ UNCHANGED controlVars \/ \E soon \in BOOLEAN : Blur(soon)
    BY <1>1, <1>3, PageAssumption DEF UsesDialog, Input
  <2>2. SwapInv' /\ acked' = acked /\ Mounted' = Mounted
    BY <1>1, <2>1, DialogKeeps, Layout
  <2>3. ListInv'
    BY <1>1, <2>1, <2>2, ListKept
  <2>4. ControlsInv'
    BY <1>1, <2>1, <2>2, ControlsKept, ControlsKeep
  <2>. QED
    BY <2>1, <2>2, <2>3, <2>4 DEF IInv
<1>4. CASE UsesPreview
  <2>1. /\ inputs' \in 0 .. MaxInputs /\ UNCHANGED swapVars /\ UNCHANGED controlVars
        /\ Activate \/ Refresh
    BY <1>1, <1>4, PageAssumption DEF UsesPreview, Input
  <2>2. SwapInv' /\ acked' = acked /\ Mounted' = Mounted
    BY <1>1, <2>1, UnchangedKeeps, Layout
  <2>3. ListInv'
    BY <1>1, <2>1, <2>2, PreviewKeeps
  <2>4. ControlsInv'
    BY <1>1, <2>1, <2>2, ControlsKept
  <2>. QED
    BY <2>1, <2>2, <2>3, <2>4 DEF IInv
<1>5. CASE UsesControls
  <2>1. /\ inputs' \in 0 .. MaxInputs /\ UNCHANGED swapVars /\ UNCHANGED previewVars
    BY <1>1, <1>5, PageAssumption DEF UsesControls, Input
  <2>2. SwapInv' /\ acked' = acked /\ Mounted' = Mounted
    BY <1>1, <2>1, UnchangedKeeps, Layout
  <2>3. ListInv'
    BY <1>1, <2>1, <2>2, ListKept
  <2>4. ControlsInv'
    BY <1>1, <1>5, <2>2, ControlsKeep DEF UsesControls
  <2>. QED
    BY <2>1, <2>2, <2>3, <2>4 DEF IInv
<1>6. ASSUME NEW s \in Swaps, SwapGoesOn(s) PROVE IInv'
  <2>1. /\ UNCHANGED previewVars /\ UNCHANGED controlVars /\ inputs' = inputs
        /\ SocketNext(s) \/ HearNext(s) \/ SocketLost(s) \/ JobNext(s)
    BY <1>6 DEF SwapGoesOn, PageKeeps
  <2>2. SwapInv' /\ acked' = acked /\ Mounted' = Mounted
    BY <1>1, <2>1, SocketKeeps, Layout
  <2>. QED
    BY <1>1, <2>1, <2>2, ListKept, ControlsKept DEF IInv
<1>7. ASSUME NEW s \in Swaps, SwapSucceeds(s) PROVE IInv'
  <2>1. /\ HearDone(s) /\ SwapSeen /\ UNCHANGED controlVars /\ inputs' = inputs
        /\ Mounted' = Mounted
    BY <1>7, Layout DEF SwapSucceeds, HearDone
  <2>2. SwapInv'
    BY <1>1, <2>1, HearsDone
  <2>3. ListInv'
    <3>1. active \in BOOLEAN /\ active' = active /\ Dropped
          /\ IF active THEN Asks ELSE UNCHANGED <<list, late>>
      BY <1>1, <2>1 DEF SwapSeen, ListInv, PreviewTypeOK
    <3>. QED
      BY <1>1, <3>1, DroppedKeeps
  <2>. QED
    BY <1>1, <2>1, <2>2, <2>3, ControlsKept DEF IInv
<1>8. ASSUME NEW n \in Eras, SessionGoesOn(n) PROVE IInv'
  <2>1. SessionNext(n) /\ inputs' = inputs
    BY <1>8 DEF SessionGoesOn
  <2>2. SwapInv' /\ acked' = acked
    BY <1>1, <2>1, SessionKeeps DEF SessionNext, SessionAuthed, SessionAnswered,
          SessionArrives, SessionFails, FetchKeeps
  <2>3. ListInv'
    <3>1. CASE UNCHANGED previewVars
      BY <1>1, <2>2, <3>1, ListKept
    <3>2. CASE Remounts(ConsoleShown')
      <4>1. /\ Dropped /\ active \in BOOLEAN /\ active' \in BOOLEAN
            /\ (~ active' => active' = active)
            /\ IF active' THEN Asks ELSE UNCHANGED <<list, late>>
        BY <1>1, <3>2 DEF Remounts, ListInv, PreviewTypeOK
      <4>. QED
        BY <1>1, <4>1, DroppedKeeps
    <3>. QED
      BY <1>8, <3>1, <3>2 DEF SessionGoesOn
  <2>4. ControlsInv'
    <3>1. /\ Mounted /\ ~ Mounted' => Unmounts
          /\ ~ Mounted /\ Mounted' => Mounts(n)
          /\ Mounted = Mounted' =>
               (\E soon \in BOOLEAN : Blur(soon)) \/ UNCHANGED controlVars
      BY <1>8 DEF SessionGoesOn, Mounted
    <3>. QED
      BY <1>1, <3>1, LayoutKeeps
  <2>. QED
    BY <1>1, <2>1, <2>2, <2>3, <2>4 DEF IInv
<1>9. CASE ListGoesOn \/ FrameGoesOn
  <2>1. /\ ListNext \/ FrameLoads \/ BehindLoads
        /\ UNCHANGED swapVars /\ UNCHANGED controlVars /\ inputs' = inputs
    BY <1>9 DEF ListGoesOn, FrameGoesOn
  <2>2. SwapInv' /\ acked' = acked /\ Mounted' = Mounted
    BY <1>1, <2>1, UnchangedKeeps, Layout
  <2>3. ListInv'
    BY <1>1, <2>1, <2>2, PreviewKeeps
  <2>. QED
    BY <1>1, <2>1, <2>2, <2>3, ControlsKept DEF IInv
<1>10. CASE ListBreaks
  <2>1. /\ ListFails /\ Fault /\ UNCHANGED controlVars /\ inputs' = inputs
        /\ UNCHANGED <<record, jobs, socks, swap, dialog, nonce, acked, session, fetches,
                       warned>>
    BY <1>10 DEF ListBreaks
  <2>2. SwapInv' /\ acked' = acked /\ Mounted' = Mounted
    BY <1>1, <2>1, FaultKeeps, Layout
  <2>3. ListInv'
    BY <1>1, <2>1, <2>2, PreviewKeeps
  <2>. QED
    BY <1>1, <2>1, <2>2, <2>3, ControlsKept DEF IInv
<1>11. CASE ChannelGoesOn \/ Rerenders
  <2>1. /\ (\E l \in Eras : LineNext(l)) \/ Renders
        /\ UNCHANGED swapVars /\ UNCHANGED previewVars /\ inputs' = inputs
    BY <1>11 DEF ChannelGoesOn, Rerenders
  <2>2. SwapInv' /\ acked' = acked /\ Mounted' = Mounted
    BY <1>1, <2>1, UnchangedKeeps, Layout
  <2>3. ControlsInv'
    BY <1>1, <2>1, <2>2, ChannelKeeps
  <2>. QED
    BY <1>1, <2>1, <2>2, <2>3, ListKept DEF IInv
<1>12. CASE ChannelBreaks
  <2>1. /\ (\E l \in Eras : ChannelLost(l)) /\ Fault /\ UNCHANGED previewVars /\ inputs' = inputs
        /\ UNCHANGED <<record, jobs, socks, swap, dialog, nonce, acked, session, fetches,
                       warned>>
    BY <1>12 DEF ChannelBreaks
  <2>2. SwapInv' /\ acked' = acked /\ Mounted' = Mounted
    BY <1>1, <2>1, FaultKeeps, Layout
  <2>3. ControlsInv'
    BY <1>1, <2>1, <2>2, ChannelKeeps
  <2>. QED
    BY <1>1, <2>1, <2>2, <2>3, ListKept DEF IInv
<1> QED
  BY <1>2, <1>3, <1>4, <1>5, <1>6, <1>7, <1>8, <1>9, <1>10, <1>11, <1>12 DEF Next

(* The inductive invariant of the page holds in every reachable state, for *)
(* any number of swaps, lost connections and inputs.                       *)
THEOREM Invariance == Spec => []IInv
BY InitIInv, StepIInv, PTL DEF Spec

(* Every variable of the page keeps its type; in particular the tab is     *)
(* told of no more successes than swaps were started.                      *)
THEOREM TypeCorrect == Spec => []TypeOK
<1>1. IInv => TypeOK
  BY DEF IInv, SwapInv, ListInv, ControlsInv, TypeOK
<1> QED
  BY <1>1, Invariance, PTL

(* At rest the page shows the project that is loaded, or has said that     *)
(* something went wrong (useSession.ts, useProjectSwap.ts).                *)
THEOREM NeverSilent == Spec => []NeverSilentlyStale
<1>1. ASSUME IInv PROVE NeverSilentlyStale
  <2> SUFFICES ASSUME Quiet, ~ warned
               PROVE  session.st = "error" \/ session.rec.era = record.era
    BY DEF NeverSilentlyStale
  <2>1. \A s \in Swaps : socks[s].st # "open"
    BY DEF Quiet
  <2>2. nonce \in Eras /\ fetches[nonce].st \in {"none", "over"}
    BY <1>1 DEF IInv, SwapInv, SwapTypeOK, Quiet
  <2>. QED
    BY <1>1, <2>1, <2>2 DEF IInv, SwapInv, FreshInv, Fresh
<1> QED
  BY <1>1, Invariance, PTL

(* No list and no document of an earlier project is shown after the tab    *)
(* was told of a swap (usePreviewDocuments.ts, PreviewPane.tsx).           *)
THEOREM PreviewCurrent == Spec => []PreviewIsCurrent
<1>1. IInv => PreviewIsCurrent
  BY DEF IInv, ListInv
<1> QED
  BY <1>1, Invariance, PTL

(* A key counts as held only in a driver station that is mounted, shown,   *)
(* focused and in keyboard mode (DriverStation.tsx), or, from when a       *)
(* session unmounts the driver station under it (WorkspacePage.tsx), until *)
(* it is released.                                                         *)
THEOREM KeysAreCaptured == Spec => []HeldOnlyWhenCaptured
<1>1. IInv => HeldOnlyWhenCaptured
  BY DEF IInv, ControlsInv
<1> QED
  BY <1>1, Invariance, PTL

-----------------------------------------------------------------------------
(* Why a swap settles: an open socket has its close under way, or a job    *)
(* that will send it; and while the dialog waits, it waits on such a one,  *)
(* or on one that connects.                                                *)

OpenInv == \A s \in Swaps : socks[s].st = "open" => Closed(s) \/ AtWork(s)
BusyInv == Busy => /\ swap.sock \in Swaps
                   /\ socks[swap.sock].st \in {"connecting", "open"}
WaitInv == OpenInv /\ BusyInv

Shorter(s) ==
    Busy /\ swap.sock = s /\ Busy' =>
        /\ swap'.sock = s
        /\ ToHear(s)' <= ToHear(s)
        /\ Changes(s) => ToHear(s)' < ToHear(s)

WaitStep == WaitInv' /\ \A s \in Swaps : Shorter(s)

LEMMA ToHearIs ==
    ASSUME SwapTypeOK, NEW s \in Swaps
    PROVE  /\ ToDo(s) \in Nat /\ Len(socks[s].q) \in Nat /\ ToHear(s) \in Nat
           /\ jobs[s].st = "asked" => ToDo(s) = 6
           /\ jobs[s].st = "working" => ToDo(s) = 4
           /\ jobs[s].st = "replaced" => ToDo(s) = 3
           /\ jobs[s].st = "ended" => ToDo(s) = 0
           /\ socks[s].st = "connecting" => ToHear(s) = 7
           /\ socks[s].st = "open" /\ Closed(s) => ToHear(s) = Len(socks[s].q)
           /\ socks[s].st = "open" /\ ~ Closed(s) =>
                ToHear(s) = Len(socks[s].q) + ToDo(s)
<1>1. socks[s] \in Socks /\ jobs[s] \in Jobs
  BY DEF SwapTypeOK, Socks, Jobs
<1>2. Len(socks[s].q) \in Nat
  BY <1>1 DEF Socks
<1>3. /\ ToDo(s) \in Nat
      /\ jobs[s].st = "asked" => ToDo(s) = 6
      /\ jobs[s].st = "working" => ToDo(s) = 4
      /\ jobs[s].st = "replaced" => ToDo(s) = 3
      /\ jobs[s].st = "ended" => ToDo(s) = 0
  BY <1>1 DEF ToDo, Jobs
<1> QED
  BY <1>1, <1>2, <1>3 DEF ToHear

\* A step that touches nothing a swap waits on.
LEMMA WaitAsIs ==
    ASSUME SwapTypeOK, WaitInv, UNCHANGED <<socks, jobs, swap>>
    PROVE  WaitStep
<1>1. WaitInv'
  BY DEF WaitInv, OpenInv, BusyInv, Busy, Closed, AtWork
<1>2. \A s \in Swaps : ToHear(s)' = ToHear(s)
  BY DEF ToHear, ToDo, Closed
<1>3. \A s \in Swaps : ToHear(s) \in Nat
  BY ToHearIs
<1> QED
  BY <1>1, <1>2, <1>3 DEF WaitStep, Shorter, Changes

\* A step of the open socket s, on which the page may wait.
LEMMA WaitAt ==
    ASSUME SwapInv, WaitInv, NEW s \in Swaps,
           socks[s].st = "open", socks'[s].st = "open", swap'.sock = swap.sock,
           \A t \in Swaps : t # s => socks'[t] = socks[t] /\ jobs'[t].st = jobs[t].st,
           Closed(s)' \/ AtWork(s)',
           ToHear(s)' <= ToHear(s),
           Changes(s) => ToHear(s)' < ToHear(s)
    PROVE  WaitStep
<1>1. swap.sock = s
  BY DEF SwapInv, SocketInv
<1>2. OpenInv'
  BY DEF WaitInv, OpenInv, Closed, AtWork
<1>3. BusyInv'
  BY <1>1 DEF BusyInv
<1>4. \A t \in Swaps : Shorter(t)
  BY <1>1 DEF Shorter
<1> QED
  BY <1>2, <1>3, <1>4 DEF WaitStep, WaitInv

\* A job that goes on after the tab let go of its socket.
LEMMA WaitAside ==
    ASSUME SwapInv, WaitInv, NEW s \in Swaps, socks[s].st \notin {"connecting", "open"},
           socks' = socks, swap' = swap,
           \A t \in Swaps : t # s => jobs'[t].st = jobs[t].st
    PROVE  WaitStep
<1>1. WaitInv'
  BY DEF WaitInv, OpenInv, BusyInv, Busy, Closed, AtWork
<1>2. SwapTypeOK
  BY DEF SwapInv
<1>3. ASSUME NEW t \in Swaps PROVE Shorter(t)
  <2>1. CASE t = s
    BY <2>1 DEF Shorter, WaitInv, BusyInv
  <2>2. CASE t # s
    <3>1. ToHear(t)' = ToHear(t)
      <4>1. jobs'[t].st = jobs[t].st
        BY <2>2
      <4>2. ToDo(t)' = ToDo(t)
        BY <4>1 DEF ToDo
      <4>3. Closed(t)' <=> Closed(t)
        BY DEF Closed
      <4>. QED
        BY <4>2, <4>3 DEF ToHear
    <3>2. ToHear(t) \in Nat
      BY <1>2, ToHearIs
    <3>. QED
      BY <3>1, <3>2 DEF Shorter, Changes
  <2>. QED
    BY <2>1, <2>2
<1> QED
  BY <1>1, <1>3 DEF WaitStep

\* A step after which the dialog does not wait.
LEMMA WaitOver ==
    ASSUME WaitInv, ~ Busy', OpenInv'
    PROVE  WaitStep
BY DEF WaitStep, WaitInv, BusyInv, Shorter

\* What is taken off a socket is not its close.
LEMMA TakenOff ==
    ASSUME SwapTypeOK, NEW s \in Swaps, NEW type \in {"hello", "done", "failed", "error"},
           Arrives(s, type), Taken(s)
    PROVE  /\ socks[s].st = "open" /\ socks'[s].st = "open"
           /\ \A t \in Swaps : t # s => socks'[t] = socks[t]
           /\ Closed(s)' <=> Closed(s)
           /\ Len(socks'[s].q) = Len(socks[s].q) - 1 /\ Len(socks'[s].q) \in Nat
           /\ Len(socks[s].q) \in Nat
<1> DEFINE q == socks[s].q
<1>1. socks \in [Swaps -> Socks] /\ q \in Seq(Messages) /\ q # <<>>
      /\ socks[s].st = "open" /\ Head(q).type # "close"
  BY DEF SwapTypeOK, Socks, Arrives
<1>2. /\ \A t \in Swaps : socks'[t].st = socks[t].st
      /\ \A t \in Swaps : t # s => socks'[t] = socks[t]
      /\ socks'[s].q = Tail(q)
  BY <1>1, Takes
<1>3. /\ Len(q) \in Nat /\ Len(Tail(q)) = Len(q) - 1 /\ Len(Tail(q)) \in Nat
      /\ DOMAIN q = 1 .. Len(q) /\ DOMAIN Tail(q) = 1 .. Len(q) - 1
      /\ q[1].type # "close"
      /\ \A i \in 1 .. Len(q) - 1 : Tail(q)[i] = q[i + 1]
  BY <1>1
<1>4. ASSUME NEW i \in DOMAIN q, q[i].type = "close"
      PROVE  \E k \in DOMAIN Tail(q) : Tail(q)[k].type = "close"
  <2>1. i - 1 \in DOMAIN Tail(q) /\ Tail(q)[i - 1] = q[i]
    BY <1>3, <1>4
  <2>. QED
    BY <1>4, <2>1
<1>5. ASSUME NEW k \in DOMAIN Tail(q), Tail(q)[k].type = "close"
      PROVE  \E i \in DOMAIN q : q[i].type = "close"
  <2>1. k + 1 \in DOMAIN q /\ q[k + 1] = Tail(q)[k]
    BY <1>3
  <2>. QED
    BY <1>5, <2>1
<1>6. Closed(s)' <=> Closed(s)
  BY <1>2, <1>4, <1>5 DEF Closed
<1> QED
  BY <1>1, <1>2, <1>3, <1>6

\* So a message that is heard is one less to hear.
LEMMA OneLess ==
    ASSUME SwapInv, SwapTypeOK', NEW s \in Swaps,
           NEW type \in {"hello", "done", "failed", "error"},
           Arrives(s, type), Taken(s), jobs' = jobs
    PROVE  ToHear(s)' < ToHear(s)
<1>1. SwapTypeOK
  BY DEF SwapInv
<1>2. /\ socks[s].st = "open" /\ socks'[s].st = "open" /\ (Closed(s)' <=> Closed(s))
      /\ Len(socks'[s].q) = Len(socks[s].q) - 1 /\ Len(socks'[s].q) \in Nat
      /\ Len(socks[s].q) \in Nat
  BY <1>1, TakenOff
<1>3. ToDo(s)' = ToDo(s)
  BY DEF ToDo
<1>4. /\ ToDo(s) \in Nat
      /\ ToHear(s) = Len(socks[s].q) + (IF Closed(s) THEN 0 ELSE ToDo(s))
      /\ ToHear(s)' = Len(socks'[s].q) + (IF Closed(s)' THEN 0 ELSE ToDo(s)')
  <2>1. ToDo(s) \in Nat
    BY <1>1, ToHearIs
  <2>2. ToHear(s) = Len(socks[s].q) + (IF Closed(s) THEN 0 ELSE ToDo(s))
    BY <1>2 DEF ToHear
  <2>3. ToHear(s)' = Len(socks'[s].q) + (IF Closed(s)' THEN 0 ELSE ToDo(s)')
    BY <1>2 DEF ToHear
  <2>. QED
    BY <2>1, <2>2, <2>3
<1>5. CASE Closed(s)
  BY <1>2, <1>4, <1>5
<1>6. CASE ~ Closed(s)
  BY <1>2, <1>3, <1>4, <1>6
<1> QED
  BY <1>5, <1>6

\* What a job sends is put behind what is under way, unless that ends in a close.
LEMMA SentOn ==
    ASSUME SwapTypeOK, NEW s \in Swaps, NEW m \in Seq(Messages),
           socks[s].st = "open",
           socks' = IF Closed(s) THEN socks ELSE [socks EXCEPT ![s].q = @ \o m]
    PROVE  /\ \A t \in Swaps : t # s => socks'[t] = socks[t]
           /\ socks'[s].st = "open"
           /\ Closed(s) => socks'[s] = socks[s]
           /\ ~ Closed(s) => /\ Len(socks'[s].q) = Len(socks[s].q) + Len(m)
                             /\ Closed(s)' <=> \E j \in 1 .. Len(m) : m[j].type = "close"
<1> DEFINE q == socks[s].q
<1>1. socks \in [Swaps -> Socks] /\ q \in Seq(Messages) /\ socks[s] \in Socks
  BY DEF SwapTypeOK, Socks
<1>2. CASE Closed(s)
  BY <1>2
<1>3. CASE ~ Closed(s)
  <2>1. q \o m \in Seq(Messages)
    BY <1>1
  <2>2. socks' = [socks EXCEPT ![s] = [socks[s] EXCEPT !.q = q \o m]]
    BY <1>3
  <2>3. socks'[s].q = q \o m /\ socks'[s].st = "open"
        /\ \A t \in Swaps : t # s => socks'[t] = socks[t]
    BY <1>1, <2>2 DEF Socks
  <2>4. /\ Len(q \o m) = Len(q) + Len(m) /\ Len(q) \in Nat /\ Len(m) \in Nat
        /\ DOMAIN (q \o m) = 1 .. Len(q) + Len(m) /\ DOMAIN q = 1 .. Len(q)
        /\ \A j \in 1 .. Len(m) : (q \o m)[Len(q) + j] = m[j]
    BY <1>1
  <2>5. ASSUME NEW j \in 1 .. Len(m), m[j].type = "close" PROVE Closed(s)'
    <3>1. Len(q) + j \in DOMAIN (q \o m) /\ (q \o m)[Len(q) + j].type = "close"
      <4>1. (q \o m)[Len(q) + j] = m[j]
        BY <2>4
      <4>2. Len(q) + j \in 1 .. Len(q) + Len(m)
        <5>1. Len(q) \in Nat /\ Len(m) \in Nat
          BY <2>4
        <5>2. \A a \in Nat, b \in Nat : \A k \in 1 .. b : a + k \in 1 .. a + b
          OBVIOUS
        <5>. QED
          BY <5>1, <5>2, Zenon
      <4>. QED
        BY <2>4, <2>5, <4>1, <4>2
    <3>2. \E i \in DOMAIN (q \o m) : (q \o m)[i].type = "close"
      BY <3>1
    <3>3. \E i \in DOMAIN socks'[s].q : socks'[s].q[i].type = "close"
      BY <2>3, <3>2
    <3>. QED
      BY <3>3 DEF Closed
  <2>6. ASSUME Closed(s)' PROVE \E j \in 1 .. Len(m) : m[j].type = "close"
    <3>0. \E i \in DOMAIN socks'[s].q : socks'[s].q[i].type = "close"
      BY <2>6 DEF Closed
    <3>1. PICK i \in DOMAIN (q \o m) : (q \o m)[i].type = "close"
      BY <2>3, <3>0
    <3>2. ~ (i \in DOMAIN q /\ (q \o m)[i] = q[i])
      BY <1>3, <3>1 DEF Closed
    <3>. QED
      BY <1>1, <3>1, <3>2, Appended
  <2>. QED
    BY <1>3, <2>3, <2>4, <2>5, <2>6
<1> QED
  BY <1>2, <1>3

\* The types a job sends, as the messages they become.
LEMMA SendsIs ==
    ASSUME SwapTypeOK, NEW s \in Swaps, NEW r \in Records
    PROVE  /\ Sends(s, <<"hello">>, r) =>
                 \/ socks[s].st # "open" /\ socks' = socks
                 \/ /\ socks[s].st = "open"
                    /\ \E m \in Seq(Messages) :
                          /\ Len(m) = 1 /\ m[1].type = "hello"
                          /\ socks' = IF Closed(s) THEN socks
                                      ELSE [socks EXCEPT ![s].q = @ \o m]
           /\ \A type \in {"error", "failed", "done"} :
                 Sends(s, <<type, "close">>, r) =>
                     \/ socks[s].st # "open" /\ socks' = socks
                     \/ /\ socks[s].st = "open"
                        /\ \E m \in Seq(Messages) :
                              /\ Len(m) = 2 /\ m[2].type = "close"
                              /\ socks' = IF Closed(s) THEN socks
                                          ELSE [socks EXCEPT ![s].q = @ \o m]
<1>1. ASSUME Sends(s, <<"hello">>, r), socks[s].st = "open"
      PROVE  \E m \in Seq(Messages) :
                /\ Len(m) = 1 /\ m[1].type = "hello"
                /\ socks' = IF Closed(s) THEN socks ELSE [socks EXCEPT ![s].q = @ \o m]
  <2> DEFINE m == [i \in DOMAIN <<"hello">> |-> Message(<<"hello">>[i], r)]
  <2>1. Message("hello", r) \in Messages /\ Message("hello", r).type = "hello"
    BY DEF Message, Messages, Records
  <2>2. m = <<Message("hello", r)>>
    OBVIOUS
  <2>3. m \in Seq(Messages) /\ Len(m) = 1 /\ m[1].type = "hello"
    BY <2>1, <2>2
  <2>4. socks' = IF Closed(s) THEN socks ELSE [socks EXCEPT ![s].q = @ \o m]
    BY <1>1 DEF Sends
  <2> HIDE DEF m
  <2>. QED
    BY <2>3, <2>4
<1>2. ASSUME NEW type \in {"error", "failed", "done"}, Sends(s, <<type, "close">>, r),
             socks[s].st = "open"
      PROVE  \E m \in Seq(Messages) :
                /\ Len(m) = 2 /\ m[2].type = "close"
                /\ socks' = IF Closed(s) THEN socks ELSE [socks EXCEPT ![s].q = @ \o m]
  <2> DEFINE m == [i \in DOMAIN <<type, "close">> |-> Message(<<type, "close">>[i], r)]
  <2>1. /\ Message(type, r) \in Messages /\ Message("close", r) \in Messages
        /\ Message("close", r).type = "close"
    BY DEF Message, Messages, Records
  <2>2. m = <<Message(type, r), Message("close", r)>>
    OBVIOUS
  <2>3. m \in Seq(Messages) /\ Len(m) = 2 /\ m[2].type = "close"
    BY <2>1, <2>2
  <2>4. socks' = IF Closed(s) THEN socks ELSE [socks EXCEPT ![s].q = @ \o m]
    BY <1>2 DEF Sends
  <2> HIDE DEF m
  <2>. QED
    BY <2>3, <2>4
<1>3. \A types : Sends(s, types, r) /\ socks[s].st # "open" => socks' = socks
  BY DEF Sends
<1> QED
  BY <1>1, <1>2, <1>3

\* A job's step on the open socket s, from what it had to do to what it has.
LEMMA JobWait ==
    ASSUME SwapInv, SwapTypeOK', WaitInv, NEW s \in Swaps, swap' = swap,
           \A t \in Swaps : t # s => jobs'[t].st = jobs[t].st,
           jobs[s].st # "none",
           \/ socks' = socks /\ ToDo(s)' < ToDo(s) /\ AtWork(s)'
           \/ socks[s].st # "open" /\ socks' = socks
           \/ /\ socks[s].st = "open"
              /\ \E m \in Seq(Messages) :
                    /\ \/ \E j \in 1 .. Len(m) : m[j].type = "close"
                       \/ (~ \E j \in 1 .. Len(m) : m[j].type = "close") /\ AtWork(s)'
                    /\ Len(m) + ToDo(s)' < ToDo(s)
                    /\ socks' = IF Closed(s) THEN socks
                                ELSE [socks EXCEPT ![s].q = @ \o m]
    PROVE  WaitStep
<1>1. SwapTypeOK /\ socks[s].st # "connecting"
  BY DEF SwapInv, SocketInv
<1>2. CASE socks[s].st # "open" /\ socks' = socks
  BY <1>1, <1>2, WaitAside
<1>3. /\ ToDo(s) \in Nat /\ ToDo(s)' \in Nat
      /\ Len(socks[s].q) \in Nat /\ Len(socks'[s].q) \in Nat
  <2>1. ToDo(s) \in Nat /\ Len(socks[s].q) \in Nat
    BY <1>1, ToHearIs
  <2>2. ToDo(s)' \in Nat
    <3>1. jobs' \in [Swaps -> Jobs]
      BY DEF SwapTypeOK, Jobs
    <3>. QED
      BY <3>1 DEF ToDo, Jobs
  <2>3. Len(socks'[s].q) \in Nat
    <3>1. socks' \in [Swaps -> Socks]
      BY DEF SwapTypeOK, Socks
    <3>. QED
      BY <3>1 DEF Socks
  <2>. QED
    BY <2>1, <2>2, <2>3
<1>4. CASE socks[s].st = "open" /\ socks' = socks /\ ToDo(s)' < ToDo(s) /\ AtWork(s)'
  <2>1. Closed(s)' <=> Closed(s)
    BY <1>4 DEF Closed
  <2>2. /\ ToHear(s) = Len(socks[s].q) + (IF Closed(s) THEN 0 ELSE ToDo(s))
        /\ ToHear(s)' = Len(socks[s].q) + (IF Closed(s) THEN 0 ELSE ToDo(s)')
    BY <1>4, <2>1 DEF ToHear
  <2>3. ToHear(s)' <= ToHear(s)
    BY <1>3, <1>4, <2>2
  <2>. QED
    BY <1>4, <2>3, WaitAt DEF Changes
<1>5. ASSUME socks[s].st = "open", NEW m \in Seq(Messages),
             \/ \E j \in 1 .. Len(m) : m[j].type = "close"
             \/ (~ \E j \in 1 .. Len(m) : m[j].type = "close") /\ AtWork(s)',
             Len(m) + ToDo(s)' < ToDo(s),
             socks' = IF Closed(s) THEN socks ELSE [socks EXCEPT ![s].q = @ \o m]
      PROVE  WaitStep
  <2> DEFINE Shut == \E j \in 1 .. Len(m) : m[j].type = "close"
  <2>1. /\ \A t \in Swaps : t # s => socks'[t] = socks[t]
        /\ socks'[s].st = "open"
        /\ Closed(s) => socks'[s] = socks[s]
        /\ ~ Closed(s) => /\ Len(socks'[s].q) = Len(socks[s].q) + Len(m)
                          /\ Closed(s)' <=> Shut
    BY <1>1, <1>5, SentOn
  <2> HIDE DEF Shut
  <2>2. /\ ToHear(s) = Len(socks[s].q) + (IF Closed(s) THEN 0 ELSE ToDo(s))
        /\ ToHear(s)' = Len(socks'[s].q) + (IF Closed(s)' THEN 0 ELSE ToDo(s)')
    <3>1. socks[s].st # "connecting" /\ socks'[s].st # "connecting"
      BY <1>5, <2>1
    <3>. QED
      BY <3>1 DEF ToHear
  <2>3. CASE Closed(s)
    <3>1. Closed(s)'
      BY <2>1, <2>3 DEF Closed
    <3>2. ToHear(s)' <= ToHear(s)
      BY <1>3, <2>1, <2>2, <2>3, <3>1
    <3>. QED
      BY <1>5, <2>1, <2>3, <3>1, <3>2, WaitAt DEF Changes
  <2>4. CASE ~ Closed(s)
    <3>1. Len(m) \in Nat
      OBVIOUS
    <3>2. ToHear(s)' < ToHear(s)
      <4>1. Len(socks'[s].q) = Len(socks[s].q) + Len(m)
        BY <2>1, <2>4
      <4>2. Len(m) + ToDo(s)' < ToDo(s)
        BY <1>5
      <4>3. ToHear(s) = Len(socks[s].q) + ToDo(s)
        BY <2>2, <2>4
      <4>4. ToHear(s)' <= Len(socks'[s].q) + ToDo(s)'
        BY <1>3, <2>2
      <4>5. ToHear(s)' \in Nat
        BY <1>3, <2>2
      <4>. QED
        BY <1>3, <3>1, <4>1, <4>2, <4>3, <4>4, <4>5
    <3>3. Closed(s)' \/ AtWork(s)'
      BY <1>5, <2>1, <2>4 DEF Shut
    <3>4. ToHear(s)' <= ToHear(s)
      <4>1. ToHear(s) \in Nat /\ ToHear(s)' \in Nat
        BY <1>1, <1>3, <2>2, ToHearIs
      <4>. QED
        BY <3>2, <4>1
    <3>. QED
      BY <1>5, <2>1, <3>2, <3>3, <3>4, WaitAt
  <2>. QED
    BY <2>3, <2>4
<1> QED
  BY <1>2, <1>4, <1>5

LEMMA JobsWait ==
    ASSUME SwapInv, SwapTypeOK', WaitInv, NEW s \in Swaps, JobNext(s)
    PROVE  WaitStep
<1>1. /\ SwapTypeOK /\ record \in Records /\ record' \in Records
      /\ jobs \in [Swaps -> Jobs] /\ swap' = swap
  BY DEF SwapInv, SwapTypeOK, Jobs, JobNext, JobStarts, JobRefused, JobFails,
         JobReplaces, JobRecords, ClientKeeps
<1>2. ASSUME NEW from, NEW to, Job(s, from, to)
      PROVE  /\ jobs[s].st = from /\ jobs'[s].st = to
             /\ \A t \in Swaps : t # s => jobs'[t].st = jobs[t].st
  <2>1. jobs[s].st = from /\ jobs' = [jobs EXCEPT ![s] = [jobs[s] EXCEPT !.st = to]]
    BY <1>2 DEF Job
  <2>2. [jobs[s] EXCEPT !.st = to].st = to
    BY <1>1 DEF Jobs
  <2>. QED
    BY <1>1, <2>1, <2>2
<1>3. CASE JobStarts(s)
  <2>1. /\ jobs[s].st = "asked" /\ jobs'[s].st = "working"
        /\ \A t \in Swaps : t # s => jobs'[t].st = jobs[t].st
        /\ Sends(s, <<"hello">>, record)
    BY <1>2, <1>3 DEF JobStarts
  <2>2. ToDo(s) = 6 /\ ToDo(s)' = 4 /\ AtWork(s)'
    BY <2>1 DEF ToDo, AtWork
  <2>3. ASSUME NEW m \in Seq(Messages), Len(m) = 1, m[1].type = "hello"
        PROVE  /\ ~ \E j \in 1 .. Len(m) : m[j].type = "close"
               /\ Len(m) + ToDo(s)' < ToDo(s)
    <3>1. \A j \in 1 .. Len(m) : j = 1
      BY <2>3
    <3>. QED
      BY <2>2, <2>3, <3>1
  <2>4. \/ socks[s].st # "open" /\ socks' = socks
        \/ /\ socks[s].st = "open"
           /\ \E m \in Seq(Messages) :
                 /\ Len(m) = 1 /\ m[1].type = "hello"
                 /\ socks' = IF Closed(s) THEN socks ELSE [socks EXCEPT ![s].q = @ \o m]
    BY <1>1, <2>1, SendsIs
  <2>5. CASE socks[s].st # "open" /\ socks' = socks
    BY <1>1, <2>1, <2>5, JobWait
  <2>6. ASSUME socks[s].st = "open", NEW m \in Seq(Messages),
               Len(m) = 1, m[1].type = "hello",
               socks' = IF Closed(s) THEN socks ELSE [socks EXCEPT ![s].q = @ \o m]
        PROVE  WaitStep
    <3>1. /\ ~ \E j \in 1 .. Len(m) : m[j].type = "close"
          /\ Len(m) + ToDo(s)' < ToDo(s)
      BY <2>3, <2>6
    <3>. QED
      BY <1>1, <2>1, <2>2, <2>6, <3>1, JobWait
  <2>. QED
    BY <2>4, <2>5, <2>6
<1>4. ASSUME jobs[s].st \in {"asked", "working", "replaced"}, jobs'[s].st = "ended",
             \A t \in Swaps : t # s => jobs'[t].st = jobs[t].st,
             NEW r \in Records, NEW type \in {"error", "failed", "done"},
             Sends(s, <<type, "close">>, r)
      PROVE  WaitStep
  <2>1. ToDo(s) \in {6, 4, 3} /\ ToDo(s)' = 0
    BY <1>4 DEF ToDo
  <2>2. \/ socks[s].st # "open" /\ socks' = socks
        \/ /\ socks[s].st = "open"
           /\ \E m \in Seq(Messages) :
                 /\ Len(m) = 2 /\ m[2].type = "close"
                 /\ socks' = IF Closed(s) THEN socks ELSE [socks EXCEPT ![s].q = @ \o m]
    BY <1>1, <1>4, SendsIs
  <2>3. CASE socks[s].st # "open" /\ socks' = socks
    BY <1>1, <1>4, <2>3, JobWait
  <2>4. ASSUME socks[s].st = "open", NEW m \in Seq(Messages),
               Len(m) = 2, m[2].type = "close",
               socks' = IF Closed(s) THEN socks ELSE [socks EXCEPT ![s].q = @ \o m]
        PROVE  WaitStep
    <3>1. 2 \in 1 .. Len(m) /\ Len(m) + ToDo(s)' < ToDo(s)
      BY <2>1, <2>4
    <3>2. \E j \in 1 .. Len(m) : m[j].type = "close"
      BY <2>4, <3>1
    <3>. QED
      BY <1>1, <1>4, <2>4, <3>1, <3>2, JobWait
  <2>. QED
    BY <2>2, <2>3, <2>4
<1>5. CASE JobRefused(s) \/ JobFails(s)
  BY <1>1, <1>2, <1>4, <1>5 DEF JobRefused, JobFails
<1>6. CASE JobRecords(s)
  BY <1>1, <1>2, <1>4, <1>6 DEF JobRecords
<1>7. CASE JobReplaces(s)
  <2>1. /\ jobs[s].st = "working" /\ jobs'[s].st = "replaced" /\ socks' = socks
        /\ \A t \in Swaps : t # s => jobs'[t].st = jobs[t].st
    BY <1>2, <1>7 DEF JobReplaces
  <2>2. ToDo(s) = 4 /\ ToDo(s)' = 3 /\ AtWork(s)'
    BY <2>1 DEF ToDo, AtWork
  <2>. QED
    BY <1>1, <2>1, <2>2, JobWait
<1> QED
  BY <1>3, <1>5, <1>6, <1>7 DEF JobNext

\* The tab's events.
LEMMA EventsWait ==
    ASSUME SwapInv, SwapTypeOK', WaitInv, NEW s \in Swaps,
           SocketNext(s) \/ HearNext(s) \/ HearDone(s) \/ SocketLost(s)
    PROVE  WaitStep
<1>1. SwapTypeOK /\ socks \in [Swaps -> Socks] /\ jobs \in [Swaps -> Jobs]
      /\ swap \in SwapState
  BY DEF SwapInv, SwapTypeOK, Socks, Jobs, SwapState
<1>2. CASE SocketOpens(s)
  <2>1. /\ socks[s].st = "connecting" /\ swap.sock = s /\ socks[s].q = <<>>
        /\ socks' = [socks EXCEPT ![s].st = "open"]
        /\ jobs' = [jobs EXCEPT ![s].st = "asked"]
        /\ swap' = [swap EXCEPT !.st = "running"]
    BY <1>2 DEF SocketOpens, SwapInv, SocketInv
  <2>2. /\ socks'[s].st = "open" /\ socks'[s].q = <<>>
        /\ \A t \in Swaps : t # s => socks'[t] = socks[t]
    BY <1>1, <2>1 DEF Socks
  <2>3. /\ jobs'[s].st = "asked"
        /\ \A t \in Swaps : t # s => jobs'[t] = jobs[t]
    BY <1>1, <2>1 DEF Jobs
  <2>4. swap'.sock = s
    BY <1>1, <2>1 DEF SwapState
  <2>5. ~ Closed(s)' /\ ToDo(s)' = 6 /\ AtWork(s)'
    BY <2>2, <2>3 DEF Closed, ToDo, AtWork
  <2>6. ToHear(s) = 7 /\ ToHear(s)' = 6
    <3>1. Len(socks'[s].q) = 0
      BY <2>2
    <3>. QED
      BY <2>1, <2>2, <2>5, <3>1 DEF ToHear
  <2>7. WaitInv'
    BY <2>2, <2>3, <2>4, <2>5 DEF WaitInv, OpenInv, BusyInv, Closed, AtWork
  <2>8. \A t \in Swaps : Shorter(t)
    BY <2>1, <2>4, <2>6 DEF Shorter
  <2>. QED
    BY <2>7, <2>8 DEF WaitStep
<1>3. CASE CloseEvent(s) /\ jobs' = jobs
  <2>1. /\ socks' = [socks EXCEPT ![s] = [st |-> "closed", q |-> <<>>]]
        /\ swap'.st = IF Busy THEN "error" ELSE swap.st
    BY <1>3 DEF CloseEvent
  <2>2. ~ Busy'
    BY <2>1 DEF Busy
  <2>3. OpenInv'
    BY <1>1, <1>3, <2>1 DEF WaitInv, OpenInv, Closed, AtWork
  <2>. QED
    BY <2>2, <2>3, WaitOver
<1>4. ASSUME NEW type \in {"hello", "done", "failed", "error"}, Arrives(s, type),
             Taken(s), jobs' = jobs, swap'.sock = swap.sock
      PROVE  WaitStep
  <2>1. /\ socks[s].st = "open" /\ socks'[s].st = "open"
        /\ \A t \in Swaps : t # s => socks'[t] = socks[t]
        /\ Closed(s)' <=> Closed(s)
    BY <1>1, <1>4, TakenOff
  <2>2. ToHear(s)' < ToHear(s)
    BY <1>4, OneLess
  <2>3. ToHear(s) \in Nat /\ ToHear(s)' \in Nat
    <3>1. ToHear(s) \in Nat /\ ToDo(s) \in Nat
      BY <1>1, ToHearIs
    <3>2. ToDo(s)' = ToDo(s)
      BY <1>4 DEF ToDo
    <3>3. Len(socks'[s].q) \in Nat
      BY <1>1, <1>4, TakenOff
    <3>. QED
      BY <3>1, <3>2, <3>3 DEF ToHear
  <2>4. ToHear(s)' <= ToHear(s)
    BY <2>2, <2>3
  <2>5. Closed(s)' \/ AtWork(s)'
    BY <1>4, <2>1 DEF WaitInv, OpenInv, AtWork
  <2>. QED
    BY <1>4, <2>1, <2>2, <2>4, <2>5, WaitAt
<1>5. CASE HearHello(s) \/ HearFailure(s) \/ HearDone(s)
  <2>1. /\ Arrives(s, "hello") \/ Arrives(s, "failed") \/ Arrives(s, "error")
           \/ Arrives(s, "done")
        /\ Taken(s) /\ jobs' = jobs
    BY <1>5 DEF HearHello, HearFailure, HearDone
  <2>2. swap'.sock = swap.sock
    BY <1>1, <1>5 DEF HearHello, HearFailure, HearDone, SwapState
  <2>. QED
    BY <1>4, <2>1, <2>2
<1>6. CASE SocketLost(s)
  <2> DEFINE m == [type |-> "close", era |-> 0]
  <2>1. /\ socks[s].st = "open" /\ jobs' = jobs /\ swap' = swap
        /\ socks' = [socks EXCEPT ![s].q = <<m>>]
    BY <1>6 DEF SocketLost
  <2>2. /\ socks'[s].st = "open" /\ socks'[s].q = <<m>>
        /\ \A t \in Swaps : t # s => socks'[t] = socks[t]
    BY <1>1, <2>1 DEF Socks
  <2>3. Closed(s)'
    <3>1. 1 \in DOMAIN socks'[s].q /\ socks'[s].q[1].type = "close"
      BY <2>2
    <3>. QED
      BY <3>1 DEF Closed
  <2>4. ToHear(s)' = 1 /\ Len(socks'[s].q) = 1
    <3>1. Len(socks'[s].q) = 1
      BY <2>2
    <3>. QED
      BY <2>2, <2>3, <3>1 DEF ToHear
  <2>6. ASSUME Len(socks[s].q) = 1
        PROVE  ~ Changes(s)
    <3>1. socks'[s].st = socks[s].st
      BY <2>1, <2>2
    <3>2. Len(socks'[s].q) = Len(socks[s].q)
      BY <2>4, <2>6
    <3>. QED
      BY <3>1, <3>2 DEF Changes
  <2>5. /\ ToHear(s) \in Nat /\ ToHear(s) >= 1
        /\ Changes(s) => ToHear(s) > 1
    \* More than a close is under way, or a job is at work.
    <3> DEFINE q == socks[s].q
    <3>1. q \in Seq(Messages) /\ Len(q) \in Nat
      BY <1>1 DEF Socks
    <3>2. CASE ~ Closed(s)
      <4>1. ToDo(s) >= 3 /\ ToDo(s) \in Nat
        BY <2>1, <3>2 DEF WaitInv, OpenInv, AtWork, ToDo
      <4>2. ToHear(s) = Len(q) + ToDo(s)
        BY <1>1, <2>1, <3>2, ToHearIs
      <4>3. ToHear(s) \in Nat /\ ToHear(s) > 1
        BY <3>1, <4>1, <4>2
      <4>. QED
        BY <4>3
    <3>3. CASE Closed(s)
      <4>1. PICK i \in DOMAIN q : q[i].type = "close"
        BY <3>3 DEF Closed
      <4>2. ToHear(s) = Len(q) /\ Len(q) >= 1
        BY <1>1, <2>1, <3>1, <3>3, <4>1, ToHearIs
      <4>3. Len(q) = 1 => ~ Changes(s)
        BY <2>6
      <4>4. ToHear(s) \in Nat /\ ToHear(s) >= 1
        BY <3>1, <4>2
      <4>5. ASSUME Changes(s)
            PROVE  ToHear(s) > 1
        <5>1. Len(q) # 1
          BY <4>3, <4>5
        <5>2. ToHear(s) # 1
          BY <4>2, <5>1
        <5>. QED
          BY <4>4, <5>2
      <4>. QED
        BY <4>4, <4>5
    <3>. QED
      BY <3>2, <3>3
  <2>. QED
    BY <2>1, <2>2, <2>3, <2>4, <2>5, WaitAt
<1> QED
  BY <1>2, <1>3, <1>5, <1>6
     DEF SocketNext, HearNext, SocketCloses, SocketRefused, HearClose

\* The dialog: it starts a swap only when none is under way, and lets go of a
\* socket only when it waits for nothing.
LEMMA DialogWaits ==
    ASSUME SwapInv, WaitInv, DialogNext \/ OpenDialog
    PROVE  WaitStep
<1>1. SwapTypeOK /\ socks \in [Swaps -> Socks]
  BY DEF SwapInv, SwapTypeOK, Socks
<1>2. ASSUME NEW k, swap.st = "idle", StartSwap(k)
      PROVE  WaitStep
  <2>1. PICK s \in Swaps :
           /\ socks' = [Closing(socks, swap.sock) EXCEPT ![s].st = "connecting"]
           /\ jobs' = [jobs EXCEPT ![s].kind = k]
           /\ swap' = [st |-> "connecting", ok |-> FALSE, sock |-> s]
    BY <1>2 DEF StartSwap
  <2>2. Closing(socks, swap.sock) = socks
    BY <1>2 DEF SwapInv, SocketInv, Closing
  <2>3. /\ socks'[s].st = "connecting"
        /\ \A t \in Swaps : t # s => socks'[t] = socks[t]
    BY <1>1, <2>1, <2>2 DEF Socks
  <2>4. \A t \in Swaps : t # s => jobs'[t] = jobs[t]
    BY <1>1, <2>1 DEF SwapTypeOK
  <2>5. WaitInv'
    BY <2>1, <2>3, <2>4 DEF WaitInv, OpenInv, BusyInv, Closed, AtWork
  <2>6. \A t \in Swaps : Shorter(t)
    BY <1>2 DEF Shorter, Busy
  <2>. QED
    BY <2>5, <2>6 DEF WaitStep
<1>3. CASE ~ Busy /\ Reset
  <2>1. /\ socks' = Closing(socks, swap.sock) /\ swap' = Idle /\ jobs' = jobs
        /\ swap.sock \in 0 .. MaxSwaps
    BY <1>1, <1>3 DEF Reset, SwapTypeOK
  <2>2. \A t \in Swaps : socks'[t].st # "open" \/ socks'[t] = socks[t]
    BY <1>1, <2>1, Closes
  <2>3. OpenInv'
    BY <2>1, <2>2 DEF WaitInv, OpenInv, Closed, AtWork
  <2>4. ~ Busy'
    BY <2>1 DEF Busy, Idle
  <2>. QED
    BY <2>3, <2>4, WaitOver
<1>4. CASE UNCHANGED <<jobs, socks, swap>>
  BY <1>1, <1>4, WaitAsIs
<1>5. ASSUME NEW k \in Kinds, Choose(k) PROVE WaitStep
  BY <1>2, <1>4, <1>5 DEF Choose, Browsing
<1>6. CASE Confirm
  BY <1>2, <1>6 DEF Confirm, Confirming
<1>7. CASE BackAfterFailure \/ CloseDialog
  BY <1>3, <1>7 DEF BackAfterFailure, CloseDialog, Finished, Busy
<1>8. CASE BackToChoices \/ OpenDialog
  BY <1>4, <1>8 DEF BackToChoices, OpenDialog
<1> QED
  BY <1>5, <1>6, <1>7, <1>8 DEF DialogNext

LEMMA PageWaits ==
    ASSUME IInv, IInv', WaitInv, [Next]_vars
    PROVE  WaitStep
<1>1. SwapInv /\ SwapTypeOK /\ SwapTypeOK'
  BY DEF IInv, SwapInv
<1>2. UNCHANGED <<jobs, socks, swap>> => WaitStep
  BY <1>1, WaitAsIs
<1>3. UNCHANGED swapVars => UNCHANGED <<jobs, socks, swap>>
  BY DEF swapVars
<1>4. UNCHANGED vars => UNCHANGED swapVars
  BY DEF vars
<1>5. UsesDialog => DialogNext \/ OpenDialog
  BY DEF UsesDialog
<1>6. ASSUME NEW s \in Swaps, SwapGoesOn(s) \/ SwapSucceeds(s) PROVE WaitStep
  BY <1>1, <1>6, JobsWait, EventsWait DEF SwapGoesOn, SwapSucceeds
<1>7. ASSUME NEW n \in Eras, SessionGoesOn(n) PROVE UNCHANGED <<jobs, socks, swap>>
  BY <1>7 DEF SessionGoesOn, SessionNext, SessionAuthed, SessionAnswered,
        SessionArrives, SessionFails, FetchKeeps
<1>8. UsesPreview \/ UsesControls \/ ListGoesOn \/ FrameGoesOn \/ ChannelGoesOn \/ Rerenders
         => UNCHANGED swapVars
  BY DEF UsesPreview, UsesControls, ListGoesOn, FrameGoesOn, ChannelGoesOn, Rerenders
<1>9. ListBreaks \/ ChannelBreaks => UNCHANGED <<jobs, socks, swap>>
  BY DEF ListBreaks, ChannelBreaks
<1> QED
  BY <1>1, <1>2, <1>3, <1>4, <1>5, <1>6, <1>7, <1>8, <1>9, DialogWaits DEF Next

LEMMA WaitInit == Init => WaitInv
<1> SUFFICES ASSUME Init PROVE WaitInv
  OBVIOUS
<1>1. \A s \in Swaps : socks[s].st = "new"
  BY DEF Init, SwapInit
<1>2. swap.st = "idle"
  BY DEF Init, SwapInit, Idle
<1> QED
  BY <1>1, <1>2 DEF WaitInv, OpenInv, BusyInv, Busy

(* Together with what is true of the page, the swap that runs is waited for *)
(* on a socket that is open or connects, whose job has not gone away        *)
(* without its answer under way: the invariant behind the two that follow   *)
(* (useProjectSwap.ts, app/websocket.ts).                                   *)
THEOREM WaitInvariance == Spec => [](IInv /\ WaitInv)
<1>1. IInv /\ WaitInv /\ [Next]_vars => (IInv /\ WaitInv)'
  BY StepIInv, PageWaits DEF WaitStep
<1> QED
  BY <1>1, InitIInv, WaitInit, PTL DEF Spec

(* While the dialog waits for the end of a swap, which it cannot be closed *)
(* before, the end is on its way to it: the socket connects, or is open    *)
(* with its close under way or a job that has yet to answer on it          *)
(* (useProjectSwap.ts, SwitchProjectDialog.tsx, app/websocket.ts).         *)
THEOREM WaitsAreAnswered == Spec => []WaitIsAnswered
<1>1. IInv /\ WaitInv => WaitIsAnswered
  BY DEF WaitInv, OpenInv, BusyInv, WaitIsAnswered
<1> QED
  BY <1>1, WaitInvariance, PTL

(* And it comes nearer with every message sent or heard, whatever sockets  *)
(* of earlier swaps, losses and session requests come between.             *)
THEOREM WaitsShorten == Spec => WaitShortens
<1>1. IInv /\ IInv' /\ WaitInv /\ [Next]_vars =>
        [\A s \in Swaps : Busy /\ swap.sock = s /\ Busy' =>
            /\ swap'.sock = s
            /\ ToHear(s)' <= ToHear(s)
            /\ Changes(s) => ToHear(s)' < ToHear(s)]_swapVars
  BY PageWaits DEF WaitStep, Shorter
<1> QED
  BY <1>1, WaitInvariance, PTL DEF Spec, WaitShortens
=============================================================================
