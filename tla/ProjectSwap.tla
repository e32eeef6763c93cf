----------------------------- MODULE ProjectSwap -----------------------------
(***************************************************************************)
(* Switching the project of a workspace, as one browser tab sees it: the   *)
(* dialog (SwitchProjectDialog.tsx), the hook that talks to the import     *)
(* socket (useProjectSwap.ts) and the session record the page fetches      *)
(* again after a swap (useSession.ts), with the server's end of the socket *)
(* (app/websocket.ts) and of the session request.  What a job does to the  *)
(* files, and which of its commands may fail, is ImportManager's.          *)
(*                                                                         *)
(* An era is the number of swaps that succeeded so far; the tab keeps the  *)
(* era of the last one it was told of.  This module has no Next: its       *)
(* actions are composed by WorkspacePage.                                  *)
(***************************************************************************)
EXTENDS Naturals, Sequences

CONSTANTS MaxSwaps,    \* bound: swaps the student starts
          MaxFaults    \* bound: sockets and requests that are lost

ASSUME SwapAssumption == MaxSwaps \in Nat /\ MaxFaults \in Nat

Swaps == 1 .. MaxSwaps          \* their sockets, in the order they are opened
Eras  == 0 .. MaxSwaps
Kinds == {"robot", "console"}   \* what a project is: "plain-java" is console

VARIABLES
    record,   \* server: era, kind of the module, and whether no file is there
    jobs,     \* server: what became of the request of each socket
    socks,    \* sockets and the messages under way to the tab
    swap,     \* useProjectSwap: status, success, socketRef (0 is null)
    dialog,   \* open, and the choice that awaits a confirmation
    nonce,    \* reloadNonce: swaps the tab was told the success of
    acked,    \* era of the last of them
    session,  \* useSession's state
    fetches,  \* its requests, one for each value of reloadNonce
    warned,   \* the dialog said that something went wrong, and no success since
              \* was the last word
    faults

swapVars == <<record, jobs, socks, swap, dialog, nonce, acked, session, fetches,
              warned, faults>>

Records  == [era : Eras, kind : Kinds, empty : BOOLEAN]
Messages == [type : {"hello", "done", "failed", "error", "close"}, era : Eras]

SwapTypeOK ==
    /\ record \in Records
    /\ jobs \in [Swaps -> [st : {"none", "asked", "working", "replaced", "ended"},
                           kind : Kinds]]
    /\ socks \in [Swaps -> [st : {"new", "connecting", "open", "closing", "closed"},
                            q : Seq(Messages)]]
    /\ swap \in [st : {"idle", "connecting", "running", "done", "error"},
                 ok : BOOLEAN, sock : 0 .. MaxSwaps]
    /\ dialog \in [open : BOOLEAN, pending : {"none"} \cup Kinds, auto : BOOLEAN]
    /\ nonce \in Eras /\ acked \in Eras
    /\ session \in [st : {"loading", "ready", "error"}, rec : Records]
    /\ fetches \in [Eras -> [st : {"none", "asked", "authed", "answered", "over"},
                             rec : Records]]
    /\ warned \in BOOLEAN
    /\ faults \in 0 .. MaxFaults

NoRecord == [era |-> 0, kind |-> "robot", empty |-> FALSE]
Unasked  == [st |-> "none", rec |-> NoRecord]
Idle     == [st |-> "idle", ok |-> FALSE, sock |-> 0]

(* The page was just opened, on a project that may be empty. *)
SwapInit ==
    /\ \E e \in BOOLEAN : record = [NoRecord EXCEPT !.empty = e]
    /\ jobs = [s \in Swaps |-> [st |-> "none", kind |-> "robot"]]
    /\ socks = [s \in Swaps |-> [st |-> "new", q |-> <<>>]]
    /\ swap = Idle
    /\ dialog = [open |-> FALSE, pending |-> "none", auto |-> FALSE]
    /\ nonce = 0 /\ acked = 0
    /\ session = [st |-> "loading", rec |-> NoRecord]
    /\ fetches = [n \in Eras |-> IF n = 0 THEN [Unasked EXCEPT !.st = "asked"]
                                 ELSE Unasked]
    /\ warned = FALSE
    /\ faults = 0

(* What the page derives of the session: workspace is null until it is     *)
(* ready, and then the layout is the robot's and nothing is empty.         *)
Shown        == IF session.st = "ready" THEN session.rec ELSE NoRecord
ConsoleShown == Shown.kind = "console"
Busy         == swap.st \in {"connecting", "running"}
Finished     == swap.st \in {"done", "error"}

Fault == faults < MaxFaults /\ faults' = faults + 1

----------------------------------------------------------------------------
(* The dialog and startSwap.                                               *)

Closing(ss, s) == IF s = 0 \/ ss[s].st = "closed" THEN ss
                  ELSE [ss EXCEPT ![s] = [st |-> "closing", q |-> <<>>]]

StartSwap(k) ==
    \E s \in Swaps :
        /\ socks[s].st = "new" /\ \A t \in Swaps : t < s => socks[t].st # "new"
        /\ socks' = [Closing(socks, swap.sock) EXCEPT ![s].st = "connecting"]
        /\ jobs' = [jobs EXCEPT ![s].kind = k]
        /\ swap' = [st |-> "connecting", ok |-> FALSE, sock |-> s]

OpenDialog ==
    /\ ~ dialog.open
    /\ dialog' = [dialog EXCEPT !.open = TRUE]
    /\ UNCHANGED <<record, jobs, socks, swap, nonce, acked, session, fetches,
                   warned, faults>>

(* choose: an empty project has nothing to discard and is replaced without *)
(* a question; resetting the module that is loaded always asks.            *)
Browsing == dialog.open /\ swap.st = "idle" /\ dialog.pending = "none"
Choose(k) ==
    /\ Browsing
    /\ \/ /\ Shown.empty /\ StartSwap(k) /\ UNCHANGED dialog
       \/ /\ ~ Shown.empty \/ Shown.era > 0
          /\ dialog' = [dialog EXCEPT !.pending = k]
          /\ UNCHANGED <<jobs, socks, swap>>
    /\ UNCHANGED <<record, nonce, acked, session, fetches, warned, faults>>

Confirming == dialog.open /\ swap.st = "idle" /\ dialog.pending # "none"
Confirm ==
    /\ Confirming /\ StartSwap(dialog.pending)
    /\ UNCHANGED <<record, dialog, nonce, acked, session, fetches, warned, faults>>
BackToChoices ==
    /\ Confirming
    /\ dialog' = [dialog EXCEPT !.pending = "none"]
    /\ UNCHANGED <<record, jobs, socks, swap, nonce, acked, session, fetches,
                   warned, faults>>

\* resetAll: the socket is let go of before it is closed.
Reset ==
    /\ socks' = Closing(socks, swap.sock)
    /\ swap' = Idle
    /\ UNCHANGED <<record, jobs, nonce, acked, session, fetches, warned, faults>>
BackAfterFailure ==
    /\ dialog.open /\ Finished /\ ~ swap.ok
    /\ Reset /\ dialog' = [dialog EXCEPT !.pending = "none"]

\* handleClose: "never close mid-swap"
CloseDialog ==
    /\ dialog.open /\ ~ Busy
    /\ Reset /\ dialog' = [dialog EXCEPT !.open = FALSE, !.pending = "none"]

----------------------------------------------------------------------------
(* The socket's events in the tab.                                         *)

SocketOpens(s) ==
    /\ socks[s].st = "connecting"
    /\ socks' = [socks EXCEPT ![s].st = "open"]
    /\ swap' = [swap EXCEPT !.st = "running"]
    /\ jobs' = [jobs EXCEPT ![s].st = "asked"]
    /\ UNCHANGED <<record, dialog, nonce, acked, session, fetches, warned, faults>>

\* mutant: a close leaves the status as it is
CloseUnseen(s) ==
    /\ socks' = [socks EXCEPT ![s] = [st |-> "closed", q |-> <<>>]]
    /\ swap' = [swap EXCEPT !.sock = IF @ = s THEN 0 ELSE @]
    /\ UNCHANGED warned
(* Only socketRef is guarded by the socket's identity: the close of an     *)
(* abandoned socket fails the swap that runs now.                          *)
CloseEvent(s) ==
    /\ socks' = [socks EXCEPT ![s] = [st |-> "closed", q |-> <<>>]]
    /\ swap' = [st |-> IF Busy THEN "error" ELSE swap.st,
                ok |-> swap.ok /\ ~ Busy,
                sock |-> IF swap.sock = s THEN 0 ELSE swap.sock]
    /\ warned' = (warned \/ Busy)

(* A tab that closed its socket hears no more messages, only the close. *)
SocketCloses(s) ==
    /\ socks[s].st = "closing" /\ CloseEvent(s)
    /\ UNCHANGED <<record, jobs, dialog, nonce, acked, session, fetches, faults>>

SocketRefused(s) ==
    /\ socks[s].st = "connecting" /\ Fault /\ CloseEvent(s)
    /\ UNCHANGED <<record, jobs, dialog, nonce, acked, session, fetches>>

Arrives(s, type) ==
    socks[s].st = "open" /\ socks[s].q # <<>> /\ Head(socks[s].q).type = type
Taken(s) == socks' = [socks EXCEPT ![s].q = Tail(@)]

HearHello(s) ==
    /\ Arrives(s, "hello") /\ Taken(s)
    /\ swap' = [swap EXCEPT !.st = "running"]
    /\ UNCHANGED <<record, jobs, dialog, nonce, acked, session, fetches, warned,
                   faults>>

(* done with success, and the effect that follows: onSwapComplete bumps    *)
(* reloadNonce, on which useSession asks again.  A swap that was said to   *)
(* have failed may still be at work.                                       *)
HearDone(s) ==
    /\ Arrives(s, "done") /\ Taken(s)
    /\ swap' = [swap EXCEPT !.st = "done", !.ok = TRUE]
    /\ nonce' = nonce + 1
    /\ acked' = Head(socks[s].q).era
    /\ fetches' = [fetches EXCEPT ![nonce + 1].st = "asked"]
    /\ warned' = (warned /\ \E t \in Swaps : jobs[t].st \notin {"none", "ended"})
    /\ UNCHANGED <<record, jobs, dialog, session, faults>>

HearFailure(s) ==
    /\ Arrives(s, "failed") \/ Arrives(s, "error")
    /\ Taken(s)
    /\ swap' = [swap EXCEPT !.st = IF Arrives(s, "failed") THEN "done" ELSE "error",
                            !.ok = FALSE]
    /\ warned' = TRUE
    /\ UNCHANGED <<record, jobs, dialog, nonce, acked, session, fetches, faults>>

HearClose(s) ==
    /\ Arrives(s, "close") /\ CloseEvent(s)
    /\ UNCHANGED <<record, jobs, dialog, nonce, acked, session, fetches, faults>>

(* The connection breaks: what is under way is lost. *)
SocketLost(s) ==
    /\ socks[s].st = "open" /\ Fault
    /\ socks' = [socks EXCEPT ![s].q = <<[type |-> "close", era |-> 0]>>]
    /\ UNCHANGED <<record, jobs, swap, dialog, nonce, acked, session, fetches, warned>>

----------------------------------------------------------------------------
(* The server.  A job outlives its socket.                                 *)

Message(type, r) == [type |-> type, era |-> r.era]
Closed(s) == \E i \in DOMAIN socks[s].q : socks[s].q[i].type = "close"
Sends(s, types, r) ==
    socks' = IF socks[s].st # "open" \/ Closed(s) THEN socks
             ELSE [socks EXCEPT ![s].q = @ \o [i \in DOMAIN types |->
                                               Message(types[i], r)]]
Job(s, from, to) == jobs[s].st = from /\ jobs' = [jobs EXCEPT ![s].st = to]
ClientKeeps == UNCHANGED <<swap, dialog, nonce, acked, session, fetches, warned, faults>>

Another(s) == \E t \in Swaps \ {s} : jobs[t].st \in {"working", "replaced"}

JobStarts(s) ==
    /\ ~ Another(s) /\ Job(s, "asked", "working")
    /\ Sends(s, <<"hello">>, record)
    /\ UNCHANGED record /\ ClientKeeps

(* Another import is at work, or the request is not valid or over the rate. *)
JobRefused(s) ==
    /\ Job(s, "asked", "ended")
    /\ Sends(s, <<"error", "close">>, record)
    /\ UNCHANGED record /\ ClientKeeps

(* An error of the staging. *)
JobFails(s) ==
    /\ Job(s, "working", "ended")
    /\ Sends(s, <<"failed", "close">>, record)
    /\ UNCHANGED record /\ ClientKeeps

JobReplaces(s) ==
    /\ Job(s, "working", "replaced")
    /\ record' = [record EXCEPT !.empty = FALSE]
    /\ UNCHANGED socks /\ ClientKeeps

JobRecords(s) ==
    /\ Job(s, "replaced", "ended")
    /\ record' = [record EXCEPT !.era = @ + 1, !.kind = jobs[s].kind]
    /\ Sends(s, <<"done", "close">>, record')
    /\ ClientKeeps

JobNext(s) == JobStarts(s) \/ JobRefused(s) \/ JobFails(s) \/ JobReplaces(s) \/ JobRecords(s)

----------------------------------------------------------------------------
(* GET /api/session: the module is read when the request is authenticated, *)
(* the directory after it.                                                 *)

Fetch(n, from, to) == fetches[n].st = from /\ fetches' = [fetches EXCEPT ![n] = to]
FetchKeeps == UNCHANGED <<record, jobs, socks, swap, nonce, acked, warned>>

SessionAuthed(n) ==
    /\ Fetch(n, "asked", [st |-> "authed", rec |-> record])
    /\ UNCHANGED <<dialog, session, faults>> /\ FetchKeeps
SessionAnswered(n) ==
    /\ Fetch(n, "authed", [st |-> "answered",
                           rec |-> [fetches[n].rec EXCEPT !.empty = record.empty]])
    /\ UNCHANGED <<dialog, session, faults>> /\ FetchKeeps

(* The effect on projectEmpty: the dialog opens once per empty project. *)
AutoOpened(rec) ==
    dialog' = [dialog EXCEPT !.open = @ \/ (rec.empty /\ ~ dialog.auto),
                             !.auto = rec.empty]

\* mutant: the answer of a cancelled request is taken
TakenAnyway(n) ==
    /\ Fetch(n, "answered", [Unasked EXCEPT !.st = "over"])
    /\ session' = [st |-> "ready", rec |-> fetches[n].rec]
    /\ AutoOpened(fetches[n].rec)
    /\ UNCHANGED faults /\ FetchKeeps
SessionArrives(n) ==
    /\ Fetch(n, "answered", [Unasked EXCEPT !.st = "over"])
    /\ IF n = nonce
       THEN /\ session' = [st |-> "ready", rec |-> fetches[n].rec]
            /\ AutoOpened(fetches[n].rec)
       ELSE UNCHANGED <<session, dialog>>
    /\ UNCHANGED faults /\ FetchKeeps

SessionFails(n) ==
    /\ fetches[n].st \in {"asked", "authed"} /\ Fault
    /\ fetches' = [fetches EXCEPT ![n] = [Unasked EXCEPT !.st = "over"]]
    /\ IF n = nonce
       THEN session' = [st |-> "error", rec |-> NoRecord] /\ AutoOpened(NoRecord)
       ELSE UNCHANGED <<session, dialog>>
    /\ FetchKeeps

SessionNext(n) ==
    SessionAuthed(n) \/ SessionAnswered(n) \/ SessionArrives(n) \/ SessionFails(n)

HearNext(s) == HearHello(s) \/ HearFailure(s) \/ HearClose(s)
SocketNext(s) == SocketOpens(s) \/ SocketCloses(s) \/ SocketRefused(s)
DialogNext ==
    \/ \E k \in Kinds : Choose(k)
    \/ Confirm \/ BackToChoices \/ BackAfterFailure \/ CloseDialog

----------------------------------------------------------------------------
\* No job, message or request of a swap is under way.
Quiet ==
    /\ \A s \in Swaps : socks[s].st \in {"new", "closed"} /\ jobs[s].st \in {"none", "ended"}
    /\ \A n \in Eras : fetches[n].st \in {"none", "over"}

(* At rest, the page shows the module that is loaded, unless it shows an   *)
(* error in its place or the dialog said that a swap went wrong.  A swap   *)
(* goes on when its socket is gone, so a page that was only told nothing   *)
(* would show the old lesson, and its layout, for good.                    *)
NeverSilentlyStale ==
    Quiet => session.st = "error" \/ warned \/ session.rec.era = record.era

(* A swap that was started comes to an end in the dialog, which cannot be  *)
(* closed before it does.                                                  *)
SwapsSettle == Busy ~> ~ Busy

(* Why it does: while the dialog waits, the socket of the swap it waits    *)
(* for connects, or is open with its close on the way or with a job that   *)
(* has yet to answer.  A failure of any socket ends the wait.              *)
AtWork(s) == jobs[s].st \in {"asked", "working", "replaced"}
WaitIsAnswered ==
    Busy => \E s \in Swaps :
        /\ swap.sock = s
        /\ \/ socks[s].st = "connecting"
           \/ socks[s].st = "open" /\ (Closed(s) \/ AtWork(s))

(* And the answer only comes nearer: what the job of that socket has to do *)
(* and say, and what it said that the tab has not heard, grows less with   *)
(* every message sent or heard until the wait is over.  The dialog never   *)
(* turns to another socket meanwhile.                                      *)
ToDo(s) == CASE jobs[s].st = "asked"    -> 6
             [] jobs[s].st = "working"  -> 4
             [] jobs[s].st = "replaced" -> 3
             [] jobs[s].st \in {"none", "ended"} -> 0
ToHear(s) == IF socks[s].st = "connecting" THEN 7
             ELSE Len(socks[s].q) + (IF Closed(s) THEN 0 ELSE ToDo(s))
Changes(s) ==
    socks'[s].st # socks[s].st \/ Len(socks'[s].q) # Len(socks[s].q)
WaitShortens ==
    [][\A s \in Swaps : Busy /\ swap.sock = s /\ Busy' =>
          /\ swap'.sock = s
          /\ ToHear(s)' <= ToHear(s)
          /\ Changes(s) => ToHear(s)' < ToHear(s)]_swapVars

(* "An empty workspace has nothing to discard, so loads skip the confirm   *)
(* step."  Broken: the page knows of the project what the last session     *)
(* request said, and a swap whose end it did not hear of is not in it.     *)
UnaskedOnlyIfEmpty == Browsing /\ Shown.empty => record.empty
=============================================================================
