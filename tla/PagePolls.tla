----------------------------- MODULE PagePolls -----------------------------
(***************************************************************************)
(* What the workspace page shows of the server by asking again and again:  *)
(* the simulation (useSimulationState.ts), the autonomous choosers         *)
(* (useAutoChoosers.ts) and the editor (useEditorReachability.ts), with    *)
(* the commands that its buttons offer because of what is shown.  The      *)
(* three hooks share nothing, so a behaviour looks at one of them.         *)
(*                                                                         *)
(* The server is what its routes would answer now; what changes it, and    *)
(* how a bridge takes a command, is RunManager's, HalSimBridge's and       *)
(* Nt4Choosers' subject.  Requests overlap: a poll does not wait for the   *)
(* one before, and answers come in any order.  Alliances, run modes and    *)
(* the counting of seconds are left out.                                   *)
(***************************************************************************)
EXTENDS Naturals, Sequences, SequencesExt

CONSTANTS
    MaxAsked,      \* requests under way at once
    MaxShifts,      \* changes of the server by itself, and commands
    MaxRefusals,   \* requests that fail
    MaxTurns       \* switches between a robot project and a console lesson

ASSUME PollsAssumption ==
    MaxAsked \in Nat \ {0} /\ {MaxShifts, MaxRefusals, MaxTurns} \subseteq Nat

VARIABLES
    polled,     \* the hook that is looked at
    slugged,    \* whether the page passes it a slug
    fact,       \* what the server would answer
    shown,      \* status of the hook
    asked,      \* requests that have not been answered, oldest first
    shifts, refusals, turns   \* so far

pollVars == <<polled, slugged, fact, shown, asked, shifts, refusals, turns>>

Facts(hook) == CASE hook = "sim"    -> {"idle", "busy", "running", "enabled"}
                 [] hook = "autos"  -> {"no-chooser", "first", "second"}
                 [] hook = "editor" -> {"starting", "reachable", "error"}
Hooks  == {"sim", "autos", "editor"}
Nothing(hook) == IF hook = "editor" THEN "loading" ELSE "null"
Stages == {"sent", "checked", "ready", "answered"}

PollTypeOK ==
    /\ polled \in Hooks /\ slugged \in BOOLEAN
    /\ fact \in Facts(polled)
    /\ shown \in Facts(polled) \cup {Nothing(polled)}
    /\ Len(asked) <= MaxAsked
    /\ \A i \in DOMAIN asked :
        /\ asked[i].what \in {"poll", "start", "stop"} \cup Facts(polled)
        /\ asked[i].stage \in Stages
        /\ asked[i].answer \in Facts(polled) \cup {"none", "refused", "done"}
    /\ shifts \in 0 .. MaxShifts /\ refusals \in 0 .. MaxRefusals /\ turns \in 0 .. MaxTurns

Question(what) == [what |-> what, stage |-> "sent", answer |-> "none"]

PollInit ==
    /\ polled \in Hooks /\ slugged = TRUE /\ fact \in Facts(polled)
    /\ shown = Nothing(polled) /\ asked = <<Question("poll")>>
    /\ shifts = 0 /\ refusals = 0 /\ turns = 0

----------------------------------------------------------------------------
(* The page.                                                               *)

\* mutant: the interval is cleared once there is something to show
PollsUntilShown == slugged /\ (shown = Nothing(polled) \/ shown = "starting")

(* The interval, or the tab that is shown again. *)
Polling == slugged

Ask(what) ==
    /\ Len(asked) < MaxAsked
    /\ asked' = Append(asked, Question(what))
    /\ UNCHANGED <<polled, slugged, fact, shown, refusals, turns>>

Polls == Polling /\ Ask("poll") /\ UNCHANGED shifts

RunBusy == shown \in {"busy", "running", "enabled"}
(* Start, Stop, Restart, Enable, both Disable buttons, the modes (which    *)
(* disable an enabled robot), and the routines of a chooser.               *)
Offered ==
    CASE polled = "sim" ->
            (IF RunBusy THEN {"stop"} ELSE {"start"})
            \cup (IF shown \in {"running", "enabled"} THEN {"start"} ELSE {})
            \cup (IF shown = "running" THEN {"enabled"} ELSE {})
            \cup {"running"}
      [] polled = "autos" -> IF shown \in {"first", "second"}
                             THEN {"first", "second"} \ {shown} ELSE {}
      [] polled = "editor" -> {}
Command(what) ==
    /\ slugged /\ what \in Offered
    /\ shifts < MaxShifts /\ shifts' = shifts + 1
    /\ Ask(what)

(* A null slug clears what is shown; a slug asks at once. *)
LessonTurns ==
    /\ polled # "editor" /\ turns < MaxTurns /\ turns' = turns + 1
    /\ slugged' = ~ slugged
    /\ IF slugged THEN shown' = Nothing(polled) /\ UNCHANGED asked
       ELSE Len(asked) < MaxAsked /\ asked' = Append(asked, Question("poll")) /\ UNCHANGED shown
    /\ UNCHANGED <<polled, fact, shifts, refusals>>

(* An answer.  A refused poll of the simulation shows nothing, which       *)
(* counts as idle; a run command that was taken asks again at once.        *)
AnswerArrives(i) ==
    /\ i \in DOMAIN asked /\ asked[i].stage = "answered"
    /\ LET r == asked[i]  ok == r.answer # "refused" IN
       /\ shown' = IF r.what = "poll"
                   THEN IF ok THEN r.answer
                        ELSE IF polled = "editor" THEN "error" ELSE Nothing(polled)
                   ELSE IF ok /\ r.answer # "done" THEN r.answer ELSE shown
       /\ asked' = IF r.answer = "done"
                   THEN Append(RemoveAt(asked, i), Question("poll")) ELSE RemoveAt(asked, i)
    /\ UNCHANGED <<polled, slugged, fact, shifts, refusals, turns>>

----------------------------------------------------------------------------
(* The server.                                                             *)

Answer(i, a) == asked' = [asked EXCEPT ![i].stage = "answered", ![i].answer = a]
Stage(i, s)  == asked' = [asked EXCEPT ![i].stage = s]
ServerOnly   == UNCHANGED <<polled, slugged, shown, shifts, refusals, turns>>

(* GET status and auto-choosers: a snapshot, after an ensure. *)
AnswersPoll(i) ==
    /\ polled # "editor" /\ asked[i].what = "poll" /\ asked[i].stage = "sent"
    /\ Answer(i, fact) /\ UNCHANGED fact

(* POST run: taken at once. *)
TakesRun(i) ==
    /\ asked[i].what \in {"start", "stop"} /\ asked[i].stage = "sent"
    /\ fact' = IF asked[i].what = "stop" /\ fact = "idle" THEN "idle" ELSE "busy"
    /\ Answer(i, "done")

(* PATCH: whether the program runs is looked at before the ensure; what    *)
(* the bridge can still do, after it.                                      *)
Runs == fact \in {"running", "enabled", "first", "second"}
TakesPatch(i) ==
    /\ asked[i].what \in Facts(polled)
    /\ \/ /\ asked[i].stage = "sent"
          /\ IF Runs THEN Stage(i, "checked") ELSE Answer(i, "refused")
          /\ UNCHANGED fact
       \/ /\ asked[i].stage = "checked"
          /\ fact' = IF Runs THEN asked[i].what ELSE fact
          /\ Answer(i, IF Runs THEN fact' ELSE "refused")

(* GET of the editor through the proxy: the ensure; the probe, which gives *)
(* up after 30 s; then the request itself.                                 *)
Proxies(i) ==
    /\ polled = "editor" /\ UNCHANGED fact
    /\ \/ /\ asked[i].stage = "sent"
          /\ IF fact = "error" THEN Answer(i, "error") ELSE Stage(i, "checked")
       \/ /\ asked[i].stage = "checked"
          /\ IF fact = "reachable" THEN Stage(i, "ready") ELSE Answer(i, "starting")
       \/ /\ asked[i].stage = "ready"
          /\ Answer(i, IF fact = "reachable" THEN "reachable" ELSE "error")

Serves(i) ==
    /\ i \in DOMAIN asked
    /\ AnswersPoll(i) \/ TakesRun(i) \/ TakesPatch(i) \/ Proxies(i)
    /\ ServerOnly

Refuses(i) ==
    /\ i \in DOMAIN asked /\ asked[i].stage # "answered"
    /\ refusals < MaxRefusals /\ refusals' = refusals + 1
    /\ Answer(i, "refused")
    /\ UNCHANGED <<polled, slugged, fact, shown, shifts, turns>>

(* A run gets on or ends, a chooser is published, an editor comes up. *)
Shifts ==
    /\ shifts < MaxShifts /\ shifts' = shifts + 1
    /\ fact' \in Facts(polled) \ {fact}
    /\ UNCHANGED <<polled, slugged, shown, asked, refusals, turns>>

PollNext ==
    \/ Polls \/ (\E what \in Facts(polled) \cup {"start", "stop"} : Command(what))
    \/ LessonTurns
    \/ \E i \in 1 .. MaxAsked : AnswerArrives(i) \/ Serves(i) \/ Refuses(i)
    \/ Shifts

(* The interval fires, the server answers, and answers arrive. *)
PollFairness ==
    /\ WF_pollVars(Polls)
    /\ \A i \in 1 .. MaxAsked : WF_pollVars(Serves(i)) /\ WF_pollVars(AnswerArrives(i))

PollSpec == PollInit /\ [][PollNext]_pollVars /\ PollFairness

----------------------------------------------------------------------------
(* Once nothing changes, is clicked or fails any more, the page comes to   *)
(* show what is true and goes on showing it, whatever older answers and    *)
(* failures were still under way.                                          *)
PollsConverge == <>[](slugged => shown = fact)
=============================================================================
