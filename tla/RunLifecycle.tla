---------------------------- MODULE RunLifecycle ----------------------------
(***************************************************************************)
(* What the run manager promises its users, without jobs, timers or        *)
(* sockets: a run is requested, may become running while it is the run its *)
(* workspace wants, and ends once.  A new request, a stop, a deadline or a *)
(* crash withdraws the wish, never the duty to record an end.              *)
(***************************************************************************)
EXTENDS Naturals

CONSTANTS Workspaces, Runs

VARIABLES
    owner,   \* workspace that requested a run, "none" for a run to come
    phase,   \* recorded phase of every run
    wanted   \* run each workspace wants to go on, 0 for none

lvars == <<owner, phase, wanted>>

Over == {"stopped", "failed"}
Phases == {"absent", "building", "running"} \cup Over

LInit ==
    /\ owner = [j \in Runs |-> "none"]
    /\ phase = [j \in Runs |-> "absent"]
    /\ wanted = [w \in Workspaces |-> 0]

\* The next run in the order of the ids is requested for w.
Request(w, j) ==
    /\ phase[j] = "absent"
    /\ \A i \in Runs : i < j => phase[i] # "absent"
    /\ owner' = [owner EXCEPT ![j] = w]
    /\ phase' = [phase EXCEPT ![j] = "building"]
    /\ wanted' = [wanted EXCEPT ![w] = j]

Withdraw(w) ==
    /\ wanted' = [wanted EXCEPT ![w] = 0]
    /\ UNCHANGED <<owner, phase>>

BecomeRunning(j) ==
    /\ phase[j] = "building"
    /\ wanted[owner[j]] = j
    /\ phase' = [phase EXCEPT ![j] = "running"]
    /\ UNCHANGED <<owner, wanted>>

End(j, st) ==
    /\ phase[j] \in {"building", "running"}
    /\ phase' = [phase EXCEPT ![j] = st]
    /\ wanted' = [w \in Workspaces |-> IF wanted[w] = j THEN 0 ELSE wanted[w]]
    /\ UNCHANGED owner

\* A crash withdraws every wish at once; the restart closes what was open.
WithdrawAll ==
    /\ wanted' = [w \in Workspaces |-> 0]
    /\ UNCHANGED <<owner, phase>>

CloseAll ==
    /\ \A w \in Workspaces : wanted[w] = 0
    /\ phase' = [j \in Runs |-> IF phase[j] \in {"building", "running"}
                                THEN "stopped" ELSE phase[j]]
    /\ UNCHANGED <<owner, wanted>>

LNext ==
    \/ \E w \in Workspaces : Withdraw(w) \/ \E j \in Runs : Request(w, j)
    \/ \E j \in Runs : BecomeRunning(j) \/ \E st \in Over : End(j, st)
    \/ WithdrawAll
    \/ CloseAll

LSpec == LInit /\ [][LNext]_lvars
=============================================================================
