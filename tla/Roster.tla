------------------------------- MODULE Roster -------------------------------
(***************************************************************************)
(* What classrooms promise, without joins, sweeps or failures: guests are  *)
(* admitted up to the cap until the classroom is sealed, it is sealed only *)
(* once it is over and empty, and a sealed classroom stays empty.          *)
(***************************************************************************)
EXTENDS Naturals, FiniteSets

CONSTANTS Rooms, Guests, Cap

VARIABLES
    phase,    \* phase of every classroom
    members   \* guests of every classroom

rvars == <<phase, members>>

RInit ==
    /\ phase = [c \in Rooms |-> "absent"]
    /\ members = [c \in Rooms |-> {}]

Open(c) ==
    /\ phase[c] = "absent"
    /\ phase' = [phase EXCEPT ![c] = "open"]
    /\ UNCHANGED members

Close(c) ==
    /\ phase[c] = "open"
    /\ phase' = [phase EXCEPT ![c] = "closing"]
    /\ UNCHANGED members

\* A guest who was let in before the end may still arrive after it.
Admit(c, g) ==
    /\ phase[c] \in {"open", "closing"}
    /\ Cardinality(members[c]) < Cap
    /\ members' = [members EXCEPT ![c] = @ \cup {g}]
    /\ UNCHANGED phase

Remove(c, g) ==
    /\ members' = [members EXCEPT ![c] = @ \ {g}]
    /\ UNCHANGED phase

\* The last guest may be removed and the classroom sealed at once.
Seal(c) ==
    /\ phase[c] = "closing"
    /\ members[c] = {} \/ \E g \in Guests : members[c] = {g}
    /\ phase' = [phase EXCEPT ![c] = "sealed"]
    /\ members' = [members EXCEPT ![c] = {}]

RNext ==
    \E c \in Rooms :
        \/ Open(c) \/ Close(c) \/ Seal(c)
        \/ \E g \in Guests : Admit(c, g) \/ Remove(c, g)

RSpec == RInit /\ [][RNext]_rvars
=============================================================================
