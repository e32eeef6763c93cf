----------------------------- MODULE Classroom -----------------------------
(***************************************************************************)
(* Classrooms and their guests (classrooms.ts, auth/classroom-plugin.ts,   *)
(* classroom-sweeper.ts, app/classroom-routes.ts, user-deletion.ts): a     *)
(* student joins a live classroom with its code and a name and becomes a   *)
(* guest with a workspace and a session; "End now" and the sweeper delete  *)
(* the guests of a classroom that is over and mark it cleaned, for good.   *)
(*                                                                         *)
(* Code between two awaits is one step.  A join names the classroom its    *)
(* code resolves to, and a guest is named by the join that created it.     *)
(***************************************************************************)
EXTENDS Naturals, FiniteSets

CONSTANTS Rooms,
          Names,       \* identity keys of display names (guestNameKey)
          Cap,         \* CLASSROOM_GUEST_CAP
          Cleaners,    \* callers of deleteUser: "end", "sweep", "user"
          MaxJoins,    \* bound: requests to join
          MaxDeletes,  \* bound: single guests an admin deletes
          MaxFaults    \* bound: steps that fail for reasons of their own, and
                       \* crashes of the control plane

None == 0

ASSUME ClassroomAssumption ==
    /\ Cap \in Nat \ {0} /\ MaxJoins \in Nat
    /\ MaxDeletes \in Nat /\ MaxFaults \in Nat
    /\ Cleaners \subseteq {"end", "sweep", "user"}
    /\ None \notin Rooms /\ None \notin Names

Joins == 1 .. MaxJoins

VARIABLES
    status,   \* "absent", "live", or "over": ended_at set or expires_at past
    cleaned,  \* cleaned_at is set
    row,      \* user row of the guest a join creates
    ws,       \* workspaces row of a guest, named by the join that inserted it
    sess,     \* guest of the session row a join creates, None without one
    join,     \* the requests to join
    inFlight, \* inFlightJoins
    pending,  \* pendingGuests
    cl,       \* the callers of deleteUser
    todo,     \* classrooms the sweep has still to clean
    spent     \* deletes and faults so far

vars == <<status, cleaned, row, ws, sess, join, inFlight, pending, cl, todo,
          spent>>
rooms    == <<status, cleaned>>
users    == <<row, ws, sess>>
joining  == <<join, inFlight, pending>>
cleaning == <<cl, todo>>

\* Where a join under way waits: for createUser, with its outcome, for the
\* project files, for findUserById, for createSession.
Busy    == {"creating", "created", "lost-race", "not-created", "files",
            "reading-user", "signing-in"}
Refused == {"no-classroom", "full", "taken", "failed"}
Answers == Refused \cup {"joined"}
Holding == {"creating", "created", "lost-race", "not-created"}

Requests == [pc : {"new", "dead"} \cup Busy \cup Answers,
             room : Rooms \cup {None}, name : Names \cup {None},
             confirmed : BOOLEAN, guest : Joins \cup {None}]

NewJoin == [pc |-> "new", room |-> None, name |-> None, confirmed |-> FALSE,
            guest |-> None]

\* One run of deleteUser at a time: over "left", at present for "guest",
\* whose workspace was "seen" before the container was stopped.
Deletions == [pc : {"idle", "waiting", "next", "stopping", "removing"},
              room : Rooms \cup {None}, left : SUBSET Joins,
              guest : Joins \cup {None}, seen : Joins \cup {None}]

Idle == [pc |-> "idle", room |-> None, left |-> {}, guest |-> None,
         seen |-> None]

TypeOK ==
    /\ status \in [Rooms -> {"absent", "live", "over"}]
    /\ cleaned \in [Rooms -> BOOLEAN]
    /\ row \in [Joins -> {"none", "here", "gone"}]
    /\ ws \in [Joins -> Joins \cup {None}]
    /\ sess \in [Joins -> Joins \cup {None}]
    /\ join \in [Joins -> Requests]
    /\ inFlight \subseteq Joins
    /\ pending \in [Rooms -> Nat]
    /\ cl \in [Cleaners -> Deletions]
    /\ todo \subseteq Rooms
    /\ spent \in [deletes : Nat, faults : Nat]

Init ==
    /\ status = [c \in Rooms |-> "absent"]
    /\ cleaned = [c \in Rooms |-> FALSE]
    /\ row = [j \in Joins |-> "none"]
    /\ ws = [j \in Joins |-> None]
    /\ sess = [j \in Joins |-> None]
    /\ join = [j \in Joins |-> NewJoin]
    /\ inFlight = {}
    /\ pending = [c \in Rooms |-> 0]
    /\ cl = [a \in Cleaners |-> Idle]
    /\ todo = {}
    /\ spent = [deletes |-> 0, faults |-> 0]

GuestsOf(c)   == {j \in Joins : row[j] = "here" /\ join[j].room = c}
JoinsOf(c)    == {j \in inFlight : join[j].room = c}
HoldersOf(c)  == {j \in Joins : join[j].room = c /\ join[j].pc \in Holding}
CreatingOf(c) == {j \in Joins : join[j].room = c /\ join[j].pc = "creating"}
Named(c, n)   == {j \in GuestsOf(c) : join[j].name = n}
\* mutant: the query joins the user table, so an empty classroom is not listed
NeedCleanupOfGuests ==
    {c \in Rooms : status[c] = "over" /\ ~cleaned[c] /\ GuestsOf(c) # {}}
NeedCleanup   == {c \in Rooms : status[c] = "over" /\ ~cleaned[c]}

Fault == spent.faults < MaxFaults /\ spent' = [spent EXCEPT !.faults = @ + 1]

----------------------------------------------------------------------------
(* Classrooms.                                                             *)

CreateClassroom(c) ==
    /\ status[c] = "absent"
    /\ status' = [status EXCEPT ![c] = "live"]
    /\ UNCHANGED <<cleaned, users, joining, cleaning, spent>>

\* expires_at passes.
Expire(c) ==
    /\ status[c] = "live"
    /\ status' = [status EXCEPT ![c] = "over"]
    /\ UNCHANGED <<cleaned, users, joining, cleaning, spent>>

----------------------------------------------------------------------------
(* A join.                                                                 *)

\* mutant: deregistered with then() instead of finally()
AnswerKeepingRejected(j, answer) ==
    /\ join' = [join EXCEPT ![j].pc = answer]
    /\ inFlight' = IF answer = "joined" THEN inFlight \ {j} ELSE inFlight
\* The promise of j settles, which takes it out of inFlightJoins.
Answer(j, answer) ==
    /\ join' = [join EXCEPT ![j].pc = answer]
    /\ inFlight' = inFlight \ {j}

\* reserveGuestSlot and the release it returns.
SlotFree(c) == Cardinality(GuestsOf(c)) + pending[c] < Cap

ReleasedNever(c) == pending   \* mutant: the finally is forgotten
Released(c) == [pending EXCEPT ![c] = @ - 1]

\* ensureWorkspaceForUser: an existing row is used at once, a new one is
\* inserted before the project files are made.
EnsureWorkspace(j, g) ==
    IF ws[g] # None
    THEN /\ join' = [join EXCEPT ![j].pc = "reading-user", ![j].guest = g]
         /\ UNCHANGED ws
    ELSE /\ join' = [join EXCEPT ![j].pc = "files", ![j].guest = g]
         /\ ws' = [ws EXCEPT ![g] = j]

\* The live check, the registration, the lookup of the name and the
\* reservation of a slot are one tick.
JoinRefused(j, c, n, answer) ==
    /\ \/ answer = "no-classroom" /\ status[c] # "live"
       \/ /\ answer = "taken" /\ status[c] = "live"
          /\ Named(c, n) # {}
       \/ /\ answer = "full" /\ status[c] = "live" /\ Named(c, n) = {}
          /\ ~SlotFree(c)
    /\ join' = [join EXCEPT ![j] = [NewJoin EXCEPT
                    !.pc = answer, !.room = c, !.name = n]]
    /\ UNCHANGED <<users, inFlight, pending>>

\* "full" and "no-classroom" do not depend on confirmExisting, "taken" does.
JoinNew(j, c, n) ==
    /\ status[c] = "live" /\ Named(c, n) = {}
    /\ SlotFree(c)
    /\ join' = [join EXCEPT ![j] = [NewJoin EXCEPT
                    !.pc = "creating", !.room = c, !.name = n]]
    /\ inFlight' = inFlight \cup {j}
    /\ pending' = [pending EXCEPT ![c] = @ + 1]
    /\ UNCHANGED users

\* confirmExisting: the student takes up the guest of that name again.
Rejoin(j, c, n) ==
    /\ status[c] = "live"
    /\ inFlight' = inFlight \cup {j}
    /\ \E g \in Named(c, n) :
          /\ join' = [join EXCEPT ![j] =
                [pc |-> IF ws[g] # None THEN "reading-user" ELSE "files",
                 room |-> c, name |-> n, confirmed |-> TRUE, guest |-> g]]
          /\ ws' = IF ws[g] # None THEN ws ELSE [ws EXCEPT ![g] = j]
    /\ UNCHANGED <<row, sess, pending>>

Join(j) ==
    /\ join[j].pc = "new"
    /\ \A k \in Joins : k < j => join[k].pc # "new"
    /\ \E c \in Rooms, n \in Names :
          /\ status[c] # "absent"
          /\ \/ \E answer \in Refused : JoinRefused(j, c, n, answer)
             \/ JoinNew(j, c, n)
             \/ Rejoin(j, c, n)
    /\ UNCHANGED <<rooms, cleaning, spent>>

\* Better Auth's createUser, under the unique index on classroom and name.
UserInserted(j) ==
    /\ join[j].pc = "creating"
    /\ \/ /\ Named(join[j].room, join[j].name) = {}
          /\ row' = [row EXCEPT ![j] = "here"]
          /\ join' = [join EXCEPT ![j].pc = "created"]
          /\ UNCHANGED spent
       \/ /\ Named(join[j].room, join[j].name) # {}
          /\ join' = [join EXCEPT ![j].pc = "lost-race"]
          /\ UNCHANGED <<row, spent>>
       \/ /\ Fault
          /\ join' = [join EXCEPT ![j].pc = "not-created"]
          /\ UNCHANGED row
    /\ UNCHANGED <<rooms, ws, sess, inFlight, pending, cleaning>>

\* createUser resolves: the slot is released, and the guest and the classroom
\* are looked up again.  The guest is there: nobody who could delete it knows
\* of it yet.
Created(j) ==
    LET c == join[j].room IN
    /\ join[j].pc = "created"
    /\ pending' = Released(c)
    /\ \/ /\ status[c] # "live"
          /\ Answer(j, "no-classroom") /\ UNCHANGED ws
       \/ /\ status[c] = "live"
          /\ \E g \in Named(c, join[j].name) : EnsureWorkspace(j, g)
          /\ UNCHANGED inFlight
    /\ UNCHANGED <<rooms, row, sess, cleaning, spent>>

\* mutant: the loser of the race goes on as the guest that won it
NotCreatedButJoins(j) ==
    /\ join[j].pc \in {"lost-race", "not-created"}
    /\ pending' = Released(join[j].room)
    /\ \/ /\ Named(join[j].room, join[j].name) = {}
          /\ Answer(j, "failed") /\ UNCHANGED ws
       \/ /\ \E g \in Named(join[j].room, join[j].name) : EnsureWorkspace(j, g)
          /\ UNCHANGED inFlight
    /\ UNCHANGED <<rooms, row, sess, cleaning, spent>>
\* createUser rejects: another join has the name, or the error is passed on.
NotCreated(j) ==
    LET c == join[j].room IN
    /\ join[j].pc \in {"lost-race", "not-created"}
    /\ pending' = Released(c)
    /\ Answer(j, IF Named(c, join[j].name) # {} THEN "taken" ELSE "failed")
    /\ UNCHANGED <<rooms, users, cleaning, spent>>

\* The project files are there, unless the row was deleted meanwhile.
FilesMade(j) ==
    /\ join[j].pc = "files"
    /\ \/ /\ ws[join[j].guest] = j
          /\ join' = [join EXCEPT ![j].pc = "reading-user"]
          /\ UNCHANGED inFlight
       \/ ws[join[j].guest] # j /\ Answer(j, "failed")
    /\ UNCHANGED <<rooms, users, pending, cleaning, spent>>

\* They could not be made: the row is taken back.
FilesFail(j) ==
    LET g == join[j].guest IN
    /\ join[j].pc = "files"
    /\ Fault
    /\ ws' = IF ws[g] = j THEN [ws EXCEPT ![g] = None] ELSE ws
    /\ Answer(j, "failed")
    /\ UNCHANGED <<rooms, row, sess, pending, cleaning>>

\* findUserById resolves.
UserRead(j) ==
    /\ join[j].pc = "reading-user"
    /\ \/ /\ row[join[j].guest] = "here"
          /\ join' = [join EXCEPT ![j].pc = "signing-in"]
          /\ UNCHANGED inFlight
       \/ row[join[j].guest] # "here" /\ Answer(j, "failed")
    /\ UNCHANGED <<rooms, users, pending, cleaning, spent>>

\* createSession, whose row refers to the user's.
SignedIn(j) ==
    /\ join[j].pc = "signing-in"
    /\ \/ /\ row[join[j].guest] = "here"
          /\ sess' = [sess EXCEPT ![j] = join[j].guest]
          /\ Answer(j, "joined")
          /\ UNCHANGED spent
       \/ /\ row[join[j].guest] # "here"
          /\ Answer(j, "failed")
          /\ UNCHANGED <<sess, spent>>
       \/ Fault /\ Answer(j, "failed") /\ UNCHANGED sess
    /\ UNCHANGED <<rooms, row, ws, pending, cleaning>>

\* Leave, or a later join in the same browser, deletes the session row.
SessionEnds(j) ==
    /\ sess[j] # None
    /\ sess' = [sess EXCEPT ![j] = None]
    /\ UNCHANGED <<rooms, row, ws, joining, cleaning, spent>>

----------------------------------------------------------------------------
(* Cleanup and deletion.                                                   *)

Waiting(c) == [Idle EXCEPT !.pc = "waiting", !.room = c]

\* Caller a is done with its classroom; the sweep goes on to another.
Leaves(a) ==
    \/ /\ a = "sweep" /\ todo # {}
       /\ \E c \in todo :
             /\ cl' = [cl EXCEPT ![a] = Waiting(c)]
             /\ todo' = todo \ {c}
    \/ /\ a # "sweep" \/ todo = {}
       /\ cl' = [cl EXCEPT ![a] = Idle]
       /\ UNCHANGED todo

\* cleanupClassroom has "left" to delete; when that is nobody, the classroom
\* is marked cleaned at once.
GoesOn(a, left) ==
    \/ /\ left # {}
       /\ cl' = [cl EXCEPT ![a] = [@ EXCEPT !.pc = "next", !.left = left,
                                            !.guest = None, !.seen = None]]
       /\ UNCHANGED <<cleaned, todo>>
    \/ /\ left = {}
       /\ cleaned' = [c \in Rooms |-> cleaned[c] \/ c = cl[a].room]
       /\ Leaves(a)

\* POST /admin/classrooms/:id/end.
EndNow(c) ==
    /\ "end" \in Cleaners /\ cl["end"].pc = "idle"
    /\ status[c] # "absent"
    /\ status' = [status EXCEPT ![c] = "over"]
    /\ cl' = [cl EXCEPT !["end"] = Waiting(c)]
    /\ UNCHANGED <<cleaned, users, joining, todo, spent>>

\* The interval of the sweeper; a pass that is under way is not doubled.
Sweep ==
    /\ "sweep" \in Cleaners /\ cl["sweep"].pc = "idle"
    /\ \E c \in NeedCleanup :
          /\ cl' = [cl EXCEPT !["sweep"] = Waiting(c)]
          /\ todo' = NeedCleanup \ {c}
    /\ UNCHANGED <<rooms, users, joining, spent>>

\* DELETE /admin/users/:id of a guest the admin was shown: the few turns from
\* the insertion of a guest to the next step of its join are too few for a
\* listing to reach the admin and come back as a deletion.
DeleteUser(g) ==
    /\ "user" \in Cleaners /\ cl["user"].pc = "idle"
    /\ row[g] = "here" /\ join[g].pc # "created"
    /\ spent.deletes < MaxDeletes
    /\ cl' = [cl EXCEPT !["user"] = [Idle EXCEPT !.pc = "next", !.left = {g}]]
    /\ spent' = [spent EXCEPT !.deletes = @ + 1]
    /\ UNCHANGED <<rooms, users, joining, todo>>

\* classroomJoinsSettled.
SettledAtOnce(c) == TRUE   \* mutant: the guests are listed without waiting
Settled(c) == JoinsOf(c) = {}

\* classroomJoinsSettled returns and the guests are listed.
JoinsSettled(a) ==
    /\ cl[a].pc = "waiting"
    /\ Settled(cl[a].room)
    /\ GoesOn(a, GuestsOf(cl[a].room))
    /\ UNCHANGED <<status, users, joining, spent>>

\* mutant: the sessions are left to expire
EraseKeepingSessions(g, w) ==
    /\ row' = [row EXCEPT ![g] = IF @ = "here" THEN "gone" ELSE @]
    /\ ws' = IF w # None /\ ws[g] = w THEN [ws EXCEPT ![g] = None] ELSE ws
    /\ UNCHANGED sess
\* The transaction of deleteUserAndWorkspace for g, who had workspace w.
Erase(g, w) ==
    /\ row' = [row EXCEPT ![g] = IF @ = "here" THEN "gone" ELSE @]
    /\ ws' = IF w # None /\ ws[g] = w THEN [ws EXCEPT ![g] = None] ELSE ws
    /\ sess' = [j \in Joins |-> IF sess[j] = g THEN None ELSE sess[j]]

\* deleteUser is called for the next guest: without a workspace the
\* transaction follows at once, otherwise the container is stopped first.
DeleteBegins(a, g) ==
    /\ cl[a].pc = "next" /\ g \in cl[a].left
    /\ \/ /\ ws[g] # None
          /\ cl' = [cl EXCEPT ![a] = [@ EXCEPT !.pc = "stopping", !.guest = g,
                                               !.seen = ws[g]]]
          /\ UNCHANGED <<users, cleaned, todo>>
       \/ /\ ws[g] = None
          /\ Erase(g, None)
          /\ GoesOn(a, cl[a].left \ {g})
    /\ UNCHANGED <<status, joining, spent>>

\* The container is gone: the transaction, and the removal of the directory.
DeleteCommits(a) ==
    /\ cl[a].pc = "stopping"
    /\ Erase(cl[a].guest, cl[a].seen)
    /\ cl' = [cl EXCEPT ![a].pc = "removing"]
    /\ UNCHANGED <<rooms, joining, todo, spent>>

DeleteReturns(a) ==
    /\ cl[a].pc = "removing"
    /\ GoesOn(a, cl[a].left \ {cl[a].guest})
    /\ UNCHANGED <<status, users, joining, spent>>

\* deleteUser rejects: End now answers with an error, the sweep logs it and
\* goes on with the next classroom.
DeleteFails(a) ==
    /\ cl[a].pc \in {"stopping", "removing"}
    /\ Fault
    /\ Leaves(a)
    /\ UNCHANGED <<rooms, users, joining>>

----------------------------------------------------------------------------
(* A crash of the control plane keeps the tables and nothing else.         *)

Crash ==
    /\ Fault
    /\ join' = [j \in Joins |-> IF join[j].pc \in Busy
                                THEN [join[j] EXCEPT !.pc = "dead"]
                                ELSE join[j]]
    /\ inFlight' = {}
    /\ pending' = [c \in Rooms |-> 0]
    /\ cl' = [a \in Cleaners |-> Idle]
    /\ todo' = {}
    /\ UNCHANGED <<rooms, users>>

Proceeds(j) ==
    \/ UserInserted(j) \/ Created(j) \/ NotCreated(j) \/ FilesMade(j)
    \/ UserRead(j) \/ SignedIn(j)

Cleans(a) ==
    \/ JoinsSettled(a) \/ DeleteCommits(a) \/ DeleteReturns(a)
    \/ \E g \in Joins : DeleteBegins(a, g)

Next ==
    \/ \E c \in Rooms : CreateClassroom(c) \/ Expire(c) \/ EndNow(c)
    \/ \E j \in Joins : \/ Join(j) \/ Proceeds(j) \/ FilesFail(j)
                        \/ SessionEnds(j) \/ DeleteUser(j)
    \/ \E a \in Cleaners : Cleans(a) \/ DeleteFails(a)
    \/ Sweep
    \/ Crash

Spec == Init /\ [][Next]_vars

\* Promises settle, and the interval of the sweeper goes on firing.
FairSpec ==
    /\ Spec
    /\ \A j \in Joins : WF_vars(Proceeds(j))
    /\ \A a \in Cleaners : WF_vars(Cleans(a))
    /\ WF_vars(Sweep)

----------------------------------------------------------------------------
(* The abstract roster.                                                    *)

PhaseOf(c) == IF cleaned[c] THEN "sealed"
              ELSE IF status[c] = "live" THEN "open"
              ELSE IF status[c] = "over" THEN "closing" ELSE "absent"

Register == INSTANCE Roster WITH
    Guests  <- Joins,
    phase   <- [c \in Rooms |-> PhaseOf(c)],
    members <- [c \in Rooms |-> GuestsOf(c)]

----------------------------------------------------------------------------
(* Properties                                                              *)

\* A classroom that is marked cleaned, and so is never swept again, has no
\* guest left, nobody is signed in to it, and no join is still on its way to
\* create one: whichever of joins, End now, sweep and deletions raced.
CleanedIsEmpty ==
    \A c \in Rooms : cleaned[c] =>
        /\ GuestsOf(c) = {} /\ JoinsOf(c) = {}
        /\ \A j \in Joins : sess[j] # None => join[sess[j]].room # c

\* Guests and creations under way never exceed the cap, however many joins
\* arrive at once.
GuestCap ==
    \A c \in Rooms : Cardinality(GuestsOf(c)) + Cardinality(CreatingOf(c)) <= Cap

\* A reserved slot is released exactly once, when createUser has settled: a
\* leak would fill the classroom for good, a double release overfill it.
SlotsExact ==
    \A c \in Rooms : pending[c] = Cardinality(HoldersOf(c))

\* Of the joins that did not confirm to be an existing guest, no two are signed
\* in as the same guest, even when they choose one name at the same time.
NoUnwittingSharing ==
    \A j, k \in Joins :
        /\ join[j].pc = "joined" /\ ~join[j].confirmed
        /\ join[k].pc = "joined" /\ ~join[k].confirmed
        /\ join[j].guest = join[k].guest
        => j = k

\* A session belongs to a guest who exists, although the join reads the user
\* and signs in across awaits while the guest may be deleted.
SessionsHaveGuests ==
    \A j \in Joins : sess[j] # None => row[sess[j]] = "here"

\* Both: a student who did not ask to rejoin is alone in the session of a
\* guest who exists.
StudentsApart == NoUnwittingSharing /\ SessionsHaveGuests

\* Classrooms implement Roster: a cleaned classroom stays empty for ever and
\* the cap is never exceeded.
RefinesRoster == Register!RSpec

\* Every classroom that is over is cleaned in the end, although deletions may
\* fail, End now may give up and the control plane may crash.
OverIsCleaned == \A c \in Rooms : (status[c] = "over") ~> cleaned[c]

\* The wait for the joins of a classroom is bounded, although students go on
\* trying to join: whoever waits to clean or to delete finishes.
CleanersReturn == \A a \in Cleaners : (cl[a].pc # "idle") ~> (cl[a].pc = "idle")

\* Why it is.  Whoever waits for the joins of a classroom waits for awaits that
\* settle, not for a join that was answered or died; and between two deletions
\* there is a guest left to delete.
WaitsEnd ==
    \A a \in Cleaners :
        /\ cl[a].pc = "waiting" => \A j \in JoinsOf(cl[a].room) : join[j].pc \in Busy
        /\ cl[a].pc = "next" => cl[a].left # {}
        /\ cl[a].pc \in {"stopping", "removing"} => cl[a].guest \in cl[a].left

\* The awaits a join has before it, at most, and those of a deletion.
Awaits(r) == CASE r.pc = "creating"                                -> 5
               [] r.pc \in {"created", "lost-race", "not-created"} -> 4
               [] r.pc = "files"                                   -> 3
               [] r.pc = "reading-user"                            -> 2
               [] r.pc = "signing-in"                              -> 1
               [] OTHER                                            -> 0
Turns(d) == CASE d.pc = "next"     -> 2
              [] d.pc = "stopping" -> 1
              [] OTHER             -> 0

\* A caller returns, turns to one of the classrooms it still has to clean,
\* lists the guests, or has one guest, or one turn of a deletion, less to go.
Closer(a) ==
    \/ cl'[a].pc = "idle"
    \/ a = "sweep" /\ cl'[a].pc = "waiting" /\ todo' # todo
    \/ cl[a].pc = "waiting" /\ cl'[a].pc = "next" /\ cl'[a].room = cl[a].room
    \/ /\ cl[a].pc # "waiting" /\ cl'[a].room = cl[a].room
       /\ \/ cl'[a].left \subseteq cl[a].left /\ cl'[a].left # cl[a].left
          \/ cl'[a].left = cl[a].left /\ Turns(cl'[a]) < Turns(cl[a])

\* And nothing lengthens what is waited for: nobody begins to join a classroom
\* that is over, the list of a pass of the sweep does not grow, and each step
\* of a join or of a caller takes it closer to its end.
CleaningAdvances ==
    [][/\ \A c \in Rooms : status[c] = "over" => JoinsOf(c)' \subseteq JoinsOf(c)
       /\ \A j \in inFlight : join'[j] = join[j] \/ Awaits(join'[j]) < Awaits(join[j])
       /\ \A a \in Cleaners : cl[a].pc # "idle" =>
            /\ cl'[a] = cl[a] \/ Closer(a)
            /\ a = "sweep" => todo' \subseteq todo]_vars

=============================================================================
