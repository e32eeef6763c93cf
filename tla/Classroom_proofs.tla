-------------------------- MODULE Classroom_proofs --------------------------
(***************************************************************************)
(* Proofs about Classroom, for any classrooms, names, cap, cleaners and    *)
(* bounds.                                                                 *)
(***************************************************************************)
EXTENDS Classroom, FiniteSetTheorems, TLAPS

\* inFlightJoins is exactly the joins under way: no way out of a join forgets
\* to take it out, and none is missing.
Registered == inFlight = {j \in Joins : join[j].pc \in Busy}

\* What a join satisfies.
JoinInv(j) ==
    /\ join[j].pc # "new" => join[j].room \in Rooms
    /\ join[j].pc \in {"new", "creating"} => row[j] = "none"
    /\ join[j].pc = "created" => row[j] = "here"
    /\ join[j].pc \in {"files", "reading-user", "signing-in", "joined"}
          => join[j].guest \in Joins /\ (join[j].confirmed \/ join[j].guest = j)
    /\ join[j].pc \in Holding => ~join[j].confirmed

\* A join names a classroom that exists.
RoomsExist ==
    \A j \in Joins : join[j].pc # "new" => status[join[j].room] # "absent"

\* The unique index idx_user_classroom_guest.
NamesUnique ==
    \A c \in Rooms : \A g, h \in GuestsOf(c) :
        join[g].name = join[h].name => g = h

\* A cleaned classroom is over, empty and without joins.
CleanedInv(c) ==
    cleaned[c] => status[c] = "over" /\ GuestsOf(c) = {} /\ JoinsOf(c) = {}

\* Once the guests of a classroom are listed, no guest is added to it, and
\* those on the list are no longer being joined for the first time.
Listed(a) ==
    /\ \A g \in cl[a].left :
         /\ join[g].pc \notin {"new", "creating", "created"}
         /\ cl[a].room # None => join[g].room = cl[a].room
    /\ cl[a].room # None =>
         /\ JoinsOf(cl[a].room) = {}
         /\ GuestsOf(cl[a].room) \subseteq cl[a].left

CleanerInv(a) ==
    /\ cl[a].room # None => status[cl[a].room] = "over"
    /\ cl[a].pc = "waiting" => cl[a].room # None
    /\ cl[a].pc \in {"next", "stopping", "removing"} => Listed(a)
    /\ cl[a].pc \in {"stopping", "removing"} => cl[a].guest \in cl[a].left
    /\ cl[a].pc = "removing" => row[cl[a].guest] # "here"

IInv ==
    /\ TypeOK
    /\ Registered
    /\ RoomsExist
    /\ NamesUnique
    /\ SessionsHaveGuests
    /\ SlotsExact
    /\ GuestCap
    /\ \A j \in Joins : JoinInv(j)
    /\ \A c \in Rooms : CleanedInv(c)
    /\ \A a \in Cleaners : CleanerInv(a)
    /\ \A c \in todo : status[c] = "over"

USE ClassroomAssumption DEF Joins, None

-----------------------------------------------------------------------------
(* Types                                                                   *)

LEMMA RequestFields ==
    ASSUME NEW r \in Requests
    PROVE  /\ r.pc \in {"new", "dead"} \cup Busy \cup Answers
           /\ r.room \in Rooms \cup {None} /\ r.name \in Names \cup {None}
           /\ r.confirmed \in BOOLEAN /\ r.guest \in Joins \cup {None}
BY DEF Requests

LEMMA DeletionFields ==
    ASSUME NEW d \in Deletions
    PROVE  /\ d.pc \in {"idle", "waiting", "next", "stopping", "removing"}
           /\ d.room \in Rooms \cup {None} /\ d.left \subseteq Joins
           /\ d.guest \in Joins \cup {None} /\ d.seen \in Joins \cup {None}
BY DEF Deletions

LEMMA FaultTypes ==
    ASSUME TypeOK, Fault
    PROVE  spent' \in [deletes : Nat, faults : Nat]
BY DEF TypeOK, Fault

-----------------------------------------------------------------------------
(* Steps of a join                                                         *)

\* Join j goes on as r: what every step of a join has in common.
Moves(j, r) ==
    /\ join[j].pc \in Busy \cup {"new"}
    /\ r \in Requests /\ r.pc # "new" /\ r.room \in Rooms
    /\ join[j].pc = "new" => status[r.room] # "absent"
    /\ join[j].pc # "new" => r.room = join[j].room /\ r.name = join[j].name
    /\ r.pc \in Busy => join[j].pc \in Busy \/ status[r.room] = "live"
    /\ r.pc = "creating" => join[j].pc = "new"
    /\ r.pc = "created" => join[j].pc = "creating"
    /\ join' = [join EXCEPT ![j] = r]
    /\ inFlight' = IF r.pc \in Busy THEN inFlight \cup {j} ELSE inFlight \ {j}
    /\ \/ row' = row
       \/ /\ row' = [row EXCEPT ![j] = "here"]
          /\ join[j].pc = "creating" /\ r.pc = "created"
          /\ Named(r.room, r.name) = {}
    /\ UNCHANGED <<rooms, cleaning>>

\* What it does to the guests of the classrooms.
LEMMA MoveGuests ==
    ASSUME IInv, NEW j \in Joins, NEW r, Moves(j, r), NEW c \in Rooms
    PROVE  /\ c # r.room \/ row' = row => GuestsOf(c)' = GuestsOf(c)
           /\ c = r.room /\ row' # row
                 => GuestsOf(c)' = GuestsOf(c) \cup {j} /\ j \in CreatingOf(c)
<1>1. /\ join \in [Joins -> Requests] /\ row \in [Joins -> {"none", "here", "gone"}]
      /\ join'[j] = r /\ \A k \in Joins : k # j => join'[k] = join[k]
      /\ \A k \in Joins : k # j => row'[k] = row[k]
  BY DEF IInv, TypeOK, Moves
<1>2. join[j].room = r.room \/ row[j] # "here"
  BY DEF IInv, JoinInv, Moves
<1>3. CASE row' = row
  BY <1>1, <1>2, <1>3 DEF GuestsOf
<1>4. CASE row' # row
  <2>1. row'[j] = "here" /\ join[j].pc = "creating" /\ join[j].room = r.room
    BY <1>1, <1>4 DEF Moves
  <2>. QED
    BY <1>1, <1>4, <2>1 DEF GuestsOf, CreatingOf
<1>. QED
  BY <1>3, <1>4

LEMMA FinitelyManyJoins ==
    ASSUME NEW S \in SUBSET Joins
    PROVE  IsFiniteSet(S) /\ Cardinality(S) \in Nat
<1>1. IsFiniteSet(Joins)
  BY FS_Interval
<1>. QED
  BY <1>1, FS_Subset, FS_CardinalityType

\* The slot of j is reserved under the cap, kept, or released.
SlotMoves(j, r) ==
    \/ pending' = pending /\ (join[j].pc \in Holding <=> r.pc \in Holding)
    \/ /\ join[j].pc = "new" /\ r.pc = "creating" /\ SlotFree(r.room)
       /\ pending' = [pending EXCEPT ![r.room] = @ + 1]
    \/ /\ join[j].pc \in Holding /\ r.pc \notin Holding
       /\ pending' = Released(r.room)

LEMMA OneLess ==
    ASSUME NEW S, IsFiniteSet(S), NEW x \in S
    PROVE  Cardinality(S \ {x}) = Cardinality(S) - 1
BY FS_RemoveElement

LEMMA MoveSlots ==
    ASSUME IInv, NEW j \in Joins, NEW r, Moves(j, r), SlotMoves(j, r),
           NEW c \in Rooms
    PROVE  /\ pending'[c] = Cardinality(HoldersOf(c)')
           /\ pending'[c] \in Nat
<1>1. /\ join \in [Joins -> Requests] /\ pending \in [Rooms -> Nat]
      /\ join'[j] = r /\ \A k \in Joins : k # j => join'[k] = join[k]
      /\ r.room \in Rooms /\ (join[j].pc \in Holding => join[j].room = r.room)
      /\ pending[c] = Cardinality(HoldersOf(c))
  BY DEF IInv, TypeOK, Moves, SlotsExact, Holding
<1>2. HoldersOf(c) \subseteq Joins
  BY DEF HoldersOf
<1>3. IsFiniteSet(HoldersOf(c)) /\ Cardinality(HoldersOf(c)) \in Nat
  BY <1>2, FinitelyManyJoins
<1>4. CASE c # r.room \/ (join[j].pc \in Holding <=> r.pc \in Holding)
  <2>1. HoldersOf(c)' = HoldersOf(c)
    BY <1>1, <1>4 DEF HoldersOf
  <2>2. pending'[c] = pending[c]
    BY <1>1, <1>4 DEF SlotMoves, Released, Holding
  <2>. QED
    BY <1>1, <2>1, <2>2
<1>5. CASE c = r.room /\ join[j].pc \notin Holding /\ r.pc \in Holding
  <2>1. HoldersOf(c)' = HoldersOf(c) \cup {j} /\ j \notin HoldersOf(c)
    BY <1>1, <1>5 DEF HoldersOf
  <2>2. Cardinality(HoldersOf(c)') = Cardinality(HoldersOf(c)) + 1
    BY <1>3, <2>1, FS_AddElement
  <2>3. pending'[c] = pending[c] + 1
    BY <1>1, <1>5 DEF SlotMoves
  <2>. QED
    BY <1>1, <1>3, <2>2, <2>3
<1>6. CASE c = r.room /\ join[j].pc \in Holding /\ r.pc \notin Holding
  <2>1. HoldersOf(c)' = HoldersOf(c) \ {j} /\ j \in HoldersOf(c)
    BY <1>1, <1>6 DEF HoldersOf
  <2>2. Cardinality(HoldersOf(c)') = Cardinality(HoldersOf(c)) - 1
    BY <1>3, <2>1, OneLess
  <2>3. Cardinality(HoldersOf(c)) # 0
    BY <1>3, <2>1, FS_EmptySet
  <2>4. pending'[c] = pending[c] - 1
    BY <1>1, <1>6 DEF SlotMoves, Released, Holding
  <2>. QED
    BY <1>1, <1>3, <2>2, <2>3, <2>4
<1>. QED
  BY <1>4, <1>5, <1>6

LEMMA MoveCap ==
    ASSUME IInv, NEW j \in Joins, NEW r, Moves(j, r), SlotMoves(j, r),
           NEW c \in Rooms
    PROVE  Cardinality(GuestsOf(c)') + Cardinality(CreatingOf(c)') <= Cap
<1>1. /\ join \in [Joins -> Requests] /\ Cap \in Nat
      /\ join'[j] = r /\ \A k \in Joins : k # j => join'[k] = join[k]
      /\ join[j].pc # "new" => join[j].room = r.room
      /\ Cardinality(GuestsOf(c)) + Cardinality(CreatingOf(c)) <= Cap
  BY DEF IInv, TypeOK, Moves, GuestCap
<1>2. /\ IsFiniteSet(GuestsOf(c)) /\ Cardinality(GuestsOf(c)) \in Nat
      /\ IsFiniteSet(CreatingOf(c)) /\ Cardinality(CreatingOf(c)) \in Nat
      /\ IsFiniteSet(HoldersOf(c)) /\ Cardinality(HoldersOf(c)) \in Nat
  <2>1. /\ GuestsOf(c) \subseteq Joins /\ CreatingOf(c) \subseteq Joins
        /\ HoldersOf(c) \subseteq Joins
    BY DEF GuestsOf, CreatingOf, HoldersOf
  <2>. QED
    BY <2>1, FinitelyManyJoins
<1>3. Cardinality(CreatingOf(c)) <= Cardinality(HoldersOf(c))
  <2>1. CreatingOf(c) \subseteq HoldersOf(c)
    BY DEF CreatingOf, HoldersOf, Holding
  <2>. QED
    BY <1>2, <2>1, FS_Subset
<1>4. CASE c = r.room /\ r.pc = "creating"
  <2>1. row' = row /\ SlotFree(c) /\ j \notin CreatingOf(c)
    BY <1>4 DEF Moves, SlotMoves, CreatingOf, Holding
  <2>2. GuestsOf(c)' = GuestsOf(c)
    BY <2>1, MoveGuests
  <2>3. CreatingOf(c)' = CreatingOf(c) \cup {j}
    BY <1>1, <1>4 DEF CreatingOf
  <2>4. Cardinality(CreatingOf(c)') = Cardinality(CreatingOf(c)) + 1
    BY <1>2, <2>1, <2>3, FS_AddElement
  <2>5. Cardinality(GuestsOf(c)) + Cardinality(HoldersOf(c)) < Cap
    BY <2>1 DEF SlotFree, IInv, SlotsExact
  <2>. QED
    BY <1>1, <1>2, <1>3, <2>2, <2>4, <2>5
<1>5. CASE c = r.room /\ row' # row
  <2>1. GuestsOf(c)' = GuestsOf(c) \cup {j} /\ j \in CreatingOf(c)
    BY <1>5, MoveGuests
  <2>2. r.pc # "creating"
    BY <1>5 DEF Moves
  <2>3. CreatingOf(c)' = CreatingOf(c) \ {j}
    BY <1>1, <1>5, <2>2 DEF CreatingOf
  <2>4. Cardinality(CreatingOf(c)') = Cardinality(CreatingOf(c)) - 1
    BY <1>2, <2>1, <2>3, OneLess
  <2>5. \/ Cardinality(GuestsOf(c)') = Cardinality(GuestsOf(c)) + 1
        \/ Cardinality(GuestsOf(c)') = Cardinality(GuestsOf(c))
    BY <1>2, <2>1, FS_AddElement
  <2>. QED
    BY <1>1, <1>2, <2>4, <2>5
<1>6. CASE c # r.room \/ (r.pc # "creating" /\ row' = row)
  <2>1. GuestsOf(c)' = GuestsOf(c)
    BY <1>6, MoveGuests
  <2>2. CreatingOf(c)' \subseteq CreatingOf(c)
    BY <1>1, <1>6 DEF CreatingOf
  <2>3. Cardinality(CreatingOf(c)') <= Cardinality(CreatingOf(c))
        /\ Cardinality(CreatingOf(c)') \in Nat
    BY <1>2, <2>2, FS_Subset, FS_CardinalityType
  <2>. QED
    BY <1>1, <1>2, <2>1, <2>3
<1>. QED
  BY <1>4, <1>5, <1>6

\* The types of what a step of a join changes.
LEMMA MoveTypes ==
    ASSUME IInv, NEW j \in Joins, NEW r, Moves(j, r), SlotMoves(j, r),
           ws' \in [Joins -> Joins \cup {None}],
           sess' \in [Joins -> Joins \cup {None}],
           spent' \in [deletes : Nat, faults : Nat]
    PROVE  TypeOK'
<1>1. pending' \in [Rooms -> Nat]
  <2>1. \A c \in Rooms : pending'[c] \in Nat
    BY MoveSlots
  <2>2. pending \in [Rooms -> Nat] /\ r.room \in Rooms
    BY DEF IInv, TypeOK, Moves
  <2>3. /\ pending' = [pending EXCEPT ![r.room] = pending'[r.room]]
    BY <2>2 DEF SlotMoves, Released
  <2>4. pending'[r.room] \in Nat
    BY <2>1, <2>2
  <2>. QED
    BY <2>2, <2>3, <2>4
<1>. QED
  BY <1>1 DEF IInv, TypeOK, Moves, rooms, cleaning

LEMMA MoveInv ==
    ASSUME IInv, NEW j \in Joins, NEW r, Moves(j, r), SlotMoves(j, r),
           ws' \in [Joins -> Joins \cup {None}],
           sess' \in [Joins -> Joins \cup {None}],
           spent' \in [deletes : Nat, faults : Nat],
           SessionsHaveGuests', JoinInv(j)'
    PROVE  IInv'
<1>0. TypeOK'
  BY MoveTypes
<1>1. /\ join \in [Joins -> Requests] /\ row \in [Joins -> {"none", "here", "gone"}]
      /\ join'[j] = r /\ \A k \in Joins : k # j => join'[k] = join[k]
      /\ \A k \in Joins : k # j => row'[k] = row[k]
      /\ join'[j].pc = r.pc /\ join'[j].room = r.room /\ join'[j].name = r.name
  BY DEF IInv, TypeOK, Moves
<1>2. Registered'
  BY <1>1 DEF IInv, Registered, Moves
<1>3. ASSUME NEW k \in Joins PROVE JoinInv(k)'
  <2>1. CASE k # j
    <3>1. join'[k] = join[k] /\ row'[k] = row[k] /\ JoinInv(k)
      BY <1>1, <2>1 DEF IInv
    <3>. QED
      BY <3>1 DEF JoinInv
  <2>. QED
    BY <2>1
<1>4. \A c \in Rooms : GuestsOf(c)' \subseteq GuestsOf(c) \cup {j}
  BY <1>1 DEF GuestsOf
<1>5. \A k \in Joins : k \in GuestsOf(r.room)' => k = j \/ k \in GuestsOf(r.room)
  BY <1>1 DEF GuestsOf
<1>6. \A c \in Rooms : c # r.room => GuestsOf(c)' = GuestsOf(c)
  BY MoveGuests
<1>7. row' = row => GuestsOf(r.room)' = GuestsOf(r.room)
  BY MoveGuests DEF Moves
<1>8. NamesUnique'
  <2> SUFFICES ASSUME NEW c \in Rooms, NEW g \in GuestsOf(c)', NEW h \in GuestsOf(c)',
                      join'[g].name = join'[h].name
               PROVE  g = h
    BY DEF NamesUnique
  <2>0. g \in Joins /\ h \in Joins /\ row'[g] = "here" /\ row'[h] = "here"
    BY DEF GuestsOf
  <2>1. CASE row' = row
    <3>1. g \in GuestsOf(c) /\ h \in GuestsOf(c)
      BY <1>6, <1>7, <2>1
    <3>2. \A k \in Joins : row[k] = "here" => join'[k].name = join[k].name
      BY <1>1 DEF IInv, JoinInv, Moves
    <3>3. join[g].name = join[h].name
      BY <2>0, <2>1, <3>2
    <3>. QED
      BY <3>1, <3>3 DEF IInv, NamesUnique
  <2>2. CASE row' # row
    <3>1. Named(r.room, r.name) = {} /\ r.room = join[j].room /\ r.name = join[j].name
      BY <2>2 DEF Moves
    <3>2. \A k \in Joins : k # j /\ row'[k] = "here" /\ join'[k].room = r.room
                              => join'[k].name # r.name
      BY <1>1, <3>1 DEF Named, GuestsOf
    <3>3. join'[g].room = c /\ join'[h].room = c
      BY DEF GuestsOf
    <3>4. CASE c = r.room
      <4>1. g # j /\ h # j => g \in GuestsOf(c) /\ h \in GuestsOf(c)
                              /\ join[g].name = join[h].name
        BY <1>1, <1>5, <2>0, <3>4
      <4>2. g = j <=> h = j
        BY <1>1, <2>0, <3>2, <3>3, <3>4
      <4>. QED
        BY <4>1, <4>2 DEF IInv, NamesUnique
    <3>5. CASE c # r.room
      <4>1. g # j /\ h # j
        BY <1>1, <3>3, <3>5
      <4>2. g \in GuestsOf(c) /\ h \in GuestsOf(c) /\ join[g].name = join[h].name
        BY <1>1, <1>6, <3>5, <2>0, <4>1
      <4>. QED
        BY <4>2 DEF IInv, NamesUnique
    <3>. QED
      BY <3>4, <3>5
  <2>. QED
    BY <2>1, <2>2
<1>9. \A c \in Rooms : JoinsOf(c)' \subseteq JoinsOf(c) \cup {j}
  <2>1. \A k \in inFlight' : k = j \/ k \in inFlight
    BY DEF Moves
  <2>2. inFlight' \subseteq Joins
    BY <1>0 DEF TypeOK
  <2>. QED
    BY <1>1, <2>1, <2>2 DEF JoinsOf
<1>10. ASSUME NEW c \in Rooms, status[c] = "over", JoinsOf(c) = {}
       PROVE  GuestsOf(c)' = GuestsOf(c) /\ JoinsOf(c)' = {}
  <2>1. join[j].pc \in Busy => join[j].room # c
    BY <1>10 DEF JoinsOf, IInv, Registered
  <2>2. r.pc \in Busy => r.room # c
    BY <1>10, <2>1 DEF Moves, Busy
  <2>3. row' # row => r.room # c
    BY <2>1 DEF Moves, Busy
  <2>4. j \notin JoinsOf(c)'
    BY <1>1, <2>2 DEF JoinsOf, Moves
  <2>. QED
    BY <1>6, <1>7, <1>9, <1>10, <2>3, <2>4
<1>11. \A c \in Rooms : CleanedInv(c)'
  BY <1>10 DEF IInv, CleanedInv, Moves, rooms
<1>12. ASSUME NEW a \in Cleaners, cl[a].pc \in {"next", "stopping", "removing"}
       PROVE  Listed(a)'
  <2>0. cl' = cl /\ cl[a] \in Deletions /\ Listed(a)
    BY <1>12 DEF Moves, cleaning, IInv, TypeOK, CleanerInv
  <2>1. cl[a].room # None => cl[a].room \in Rooms /\ status[cl[a].room] = "over"
    BY <1>12, <2>0, DeletionFields DEF IInv, CleanerInv
  <2>2. ASSUME NEW g \in cl[a].left
        PROVE  /\ join'[g].pc \notin {"new", "creating", "created"}
               /\ cl[a].room # None => join'[g].room = cl[a].room
    <3>1. g \in Joins /\ join[g].pc \notin {"new", "creating", "created"}
      BY <2>0, <2>2, DeletionFields DEF Listed
    <3>2. join'[g].pc \notin {"new", "creating", "created"}
      <4>1. g = j => r.pc # "new"
        BY DEF Moves
      <4>. QED
        BY <1>1, <3>1, <4>1 DEF Moves
    <3>3. join'[g].room = join[g].room
      BY <1>1, <3>1 DEF Moves
    <3>. QED
      BY <2>0, <2>2, <3>2, <3>3 DEF Listed
  <2>. QED
    BY <1>10, <2>0, <2>1, <2>2 DEF Listed
<1>13. \A a \in Cleaners : CleanerInv(a)'
  <2> SUFFICES ASSUME NEW a \in Cleaners PROVE CleanerInv(a)'
    OBVIOUS
  <2>1. cl' = cl /\ status' = status /\ CleanerInv(a) /\ cl[a] \in Deletions
    BY DEF Moves, cleaning, rooms, IInv, TypeOK
  <2>2. ASSUME cl[a].pc = "removing" PROVE row'[cl[a].guest] # "here"
    <3>1. Listed(a) /\ cl[a].guest \in cl[a].left /\ row[cl[a].guest] # "here"
      BY <2>1, <2>2 DEF CleanerInv
    <3>2. cl[a].guest \in Joins /\ join[cl[a].guest].pc # "creating"
      BY <2>1, <3>1, DeletionFields DEF Listed
    <3>. QED
      BY <1>1, <3>1, <3>2 DEF Moves
  <2>. QED
    BY <1>12, <2>1, <2>2 DEF CleanerInv
<1>14. \A c \in todo' : status'[c] = "over"
  BY DEF Moves, cleaning, rooms, IInv
<1>15. SlotsExact' /\ GuestCap'
  BY MoveSlots, MoveCap DEF SlotsExact, GuestCap
<1>16. RoomsExist'
  BY <1>1 DEF RoomsExist, Moves, rooms, IInv
<1>. QED
  BY <1>0, <1>2, <1>3, <1>8, <1>11, <1>13, <1>14, <1>15, <1>16 DEF IInv

\* A new join that is refused, or begins.
LEMMA JoinStep ==
    ASSUME IInv, NEW j \in Joins, Join(j)
    PROVE  IInv'
<1>1. /\ join[j].pc = "new" /\ row[j] = "none" /\ JoinInv(j)
      /\ join \in [Joins -> Requests] /\ inFlight \subseteq Joins
      /\ pending \in [Rooms -> Nat] /\ ws \in [Joins -> Joins \cup {None}]
      /\ j \notin inFlight
  BY DEF Join, IInv, JoinInv, TypeOK, Registered, Busy
<1>2. PICK c \in Rooms, n \in Names :
          /\ status[c] # "absent"
          /\ \/ \E answer \in Refused : JoinRefused(j, c, n, answer)
             \/ JoinNew(j, c, n)
             \/ Rejoin(j, c, n)
  BY DEF Join
<1>3. CASE \E answer \in Refused : JoinRefused(j, c, n, answer)
  <2>1. PICK answer \in Refused : JoinRefused(j, c, n, answer)
    BY <1>3
  <2> DEFINE r == [NewJoin EXCEPT !.pc = answer, !.room = c, !.name = n]
  <2>2. /\ r \in Requests /\ r.pc = answer /\ r.room = c /\ r.name = n
        /\ answer \notin Busy /\ answer \notin {"new", "creating", "created", "joined"}
        /\ answer \notin Holding
    BY DEF NewJoin, Requests, Answers, Refused, Busy, Holding
  <2>3. join' = [join EXCEPT ![j] = r] /\ UNCHANGED <<users, inFlight, pending>>
    BY <2>1 DEF JoinRefused
  <2> HIDE DEF r
  <2>4. Moves(j, r)
    BY <1>1, <1>2, <2>2, <2>3 DEF Moves, users, Join, Busy
  <2>5. SlotMoves(j, r) /\ UNCHANGED <<ws, sess, spent>>
    BY <1>1, <2>2, <2>3 DEF SlotMoves, Holding, Join, users
  <2>6. SessionsHaveGuests'
    BY <2>3 DEF IInv, SessionsHaveGuests, users
  <2>7. JoinInv(j)'
    BY <1>1, <2>2, <2>3 DEF JoinInv, Busy
  <2>. QED
    BY <2>4, <2>5, <2>6, <2>7, MoveInv DEF IInv, TypeOK
<1>4. CASE JoinNew(j, c, n)
  <2> DEFINE r == [NewJoin EXCEPT !.pc = "creating", !.room = c, !.name = n]
  <2>2. /\ r \in Requests /\ r.pc = "creating" /\ r.room = c /\ r.name = n
        /\ ~r.confirmed
    BY DEF NewJoin, Requests, Busy
  <2>3. /\ join' = [join EXCEPT ![j] = r] /\ UNCHANGED users
        /\ status[c] = "live" /\ inFlight' = inFlight \cup {j}
        /\ pending' = [pending EXCEPT ![c] = @ + 1]
    BY <1>4 DEF JoinNew
  <2> HIDE DEF r
  <2>4. Moves(j, r)
    BY <1>1, <1>2, <2>2, <2>3 DEF Moves, users, Join, Busy
  <2>5. SlotMoves(j, r) /\ UNCHANGED <<ws, sess, spent>>
    BY <1>1, <1>4, <2>2, <2>3 DEF SlotMoves, JoinNew, Join, users
  <2>6. SessionsHaveGuests'
    BY <2>3 DEF IInv, SessionsHaveGuests, users
  <2>7. JoinInv(j)'
    BY <1>1, <2>2, <2>3 DEF JoinInv, users
  <2>. QED
    BY <2>4, <2>5, <2>6, <2>7, MoveInv DEF IInv, TypeOK
<1>5. CASE Rejoin(j, c, n)
  <2>1. PICK g \in Named(c, n) :
          /\ join' = [join EXCEPT ![j] =
                [pc |-> IF ws[g] # None THEN "reading-user" ELSE "files",
                 room |-> c, name |-> n, confirmed |-> TRUE, guest |-> g]]
          /\ ws' = IF ws[g] # None THEN ws ELSE [ws EXCEPT ![g] = j]
    BY <1>5 DEF Rejoin
  <2> DEFINE r == [pc |-> IF ws[g] # None THEN "reading-user" ELSE "files",
                   room |-> c, name |-> n, confirmed |-> TRUE, guest |-> g]
  <2>2. g \in Joins
    BY DEF Named, GuestsOf
  <2>3. /\ r \in Requests /\ r.pc \in {"reading-user", "files"}
        /\ r.room = c /\ r.name = n /\ r.confirmed /\ r.guest = g
    BY <2>2 DEF Requests, Busy
  <2>4. /\ join' = [join EXCEPT ![j] = r] /\ UNCHANGED <<row, sess, pending>>
        /\ status[c] = "live" /\ inFlight' = inFlight \cup {j}
        /\ ws' \in [Joins -> Joins \cup {None}]
    BY <1>1, <1>5, <2>1, <2>2 DEF Rejoin
  <2> HIDE DEF r
  <2>5. Moves(j, r)
    BY <1>1, <1>2, <2>3, <2>4 DEF Moves, Join, Busy
  <2>6. SlotMoves(j, r) /\ UNCHANGED <<sess, spent>>
    BY <1>1, <2>3, <2>4 DEF SlotMoves, Holding, Join
  <2>7. SessionsHaveGuests'
    BY <2>4 DEF IInv, SessionsHaveGuests
  <2>8. JoinInv(j)'
    BY <1>1, <2>2, <2>3, <2>4 DEF JoinInv, Holding
  <2>. QED
    BY <2>4, <2>5, <2>6, <2>7, <2>8, MoveInv DEF IInv, TypeOK
<1>. QED
  BY <1>2, <1>3, <1>4, <1>5

\* A join under way goes on, or is answered, without its slot.
LEMMA BusyJoin ==
    ASSUME IInv, NEW j \in Joins, join[j].pc \in Busy
    PROVE  /\ join \in [Joins -> Requests] /\ join[j] \in Requests
           /\ join[j].room \in Rooms /\ JoinInv(j) /\ j \in inFlight
           /\ ws \in [Joins -> Joins \cup {None}]
           /\ sess \in [Joins -> Joins \cup {None}]
           /\ row \in [Joins -> {"none", "here", "gone"}]
           /\ spent \in [deletes : Nat, faults : Nat]
BY DEF IInv, TypeOK, Registered, JoinInv, Busy

LEMMA UserInsertedStep ==
    ASSUME IInv, NEW j \in Joins, UserInserted(j)
    PROVE  IInv'
<1>0. join[j].pc = "creating"
  BY DEF UserInserted
<1>1. /\ join \in [Joins -> Requests] /\ join[j] \in Requests
      /\ join[j].room \in Rooms /\ JoinInv(j) /\ j \in inFlight
      /\ row \in [Joins -> {"none", "here", "gone"}]
  BY <1>0, BusyJoin DEF Busy
<1>2. PICK pc \in {"created", "lost-race", "not-created"} :
          /\ join' = [join EXCEPT ![j].pc = pc]
          /\ \/ row' = row /\ pc # "created"
             \/ /\ row' = [row EXCEPT ![j] = "here"] /\ pc = "created"
                /\ Named(join[j].room, join[j].name) = {}
  BY DEF UserInserted
<1> DEFINE r == [join[j] EXCEPT !.pc = pc]
<1>3. /\ r \in Requests /\ r.pc = pc /\ r.room = join[j].room /\ r.name = join[j].name
      /\ r.guest = join[j].guest /\ r.confirmed = join[j].confirmed
  BY <1>1 DEF Requests, Busy
<1>4. join' = [join EXCEPT ![j] = r]
  BY <1>1, <1>2
<1> HIDE DEF r
<1>5. Moves(j, r)
  <2>1. inFlight' = inFlight \cup {j} /\ UNCHANGED <<rooms, cleaning>>
    BY <1>1 DEF UserInserted
  <2>2. r.pc \in Busy /\ join[j].pc \in Busy /\ r.pc \notin {"new", "creating"}
    BY <1>0, <1>3 DEF Busy
  <2>. QED
    BY <1>0, <1>1, <1>2, <1>3, <1>4, <2>1, <2>2 DEF Moves
<1>6. SlotMoves(j, r)
  BY <1>0, <1>2, <1>3 DEF SlotMoves, Holding, UserInserted
<1>7. spent' \in [deletes : Nat, faults : Nat]
  BY FaultTypes DEF UserInserted, IInv, TypeOK
<1>8. SessionsHaveGuests'
  <2>1. \A g \in Joins : row[g] = "here" => row'[g] = "here"
    BY <1>1, <1>2
  <2>2. sess' = sess /\ sess \in [Joins -> Joins \cup {None}]
    BY DEF UserInserted, IInv, TypeOK
  <2>. QED
    BY <2>1, <2>2 DEF IInv, SessionsHaveGuests
<1>9. JoinInv(j)'
  BY <1>0, <1>1, <1>2, <1>3, <1>4 DEF JoinInv, Holding
<1>. QED
  BY <1>5, <1>6, <1>7, <1>8, <1>9, MoveInv DEF UserInserted, IInv, TypeOK

\* The steps that leave the user rows and their sessions as they are.
LEMMA GoesOnInv ==
    ASSUME IInv, NEW j \in Joins, join[j].pc \in Busy \ {"creating"},
           NEW pc \in Answers \cup {"files", "reading-user", "signing-in"},
           NEW g \in Joins \cup {None},
           join' = [join EXCEPT ![j] = [@ EXCEPT !.pc = pc, !.guest = g]],
           inFlight' = IF pc \in Busy THEN inFlight ELSE inFlight \ {j},
           IF join[j].pc \in Holding THEN pending' = Released(join[j].room)
                                     ELSE pending' = pending,
           pc \notin Refused =>
              g \in Joins /\ (join[j].confirmed \/ g = j),
           ws' \in [Joins -> Joins \cup {None}],
           sess' = sess \/ (sess' = [sess EXCEPT ![j] = g] /\ row[g] = "here"
                            /\ g \in Joins),
           spent' \in [deletes : Nat, faults : Nat],
           UNCHANGED <<rooms, row, cleaning>>
    PROVE  IInv'
<1>1. /\ join \in [Joins -> Requests] /\ join[j] \in Requests
      /\ join[j].room \in Rooms /\ JoinInv(j) /\ j \in inFlight
      /\ sess \in [Joins -> Joins \cup {None}]
  BY BusyJoin
<1> DEFINE r == [join[j] EXCEPT !.pc = pc, !.guest = g]
<1>2. /\ r \in Requests /\ r.pc = pc /\ r.room = join[j].room /\ r.name = join[j].name
      /\ r.guest = g /\ r.confirmed = join[j].confirmed
      /\ pc \notin Holding /\ pc \notin {"new", "creating", "created"}
  BY <1>1 DEF Requests, Busy, Answers, Refused, Holding
<1>3. join' = [join EXCEPT ![j] = r]
  BY <1>1
<1> HIDE DEF r
<1>4. Moves(j, r)
  <2>0. inFlight \cup {j} = inFlight
    BY <1>1
  <2>1. inFlight' = IF r.pc \in Busy THEN inFlight \cup {j} ELSE inFlight \ {j}
    BY <1>2, <2>0
  <2>2. join[j].pc \in Busy /\ join[j].pc # "new"
    BY DEF Busy
  <2>. QED
    BY <1>1, <1>2, <1>3, <2>1, <2>2 DEF Moves
<1>5. SlotMoves(j, r)
  BY <1>2 DEF SlotMoves
<1>6. sess' \in [Joins -> Joins \cup {None}]
  BY <1>1
<1>7. SessionsHaveGuests'
  BY <1>1 DEF IInv, SessionsHaveGuests
<1>8. JoinInv(j)'
  BY <1>1, <1>2, <1>3 DEF JoinInv, Holding, Answers, Refused
<1>. QED
  BY <1>4, <1>5, <1>6, <1>7, <1>8, MoveInv

LEMMA CreatedStep ==
    ASSUME IInv, NEW j \in Joins, Created(j)
    PROVE  IInv'
<1>0. join[j].pc = "created"
  BY DEF Created
<1>1. /\ join \in [Joins -> Requests] /\ join[j] \in Requests
      /\ join[j].room \in Rooms /\ JoinInv(j)
      /\ ws \in [Joins -> Joins \cup {None}]
      /\ spent \in [deletes : Nat, faults : Nat]
  BY <1>0, BusyJoin DEF Busy
<1>2. /\ pending' = Released(join[j].room) /\ join[j].pc \in Holding
      /\ join[j].pc \in Busy \ {"creating"}
      /\ UNCHANGED <<rooms, row, sess, cleaning, spent>>
  BY <1>0 DEF Created, Holding, Busy
<1>3. CASE status[join[j].room] # "live"
  <2>1. /\ join' = [join EXCEPT ![j] = [@ EXCEPT !.pc = "no-classroom",
                                                !.guest = join[j].guest]]
    BY <1>1, <1>3 DEF Created, Answer, Requests
  <2>2. inFlight' = inFlight \ {j} /\ ws' = ws
    BY <1>3 DEF Created, Answer
  <2>3. join[j].guest \in Joins \cup {None} /\ "no-classroom" \in Refused
        /\ "no-classroom" \notin Busy
    BY <1>1, RequestFields DEF Refused, Busy
  <2>. QED
    BY <1>1, <1>2, <2>1, <2>2, <2>3, GoesOnInv DEF Answers
<1>4. CASE status[join[j].room] = "live"
  <2>1. PICK g \in Named(join[j].room, join[j].name) : EnsureWorkspace(j, g)
    BY <1>4 DEF Created
  <2>2. g \in Joins /\ g = j
    BY <1>0, <1>1 DEF Named, GuestsOf, JoinInv, IInv, NamesUnique
  <2>3. PICK pc \in {"files", "reading-user"} :
            join' = [join EXCEPT ![j].pc = pc, ![j].guest = g]
    BY <2>1 DEF EnsureWorkspace
  <2>4. join' = [join EXCEPT ![j] = [@ EXCEPT !.pc = pc, !.guest = g]]
    BY <1>1, <2>3
  <2>5. ws' \in [Joins -> Joins \cup {None}]
    BY <1>1, <2>1, <2>2 DEF EnsureWorkspace
  <2>6. inFlight' = inFlight /\ pc \in Busy /\ pc \notin Refused
    BY <1>4 DEF Created, Busy, Refused
  <2>. QED
    BY <1>1, <1>2, <2>2, <2>4, <2>5, <2>6, GoesOnInv
<1>. QED
  BY <1>3, <1>4

\* The steps in which a join only changes its place or is answered.
LEMMA PlaceStep ==
    ASSUME IInv, NEW j \in Joins, join[j].pc \in Busy \ {"creating"},
           NEW pc \in Answers \cup {"files", "reading-user", "signing-in"},
           join' = [join EXCEPT ![j].pc = pc],
           inFlight' = IF pc \in Busy THEN inFlight ELSE inFlight \ {j},
           IF join[j].pc \in Holding THEN pending' = Released(join[j].room)
                                     ELSE pending' = pending,
           pc \notin Refused =>
              join[j].pc \in {"files", "reading-user", "signing-in"},
           ws' \in [Joins -> Joins \cup {None}],
           \/ sess' = sess
           \/ /\ sess' = [sess EXCEPT ![j] = join[j].guest] /\ pc = "joined"
              /\ row[join[j].guest] = "here",
           spent' \in [deletes : Nat, faults : Nat],
           UNCHANGED <<rooms, row, cleaning>>
    PROVE  IInv'
<1>1. /\ join \in [Joins -> Requests] /\ join[j] \in Requests /\ JoinInv(j)
      /\ join[j].guest \in Joins \cup {None}
  BY BusyJoin, RequestFields
<1>2. join' = [join EXCEPT ![j] = [@ EXCEPT !.pc = pc, !.guest = join[j].guest]]
  BY <1>1 DEF Requests
<1>3. pc \notin Refused => join[j].guest \in Joins
                            /\ (join[j].confirmed \/ join[j].guest = j)
  BY <1>1 DEF JoinInv
<1>. QED
  BY <1>1, <1>2, <1>3, GoesOnInv DEF Refused

LEMMA OtherJoinSteps ==
    ASSUME IInv, NEW j \in Joins,
           \/ NotCreated(j) \/ FilesMade(j) \/ FilesFail(j)
           \/ UserRead(j) \/ SignedIn(j)
    PROVE  IInv'
<1>0. /\ ws \in [Joins -> Joins \cup {None}]
      /\ spent \in [deletes : Nat, faults : Nat]
      /\ {"taken", "failed"} \subseteq Refused
      /\ {"taken", "failed", "joined"} \subseteq Answers \ Busy
  BY DEF IInv, TypeOK, Refused, Answers, Busy
<1>1. CASE NotCreated(j)
  <2>1. PICK pc \in {"taken", "failed"} : Answer(j, pc)
    BY <1>1 DEF NotCreated
  <2>2. join[j].pc \in {"lost-race", "not-created"}
        /\ pending' = Released(join[j].room)
        /\ UNCHANGED <<rooms, users, cleaning, spent>>
    BY <1>1 DEF NotCreated
  <2>. QED
    BY <1>0, <2>1, <2>2, PlaceStep DEF Answer, Busy, Holding, users
<1>2. CASE FilesMade(j)
  <2>1. /\ join[j].pc = "files"
        /\ UNCHANGED <<rooms, users, pending, cleaning, spent>>
        /\ \/ join' = [join EXCEPT ![j].pc = "reading-user"] /\ inFlight' = inFlight
           \/ Answer(j, "failed")
    BY <1>2 DEF FilesMade
  <2>. QED
    BY <1>0, <2>1, PlaceStep DEF Answer, Busy, Holding, users
<1>3. CASE FilesFail(j)
  <2>1. /\ join[j].pc = "files" /\ Answer(j, "failed")
        /\ UNCHANGED <<rooms, row, sess, pending, cleaning>>
        /\ ws' \in [Joins -> Joins \cup {None}]
    BY <1>0, <1>3 DEF FilesFail
  <2>2. spent' \in [deletes : Nat, faults : Nat]
    BY <1>3, FaultTypes DEF FilesFail, IInv
  <2>. QED
    BY <1>0, <2>1, <2>2, PlaceStep DEF Answer, Busy, Holding
<1>4. CASE UserRead(j)
  <2>1. /\ join[j].pc = "reading-user"
        /\ UNCHANGED <<rooms, users, pending, cleaning, spent>>
        /\ \/ join' = [join EXCEPT ![j].pc = "signing-in"] /\ inFlight' = inFlight
           \/ Answer(j, "failed")
    BY <1>4 DEF UserRead
  <2>. QED
    BY <1>0, <2>1, PlaceStep DEF Answer, Busy, Holding, users
<1>5. CASE SignedIn(j)
  <2>1. spent' \in [deletes : Nat, faults : Nat]
    BY <1>0, <1>5, FaultTypes DEF SignedIn, IInv
  <2>2. /\ join[j].pc = "signing-in" /\ UNCHANGED <<rooms, row, ws, pending, cleaning>>
        /\ \/ /\ row[join[j].guest] = "here" /\ Answer(j, "joined")
              /\ sess' = [sess EXCEPT ![j] = join[j].guest]
           \/ sess' = sess /\ Answer(j, "failed")
    BY <1>5 DEF SignedIn
  <2>. QED
    BY <1>0, <2>1, <2>2, PlaceStep DEF Answer, Busy, Holding
<1>. QED
  BY <1>1, <1>2, <1>3, <1>4, <1>5

LEMMA SessionEndsStep ==
    ASSUME IInv, NEW j \in Joins, SessionEnds(j)
    PROVE  IInv'
<1>1. /\ sess' = [sess EXCEPT ![j] = None] /\ sess \in [Joins -> Joins \cup {None}]
      /\ UNCHANGED <<rooms, row, ws, joining, cleaning, spent>>
  BY DEF SessionEnds, IInv, TypeOK
<1>2. TypeOK'
  BY <1>1 DEF IInv, TypeOK, rooms, joining, cleaning
<1>3. SessionsHaveGuests'
  BY <1>1 DEF IInv, SessionsHaveGuests
<1>4. \A c \in Rooms : /\ GuestsOf(c)' = GuestsOf(c) /\ JoinsOf(c)' = JoinsOf(c)
                       /\ HoldersOf(c)' = HoldersOf(c)
                       /\ CreatingOf(c)' = CreatingOf(c)
  BY <1>1 DEF GuestsOf, JoinsOf, HoldersOf, CreatingOf, joining
<1>5. /\ Registered' /\ NamesUnique' /\ SlotsExact' /\ GuestCap'
      /\ \A c \in Rooms : CleanedInv(c)'
  BY <1>1, <1>4 DEF IInv, Registered, NamesUnique, SlotsExact, GuestCap, CleanedInv,
                   rooms, joining
<1>6. \A k \in Joins : JoinInv(k)'
  BY <1>1 DEF IInv, JoinInv, joining
<1>7. \A a \in Cleaners : CleanerInv(a)'
  <2>1. \A a \in Cleaners : cl[a].room # None => cl[a].room \in Rooms
    BY DeletionFields DEF IInv, TypeOK
  <2>. QED
    BY <1>1, <1>4, <2>1 DEF IInv, CleanerInv, Listed, rooms, joining, cleaning
<1>8. \A c \in todo' : status'[c] = "over"
  BY <1>1 DEF IInv, rooms, cleaning
<1>9. RoomsExist'
  BY <1>1 DEF IInv, RoomsExist, rooms, joining
<1>. QED
  BY <1>2, <1>3, <1>5, <1>6, <1>7, <1>8, <1>9 DEF IInv

-----------------------------------------------------------------------------
(* Steps of classrooms and of deletions                                    *)

\* What these steps have in common: guests are only deleted, and only those
\* whose first join is past their creation; classrooms only end; what is marked
\* cleaned is over, empty and without joins.
Shrinks ==
    /\ UNCHANGED joining
    /\ \A g \in Joins : \/ row'[g] = row[g]
                       \/ /\ row[g] = "here" /\ row'[g] = "gone"
                          /\ join[g].pc \notin {"new", "creating", "created"}
    /\ \A c \in Rooms : status[c] = "over" => status'[c] = "over"
    /\ \A c \in Rooms : status[c] # "absent" => status'[c] # "absent"
    /\ \A c \in Rooms : cleaned'[c] =>
          \/ cleaned[c]
          \/ status'[c] = "over" /\ GuestsOf(c)' = {} /\ JoinsOf(c) = {}
    /\ \A c \in todo' : status'[c] = "over"

LEMMA ShrinkInv ==
    ASSUME IInv, Shrinks, TypeOK', SessionsHaveGuests',
           \A a \in Cleaners : CleanerInv(a)'
    PROVE  IInv'
<1>1. /\ join' = join /\ inFlight' = inFlight /\ pending' = pending
      /\ row' \in [Joins -> {"none", "here", "gone"}]
  BY DEF Shrinks, joining, TypeOK
<1>2. \A c \in Rooms : /\ GuestsOf(c)' \subseteq GuestsOf(c)
                       /\ JoinsOf(c)' = JoinsOf(c)
                       /\ HoldersOf(c)' = HoldersOf(c)
                       /\ CreatingOf(c)' = CreatingOf(c)
  BY <1>1 DEF Shrinks, GuestsOf, JoinsOf, HoldersOf, CreatingOf
<1>3. Registered' /\ NamesUnique'
  BY <1>1, <1>2 DEF IInv, Registered, NamesUnique
<1>4. SlotsExact'
  BY <1>1, <1>2 DEF IInv, SlotsExact
<1>5. GuestCap'
  <2> SUFFICES ASSUME NEW c \in Rooms
               PROVE  Cardinality(GuestsOf(c)') + Cardinality(CreatingOf(c)') <= Cap
    BY DEF GuestCap
  <2>1. GuestsOf(c) \subseteq Joins /\ CreatingOf(c) \subseteq Joins
        /\ GuestsOf(c)' \subseteq Joins
    BY DEF GuestsOf, CreatingOf
  <2>2. /\ IsFiniteSet(GuestsOf(c)) /\ Cardinality(GuestsOf(c)) \in Nat
        /\ Cardinality(CreatingOf(c)) \in Nat /\ Cardinality(GuestsOf(c)') \in Nat
    BY <2>1, FinitelyManyJoins
  <2>3. Cardinality(GuestsOf(c)') <= Cardinality(GuestsOf(c))
    BY <1>2, <2>2, FS_Subset
  <2>4. Cardinality(GuestsOf(c)) + Cardinality(CreatingOf(c)) <= Cap /\ Cap \in Nat
    BY DEF IInv, GuestCap
  <2>. QED
    BY <1>2, <2>2, <2>3, <2>4
<1>6. ASSUME NEW j \in Joins PROVE JoinInv(j)'
  <2>1. JoinInv(j) /\ join'[j] = join[j]
    BY <1>1 DEF IInv
  <2>2. \/ row'[j] = row[j]
        \/ row[j] = "here" /\ join[j].pc \notin {"new", "creating", "created"}
    BY DEF Shrinks
  <2>3. CASE row'[j] = row[j]
    BY <2>1, <2>3 DEF JoinInv, Holding
  <2>4. CASE join[j].pc \notin {"new", "creating", "created"}
    <3>1. join'[j].pc \notin {"new", "creating", "created"}
      BY <2>1, <2>4
    <3>. QED
      BY <2>1, <3>1 DEF JoinInv
  <2>. QED
    BY <2>2, <2>3, <2>4
<1>7. \A c \in Rooms : CleanedInv(c)'
  <2>1. \A c \in Rooms : CleanedInv(c) /\ (status[c] = "over" => status'[c] = "over")
    BY DEF IInv, Shrinks
  <2>2. \A c \in Rooms : cleaned'[c] =>
          \/ cleaned[c]
          \/ status'[c] = "over" /\ GuestsOf(c)' = {} /\ JoinsOf(c) = {}
    BY DEF Shrinks
  <2>. QED
    BY <1>2, <2>1, <2>2 DEF CleanedInv
<1>8. RoomsExist'
  <2>1. \A j \in Joins : join[j].pc # "new" =>
            join[j].room \in Rooms /\ status[join[j].room] # "absent"
    BY DEF IInv, JoinInv, RoomsExist
  <2>2. \A c \in Rooms : status[c] # "absent" => status'[c] # "absent"
    BY DEF Shrinks
  <2>. QED
    BY <1>1, <2>1, <2>2 DEF RoomsExist
<1>. QED
  BY <1>3, <1>4, <1>5, <1>6, <1>7, <1>8 DEF IInv, Shrinks

\* A caller of deleteUser that the step does not move.
LEMMA OtherCleaner ==
    ASSUME IInv, Shrinks, TypeOK', NEW a \in Cleaners, cl'[a] = cl[a]
    PROVE  CleanerInv(a)'
<1>1. /\ join' = join /\ inFlight' = inFlight
      /\ CleanerInv(a) /\ cl[a] \in Deletions
  BY DEF Shrinks, joining, IInv, TypeOK
<1>2. \A c \in Rooms : GuestsOf(c)' \subseteq GuestsOf(c) /\ JoinsOf(c)' = JoinsOf(c)
  BY <1>1 DEF Shrinks, GuestsOf, JoinsOf
<1>3. cl[a].room # None => cl[a].room \in Rooms
  BY <1>1, DeletionFields
<1>4. Listed(a) => Listed(a)'
  BY <1>1, <1>2, <1>3 DEF Listed
<1>5. \A g \in Joins : row[g] # "here" => row'[g] # "here"
  BY DEF Shrinks
<1>6. cl[a].pc \in {"stopping", "removing"} => cl[a].guest \in Joins
  BY <1>1, DeletionFields DEF CleanerInv
<1>7. \A c \in Rooms : status[c] = "over" => status'[c] = "over"
  BY DEF Shrinks
<1>. QED
  BY <1>1, <1>3, <1>4, <1>5, <1>6, <1>7 DEF CleanerInv

\* Caller a has nothing left on its list, or a classroom that is over to wait
\* for; what else a step of it may do to the callers and to the sweep.
LEMMA LeavesInv ==
    ASSUME IInv, NEW a \in Cleaners, Leaves(a), UNCHANGED status
    PROVE  /\ cl' \in [Cleaners -> Deletions] /\ todo' \subseteq todo
           /\ \A b \in Cleaners : b # a => cl'[b] = cl[b]
           /\ CleanerInv(a)'
<1>1. /\ cl \in [Cleaners -> Deletions] /\ todo \subseteq Rooms
      /\ \A c \in todo : status[c] = "over" /\ c # None
  BY DEF IInv, TypeOK
<1>2. CASE cl' = [cl EXCEPT ![a] = Idle] /\ todo' = todo
  <2>1. Idle \in Deletions
    BY DEF Idle, Deletions
  <2>2. cl'[a] = Idle
    BY <1>1, <1>2
  <2>3. CleanerInv(a)'
    BY <2>2 DEF CleanerInv, Idle
  <2>. QED
    BY <1>1, <1>2, <2>1, <2>3
<1>3. ASSUME NEW c \in todo, cl' = [cl EXCEPT ![a] = Waiting(c)], todo' = todo \ {c}
      PROVE  /\ cl' \in [Cleaners -> Deletions] /\ todo' \subseteq todo
             /\ \A b \in Cleaners : b # a => cl'[b] = cl[b]
             /\ CleanerInv(a)'
  <2>1. /\ Waiting(c) \in Deletions /\ Waiting(c).pc = "waiting"
        /\ Waiting(c).room = c
    BY <1>1 DEF Waiting, Idle, Deletions
  <2>2. cl'[a] = Waiting(c) /\ status'[c] = "over" /\ c # None
    BY <1>1, <1>3
  <2>3. CleanerInv(a)'
    BY <2>1, <2>2 DEF CleanerInv
  <2>. QED
    BY <1>1, <1>3, <2>1, <2>3
<1>. QED
  BY <1>2, <1>3 DEF Leaves

LEMMA CreateClassroomStep ==
    ASSUME IInv, NEW c \in Rooms, CreateClassroom(c) \/ Expire(c)
    PROVE  IInv'
<1>1. /\ status[c] # "over" /\ status \in [Rooms -> {"absent", "live", "over"}]
      /\ \/ status' = [status EXCEPT ![c] = "live"]
         \/ status' = [status EXCEPT ![c] = "over"]
      /\ UNCHANGED <<cleaned, users, joining, cleaning, spent>>
  BY DEF CreateClassroom, Expire, IInv, TypeOK
<1>2. TypeOK'
  BY <1>1 DEF IInv, TypeOK, users, joining, cleaning
<1>3. Shrinks
  <2>1. /\ todo \subseteq Rooms /\ \A d \in todo : status[d] = "over"
        /\ todo' = todo /\ row' = row
    BY <1>1 DEF IInv, TypeOK, cleaning, users
  <2>2. \A d \in Rooms : status[d] = "over" => status'[d] = "over"
    BY <1>1
  <2>. QED
    BY <1>1, <2>1, <2>2 DEF Shrinks
<1>4. SessionsHaveGuests'
  BY <1>1 DEF IInv, SessionsHaveGuests, users
<1>5. \A a \in Cleaners : CleanerInv(a)'
  BY <1>1, <1>2, <1>3, OtherCleaner DEF cleaning
<1>. QED
  BY <1>2, <1>3, <1>4, <1>5, ShrinkInv

LEMMA EndNowStep ==
    ASSUME IInv, NEW c \in Rooms, EndNow(c)
    PROVE  IInv'
<1>1. /\ "end" \in Cleaners /\ c # None
      /\ status \in [Rooms -> {"absent", "live", "over"}]
      /\ cl \in [Cleaners -> Deletions]
      /\ status' = [status EXCEPT ![c] = "over"]
      /\ cl' = [cl EXCEPT !["end"] = Waiting(c)]
      /\ UNCHANGED <<cleaned, users, joining, todo, spent>>
  BY DEF EndNow, IInv, TypeOK
<1>2. Waiting(c) \in Deletions /\ Waiting(c).pc = "waiting" /\ Waiting(c).room = c
  BY DEF Waiting, Idle, Deletions
<1>3. TypeOK'
  BY <1>1, <1>2 DEF IInv, TypeOK, users, joining
<1>4. Shrinks
  BY <1>1 DEF Shrinks, IInv, users
<1>5. SessionsHaveGuests'
  BY <1>1 DEF IInv, SessionsHaveGuests, users
<1>6. ASSUME NEW a \in Cleaners PROVE CleanerInv(a)'
  <2>1. CASE a = "end"
    <3>1. cl'[a] = Waiting(c) /\ status'[c] = "over"
      BY <1>1, <2>1
    <3>. QED
      BY <1>1, <1>2, <3>1 DEF CleanerInv
  <2>2. CASE a # "end"
    BY <1>1, <1>3, <1>4, <2>2, OtherCleaner
  <2>. QED
    BY <2>1, <2>2
<1>. QED
  BY <1>3, <1>4, <1>5, <1>6, ShrinkInv

LEMMA SweepStep ==
    ASSUME IInv, Sweep
    PROVE  IInv'
<1>1. PICK c \in NeedCleanup :
          cl' = [cl EXCEPT !["sweep"] = Waiting(c)] /\ todo' = NeedCleanup \ {c}
  BY DEF Sweep
<1>2. /\ "sweep" \in Cleaners /\ c # None /\ c \in Rooms /\ status[c] = "over"
      /\ cl \in [Cleaners -> Deletions]
      /\ UNCHANGED <<rooms, users, joining, spent>>
  BY DEF Sweep, NeedCleanup, IInv, TypeOK
<1>3. Waiting(c) \in Deletions /\ Waiting(c).pc = "waiting" /\ Waiting(c).room = c
  BY <1>2 DEF Waiting, Idle, Deletions
<1>4. /\ todo' \subseteq Rooms /\ \A d \in todo' : status[d] = "over"
  BY <1>1 DEF NeedCleanup
<1>5. TypeOK'
  BY <1>1, <1>2, <1>3, <1>4 DEF IInv, TypeOK, users, joining, rooms
<1>6. Shrinks
  BY <1>2, <1>4 DEF Shrinks, users, rooms
<1>7. SessionsHaveGuests'
  BY <1>2 DEF IInv, SessionsHaveGuests, users
<1>8. ASSUME NEW a \in Cleaners PROVE CleanerInv(a)'
  <2>1. CASE a = "sweep"
    <3>1. cl'[a] = Waiting(c) /\ status'[c] = "over"
      BY <1>1, <1>2, <2>1 DEF rooms
    <3>. QED
      BY <1>2, <1>3, <3>1 DEF CleanerInv
  <2>2. CASE a # "sweep"
    BY <1>1, <1>2, <1>5, <1>6, <2>2, OtherCleaner
  <2>. QED
    BY <2>1, <2>2
<1>. QED
  BY <1>5, <1>6, <1>7, <1>8, ShrinkInv

LEMMA DeleteUserStep ==
    ASSUME IInv, NEW g \in Joins, DeleteUser(g)
    PROVE  IInv'
<1> DEFINE d == [Idle EXCEPT !.pc = "next", !.left = {g}]
<1>1. /\ "user" \in Cleaners /\ row[g] = "here" /\ join[g].pc # "created"
      /\ cl \in [Cleaners -> Deletions] /\ JoinInv(g)
      /\ cl' = [cl EXCEPT !["user"] = d]
      /\ UNCHANGED <<rooms, users, joining, todo>>
      /\ spent \in [deletes : Nat, faults : Nat]
      /\ spent' = [spent EXCEPT !.deletes = @ + 1]
  BY DEF DeleteUser, IInv, TypeOK
<1>2. d \in Deletions /\ d.pc = "next" /\ d.room = None /\ d.left = {g}
  BY DEF Idle, Deletions
<1>3. spent' \in [deletes : Nat, faults : Nat]
  BY <1>1
<1> HIDE DEF d
<1>4. TypeOK'
  BY <1>1, <1>2, <1>3 DEF IInv, TypeOK, users, joining, rooms
<1>5. Shrinks
  BY <1>1 DEF Shrinks, IInv, users, rooms
<1>6. SessionsHaveGuests'
  BY <1>1 DEF IInv, SessionsHaveGuests, users
<1>7. ASSUME NEW a \in Cleaners PROVE CleanerInv(a)'
  <2>1. CASE a = "user"
    <3>1. cl'[a] = d /\ join' = join
      BY <1>1, <2>1 DEF joining
    <3>2. join[g].pc \notin {"new", "creating", "created"}
      BY <1>1 DEF JoinInv
    <3>. QED
      BY <1>2, <3>1, <3>2 DEF CleanerInv, Listed
  <2>2. CASE a # "user"
    BY <1>1, <1>4, <1>5, <2>2, OtherCleaner
  <2>. QED
    BY <2>1, <2>2
<1>. QED
  BY <1>4, <1>5, <1>6, <1>7, ShrinkInv

\* Caller a goes on with a list of guests that is complete: whom its classroom
\* still has is on it, and whoever is on it is past its creation.
LEMMA GoesOnStep ==
    ASSUME IInv, NEW a \in Cleaners, NEW left \in SUBSET Joins,
           GoesOn(a, left), UNCHANGED <<status, joining>>,
           \A g \in left :
              /\ join[g].pc \notin {"new", "creating", "created"}
              /\ cl[a].room # None => join[g].room = cl[a].room,
           \A c \in Rooms : c = cl[a].room =>
              JoinsOf(c) = {} /\ GuestsOf(c)' \subseteq left
    PROVE  /\ cl' \in [Cleaners -> Deletions] /\ todo' \subseteq todo
           /\ \A b \in Cleaners : b # a => cl'[b] = cl[b]
           /\ CleanerInv(a)'
           /\ cleaned' \in [Rooms -> BOOLEAN]
           /\ \A c \in Rooms : cleaned'[c] =>
                 \/ cleaned[c]
                 \/ status'[c] = "over" /\ GuestsOf(c)' = {} /\ JoinsOf(c) = {}
<1>1. /\ cl \in [Cleaners -> Deletions] /\ cleaned \in [Rooms -> BOOLEAN]
      /\ cl[a] \in Deletions /\ cl[a].room \in Rooms \cup {None}
      /\ cl[a].room # None => status[cl[a].room] = "over"
      /\ join' = join /\ inFlight' = inFlight /\ status' = status
  BY DeletionFields DEF IInv, TypeOK, CleanerInv, joining
<1>2. CASE left # {}
  <2> DEFINE d == [cl[a] EXCEPT !.pc = "next", !.left = left,
                                !.guest = None, !.seen = None]
  <2>1. /\ d \in Deletions /\ d.pc = "next" /\ d.left = left
        /\ d.room = cl[a].room
    BY <1>1 DEF Deletions
  <2>2. cl' = [cl EXCEPT ![a] = d] /\ cleaned' = cleaned /\ todo' = todo
    BY <1>2 DEF GoesOn
  <2> HIDE DEF d
  <2>3. cl'[a] = d /\ cl' \in [Cleaners -> Deletions]
        /\ \A b \in Cleaners : b # a => cl'[b] = cl[b]
    BY <1>1, <2>1, <2>2
  <2>4. \A c \in Rooms : JoinsOf(c)' = JoinsOf(c)
    BY <1>1 DEF JoinsOf
  <2>5. Listed(a)'
    <3>1. \A g \in left :
             /\ join'[g].pc \notin {"new", "creating", "created"}
             /\ d.room # None => join'[g].room = d.room
      BY <1>1, <2>1
    <3>2. \A c \in Rooms : c = d.room =>
             JoinsOf(c)' = {} /\ GuestsOf(c)' \subseteq left
      BY <2>1, <2>4
    <3>3. d.room # None => d.room \in Rooms
      BY <1>1, <2>1
    <3>. QED
      BY <2>1, <2>3, <3>1, <3>2, <3>3 DEF Listed
  <2>6. CleanerInv(a)'
    BY <1>1, <2>1, <2>3, <2>5 DEF CleanerInv
  <2>. QED
    BY <1>1, <2>2, <2>3, <2>6
<1>3. CASE left = {}
  <2>1. /\ cleaned' = [c \in Rooms |-> cleaned[c] \/ c = cl[a].room]
        /\ Leaves(a)
    BY <1>3 DEF GoesOn
  <2>2. \A c \in Rooms : cleaned'[c] => cleaned[c] \/ c = cl[a].room
    BY <2>1
  <2>3. cleaned' \in [Rooms -> BOOLEAN]
    BY <1>1, <2>1
  <2>4. \A c \in Rooms : c = cl[a].room =>
            status'[c] = "over" /\ GuestsOf(c)' = {} /\ JoinsOf(c) = {}
    BY <1>1, <1>3
  <2>5. UNCHANGED status
    BY <1>1
  <2>. QED
    BY <2>1, <2>2, <2>3, <2>4, <2>5, LeavesInv
<1>. QED
  BY <1>2, <1>3

\* The transaction: the row of g goes, and with it the sessions of g.
LEMMA EraseTypes ==
    ASSUME IInv, NEW g \in Joins, NEW w, Erase(g, w)
    PROVE  /\ row' \in [Joins -> {"none", "here", "gone"}]
           /\ ws' \in [Joins -> Joins \cup {None}]
           /\ sess' \in [Joins -> Joins \cup {None}]
           /\ row'[g] # "here"
           /\ \A k \in Joins : k # g => row'[k] = row[k]
           /\ row'[g] = row[g] \/ (row[g] = "here" /\ row'[g] = "gone")
           /\ SessionsHaveGuests'
<1>1. /\ row \in [Joins -> {"none", "here", "gone"}]
      /\ ws \in [Joins -> Joins \cup {None}]
      /\ sess \in [Joins -> Joins \cup {None}]
      /\ row' = [row EXCEPT ![g] = IF @ = "here" THEN "gone" ELSE @]
      /\ ws' = IF w # None /\ ws[g] = w THEN [ws EXCEPT ![g] = None] ELSE ws
      /\ sess' = [j \in Joins |-> IF sess[j] = g THEN None ELSE sess[j]]
  BY DEF IInv, TypeOK, Erase
<1>2. \A k \in Joins : k # g => row'[k] = row[k]
  BY <1>1
<1>3. SessionsHaveGuests'
  <2> SUFFICES ASSUME NEW j \in Joins, sess'[j] # None
               PROVE  row'[sess'[j]] = "here"
    BY DEF SessionsHaveGuests
  <2>1. sess'[j] = sess[j] /\ sess[j] # g /\ sess[j] \in Joins
    BY <1>1
  <2>. QED
    BY <1>2, <2>1 DEF IInv, SessionsHaveGuests
<1>4. ws' \in [Joins -> Joins \cup {None}]
  BY <1>1
<1>5. sess' \in [Joins -> Joins \cup {None}]
  BY <1>1
<1>. QED
  BY <1>1, <1>2, <1>3, <1>4, <1>5

\* What is left to show of a step of caller a that keeps what it listed.
LEMMA CleanerStep ==
    ASSUME IInv, NEW a \in Cleaners, UNCHANGED <<status, joining>>,
           SessionsHaveGuests', CleanerInv(a)',
           cl' \in [Cleaners -> Deletions], todo' \subseteq todo,
           \A b \in Cleaners : b # a => cl'[b] = cl[b],
           cleaned' \in [Rooms -> BOOLEAN],
           \A c \in Rooms : cleaned'[c] =>
              \/ cleaned[c]
              \/ status'[c] = "over" /\ GuestsOf(c)' = {} /\ JoinsOf(c) = {},
           row' \in [Joins -> {"none", "here", "gone"}],
           ws' \in [Joins -> Joins \cup {None}],
           sess' \in [Joins -> Joins \cup {None}],
           spent' \in [deletes : Nat, faults : Nat],
           \A g \in Joins : \/ row'[g] = row[g]
                            \/ /\ row[g] = "here" /\ row'[g] = "gone"
                               /\ join[g].pc \notin {"new", "creating", "created"}
    PROVE  IInv'
<1>1. TypeOK'
  BY DEF IInv, TypeOK, joining
<1>2. Shrinks
  BY DEF IInv, Shrinks
<1>3. ASSUME NEW b \in Cleaners PROVE CleanerInv(b)'
  <2>1. CASE b = a
    BY <2>1
  <2>2. CASE b # a
    BY <1>1, <1>2, <2>2, OtherCleaner
  <2>. QED
    BY <2>1, <2>2
<1>. QED
  BY <1>1, <1>2, <1>3, ShrinkInv

\* The guests of a classroom that is over, once its joins have settled.
LEMMA JoinsSettledStep ==
    ASSUME IInv, NEW a \in Cleaners, JoinsSettled(a)
    PROVE  IInv'
<1> DEFINE left == GuestsOf(cl[a].room)
<1>1. /\ GoesOn(a, left) /\ JoinsOf(cl[a].room) = {} /\ cl[a].room # None
      /\ UNCHANGED <<status, users, joining, spent>>
      /\ CleanerInv(a) /\ left \subseteq Joins
      /\ row' = row /\ ws' = ws /\ sess' = sess /\ join' = join
  BY DEF JoinsSettled, Settled, IInv, CleanerInv, GuestsOf, users, joining
<1>2. \A c \in Rooms : GuestsOf(c)' = GuestsOf(c)
  BY <1>1 DEF GuestsOf
<1>3. ASSUME NEW g \in left
      PROVE  /\ join[g].pc \notin {"new", "creating", "created"}
             /\ cl[a].room # None => join[g].room = cl[a].room
  <2>1. g \in Joins /\ row[g] = "here" /\ join[g].room = cl[a].room /\ JoinInv(g)
    BY DEF GuestsOf, IInv
  <2>2. join[g].pc \notin Busy
    BY <1>1, <2>1 DEF IInv, Registered, JoinsOf
  <2>. QED
    BY <2>1, <2>2 DEF JoinInv, Busy
<1>4. \A c \in Rooms : c = cl[a].room => JoinsOf(c) = {} /\ GuestsOf(c)' \subseteq left
  BY <1>1, <1>2
<1> HIDE DEF left
<1>5. /\ cl' \in [Cleaners -> Deletions] /\ todo' \subseteq todo
      /\ \A b \in Cleaners : b # a => cl'[b] = cl[b]
      /\ CleanerInv(a)'
      /\ cleaned' \in [Rooms -> BOOLEAN]
      /\ \A c \in Rooms : cleaned'[c] =>
            \/ cleaned[c]
            \/ status'[c] = "over" /\ GuestsOf(c)' = {} /\ JoinsOf(c) = {}
  BY <1>1, <1>3, <1>4, GoesOnStep
<1>6. SessionsHaveGuests'
  BY <1>1 DEF IInv, SessionsHaveGuests
<1>. QED
  BY <1>1, <1>5, <1>6, CleanerStep DEF IInv, TypeOK

\* A guest leaves the list when its row is gone.
LEMMA ShorterList ==
    ASSUME IInv, NEW a \in Cleaners, Listed(a), NEW g \in cl[a].left,
           cl[a].left \subseteq Joins,
           UNCHANGED joining, row'[g] # "here",
           \A k \in Joins : k # g => row'[k] = row[k]
    PROVE  /\ \A k \in cl[a].left \ {g} :
                /\ join[k].pc \notin {"new", "creating", "created"}
                /\ cl[a].room # None => join[k].room = cl[a].room
           /\ \A c \in Rooms : c = cl[a].room =>
                JoinsOf(c) = {} /\ GuestsOf(c)' \subseteq cl[a].left \ {g}
<1>1. join' = join
  BY DEF joining
<1>2. ASSUME NEW c \in Rooms, c = cl[a].room
      PROVE  JoinsOf(c) = {} /\ GuestsOf(c)' \subseteq cl[a].left \ {g}
  <2>1. JoinsOf(c) = {} /\ GuestsOf(c) \subseteq cl[a].left
    BY <1>2 DEF Listed
  <2>2. GuestsOf(c)' \subseteq GuestsOf(c) \ {g}
    BY <1>1 DEF GuestsOf
  <2>. QED
    BY <2>1, <2>2
<1>. QED
  BY <1>2 DEF Listed

LEMMA DeleteBeginsStep ==
    ASSUME IInv, NEW a \in Cleaners, NEW g \in Joins, DeleteBegins(a, g)
    PROVE  IInv'
<1>1. /\ cl[a].pc = "next" /\ g \in cl[a].left /\ cl[a].left \subseteq Joins
      /\ cl \in [Cleaners -> Deletions] /\ cl[a] \in Deletions
      /\ CleanerInv(a) /\ Listed(a)
      /\ UNCHANGED <<status, joining, spent>>
      /\ ws \in [Joins -> Joins \cup {None}]
  BY DeletionFields DEF DeleteBegins, IInv, TypeOK, CleanerInv
<1>2. CASE ws[g] # None
  <2> DEFINE d == [cl[a] EXCEPT !.pc = "stopping", !.guest = g, !.seen = ws[g]]
  <2>1. /\ cl' = [cl EXCEPT ![a] = d] /\ UNCHANGED <<users, cleaned, todo>>
    BY <1>2 DEF DeleteBegins
  <2>2. /\ d \in Deletions /\ d.pc = "stopping" /\ d.guest = g
        /\ d.left = cl[a].left /\ d.room = cl[a].room
    BY <1>1 DEF Deletions
  <2> HIDE DEF d
  <2>3. /\ cl'[a] = d /\ cl' \in [Cleaners -> Deletions]
        /\ \A b \in Cleaners : b # a => cl'[b] = cl[b]
    BY <1>1, <2>1, <2>2
  <2>4. /\ row' = row /\ ws' = ws /\ sess' = sess /\ join' = join
        /\ inFlight' = inFlight /\ status' = status
    BY <1>1, <2>1 DEF users, joining
  <2>5. \A c \in Rooms : GuestsOf(c)' = GuestsOf(c) /\ JoinsOf(c)' = JoinsOf(c)
    BY <2>4 DEF GuestsOf, JoinsOf
  <2>6. d.room # None => d.room \in Rooms
    BY <1>1, <2>2, DeletionFields
  <2>7. Listed(a)'
    BY <1>1, <2>2, <2>3, <2>4, <2>5, <2>6 DEF Listed
  <2>8. CleanerInv(a)'
    BY <1>1, <2>2, <2>3, <2>4, <2>7 DEF CleanerInv
  <2>9. SessionsHaveGuests'
    BY <2>4 DEF IInv, SessionsHaveGuests
  <2>. QED
    BY <1>1, <2>1, <2>3, <2>4, <2>8, <2>9, CleanerStep DEF IInv, TypeOK
<1>3. CASE ws[g] = None
  <2>1. Erase(g, None) /\ GoesOn(a, cl[a].left \ {g})
    BY <1>3 DEF DeleteBegins
  <2>2. /\ row' \in [Joins -> {"none", "here", "gone"}]
        /\ ws' \in [Joins -> Joins \cup {None}]
        /\ sess' \in [Joins -> Joins \cup {None}]
        /\ row'[g] # "here"
        /\ \A k \in Joins : k # g => row'[k] = row[k]
        /\ row'[g] = row[g] \/ (row[g] = "here" /\ row'[g] = "gone")
        /\ SessionsHaveGuests'
    BY <2>1, EraseTypes
  <2>3. /\ \A k \in cl[a].left \ {g} :
              /\ join[k].pc \notin {"new", "creating", "created"}
              /\ cl[a].room # None => join[k].room = cl[a].room
        /\ \A c \in Rooms : c = cl[a].room =>
              JoinsOf(c) = {} /\ GuestsOf(c)' \subseteq cl[a].left \ {g}
    BY <1>1, <2>2, ShorterList
  <2>4. /\ cl' \in [Cleaners -> Deletions] /\ todo' \subseteq todo
        /\ \A b \in Cleaners : b # a => cl'[b] = cl[b]
        /\ CleanerInv(a)'
        /\ cleaned' \in [Rooms -> BOOLEAN]
        /\ \A c \in Rooms : cleaned'[c] =>
              \/ cleaned[c]
              \/ status'[c] = "over" /\ GuestsOf(c)' = {} /\ JoinsOf(c) = {}
    <3>1. cl[a].left \ {g} \in SUBSET Joins
      BY <1>1
    <3>. QED
      BY <1>1, <2>1, <2>3, <3>1, GoesOnStep
  <2>5. join[g].pc \notin {"new", "creating", "created"}
    BY <1>1 DEF Listed
  <2>6. spent' \in [deletes : Nat, faults : Nat]
    BY <1>1 DEF IInv, TypeOK
  <2>. QED
    BY <1>1, <2>2, <2>4, <2>5, <2>6, CleanerStep
<1>. QED
  BY <1>2, <1>3

LEMMA DeleteCommitsStep ==
    ASSUME IInv, NEW a \in Cleaners, DeleteCommits(a)
    PROVE  IInv'
<1> DEFINE g == cl[a].guest
<1>1. /\ cl[a].pc = "stopping" /\ g \in cl[a].left /\ g \in Joins
      /\ cl \in [Cleaners -> Deletions] /\ cl[a] \in Deletions
      /\ CleanerInv(a) /\ Listed(a) /\ Erase(g, cl[a].seen)
      /\ cl' = [cl EXCEPT ![a].pc = "removing"]
      /\ UNCHANGED <<rooms, joining, todo, spent>>
  BY DeletionFields DEF DeleteCommits, IInv, TypeOK, CleanerInv
<1>2. /\ row' \in [Joins -> {"none", "here", "gone"}]
      /\ ws' \in [Joins -> Joins \cup {None}]
      /\ sess' \in [Joins -> Joins \cup {None}]
      /\ row'[g] # "here"
      /\ \A k \in Joins : k # g => row'[k] = row[k]
      /\ row'[g] = row[g] \/ (row[g] = "here" /\ row'[g] = "gone")
      /\ SessionsHaveGuests'
  BY <1>1, EraseTypes
<1> DEFINE d == [cl[a] EXCEPT !.pc = "removing"]
<1>3. /\ d \in Deletions /\ d.pc = "removing" /\ d.guest = g
      /\ d.left = cl[a].left /\ d.room = cl[a].room
  BY <1>1 DEF Deletions
<1>4. cl' = [cl EXCEPT ![a] = d]
  BY <1>1
<1> HIDE DEF d
<1>5. /\ cl'[a] = d /\ cl' \in [Cleaners -> Deletions]
      /\ \A b \in Cleaners : b # a => cl'[b] = cl[b]
  BY <1>1, <1>3, <1>4
<1>6. /\ join' = join /\ inFlight' = inFlight /\ status' = status
      /\ cleaned' = cleaned
  BY <1>1 DEF joining, rooms
<1>7. \A k \in Joins : row'[k] = "here" => row[k] = "here"
  BY <1>2
<1>8. \A c \in Rooms : GuestsOf(c)' \subseteq GuestsOf(c) /\ JoinsOf(c)' = JoinsOf(c)
  BY <1>6, <1>7 DEF GuestsOf, JoinsOf
<1>9. d.room # None => d.room \in Rooms
  BY <1>1, <1>3, DeletionFields
<1>10. Listed(a)'
  BY <1>1, <1>3, <1>5, <1>6, <1>8, <1>9 DEF Listed
<1>11. CleanerInv(a)'
  BY <1>1, <1>2, <1>3, <1>5, <1>6, <1>10 DEF CleanerInv
<1>12. join[g].pc \notin {"new", "creating", "created"}
  BY <1>1 DEF Listed
<1>13. cleaned' \in [Rooms -> BOOLEAN] /\ spent' \in [deletes : Nat, faults : Nat]
       /\ UNCHANGED <<status, joining>> /\ todo' \subseteq todo
  BY <1>1, <1>6 DEF IInv, TypeOK
<1>. QED
  BY <1>2, <1>5, <1>6, <1>11, <1>12, <1>13, CleanerStep

LEMMA DeleteReturnsStep ==
    ASSUME IInv, NEW a \in Cleaners, DeleteReturns(a)
    PROVE  IInv'
<1> DEFINE g == cl[a].guest
           left == cl[a].left \ {g}
<1>1. /\ g \in cl[a].left /\ cl[a].left \subseteq Joins /\ left \in SUBSET Joins
      /\ Listed(a) /\ row[g] # "here" /\ GoesOn(a, left)
      /\ UNCHANGED <<status, users, joining, spent>>
      /\ UNCHANGED <<status, joining>>
      /\ row' = row /\ ws' = ws /\ sess' = sess
  BY DeletionFields DEF DeleteReturns, IInv, TypeOK, CleanerInv, users
<1>2. /\ \A k \in left :
            /\ join[k].pc \notin {"new", "creating", "created"}
            /\ cl[a].room # None => join[k].room = cl[a].room
      /\ \A c \in Rooms : c = cl[a].room =>
            JoinsOf(c) = {} /\ GuestsOf(c)' \subseteq left
  BY <1>1, ShorterList
<1> HIDE DEF left
<1>3. /\ cl' \in [Cleaners -> Deletions] /\ todo' \subseteq todo
      /\ \A b \in Cleaners : b # a => cl'[b] = cl[b]
      /\ CleanerInv(a)'
      /\ cleaned' \in [Rooms -> BOOLEAN]
      /\ \A c \in Rooms : cleaned'[c] =>
            \/ cleaned[c]
            \/ status'[c] = "over" /\ GuestsOf(c)' = {} /\ JoinsOf(c) = {}
  BY <1>1, <1>2, GoesOnStep
<1>4. SessionsHaveGuests'
  BY <1>1 DEF IInv, SessionsHaveGuests
<1>. QED
  BY <1>1, <1>3, <1>4, CleanerStep DEF IInv, TypeOK

LEMMA DeleteFailsStep ==
    ASSUME IInv, NEW a \in Cleaners, DeleteFails(a)
    PROVE  IInv'
<1>1. /\ Fault /\ Leaves(a) /\ UNCHANGED <<rooms, users, joining>>
      /\ UNCHANGED <<status, joining>> /\ UNCHANGED status
      /\ row' = row /\ ws' = ws /\ sess' = sess /\ cleaned' = cleaned
  BY DEF DeleteFails, rooms, users
<1>2. /\ cl' \in [Cleaners -> Deletions] /\ todo' \subseteq todo
      /\ \A b \in Cleaners : b # a => cl'[b] = cl[b]
      /\ CleanerInv(a)'
  BY <1>1, LeavesInv
<1>3. spent' \in [deletes : Nat, faults : Nat]
  BY <1>1, FaultTypes DEF IInv
<1>4. SessionsHaveGuests'
  BY <1>1 DEF IInv, SessionsHaveGuests
<1>. QED
  BY <1>1, <1>2, <1>3, <1>4, CleanerStep DEF IInv, TypeOK

-----------------------------------------------------------------------------
(* A crash, and the start                                                  *)

LEMMA CrashStep ==
    ASSUME IInv, Crash
    PROVE  IInv'
<1>1. /\ join \in [Joins -> Requests] /\ row' = row /\ status' = status
      /\ cleaned' = cleaned /\ ws' = ws /\ sess' = sess
      /\ join' = [j \in Joins |-> IF join[j].pc \in Busy
                                  THEN [join[j] EXCEPT !.pc = "dead"]
                                  ELSE join[j]]
      /\ inFlight' = {} /\ todo' = {}
      /\ pending' = [c \in Rooms |-> 0] /\ cl' = [a \in Cleaners |-> Idle]
  BY DEF Crash, IInv, TypeOK, rooms, users
<1>2. ASSUME NEW j \in Joins
      PROVE  /\ join'[j] \in Requests /\ join'[j].pc \notin Busy
             /\ join'[j].room = join[j].room /\ join'[j].name = join[j].name
             /\ \/ join'[j] = join[j]
                \/ join'[j].pc = "dead" /\ join[j].pc \in Busy
  <2>1. join[j] \in Requests
    BY <1>1
  <2>2. CASE join[j].pc \in Busy
    <3>1. join'[j] = [join[j] EXCEPT !.pc = "dead"]
      BY <1>1, <2>2
    <3>. QED
      BY <2>1, <2>2, <3>1 DEF Requests, Busy
  <2>3. CASE join[j].pc \notin Busy
    BY <1>1, <2>1, <2>3
  <2>. QED
    BY <2>2, <2>3
<1>3. TypeOK'
  <2>1. join' \in [Joins -> Requests]
    BY <1>1, <1>2
  <2>2. spent' \in [deletes : Nat, faults : Nat]
    BY FaultTypes DEF Crash, IInv
  <2>3. Idle \in Deletions
    BY DEF Idle, Deletions
  <2>. QED
    BY <1>1, <2>1, <2>2, <2>3 DEF IInv, TypeOK
<1>4. Registered'
  BY <1>1, <1>2 DEF Registered
<1>5. \A c \in Rooms : GuestsOf(c)' = GuestsOf(c)
  BY <1>1, <1>2 DEF GuestsOf
<1>6. \A c \in Rooms : HoldersOf(c)' = {} /\ CreatingOf(c)' = {} /\ JoinsOf(c)' = {}
  BY <1>1, <1>2 DEF HoldersOf, CreatingOf, JoinsOf, Holding, Busy
<1>7. NamesUnique'
  <2>1. \A c \in Rooms : \A g \in GuestsOf(c) : g \in Joins
    BY DEF GuestsOf
  <2>. QED
    BY <1>2, <1>5, <2>1 DEF IInv, NamesUnique
<1>8. SessionsHaveGuests'
  BY <1>1 DEF IInv, SessionsHaveGuests
<1>9. SlotsExact'
  BY <1>1, <1>6, FS_EmptySet DEF SlotsExact
<1>10. GuestCap'
  <2> SUFFICES ASSUME NEW c \in Rooms
               PROVE  Cardinality(GuestsOf(c)') + Cardinality(CreatingOf(c)') <= Cap
    BY DEF GuestCap
  <2>1. GuestsOf(c) \subseteq Joins /\ CreatingOf(c) \subseteq Joins
    BY DEF GuestsOf, CreatingOf
  <2>2. Cardinality(GuestsOf(c)) \in Nat /\ Cardinality(CreatingOf(c)) \in Nat
    BY <2>1, FinitelyManyJoins
  <2>3. Cardinality(GuestsOf(c)) + Cardinality(CreatingOf(c)) <= Cap /\ Cap \in Nat
    BY DEF IInv, GuestCap
  <2>4. Cardinality({}) = 0
    BY FS_EmptySet
  <2>. QED
    <3>1. GuestsOf(c)' = GuestsOf(c) /\ CreatingOf(c)' = {}
      BY <1>5, <1>6
    <3>. QED
      BY <2>2, <2>3, <2>4, <3>1
<1>11. ASSUME NEW j \in Joins PROVE JoinInv(j)'
  <2>1. JoinInv(j) /\ join[j].room = join'[j].room /\ row'[j] = row[j]
    BY <1>1, <1>2 DEF IInv
  <2>2. CASE join'[j] = join[j]
    BY <2>1, <2>2 DEF JoinInv, Holding
  <2>3. CASE join'[j].pc = "dead" /\ join[j].pc \in Busy
    BY <2>1, <2>3 DEF JoinInv, Holding, Busy
  <2>. QED
    BY <1>2, <2>2, <2>3
<1>12. \A c \in Rooms : CleanedInv(c)'
  BY <1>1, <1>5, <1>6 DEF IInv, CleanedInv
<1>13. ASSUME NEW a \in Cleaners PROVE CleanerInv(a)'
  <2>1. cl'[a] = Idle
    BY <1>1
  <2>. QED
    BY <2>1 DEF CleanerInv, Idle
<1>14. RoomsExist'
  <2>1. RoomsExist
    BY DEF IInv
  <2>. QED
    BY <1>1, <1>2, <2>1 DEF RoomsExist, Busy
<1>. QED
  BY <1>1, <1>3, <1>4, <1>7, <1>14, <1>8, <1>9, <1>10, <1>11, <1>12, <1>13 DEF IInv

LEMMA InitInv == Init => IInv
<1> SUFFICES ASSUME Init PROVE IInv
  OBVIOUS
<1>1. /\ NewJoin \in Requests /\ NewJoin.pc = "new" /\ NewJoin.room = None
      /\ Idle \in Deletions /\ Idle.pc = "idle" /\ Idle.room = None
  BY DEF NewJoin, Requests, Idle, Deletions
<1>2. TypeOK
  BY <1>1 DEF Init, TypeOK
<1>3. \A j \in Joins : join[j].pc = "new" /\ row[j] = "none" /\ sess[j] = None
  BY <1>1 DEF Init
<1>4. Registered
  BY <1>3 DEF Init, Registered, Busy
<1>5. \A c \in Rooms : GuestsOf(c) = {} /\ HoldersOf(c) = {} /\ CreatingOf(c) = {}
  BY <1>3 DEF GuestsOf, HoldersOf, CreatingOf, Holding
<1>6. NamesUnique /\ SessionsHaveGuests /\ RoomsExist
  BY <1>3, <1>5 DEF NamesUnique, SessionsHaveGuests, RoomsExist
<1>7. SlotsExact
  BY <1>5, FS_EmptySet DEF Init, SlotsExact
<1>8. GuestCap
  <2>1. Cardinality({}) = 0 /\ Cap \in Nat
    BY FS_EmptySet
  <2>. QED
    BY <1>5, <2>1 DEF GuestCap
<1>9. \A j \in Joins : JoinInv(j)
  BY <1>3 DEF JoinInv, Holding
<1>10. \A c \in Rooms : CleanedInv(c)
  BY DEF Init, CleanedInv
<1>11. \A a \in Cleaners : CleanerInv(a)
  BY <1>1 DEF Init, CleanerInv
<1>. QED
  BY <1>2, <1>4, <1>6, <1>7, <1>8, <1>9, <1>10, <1>11 DEF Init, IInv

LEMMA NextInv == IInv /\ [Next]_vars => IInv'
<1> SUFFICES ASSUME IInv, [Next]_vars PROVE IInv'
  OBVIOUS
<1>1. CASE \E c \in Rooms : CreateClassroom(c) \/ Expire(c) \/ EndNow(c)
  BY <1>1, CreateClassroomStep, EndNowStep
<1>2. CASE \E j \in Joins : Join(j) \/ Proceeds(j) \/ FilesFail(j)
                            \/ SessionEnds(j) \/ DeleteUser(j)
  BY <1>2, JoinStep, UserInsertedStep, CreatedStep, OtherJoinSteps,
     SessionEndsStep, DeleteUserStep DEF Proceeds
<1>3. CASE \E a \in Cleaners : Cleans(a) \/ DeleteFails(a)
  BY <1>3, JoinsSettledStep, DeleteBeginsStep, DeleteCommitsStep,
     DeleteReturnsStep, DeleteFailsStep DEF Cleans
<1>4. CASE Sweep \/ Crash
  BY <1>4, SweepStep, CrashStep
<1>5. CASE UNCHANGED vars
  <2>1. UNCHANGED <<status, joining>> /\ UNCHANGED <<users, cleaning, cleaned, spent>>
    BY <1>5 DEF vars, joining, users, cleaning
  <2>2. TypeOK' /\ SessionsHaveGuests'
    BY <1>5 DEF vars, IInv, TypeOK, SessionsHaveGuests
  <2>3. Shrinks
    BY <2>1 DEF Shrinks, IInv, users, cleaning
  <2>4. \A a \in Cleaners : CleanerInv(a)'
    BY <2>1, <2>2, <2>3, OtherCleaner DEF cleaning
  <2>. QED
    BY <2>2, <2>3, <2>4, ShrinkInv
<1>. QED
  BY <1>1, <1>2, <1>3, <1>4, <1>5 DEF Next

THEOREM Invariance == Spec => []IInv
BY InitInv, NextInv, PTL DEF Spec

-----------------------------------------------------------------------------
(* What the invariant gives                                                *)

\* Types.
THEOREM TypeCorrect == Spec => []TypeOK
<1>1. IInv => TypeOK
  BY DEF IInv
<1>. QED
  BY <1>1, Invariance, PTL

\* A classroom marked cleaned has no guest, no session and no join.
THEOREM CleanedStaysEmpty == Spec => []CleanedIsEmpty
<1>1. IInv => CleanedIsEmpty
  <2> SUFFICES ASSUME IInv, NEW c \in Rooms, cleaned[c]
               PROVE  /\ GuestsOf(c) = {} /\ JoinsOf(c) = {}
                      /\ \A j \in Joins : sess[j] # None => join[sess[j]].room # c
    BY DEF CleanedIsEmpty
  <2>1. GuestsOf(c) = {} /\ JoinsOf(c) = {}
    BY DEF IInv, CleanedInv
  <2>2. ASSUME NEW j \in Joins, sess[j] # None, join[sess[j]].room = c
        PROVE  FALSE
    <3>1. sess[j] \in Joins /\ row[sess[j]] = "here"
      BY <2>2 DEF IInv, TypeOK, SessionsHaveGuests
    <3>2. sess[j] \in GuestsOf(c)
      BY <2>2, <3>1 DEF GuestsOf
    <3>. QED
      BY <2>1, <3>2
  <2>. QED
    BY <2>1, <2>2
<1>. QED
  BY <1>1, Invariance, PTL

\* The cap holds however many joins arrive at once.
THEOREM CapHolds == Spec => []GuestCap
<1>1. IInv => GuestCap
  BY DEF IInv
<1>. QED
  BY <1>1, Invariance, PTL

\* A slot is held for as long as createUser is under way, and no longer.
THEOREM SlotsCounted == Spec => []SlotsExact
<1>1. IInv => SlotsExact
  BY DEF IInv
<1>. QED
  BY <1>1, Invariance, PTL

\* Nobody is made to share a guest without having confirmed it.
THEOREM OwnGuest == Spec => []NoUnwittingSharing
<1>1. IInv => NoUnwittingSharing
  <2>1. IInv => \A j \in Joins :
          join[j].pc = "joined" /\ ~join[j].confirmed => join[j].guest = j
    BY DEF IInv, JoinInv
  <2>. QED
    BY <2>1 DEF NoUnwittingSharing
<1>. QED
  BY <1>1, Invariance, PTL

\* A session is that of a guest who exists.
THEOREM SessionsOfGuests == Spec => []SessionsHaveGuests
<1>1. IInv => SessionsHaveGuests
  BY DEF IInv
<1>. QED
  BY <1>1, Invariance, PTL

\* A student is alone in the session of a guest who exists.
THEOREM StudentsStayApart == Spec => []StudentsApart
<1>. QED
  BY OwnGuest, SessionsOfGuests, PTL DEF StudentsApart

-----------------------------------------------------------------------------
(* Classrooms implement Roster                                             *)

\* Nothing the roster shows changes.
Unseen == \A c \in Rooms : PhaseOf(c)' = PhaseOf(c) /\ GuestsOf(c)' = GuestsOf(c)

Mapped == Register!RNext \/ UNCHANGED Register!rvars

LEMMA SameCardinality ==
    ASSUME NEW S PROVE Register!Cardinality(S) = Cardinality(S)
BY Zenon DEF Register!Cardinality, Cardinality

LEMMA UnseenMaps == ASSUME Unseen PROVE Mapped
BY DEF Unseen, Mapped, Register!rvars

\* A join is not in a classroom that is sealed, or that was never opened.
LEMMA JoinedRoomOpen ==
    ASSUME IInv, NEW j \in Joins, join[j].pc \in Busy
    PROVE  /\ join[j].room \in Rooms
           /\ PhaseOf(join[j].room) \in {"open", "closing"}
<1> DEFINE c == join[j].room
<1>1. c \in Rooms /\ status[c] # "absent"
  BY DEF IInv, JoinInv, RoomsExist, Busy
<1>2. j \in JoinsOf(c)
  BY DEF IInv, Registered, JoinsOf
<1>3. ~cleaned[c]
  BY <1>1, <1>2 DEF IInv, CleanedInv
<1>4. status[c] \in {"live", "over"}
  BY <1>1 DEF IInv, TypeOK
<1>. QED
  BY <1>1, <1>3, <1>4 DEF PhaseOf

LEMMA InsertMaps ==
    ASSUME IInv, NEW j \in Joins, UserInserted(j)
    PROVE  Mapped
<1>0. PICK c \in Rooms : c = join[j].room
  BY DEF UserInserted, IInv, JoinInv
<1>1. /\ join[j].pc = "creating" /\ UNCHANGED rooms
      /\ join \in [Joins -> Requests] /\ row \in [Joins -> {"none", "here", "gone"}]
      /\ c \in Rooms /\ PhaseOf(c) \in {"open", "closing"}
  BY <1>0, JoinedRoomOpen DEF UserInserted, IInv, TypeOK, Busy
<1>2. \A d \in Rooms : PhaseOf(d)' = PhaseOf(d)
  BY <1>1 DEF PhaseOf, rooms
<1>3. \A k \in Joins : join'[k].room = join[k].room
  <2>1. PICK pc \in {"created", "lost-race", "not-created"} :
            join' = [join EXCEPT ![j].pc = pc]
    BY DEF UserInserted
  <2>. QED
    BY <1>1, <2>1 DEF Requests
<1>4. CASE row' = row
  BY <1>2, <1>3, <1>4, UnseenMaps DEF Unseen, GuestsOf
<1>5. CASE row' = [row EXCEPT ![j] = "here"]
  <2>1. /\ GuestsOf(c)' = GuestsOf(c) \cup {j}
        /\ \A d \in Rooms : d # c => GuestsOf(d)' = GuestsOf(d)
    <3>1. row[j] # "here"
      BY <1>1 DEF IInv, JoinInv
    <3>. QED
      BY <1>0, <1>1, <1>3, <1>5, <3>1 DEF GuestsOf
  <2>2. Cardinality(GuestsOf(c)) < Cap
    <3>1. GuestsOf(c) \subseteq Joins /\ CreatingOf(c) \subseteq Joins
          /\ j \in CreatingOf(c)
      BY <1>0, <1>1 DEF GuestsOf, CreatingOf
    <3>2. /\ Cardinality(GuestsOf(c)) \in Nat /\ Cardinality(CreatingOf(c)) \in Nat
          /\ Cardinality(CreatingOf(c)) # 0
      BY <3>1, FinitelyManyJoins, FS_EmptySet
    <3>3. Cardinality(GuestsOf(c)) + Cardinality(CreatingOf(c)) <= Cap /\ Cap \in Nat
      BY <1>1 DEF IInv, GuestCap
    <3>. QED
      BY <3>2, <3>3
  <2>3. Register!Admit(c, j)
    <3> DEFINE ph == [d \in Rooms |-> PhaseOf(d)]
               mem == [d \in Rooms |-> GuestsOf(d)]
    <3>1. ph[c] \in {"open", "closing"} /\ mem[c] = GuestsOf(c)
      BY <1>1
    <3>2. mem' = [mem EXCEPT ![c] = @ \cup {j}] /\ ph' = ph
      BY <1>2, <2>1
    <3>. QED
      BY <2>2, <3>1, <3>2, SameCardinality DEF Register!Admit
  <2>. QED
    BY <1>1, <2>3 DEF Mapped, Register!RNext
<1>. QED
  BY <1>4, <1>5 DEF UserInserted

\* The other steps of a join, and a crash, show nothing.
LEMMA JoinMaps ==
    ASSUME IInv,
           \/ \E j \in Joins : \/ Join(j) \/ Created(j) \/ NotCreated(j)
                               \/ FilesMade(j) \/ FilesFail(j) \/ UserRead(j)
                               \/ SignedIn(j) \/ SessionEnds(j) \/ DeleteUser(j)
           \/ Crash \/ Sweep
    PROVE  Mapped
<1>1. UNCHANGED rooms /\ row' = row /\ join \in [Joins -> Requests]
  <2>1. ASSUME NEW j \in Joins, Join(j) PROVE UNCHANGED rooms /\ row' = row
    BY <2>1 DEF Join, JoinRefused, JoinNew, Rejoin, users
  <2>2. ASSUME NEW j \in Joins, Created(j) \/ NotCreated(j) \/ FilesMade(j)
        PROVE  UNCHANGED rooms /\ row' = row
    BY <2>2 DEF Created, NotCreated, FilesMade, users
  <2>3. ASSUME NEW j \in Joins,
               \/ FilesFail(j) \/ UserRead(j) \/ SignedIn(j)
               \/ SessionEnds(j) \/ DeleteUser(j)
        PROVE  UNCHANGED rooms /\ row' = row
    BY <2>3 DEF FilesFail, UserRead, SignedIn, SessionEnds, DeleteUser, users
  <2>4. Crash \/ Sweep => UNCHANGED rooms /\ row' = row
    BY DEF Crash, Sweep, users
  <2>. QED
    BY <2>1, <2>2, <2>3, <2>4 DEF IInv, TypeOK
<1>2. \A k \in Joins : row[k] = "here" => join'[k].room = join[k].room
  <2>1. CASE \E j \in Joins : Join(j)
    <3>1. PICK j \in Joins : Join(j)
      BY <2>1
    <3>2. row[j] # "here"
      BY <3>1 DEF Join, IInv, JoinInv
    <3>3. \A k \in Joins : k # j => join'[k] = join[k]
      BY <1>1, <3>1 DEF Join, JoinRefused, JoinNew, Rejoin
    <3>. QED
      BY <3>2, <3>3
  <2>2. ASSUME NEW j \in Joins, NEW pc, NEW g,
               \/ join' = [join EXCEPT ![j].pc = pc]
               \/ join' = [join EXCEPT ![j].pc = pc, ![j].guest = g]
        PROVE  \A k \in Joins : join'[k].room = join[k].room
    BY <1>1, <2>2 DEF Requests
  <2>3. ASSUME NEW j \in Joins,
               \/ Created(j) \/ NotCreated(j) \/ FilesMade(j) \/ FilesFail(j)
               \/ UserRead(j) \/ SignedIn(j)
        PROVE  \A k \in Joins : join'[k].room = join[k].room
    <3>1. CASE Created(j)
      BY <2>2, <3>1 DEF Created, Answer, EnsureWorkspace
    <3>2. CASE NotCreated(j) \/ FilesMade(j)
      BY <2>2, <3>2 DEF NotCreated, FilesMade, Answer, EnsureWorkspace
    <3>3. CASE FilesFail(j) \/ UserRead(j) \/ SignedIn(j)
      BY <2>2, <3>3 DEF FilesFail, UserRead, SignedIn, Answer
    <3>. QED
      BY <2>3, <3>1, <3>2, <3>3
  <2>4. CASE Sweep \/ \E j \in Joins : SessionEnds(j) \/ DeleteUser(j)
    BY <2>4 DEF Sweep, SessionEnds, DeleteUser, joining
  <2>5. CASE Crash
    BY <1>1, <2>5 DEF Crash, Requests
  <2>. QED
    BY <2>1, <2>3, <2>4, <2>5
<1>3. \A c \in Rooms : GuestsOf(c)' = GuestsOf(c)
  BY <1>1, <1>2 DEF GuestsOf
<1>4. \A c \in Rooms : PhaseOf(c)' = PhaseOf(c)
  BY <1>1 DEF PhaseOf, rooms
<1>. QED
  BY <1>3, <1>4, UnseenMaps DEF Unseen

LEMMA RoomMaps ==
    ASSUME IInv, NEW c \in Rooms,
           CreateClassroom(c) \/ Expire(c) \/ EndNow(c)
    PROVE  Mapped
<1> DEFINE ph == [d \in Rooms |-> PhaseOf(d)]
           mem == [d \in Rooms |-> GuestsOf(d)]
<1>1. /\ status \in [Rooms -> {"absent", "live", "over"}] /\ cleaned' = cleaned
      /\ cleaned[c] => status[c] = "over"
      /\ row' = row /\ join' = join
  BY DEF CreateClassroom, Expire, EndNow, users, joining, IInv, TypeOK, CleanedInv
<1>2. \A d \in Rooms : GuestsOf(d)' = GuestsOf(d)
  BY <1>1 DEF GuestsOf
<1>3. mem' = mem
  BY <1>2
<1>4. CASE CreateClassroom(c)
  <2>1. status[c] = "absent" /\ status' = [status EXCEPT ![c] = "live"]
    BY <1>4 DEF CreateClassroom
  <2>2. /\ PhaseOf(c) = "absent" /\ PhaseOf(c)' = "open"
        /\ \A d \in Rooms : d # c => PhaseOf(d)' = PhaseOf(d)
    BY <1>1, <2>1 DEF PhaseOf
  <2>3. ph[c] = "absent" /\ ph' = [ph EXCEPT ![c] = "open"]
    BY <2>2
  <2>4. Register!Open(c)
    BY <1>3, <2>3 DEF Register!Open
  <2>. QED
    BY <2>4 DEF Mapped, Register!RNext
<1>5. CASE status[c] = "live" /\ status' = [status EXCEPT ![c] = "over"]
  <2>2. /\ PhaseOf(c) = "open" /\ PhaseOf(c)' = "closing"
        /\ \A d \in Rooms : d # c => PhaseOf(d)' = PhaseOf(d)
    BY <1>1, <1>5 DEF PhaseOf
  <2>3. ph[c] = "open" /\ ph' = [ph EXCEPT ![c] = "closing"]
    BY <2>2
  <2>4. Register!Close(c)
    BY <1>3, <2>3 DEF Register!Close
  <2>. QED
    BY <2>4 DEF Mapped, Register!RNext
<1>6. CASE status[c] = "over" /\ status' = [status EXCEPT ![c] = "over"]
  <2>1. \A d \in Rooms : PhaseOf(d)' = PhaseOf(d)
    BY <1>1, <1>6 DEF PhaseOf
  <2>. QED
    BY <1>2, <2>1, UnseenMaps DEF Unseen
<1>. QED
  BY <1>1, <1>4, <1>5, <1>6 DEF Expire, EndNow

\* The row of a guest goes, and no classroom is marked.
LEMMA RemoveMaps ==
    ASSUME IInv, NEW g \in Joins, NEW c \in Rooms, join[g].room = c,
           join' = join, \A d \in Rooms : PhaseOf(d)' = PhaseOf(d),
           row'[g] # "here", \A k \in Joins : k # g => row'[k] = row[k]
    PROVE  Mapped
<1> DEFINE ph == [d \in Rooms |-> PhaseOf(d)]
           mem == [d \in Rooms |-> GuestsOf(d)]
<1>1. /\ GuestsOf(c)' = GuestsOf(c) \ {g}
      /\ \A d \in Rooms : d # c => GuestsOf(d)' = GuestsOf(d)
  BY DEF GuestsOf
<1>2. mem' = [mem EXCEPT ![c] = @ \ {g}] /\ ph' = ph
  BY <1>1
<1>3. Register!Remove(c, g)
  BY <1>2 DEF Register!Remove
<1>. QED
  BY <1>3 DEF Mapped, Register!RNext

\* A classroom that has nobody left, or one guest who goes, is marked.
LEMMA SealMaps ==
    ASSUME IInv, NEW c \in Rooms,
           status[c] = "over", ~cleaned[c], UNCHANGED <<status, join>>,
           cleaned' = [d \in Rooms |-> cleaned[d] \/ d = c],
           GuestsOf(c) = {} \/ \E g \in Joins : GuestsOf(c) = {g},
           GuestsOf(c)' = {},
           \A d \in Rooms : d # c => GuestsOf(d)' = GuestsOf(d)
    PROVE  Mapped
<1> DEFINE ph == [d \in Rooms |-> PhaseOf(d)]
           mem == [d \in Rooms |-> GuestsOf(d)]
<1>1. /\ PhaseOf(c) = "closing" /\ PhaseOf(c)' = "sealed"
      /\ \A d \in Rooms : d # c => PhaseOf(d)' = PhaseOf(d)
  BY DEF PhaseOf
<1>2. ph[c] = "closing" /\ ph' = [ph EXCEPT ![c] = "sealed"]
  BY <1>1
<1>3. /\ mem' = [mem EXCEPT ![c] = {}]
      /\ mem[c] = {} \/ \E g \in Joins : mem[c] = {g}
  OBVIOUS
<1>4. Register!Seal(c)
  BY <1>2, <1>3 DEF Register!Seal
<1>. QED
  BY <1>4 DEF Mapped, Register!RNext

\* A caller that goes on without a change of the guests marks its classroom,
\* which is then empty, or nothing.
LEMMA QuietMaps ==
    ASSUME IInv, NEW a \in Cleaners, NEW left, GoesOn(a, left),
           UNCHANGED <<status, row, join>>,
           left = {} => \A c \in Rooms : c = cl[a].room => GuestsOf(c) = {}
    PROVE  Mapped
<1>1. /\ cleaned \in [Rooms -> BOOLEAN] /\ cl[a].room \in Rooms \cup {None}
      /\ cl[a].room # None => status[cl[a].room] = "over"
  BY DeletionFields DEF IInv, TypeOK, CleanerInv
<1>2. \A c \in Rooms : GuestsOf(c)' = GuestsOf(c)
  BY DEF GuestsOf
<1>3. CASE cleaned' = cleaned
  <2>1. \A c \in Rooms : PhaseOf(c)' = PhaseOf(c)
    BY <1>3 DEF PhaseOf
  <2>. QED
    BY <1>2, <2>1, UnseenMaps DEF Unseen
<1>4. CASE cleaned' # cleaned
  <2>1. left = {} /\ cleaned' = [c \in Rooms |-> cleaned[c] \/ c = cl[a].room]
    BY <1>4 DEF GoesOn
  <2>2. PICK c \in Rooms : c = cl[a].room /\ ~cleaned[c]
    BY <1>1, <1>4, <2>1
  <2>3. status[c] = "over" /\ GuestsOf(c) = {} /\ c # None
    BY <1>1, <2>1, <2>2
  <2>4. /\ cleaned' = [d \in Rooms |-> cleaned[d] \/ d = c]
        /\ GuestsOf(c)' = {}
        /\ UNCHANGED <<status, join>>
    BY <1>2, <2>1, <2>2, <2>3
  <2>. QED
    BY <1>2, <2>2, <2>3, <2>4, SealMaps
<1>. QED
  BY <1>3, <1>4

LEMMA CleanerMaps ==
    ASSUME IInv, NEW a \in Cleaners,
           \/ JoinsSettled(a) \/ DeleteCommits(a) \/ DeleteReturns(a)
           \/ DeleteFails(a)
    PROVE  Mapped
<1>0. /\ CleanerInv(a) /\ cl[a] \in Deletions /\ cl[a].left \subseteq Joins
      /\ cl[a].room \in Rooms \cup {None}
  BY DeletionFields DEF IInv, TypeOK
<1>1. CASE JoinsSettled(a)
  <2>1. GoesOn(a, GuestsOf(cl[a].room)) /\ UNCHANGED <<status, row, join>>
    BY <1>1 DEF JoinsSettled, users, joining
  <2>. QED
    BY <2>1, QuietMaps
<1>2. CASE DeleteReturns(a)
  <2>1. /\ GoesOn(a, cl[a].left \ {cl[a].guest}) /\ UNCHANGED <<status, row, join>>
        /\ row[cl[a].guest] # "here" /\ Listed(a)
    BY <1>0, <1>2 DEF DeleteReturns, CleanerInv, users, joining
  <2>2. ASSUME cl[a].left \ {cl[a].guest} = {}, NEW c \in Rooms, c = cl[a].room
        PROVE  GuestsOf(c) = {}
    <3>1. GuestsOf(c) \subseteq cl[a].left
      BY <2>1, <2>2 DEF Listed
    <3>2. cl[a].guest \notin GuestsOf(c)
      BY <2>1 DEF GuestsOf
    <3>. QED
      BY <2>2, <3>1, <3>2
  <2>. QED
    BY <2>1, <2>2, QuietMaps
<1>3. CASE DeleteCommits(a)
  <2>1. /\ cl[a].guest \in cl[a].left /\ Listed(a) /\ Erase(cl[a].guest, cl[a].seen)
        /\ UNCHANGED <<rooms, joining>>
    BY <1>0, <1>3 DEF DeleteCommits, CleanerInv
  <2>2. PICK g \in Joins : g = cl[a].guest
    BY <1>0, <2>1
  <2>3. row'[g] # "here" /\ \A k \in Joins : k # g => row'[k] = row[k]
    BY <2>1, <2>2, EraseTypes
  <2>4. join[g].room \in Rooms
    BY <2>1, <2>2 DEF Listed, IInv, JoinInv
  <2>5. join' = join /\ \A d \in Rooms : PhaseOf(d)' = PhaseOf(d)
    BY <2>1 DEF joining, rooms, PhaseOf
  <2>6. PICK c \in Rooms : join[g].room = c
    BY <2>4
  <2>. QED
    BY <2>3, <2>5, <2>6, RemoveMaps
<1>4. CASE DeleteFails(a)
  <2>1. \A c \in Rooms : PhaseOf(c)' = PhaseOf(c) /\ GuestsOf(c)' = GuestsOf(c)
    BY <1>4 DEF DeleteFails, PhaseOf, GuestsOf, rooms, users, joining
  <2>. QED
    BY <2>1, UnseenMaps DEF Unseen
<1>. QED
  BY <1>1, <1>2, <1>3, <1>4

LEMMA DeleteBeginsMaps ==
    ASSUME IInv, NEW a \in Cleaners, NEW g \in Joins, DeleteBegins(a, g)
    PROVE  Mapped
<1>1. /\ CleanerInv(a) /\ cl[a] \in Deletions /\ cl[a].room \in Rooms \cup {None}
      /\ Listed(a) /\ g \in cl[a].left /\ cl[a].left \subseteq Joins
      /\ cleaned \in [Rooms -> BOOLEAN]
      /\ UNCHANGED <<status, joining>> /\ join' = join /\ status' = status
  BY DeletionFields DEF DeleteBegins, CleanerInv, IInv, TypeOK, joining
<1>2. PICK c \in Rooms : join[g].room = c
  BY <1>1 DEF Listed, IInv, JoinInv
<1>3. CASE cleaned' = cleaned
  <2>1. \A d \in Rooms : PhaseOf(d)' = PhaseOf(d)
    BY <1>1, <1>3 DEF PhaseOf
  <2>2. CASE row' = row
    <3>1. \A d \in Rooms : GuestsOf(d)' = GuestsOf(d)
      BY <1>1, <2>2 DEF GuestsOf
    <3>. QED
      BY <2>1, <3>1, UnseenMaps DEF Unseen
  <2>3. CASE Erase(g, None)
    <3>1. row'[g] # "here" /\ \A k \in Joins : k # g => row'[k] = row[k]
      BY <2>3, EraseTypes
    <3>. QED
      BY <1>1, <1>2, <2>1, <3>1, RemoveMaps
  <2>. QED
    BY <2>2, <2>3 DEF DeleteBegins, users
<1>4. CASE cleaned' # cleaned
  <2>1. Erase(g, None) /\ GoesOn(a, cl[a].left \ {g})
    BY <1>4 DEF DeleteBegins
  <2>2. /\ cl[a].left \ {g} = {}
        /\ cleaned' = [d \in Rooms |-> cleaned[d] \/ d = cl[a].room]
    BY <1>4, <2>1 DEF GoesOn
  <2>3. PICK d \in Rooms : d = cl[a].room /\ ~cleaned[d]
    BY <1>1, <1>4, <2>2
  <2>4. d = c /\ status[d] = "over" /\ GuestsOf(d) \subseteq {g}
    BY <1>1, <1>2, <2>2, <2>3 DEF Listed, CleanerInv
  <2>5. row'[g] # "here" /\ \A k \in Joins : k # g => row'[k] = row[k]
    BY <2>1, EraseTypes
  <2>6. /\ GuestsOf(c)' = {}
        /\ \A e \in Rooms : e # c => GuestsOf(e)' = GuestsOf(e)
    <3>1. \A e \in Rooms : GuestsOf(e)' \subseteq GuestsOf(e) \ {g}
      BY <1>1, <2>5 DEF GuestsOf
    <3>2. \A e \in Rooms : e # c => GuestsOf(e)' = GuestsOf(e)
      BY <1>1, <1>2, <2>5 DEF GuestsOf
    <3>. QED
      BY <2>4, <3>1, <3>2
  <2>7. cleaned' = [e \in Rooms |-> cleaned[e] \/ e = c] /\ ~cleaned[c]
    BY <2>2, <2>3, <2>4
  <2>8. /\ status[c] = "over" /\ UNCHANGED <<status, join>>
        /\ GuestsOf(c) = {} \/ \E k \in Joins : GuestsOf(c) = {k}
    BY <1>1, <2>4
  <2>. QED
    BY <2>6, <2>7, <2>8, SealMaps
<1>. QED
  BY <1>3, <1>4

\* The roster of classrooms: up to the cap, sealed when over and empty, empty
\* for ever from then on.
THEOREM ImplementsRoster == Spec => RefinesRoster
<1>1. Init => Register!RInit
  <2> SUFFICES ASSUME Init PROVE Register!RInit
    OBVIOUS
  <2>1. \A c \in Rooms : PhaseOf(c) = "absent" /\ GuestsOf(c) = {}
    BY DEF Init, PhaseOf, GuestsOf
  <2>. QED
    BY <2>1 DEF Register!RInit
<1>2. IInv /\ [Next]_vars => [Register!RNext]_(Register!rvars)
  <2> SUFFICES ASSUME IInv, [Next]_vars PROVE Mapped
    BY DEF Mapped
  <2>1. CASE \E c \in Rooms : CreateClassroom(c) \/ Expire(c) \/ EndNow(c)
    BY <2>1, RoomMaps
  <2>2. CASE \E j \in Joins : \/ Join(j) \/ Proceeds(j) \/ FilesFail(j)
                              \/ SessionEnds(j) \/ DeleteUser(j)
    BY <2>2, InsertMaps, JoinMaps DEF Proceeds
  <2>3. CASE \E a \in Cleaners : Cleans(a) \/ DeleteFails(a)
    BY <2>3, CleanerMaps, DeleteBeginsMaps DEF Cleans
  <2>4. CASE Sweep \/ Crash
    BY <2>4, JoinMaps
  <2>5. CASE UNCHANGED vars
    <3>1. Unseen
      BY <2>5 DEF vars, Unseen, PhaseOf, GuestsOf
    <3>. QED
      BY <3>1, UnseenMaps
  <2>. QED
    BY <2>1, <2>2, <2>3, <2>4, <2>5 DEF Next
<1>. QED
  BY <1>1, <1>2, Invariance, PTL DEF Spec, RefinesRoster, Register!RSpec

-----------------------------------------------------------------------------
(* Why the cleaners return                                                 *)

\* Between two deletions there is a guest left to delete.
Loaded == \A a \in Cleaners : cl[a].pc = "next" => cl[a].left # {}

JoinsAdvance ==
    /\ \A c \in Rooms : status[c] = "over" => JoinsOf(c)' \subseteq JoinsOf(c)
    /\ \A j \in inFlight : join'[j] = join[j] \/ Awaits(join'[j]) < Awaits(join[j])

CallersAdvance ==
    \A a \in Cleaners : cl[a].pc # "idle" =>
        /\ cl'[a] = cl[a] \/ Closer(a)
        /\ a = "sweep" => todo' \subseteq todo

\* One join goes on to a later await, or is answered.
LEMMA OneJoinAdvances ==
    ASSUME IInv, NEW j \in Joins, NEW pc, NEW g,
           join[j].pc \in Busy,
           pc \in Answers \cup (Busy \ {"creating"}),
           join' = [join EXCEPT ![j] = [@ EXCEPT !.pc = pc, !.guest = g]],
           inFlight' \subseteq inFlight,
           Awaits([pc |-> pc]) < Awaits([pc |-> join[j].pc])
    PROVE  JoinsAdvance
<1>1. /\ join \in [Joins -> Requests] /\ join[j] \in Requests /\ inFlight \subseteq Joins
  BY DEF IInv, TypeOK
<1>2. /\ join'[j].pc = pc /\ join'[j].room = join[j].room
      /\ \A k \in Joins : k # j => join'[k] = join[k]
  BY <1>1 DEF Requests
<1>3. Awaits(join'[j]) = Awaits([pc |-> pc]) /\ Awaits(join[j]) = Awaits([pc |-> join[j].pc])
  BY <1>2 DEF Awaits
<1>4. \A k \in inFlight : join'[k] = join[k] \/ Awaits(join'[k]) < Awaits(join[k])
  BY <1>1, <1>2, <1>3
<1>5. \A k \in Joins : join'[k].room = join[k].room
  BY <1>2
<1>6. \A c \in Rooms : JoinsOf(c)' \subseteq JoinsOf(c)
  BY <1>1, <1>5 DEF JoinsOf
<1>. QED
  BY <1>4, <1>6 DEF JoinsAdvance

LEMMA AwaitsAre ==
    /\ Awaits([pc |-> "creating"]) = 5
    /\ \A pc \in {"created", "lost-race", "not-created"} : Awaits([pc |-> pc]) = 4
    /\ Awaits([pc |-> "files"]) = 3
    /\ Awaits([pc |-> "reading-user"]) = 2
    /\ Awaits([pc |-> "signing-in"]) = 1
    /\ \A pc \in Answers : Awaits([pc |-> pc]) = 0
BY DEF Awaits, Answers, Refused

LEMMA JoinsUntouched ==
    ASSUME UNCHANGED joining
    PROVE  JoinsAdvance
BY DEF JoinsAdvance, joining, JoinsOf

LEMMA EveryJoinAdvances ==
    ASSUME IInv, NEW j \in Joins, Proceeds(j) \/ FilesFail(j)
    PROVE  JoinsAdvance
<1>1. join \in [Joins -> Requests] /\ join[j] \in Requests /\ inFlight \subseteq Joins
  BY DEF IInv, TypeOK
<1>2. \A pc : [join EXCEPT ![j].pc = pc]
               = [join EXCEPT ![j] = [@ EXCEPT !.pc = pc, !.guest = join[j].guest]]
  BY <1>1 DEF Requests
<1>3. ASSUME NEW pc \in Answers, Answer(j, pc), join[j].pc \in Busy
      PROVE  JoinsAdvance
  <2>1. join' = [join EXCEPT ![j] = [@ EXCEPT !.pc = pc, !.guest = join[j].guest]]
        /\ inFlight' \subseteq inFlight
    BY <1>2, <1>3 DEF Answer
  <2>2. Awaits([pc |-> pc]) < Awaits([pc |-> join[j].pc])
    BY <1>3, AwaitsAre DEF Busy
  <2>. QED
    BY <1>3, <2>1, <2>2, OneJoinAdvances
<1>4. ASSUME UserInserted(j) PROVE JoinsAdvance
  <2>1. PICK pc \in {"created", "lost-race", "not-created"} :
            join' = [join EXCEPT ![j].pc = pc]
    BY <1>4 DEF UserInserted
  <2>2. join[j].pc = "creating" /\ inFlight' = inFlight
    BY <1>4 DEF UserInserted
  <2>3. Awaits([pc |-> pc]) < Awaits([pc |-> join[j].pc])
    BY <2>2, AwaitsAre
  <2>4. join' = [join EXCEPT ![j] = [@ EXCEPT !.pc = pc, !.guest = join[j].guest]]
    BY <1>2, <2>1
  <2>5. join[j].pc \in Busy /\ pc \in Busy \ {"creating"}
    BY <2>2 DEF Busy
  <2>. QED
    BY <2>2, <2>3, <2>4, <2>5, OneJoinAdvances
<1>5. ASSUME NEW g, EnsureWorkspace(j, g), inFlight' = inFlight,
             join[j].pc \in {"created", "lost-race", "not-created"}
      PROVE  JoinsAdvance
  <2>1. PICK pc \in {"reading-user", "files"} :
            join' = [join EXCEPT ![j].pc = pc, ![j].guest = g]
    BY <1>5 DEF EnsureWorkspace
  <2>2. join' = [join EXCEPT ![j] = [@ EXCEPT !.pc = pc, !.guest = g]]
    BY <1>1, <2>1 DEF Requests
  <2>3. Awaits([pc |-> pc]) < Awaits([pc |-> join[j].pc])
    BY <1>5, AwaitsAre
  <2>4. join[j].pc \in Busy /\ pc \in Busy \ {"creating"}
    BY <1>5 DEF Busy
  <2>. QED
    BY <1>5, <2>2, <2>3, <2>4, OneJoinAdvances
<1>6. ASSUME NEW from \in {"files", "reading-user"}, NEW to \in {"reading-user", "signing-in"},
             join[j].pc = from, join' = [join EXCEPT ![j].pc = to], inFlight' = inFlight,
             from = "reading-user" => to = "signing-in"
      PROVE  JoinsAdvance
  <2>1. join' = [join EXCEPT ![j] = [@ EXCEPT !.pc = to, !.guest = join[j].guest]]
    BY <1>2, <1>6
  <2>2. Awaits([pc |-> to]) < Awaits([pc |-> join[j].pc])
    BY <1>6, AwaitsAre
  <2>3. join[j].pc \in Busy /\ to \in Busy \ {"creating"}
    BY <1>6 DEF Busy
  <2>. QED
    BY <1>6, <2>1, <2>2, <2>3, OneJoinAdvances
<1>7. {"no-classroom", "taken", "failed", "joined"} \subseteq Answers
  BY DEF Answers, Refused
<1>8. {"created", "lost-race", "not-created", "files", "reading-user", "signing-in"}
         \subseteq Busy
  BY DEF Busy
<1>9. CASE Created(j)
  BY <1>3, <1>5, <1>7, <1>8, <1>9 DEF Created
<1>10. CASE NotCreated(j)
  BY <1>3, <1>7, <1>8, <1>10 DEF NotCreated
<1>11. CASE FilesMade(j) \/ FilesFail(j)
  BY <1>3, <1>6, <1>7, <1>8, <1>11 DEF FilesMade, FilesFail
<1>12. CASE UserRead(j) \/ SignedIn(j)
  BY <1>3, <1>6, <1>7, <1>8, <1>12 DEF UserRead, SignedIn
<1>. QED
  BY <1>4, <1>9, <1>10, <1>11, <1>12 DEF Proceeds

\* A join begins only in a classroom that is live, in the turn that registers it.
LEMMA BeginningAdvances ==
    ASSUME IInv, NEW j \in Joins, Join(j)
    PROVE  JoinsAdvance
<1>1. /\ join \in [Joins -> Requests] /\ inFlight \subseteq Joins
      /\ join[j].pc = "new" /\ j \notin inFlight
  BY DEF IInv, TypeOK, Registered, Join, Busy
<1>2. PICK c \in Rooms, n \in Names :
          \/ \E answer \in Refused : JoinRefused(j, c, n, answer)
          \/ JoinNew(j, c, n)
          \/ Rejoin(j, c, n)
  BY DEF Join
<1>3. PICK r :
         /\ r.room = c /\ join' = [join EXCEPT ![j] = r]
         /\ \/ inFlight' = inFlight
            \/ inFlight' = inFlight \cup {j} /\ status[c] = "live"
  <2>1. ASSUME NEW answer \in Refused, JoinRefused(j, c, n, answer)
        PROVE  \E r : r.room = c /\ join' = [join EXCEPT ![j] = r] /\ inFlight' = inFlight
    <3> DEFINE r == [NewJoin EXCEPT !.pc = answer, !.room = c, !.name = n]
    <3>1. r.room = c /\ join' = [join EXCEPT ![j] = r] /\ inFlight' = inFlight
      BY <2>1 DEF JoinRefused, NewJoin
    <3>. QED
      BY <3>1
  <2>2. ASSUME JoinNew(j, c, n)
        PROVE  \E r : /\ r.room = c /\ join' = [join EXCEPT ![j] = r]
                      /\ inFlight' = inFlight \cup {j} /\ status[c] = "live"
    <3> DEFINE r == [NewJoin EXCEPT !.pc = "creating", !.room = c, !.name = n]
    <3>1. /\ r.room = c /\ join' = [join EXCEPT ![j] = r]
          /\ inFlight' = inFlight \cup {j} /\ status[c] = "live"
      BY <2>2 DEF JoinNew, NewJoin
    <3>. QED
      BY <3>1
  <2>3. ASSUME Rejoin(j, c, n)
        PROVE  \E r : /\ r.room = c /\ join' = [join EXCEPT ![j] = r]
                      /\ inFlight' = inFlight \cup {j} /\ status[c] = "live"
    <3>1. PICK g \in Named(c, n) :
             join' = [join EXCEPT ![j] =
                [pc |-> IF ws[g] # None THEN "reading-user" ELSE "files",
                 room |-> c, name |-> n, confirmed |-> TRUE, guest |-> g]]
      BY <2>3 DEF Rejoin
    <3> DEFINE r == [pc |-> IF ws[g] # None THEN "reading-user" ELSE "files",
                     room |-> c, name |-> n, confirmed |-> TRUE, guest |-> g]
    <3>2. /\ r.room = c /\ join' = [join EXCEPT ![j] = r]
          /\ inFlight' = inFlight \cup {j} /\ status[c] = "live"
      BY <2>3, <3>1 DEF Rejoin
    <3>. QED
      BY <3>2
  <2>. QED
    BY <1>2, <2>1, <2>2, <2>3
<1>4. join'[j] = r /\ \A k \in Joins : k # j => join'[k] = join[k]
  BY <1>1, <1>3
<1>5. \A k \in inFlight : join'[k] = join[k]
  BY <1>1, <1>4
<1>6. ASSUME NEW d \in Rooms, status[d] = "over"
      PROVE  JoinsOf(d)' \subseteq JoinsOf(d)
  <2> SUFFICES ASSUME NEW k \in inFlight', join'[k].room = d
               PROVE  k \in inFlight /\ join[k].room = d
    BY DEF JoinsOf
  <2>1. k # j
    BY <1>1, <1>3, <1>4, <1>6
  <2>. QED
    BY <1>3, <1>5, <2>1
<1>. QED
  BY <1>5, <1>6 DEF JoinsAdvance

LEMMA JoinsGoOn ==
    ASSUME IInv, [Next]_vars
    PROVE  JoinsAdvance
<1>1. CASE \E c \in Rooms : CreateClassroom(c) \/ Expire(c) \/ EndNow(c)
  BY <1>1, JoinsUntouched DEF CreateClassroom, Expire, EndNow
<1>2. CASE \E j \in Joins : \/ Join(j) \/ Proceeds(j) \/ FilesFail(j)
                            \/ SessionEnds(j) \/ DeleteUser(j)
  <2>1. ASSUME NEW j \in Joins, SessionEnds(j) \/ DeleteUser(j) PROVE JoinsAdvance
    BY <2>1, JoinsUntouched DEF SessionEnds, DeleteUser
  <2>2. ASSUME NEW j \in Joins, Join(j) PROVE JoinsAdvance
    BY <2>2, BeginningAdvances
  <2>3. ASSUME NEW j \in Joins, Proceeds(j) \/ FilesFail(j) PROVE JoinsAdvance
    BY <2>3, EveryJoinAdvances
  <2>. QED
    BY <1>2, <2>1, <2>2, <2>3
<1>3. CASE \E a \in Cleaners : Cleans(a) \/ DeleteFails(a)
  BY <1>3, JoinsUntouched
     DEF Cleans, JoinsSettled, DeleteCommits, DeleteReturns, DeleteBegins, DeleteFails
<1>4. CASE Sweep
  BY <1>4, JoinsUntouched DEF Sweep
<1>5. CASE Crash
  <2>1. inFlight' = {}
    BY <1>5 DEF Crash
  <2>2. ASSUME NEW j \in inFlight
        PROVE  Awaits(join'[j]) < Awaits(join[j])
    <3>1. j \in Joins /\ join[j].pc \in Busy /\ join[j] \in Requests
      BY DEF IInv, TypeOK, Registered
    <3>2. join'[j].pc = "dead"
      BY <1>5, <3>1 DEF Crash, Requests
    <3>3. Awaits(join'[j]) = 0
      BY <3>2 DEF Awaits
    <3>4. Awaits(join[j]) > 0
      BY <3>1 DEF Awaits, Busy
    <3>. QED
      BY <3>3, <3>4
  <2>. QED
    BY <2>1, <2>2 DEF JoinsAdvance, JoinsOf
<1>6. CASE UNCHANGED vars
  BY <1>6, JoinsUntouched DEF vars, joining
<1>. QED
  BY <1>1, <1>2, <1>3, <1>4, <1>5, <1>6 DEF Next

\* A caller that begins, or goes on in a deletion, while no other moves.
LEMMA OneCallerAdvances ==
    ASSUME IInv, Loaded, NEW a \in Cleaners,
           \A b \in Cleaners : b # a => cl'[b] = cl[b],
           \/ cl[a].pc = "idle"
           \/ Closer(a) /\ todo' \subseteq todo,
           a # "sweep" => todo' = todo,
           cl'[a].pc = "next" => cl'[a].left # {}
    PROVE  CallersAdvance /\ Loaded'
BY DEF CallersAdvance, Loaded

\* A caller that is done returns, or turns to a classroom the sweep had still
\* to clean.
LEMMA LeavingAdvances ==
    ASSUME IInv, Loaded, NEW a \in Cleaners, Leaves(a)
    PROVE  CallersAdvance /\ Loaded'
<1>1. cl \in [Cleaners -> Deletions]
  BY DEF IInv, TypeOK
<1>2. ASSUME NEW c \in todo, a = "sweep",
             cl' = [cl EXCEPT ![a] = Waiting(c)], todo' = todo \ {c}
      PROVE  CallersAdvance /\ Loaded'
  <2>1. Waiting(c).pc = "waiting"
    BY DEF Waiting, Idle
  <2>2. cl'[a].pc = "waiting" /\ \A b \in Cleaners : b # a => cl'[b] = cl[b]
    BY <1>1, <1>2, <2>1
  <2>3. Closer(a) /\ todo' \subseteq todo
    BY <1>2, <2>2 DEF Closer
  <2>. QED
    BY <1>2, <2>2, <2>3, OneCallerAdvances
<1>3. CASE cl' = [cl EXCEPT ![a] = Idle] /\ todo' = todo
  <2>1. cl'[a].pc = "idle" /\ \A b \in Cleaners : b # a => cl'[b] = cl[b]
    BY <1>1, <1>3 DEF Idle
  <2>2. Closer(a)
    BY <2>1 DEF Closer
  <2>. QED
    BY <1>3, <2>1, <2>2, OneCallerAdvances
<1>. QED
  BY <1>2, <1>3 DEF Leaves

\* A caller whose list has a guest less, or that has listed the guests.
LEMMA GoingOnAdvances ==
    ASSUME IInv, Loaded, NEW a \in Cleaners, NEW left, GoesOn(a, left),
           \/ cl[a].pc = "waiting"
           \/ cl[a].pc # "waiting" /\ left \subseteq cl[a].left /\ left # cl[a].left
    PROVE  CallersAdvance /\ Loaded'
<1>1. cl \in [Cleaners -> Deletions] /\ cl[a] \in Deletions /\ todo \subseteq Rooms
  BY DEF IInv, TypeOK
<1>2. CASE left # {}
  <2>1. /\ cl' = [cl EXCEPT ![a] = [cl[a] EXCEPT !.pc = "next", !.left = left,
                                               !.guest = None, !.seen = None]]
        /\ todo' = todo
    BY <1>2 DEF GoesOn
  <2>2. /\ cl'[a].pc = "next" /\ cl'[a].left = left /\ cl'[a].room = cl[a].room
        /\ \A b \in Cleaners : b # a => cl'[b] = cl[b]
    BY <1>1, <2>1 DEF Deletions
  <2>3. Closer(a)
    BY <2>2 DEF Closer
  <2>. QED
    BY <1>2, <2>1, <2>2, <2>3 DEF CallersAdvance, Loaded
<1>3. CASE left = {}
  <2>1. Leaves(a)
    BY <1>3 DEF GoesOn
  <2>. QED
    BY <2>1, LeavingAdvances
<1>. QED
  BY <1>2, <1>3

LEMMA CallersUntouched ==
    ASSUME Loaded, UNCHANGED cleaning
    PROVE  CallersAdvance /\ Loaded'
BY DEF CallersAdvance, Loaded, cleaning

LEMMA CallersGoOn ==
    ASSUME IInv, Loaded, [Next]_vars
    PROVE  CallersAdvance /\ Loaded'
<1>1. cl \in [Cleaners -> Deletions] /\ \A a \in Cleaners : CleanerInv(a)
  BY DEF IInv, TypeOK
<1>2. CASE \E c \in Rooms : CreateClassroom(c) \/ Expire(c)
  BY <1>2, CallersUntouched DEF CreateClassroom, Expire
<1>3. ASSUME NEW c \in Rooms, EndNow(c)
      PROVE  CallersAdvance /\ Loaded'
  <2>1. /\ "end" \in Cleaners /\ cl["end"].pc = "idle" /\ todo' = todo
        /\ cl' = [cl EXCEPT !["end"] = Waiting(c)]
    BY <1>3 DEF EndNow
  <2>2. Waiting(c).pc = "waiting"
    BY DEF Waiting, Idle
  <2>3. cl'["end"].pc = "waiting" /\ \A b \in Cleaners : b # "end" => cl'[b] = cl[b]
    BY <1>1, <2>1, <2>2
  <2>. QED
    BY <2>1, <2>3, OneCallerAdvances
<1>4. CASE \E j \in Joins : \/ Join(j) \/ Proceeds(j) \/ FilesFail(j) \/ SessionEnds(j)
  BY <1>4, CallersUntouched
     DEF Join, Proceeds, UserInserted, Created, NotCreated, FilesMade, UserRead,
         SignedIn, FilesFail, SessionEnds
<1>5. ASSUME NEW g \in Joins, DeleteUser(g)
      PROVE  CallersAdvance /\ Loaded'
  <2> DEFINE d == [Idle EXCEPT !.pc = "next", !.left = {g}]
  <2>1. /\ "user" \in Cleaners /\ cl["user"].pc = "idle" /\ todo' = todo
        /\ cl' = [cl EXCEPT !["user"] = d]
    BY <1>5 DEF DeleteUser
  <2>2. d.left = {g}
    BY DEF Idle
  <2>3. cl'["user"].left = {g} /\ \A b \in Cleaners : b # "user" => cl'[b] = cl[b]
    BY <1>1, <2>1, <2>2
  <2>. QED
    BY <2>1, <2>3, OneCallerAdvances
<1>6. ASSUME Sweep
      PROVE  CallersAdvance /\ Loaded'
  <2>1. PICK c \in NeedCleanup : cl' = [cl EXCEPT !["sweep"] = Waiting(c)]
    BY <1>6 DEF Sweep
  <2>2. "sweep" \in Cleaners /\ cl["sweep"].pc = "idle" /\ Waiting(c).pc = "waiting"
    BY <1>6 DEF Sweep, Waiting, Idle
  <2>3. cl'["sweep"].pc = "waiting" /\ \A b \in Cleaners : b # "sweep" => cl'[b] = cl[b]
    BY <1>1, <2>1, <2>2
  <2>. QED
    BY <2>2, <2>3, OneCallerAdvances
<1>7. ASSUME NEW a \in Cleaners, NEW g \in Joins, DeleteBegins(a, g)
      PROVE  CallersAdvance /\ Loaded'
  <2>1. cl[a].pc = "next" /\ g \in cl[a].left
    BY <1>7 DEF DeleteBegins
  <2>2. CASE GoesOn(a, cl[a].left \ {g})
    BY <2>1, <2>2, GoingOnAdvances
  <2>3. CASE /\ cl' = [cl EXCEPT ![a] = [cl[a] EXCEPT !.pc = "stopping", !.guest = g,
                                                    !.seen = ws[g]]]
             /\ todo' = todo
    <3>1. /\ cl'[a].pc = "stopping" /\ cl'[a].left = cl[a].left
          /\ cl'[a].room = cl[a].room
          /\ \A b \in Cleaners : b # a => cl'[b] = cl[b]
      BY <1>1, <2>3 DEF Deletions
    <3>2. Turns(cl'[a]) < Turns(cl[a])
      BY <2>1, <3>1 DEF Turns
    <3>3. Closer(a)
      BY <2>1, <3>1, <3>2 DEF Closer
    <3>. QED
      BY <2>3, <3>1, <3>3, OneCallerAdvances
  <2>. QED
    BY <1>7, <2>2, <2>3 DEF DeleteBegins
<1>8. ASSUME NEW a \in Cleaners, DeleteCommits(a)
      PROVE  CallersAdvance /\ Loaded'
  <2>1. cl[a].pc = "stopping" /\ cl' = [cl EXCEPT ![a].pc = "removing"] /\ todo' = todo
    BY <1>8 DEF DeleteCommits
  <2>2. /\ cl'[a].pc = "removing" /\ cl'[a].left = cl[a].left
        /\ cl'[a].room = cl[a].room
        /\ \A b \in Cleaners : b # a => cl'[b] = cl[b]
    BY <1>1, <2>1 DEF Deletions
  <2>3. Turns(cl'[a]) < Turns(cl[a])
    BY <2>1, <2>2 DEF Turns
  <2>4. Closer(a)
    BY <2>1, <2>2, <2>3 DEF Closer
  <2>. QED
    BY <2>1, <2>2, <2>4, OneCallerAdvances
<1>9. ASSUME NEW a \in Cleaners, JoinsSettled(a) \/ DeleteReturns(a) \/ DeleteFails(a)
      PROVE  CallersAdvance /\ Loaded'
  <2>1. CASE JoinsSettled(a)
    BY <2>1, GoingOnAdvances DEF JoinsSettled
  <2>2. CASE DeleteReturns(a)
    <3>1. cl[a].pc = "removing" /\ GoesOn(a, cl[a].left \ {cl[a].guest})
      BY <2>2 DEF DeleteReturns
    <3>2. cl[a].guest \in cl[a].left
      BY <1>1, <3>1 DEF CleanerInv
    <3>. QED
      BY <3>1, <3>2, GoingOnAdvances
  <2>3. CASE DeleteFails(a)
    BY <2>3, LeavingAdvances DEF DeleteFails
  <2>. QED
    BY <1>9, <2>1, <2>2, <2>3
<1>10. ASSUME Crash
       PROVE  CallersAdvance /\ Loaded'
  <2>1. (\A a \in Cleaners : cl'[a].pc = "idle") /\ todo' = {}
    BY <1>10 DEF Crash, Idle
  <2>. QED
    BY <2>1 DEF CallersAdvance, Closer, Loaded
<1>11. CASE UNCHANGED vars
  BY <1>11, CallersUntouched DEF vars, cleaning
<1>. QED
  BY <1>2, <1>3, <1>4, <1>5, <1>6, <1>7, <1>8, <1>9, <1>10, <1>11 DEF Next, Cleans

\* Whoever waits to clean a classroom waits for joins that are under way, and
\* whoever deletes its guests has one to delete (classrooms.ts,
\* classroomJoinsSettled and cleanupClassroom).
THEOREM CleanersWaitForJoins == Spec => []WaitsEnd
<1>1. Init => Loaded
  BY DEF Init, Loaded, Idle
<1>2. IInv /\ Loaded /\ [Next]_vars => Loaded'
  BY CallersGoOn
<1>3. IInv /\ Loaded => WaitsEnd
  BY DEF WaitsEnd, Loaded, IInv, Registered, CleanerInv, JoinsOf
<1>. QED
  BY <1>1, <1>2, <1>3, Invariance, PTL DEF Spec

\* No join is added to those a cleaner waits for, and each step of a join or
\* of a cleaner brings it closer to its end: with the fairness of those steps,
\* why CleanersReturn holds.
THEOREM CleanersComeCloser == Spec => CleaningAdvances
<1>1. Init => Loaded
  BY DEF Init, Loaded, Idle
<1>2. IInv /\ Loaded /\ [Next]_vars => Loaded'
  BY CallersGoOn
<1>3. IInv /\ Loaded /\ [Next]_vars =>
        [/\ \A c \in Rooms : status[c] = "over" => JoinsOf(c)' \subseteq JoinsOf(c)
         /\ \A j \in inFlight : join'[j] = join[j] \/ Awaits(join'[j]) < Awaits(join[j])
         /\ \A a \in Cleaners : cl[a].pc # "idle" =>
              /\ cl'[a] = cl[a] \/ Closer(a)
              /\ a = "sweep" => todo' \subseteq todo]_vars
  BY JoinsGoOn, CallersGoOn DEF JoinsAdvance, CallersAdvance
<1>. QED
  BY <1>1, <1>2, <1>3, Invariance, PTL DEF Spec, CleaningAdvances
=============================================================================
