----------------------- MODULE WorkspaceRuntime_proofs -----------------------
(***************************************************************************)
(* Proofs about WorkspaceRuntime, for any workspaces, caps and bounds,     *)
(* with and without failing docker commands; and, while those work and the *)
(* cap is not changed, how far the cap is overshot.                        *)
(***************************************************************************)
EXTENDS WorkspaceRuntime, FiniteSetTheorems, SequenceTheorems, TLAPS

\* Where in its course an ensure holds a slot of pendingCreates.
SlotFits(pc, slot) ==
    /\ pc \in {"start", "reinspect", "prepare", "run", "verify"} => slot
    /\ pc \in {"none", "inspect", "queue", "count", "swap-rm", "settled", "done"}
          => ~slot

SlotPc(r) == SlotFits(r.pc, r.slot)

\* Who counts or swaps holds the admission lock.
HoldsLock(e) ==
    ens[e].pc \in {"count", "swap-rm"} => lockq # <<>> /\ Head(lockq) = e

\* What an ensure satisfies.
EnsureInv(e) ==
    /\ ens[e].pc = "none" <=> begun < e
    /\ ens[e].pc # "none" => ens[e].ws \in Workspaces
    /\ ens[e].pc = "none" => ens[e].ws = None
    /\ SlotPc(ens[e])
    /\ ens[e].epoch <= epoch
    /\ e \in overtaken => ens[e].pc # "none" /\ ens[e].epoch < epoch

OpInv(o) == ops[o].pc # "none" => ops[o].ws \in Workspaces

CacheInv(w) == cached[w] # None => ens[cached[w]].ws = w

IInv ==
    /\ TypeOK
    /\ SlotAccounting
    /\ NoStaleCache
    /\ NewestIsJoined
    /\ \A e \in Ensures : EnsureInv(e) /\ HoldsLock(e)
    /\ \A o \in Ops : OpInv(o)
    /\ \A w \in Workspaces : CacheInv(w)

USE RuntimeAssumption DEF Ensures, Ops, None

-----------------------------------------------------------------------------
(* The slots                                                               *)

SlotHolders == {e \in Ensures : ens[e].slot}

LEMMA FinitelyManyHolders ==
    IsFiniteSet(SlotHolders) /\ IsFiniteSet(SlotHolders')
<1>1. IsFiniteSet(Ensures)
  BY FS_Interval
<1>2. SlotHolders \subseteq Ensures /\ SlotHolders' \subseteq Ensures
  BY DEF SlotHolders
<1>. QED
  BY <1>1, <1>2, FS_Subset

\* A step that keeps, takes or gives back the slot of one ensure, and adjusts
\* pendingCreates alike, keeps the account.
LEMMA OneSlotChanges ==
    ASSUME TypeOK, SlotAccounting, NEW e \in Ensures, NEW r \in Ensure,
           ens' = [ens EXCEPT ![e] = r],
           \/ r.slot = ens[e].slot /\ pending' = pending
           \/ ~ens[e].slot /\ r.slot /\ pending' = pending + 1
           \/ ens[e].slot /\ ~r.slot /\ pending' = OneLess(pending)
    PROVE  SlotAccounting' /\ pending' \in Nat
<1>1. /\ pending = Cardinality(SlotHolders)
      /\ SlotAccounting' <=> pending' = Cardinality(SlotHolders')
  BY DEF SlotAccounting, SlotHolders
<1>2. \A f \in Ensures : f # e => ens'[f] = ens[f]
  BY DEF TypeOK
<1>3. ens'[e] = r /\ ens[e] \in Ensure /\ r.slot \in BOOLEAN /\ ens[e].slot \in BOOLEAN
  BY DEF TypeOK, Ensure
<1>4. CASE r.slot = ens[e].slot /\ pending' = pending
  <2>1. SlotHolders' = SlotHolders
    BY <1>2, <1>3, <1>4 DEF SlotHolders
  <2>. QED
    BY <1>1, <1>4, <2>1 DEF TypeOK
<1>5. CASE ~ens[e].slot /\ r.slot /\ pending' = pending + 1
  <2>1. SlotHolders' = SlotHolders \cup {e} /\ e \notin SlotHolders
    BY <1>2, <1>3, <1>5 DEF SlotHolders
  <2>2. Cardinality(SlotHolders') = Cardinality(SlotHolders) + 1
    BY <2>1, FinitelyManyHolders, FS_AddElement
  <2>. QED
    BY <1>1, <1>5, <2>2 DEF TypeOK
<1>6. CASE ens[e].slot /\ ~r.slot /\ pending' = OneLess(pending)
  <2>1. SlotHolders' = SlotHolders \ {e} /\ e \in SlotHolders
    BY <1>2, <1>3, <1>6 DEF SlotHolders
  <2>2. Cardinality(SlotHolders') = Cardinality(SlotHolders) - 1
    BY <2>1, FinitelyManyHolders, FS_RemoveElement
  <2>3. Cardinality(SlotHolders) # 0
    BY <2>1, FinitelyManyHolders, FS_EmptySet
  <2>4. OneLess(pending) = pending - 1
    BY <1>1, <2>3 DEF OneLess
  <2>. QED
    BY <1>1, <1>6, <2>2, <2>3, <2>4 DEF TypeOK
<1>. QED
  BY <1>4, <1>5, <1>6

-----------------------------------------------------------------------------
(* Steps of one ensure                                                     *)

\* The record of e becomes r: it goes on for the same workspace, and whether it
\* holds a slot fits where it is.
Moves(e, r) ==
    /\ InFlight(e)
    /\ r \in Ensure
    /\ r.pc \notin {"none", "done"}
    /\ r.ws = ens[e].ws /\ r.epoch = ens[e].epoch
    /\ SlotPc(r)
    /\ ens' = [ens EXCEPT ![e] = r]

LEMMA MoveInv ==
    ASSUME IInv, NEW e \in Ensures, NEW r, Moves(e, r),
           UNCHANGED <<world, control>>,
           docker' \in [Workspaces -> Containers],
           lease' \in [Workspaces -> {"none", "starting", "running", "stopped",
                                      "missing", "error"}],
           lockq' \in Seq(Ensures),
           \/ r.slot = ens[e].slot /\ pending' = pending
           \/ ~ens[e].slot /\ r.slot /\ pending' = pending + 1
           \/ ens[e].slot /\ ~r.slot /\ pending' = OneLess(pending),
           \A f \in Ensures : HoldsLock(f)'
    PROVE  IInv'
<1>1. SlotAccounting' /\ pending' \in Nat
  BY OneSlotChanges DEF IInv, Moves
<1>2. /\ ens' \in [Ensures -> Ensure]
      /\ ens'[e] = r
      /\ \A f \in Ensures : f # e => ens'[f] = ens[f]
      /\ \A f \in Ensures : ens'[f].ws = ens[f].ws /\ ens'[f].epoch = ens[f].epoch
  BY DEF IInv, TypeOK, Moves
<1>3. TypeOK'
  BY <1>1, <1>2 DEF IInv, TypeOK, world, control
<1>4. NoStaleCache'
  BY DEF IInv, NoStaleCache, control
<1>5. \A f \in Ensures : InFlight(f)' <=> InFlight(f)
  BY <1>2 DEF Moves, InFlight
<1>6. NewestIsJoined'
  BY SMTT(30), <1>2, <1>5 DEF IInv, NewestIsJoined, control
<1>7. \A f \in Ensures : EnsureInv(f)'
  <2> TAKE f \in Ensures
  <2>1. EnsureInv(f) /\ begun' = begun /\ epoch' = epoch /\ overtaken' = overtaken
    BY DEF IInv, world, control
  <2>2. CASE f = e
    BY <1>2, <2>1, <2>2 DEF EnsureInv, Moves, InFlight
  <2>3. CASE f # e
    BY <1>2, <2>1, <2>3 DEF EnsureInv
  <2>. QED
    BY <2>2, <2>3
<1>8. \A o \in Ops : OpInv(o)'
  BY DEF IInv, OpInv, world
<1>9. \A w \in Workspaces : CacheInv(w)'
  <2>1. \A w \in Workspaces : cached[w] \in Ensures \cup {None}
    BY DEF IInv, TypeOK
  <2>. QED
    BY <1>2, <2>1 DEF IInv, CacheInv, control
<1>. QED
  BY <1>1, <1>3, <1>4, <1>6, <1>7, <1>8, <1>9 DEF IInv

Pcs == {"none", "inspect", "adopt-rm", "queue", "count", "swap-rm", "start",
        "reinspect", "prepare", "run", "verify", "settled", "done"}

\* Waiting for docker or the lock with record r is a move, and so is settling.
LEMMA CallsMoves ==
    ASSUME IInv, NEW e \in Ensures, InFlight(e), NEW r \in Ensure,
           r.ws = ens[e].ws, r.epoch = ens[e].epoch,
           NEW pc \in Pcs \ {"none", "done", "settled"}, SlotFits(pc, r.slot),
           Calls(e, r, pc)
    PROVE  \E q : Moves(e, q) /\ q.slot = r.slot /\ q.pc = pc
<1> DEFINE q == [Consumed(r) EXCEPT !.pc = pc]
<1>1. /\ q \in Ensure /\ q.pc = pc /\ q.ws = r.ws /\ q.epoch = r.epoch
      /\ q.slot = r.slot
  <2> DEFINE c == Consumed(r)
  <2>1. Missing \in Containers
    BY DEF Missing, Containers
  <2>2. c \in Ensure /\ c.ws = r.ws /\ c.epoch = r.epoch /\ c.slot = r.slot
    BY <2>1 DEF Consumed, Ensure
  <2> HIDE DEF c
  <2>3. q = [c EXCEPT !.pc = pc]
    BY DEF c
  <2> HIDE DEF q
  <2>4. q \in Ensure
    BY <2>2, <2>3 DEF Ensure, Pcs
  <2>. QED
    BY <2>2, <2>3, <2>4 DEF Ensure
<1>2. SlotPc(q)
  BY <1>1 DEF SlotPc, SlotFits, Ensure, Pcs
<1>3. ens' = [ens EXCEPT ![e] = q]
  BY DEF Calls
<1> HIDE DEF q
<1>4. Moves(e, q)
  BY <1>1, <1>2, <1>3 DEF Moves, Pcs
<1>. QED
  BY <1>1, <1>4

LEMMA SettlesMoves ==
    ASSUME IInv, NEW e \in Ensures, InFlight(e), NEW r \in Ensure,
           r.ws = ens[e].ws, r.epoch = ens[e].epoch, ~r.slot,
           NEW res \in {"running", "stopped", "starting", "error", "full"},
           Settles(e, r, res)
    PROVE  \E q : Moves(e, q) /\ ~q.slot /\ q.pc = "settled"
<1> DEFINE q == [NewEnsure(r.ws) EXCEPT
                    !.pc = "settled", !.epoch = r.epoch, !.slot = r.slot, !.result = res]
<1>1. /\ q \in Ensure /\ q.pc = "settled" /\ q.ws = r.ws /\ q.epoch = r.epoch
      /\ q.slot = r.slot
  <2>1. NewEnsure(r.ws) \in Ensure /\ NewEnsure(r.ws).ws = r.ws
    BY DEF NewEnsure, Ensure, Containers, Missing, IInv, TypeOK
  <2> DEFINE n == NewEnsure(r.ws)
  <2>2. r.epoch \in Nat /\ r.slot \in BOOLEAN
    BY DEF Ensure
  <2> HIDE DEF n
  <2>3. n \in Ensure /\ n.ws = r.ws
    BY <2>1 DEF n
  <2>4. q = [n EXCEPT !.pc = "settled", !.epoch = r.epoch, !.slot = r.slot,
                      !.result = res]
    BY DEF n
  <2> HIDE DEF q
  <2>5. q \in Ensure
    BY ZenonT(60), <2>2, <2>3, <2>4 DEF Ensure
  <2>. QED
    BY <2>3, <2>4, <2>5 DEF Ensure
<1>2. SlotPc(q)
  BY <1>1 DEF SlotPc, SlotFits
<1>3. ens' = [ens EXCEPT ![e] = q]
  BY DEF Settles
<1> HIDE DEF q
<1>4. Moves(e, q)
  BY <1>1, <1>2, <1>3 DEF Moves
<1>. QED
  BY <1>1, <1>4

\* The daemon's part of a call: only what the call returns changes.
LEMMA DaemonMoves ==
    ASSUME IInv, NEW e \in Ensures, InFlight(e), ens[e].pc # "settled",
           NEW q \in Ensure, q.pc = ens[e].pc, q.ws = ens[e].ws,
           q.epoch = ens[e].epoch, q.slot = ens[e].slot,
           Returns(e, q),
           docker' \in [Workspaces -> Containers],
           UNCHANGED <<lease, world, control, pending, lockq>>
    PROVE  IInv'
<1> DEFINE r == [q EXCEPT !.did = TRUE]
<1>1. ens[e] \in Ensure /\ SlotPc(ens[e])
  BY DEF IInv, TypeOK, EnsureInv
<1>2. /\ r \in Ensure /\ r.pc = ens[e].pc /\ r.ws = ens[e].ws
      /\ r.epoch = ens[e].epoch /\ r.slot = ens[e].slot
  BY <1>1 DEF Ensure
<1>3. ens' = [ens EXCEPT ![e] = r]
  BY DEF Returns
<1> HIDE DEF r
<1>4. Moves(e, r)
  BY <1>1, <1>2, <1>3 DEF Moves, InFlight, SlotPc, SlotFits
<1>5. \A f \in Ensures : HoldsLock(f)'
  BY <1>2, <1>3 DEF IInv, TypeOK, HoldsLock
<1>. QED
  BY <1>2, <1>4, <1>5, MoveInv DEF IInv, TypeOK

-----------------------------------------------------------------------------
(* One lemma per kind of action                                            *)

LEMMA RunningIsFinite == IsFiniteSet(Running)
BY FS_Subset DEF Running, RuntimeAssumption

LEMMA DaemonInv ==
    ASSUME IInv, NEW e \in Ensures, DaemonStep(e)
    PROVE  IInv'
<1>1. InFlight(e) /\ ens[e].pc # "settled" /\ ens[e].ws \in Workspaces
  BY DEF DaemonStep, DaemonInspects, DaemonRemoves, DaemonCounts, DaemonStarts,
         DaemonRuns, InFlight, IInv, EnsureInv
<1>2. /\ ens[e] \in Ensure
      /\ docker \in [Workspaces -> Containers] /\ docker[ens[e].ws] \in Containers
  BY <1>1 DEF IInv, TypeOK
<1>3. Missing \in Containers
  BY DEF Missing, Containers
<1>4. \A q : q \in Ensure /\ q.pc = ens[e].pc /\ q.ws = ens[e].ws
             /\ q.epoch = ens[e].epoch /\ q.slot = ens[e].slot
             /\ Returns(e, q)
             /\ docker' \in [Workspaces -> Containers]
             /\ UNCHANGED <<lease, world, control, pending, lockq>> => IInv'
  BY <1>1, DaemonMoves
<1>5. CASE DaemonInspects(e)
  <2>1. PICK c \in Seen(ens[e].ws) : Returns(e, [ens[e] EXCEPT !.saw = c])
    BY <1>5 DEF DaemonInspects
  <2>2. c \in Containers
    BY <1>2, <1>3, <2>1 DEF Seen
  <2>3. docker' = docker /\ UNCHANGED <<lease, world, control, pending, lockq>>
    BY <1>5 DEF DaemonInspects
  <2> DEFINE q == [ens[e] EXCEPT !.saw = c]
  <2>4. /\ q \in Ensure /\ q.pc = ens[e].pc /\ q.ws = ens[e].ws
        /\ q.epoch = ens[e].epoch /\ q.slot = ens[e].slot
    BY <1>2, <2>2 DEF Ensure
  <2>. QED
    BY <1>2, <1>4, <2>1, <2>3, <2>4
<1>6. CASE DaemonRemoves(e)
  <2>1. docker' \in [Workspaces -> Containers]
    BY <1>2, <1>3, <1>6 DEF DaemonRemoves, OrNot
  <2>. QED
    BY <1>2, <1>4, <1>6, <2>1 DEF DaemonRemoves
<1>7. CASE DaemonCounts(e)
  <2>1. PICK n \in {Cardinality(Running)} \cup (IF Flaky THEN {0} ELSE {}) :
            Returns(e, [ens[e] EXCEPT !.n = n])
    BY <1>7 DEF DaemonCounts
  <2>2. n \in Nat
    BY <2>1, FS_CardinalityType, RunningIsFinite
  <2>3. docker' = docker /\ UNCHANGED <<lease, world, control, pending, lockq>>
    BY <1>7 DEF DaemonCounts
  <2> DEFINE q == [ens[e] EXCEPT !.n = n]
  <2>4. /\ q \in Ensure /\ q.pc = ens[e].pc /\ q.ws = ens[e].ws
        /\ q.epoch = ens[e].epoch /\ q.slot = ens[e].slot
    BY <1>2, <2>2 DEF Ensure
  <2>. QED
    BY <1>2, <1>4, <2>1, <2>3, <2>4
<1>8. ASSUME NEW x \in {"ok", "error", "bind"},
             Returns(e, [ens[e] EXCEPT !.exit = x]),
             docker' \in [Workspaces -> Containers],
             UNCHANGED <<lease, world, control, pending, lockq>>
      PROVE  IInv'
  <2> DEFINE q == [ens[e] EXCEPT !.exit = x]
  <2>1. /\ q \in Ensure /\ q.pc = ens[e].pc /\ q.ws = ens[e].ws
        /\ q.epoch = ens[e].epoch /\ q.slot = ens[e].slot
    BY <1>2 DEF Ensure
  <2>. QED
    BY <1>4, <1>8, <2>1
<1>9. CASE DaemonStarts(e)
  <2>1. docker' \in [Workspaces -> Containers]
    BY <1>2, <1>9 DEF DaemonStarts, Containers
  <2>2. \E x \in {"ok", "error", "bind"} : Returns(e, [ens[e] EXCEPT !.exit = x])
    BY <1>9 DEF DaemonStarts
  <2>. QED
    BY <1>8, <1>9, <2>1, <2>2 DEF DaemonStarts
<1>10. CASE DaemonRuns(e)
  <2>1. docker' \in [Workspaces -> Containers]
    BY <1>2, <1>10 DEF DaemonRuns, Containers
  <2>2. \E x \in {"ok", "error", "bind"} : Returns(e, [ens[e] EXCEPT !.exit = x])
    BY <1>10 DEF DaemonRuns
  <2>. QED
    BY <1>8, <1>10, <2>1, <2>2 DEF DaemonRuns
<1>. QED
  BY <1>5, <1>6, <1>7, <1>9, <1>10 DEF DaemonStep

\* What a step of e does to the slots and to the lock, when q is its new record.
SlotChange(e, q) ==
    \/ q.slot = ens[e].slot /\ pending' = pending
    \/ ~ens[e].slot /\ q.slot /\ pending' = pending + 1
    \/ ens[e].slot /\ ~q.slot /\ pending' = OneLess(pending)

LockChange(e, pc) ==
    \/ pc \notin {"count", "swap-rm"} /\ lockq' = lockq
    \/ pc = "queue" /\ lockq' = Append(lockq, e)
    \/ /\ pc \notin {"count", "swap-rm"} /\ ens[e].pc \in {"count", "swap-rm"}
       /\ lockq' = Tail(lockq)
    \/ lockq # <<>> /\ Head(lockq) = e /\ lockq' = lockq

LEMMA LockKept ==
    ASSUME IInv, NEW e \in Ensures, NEW q, Moves(e, q), LockChange(e, q.pc)
    PROVE  lockq' \in Seq(Ensures) /\ \A f \in Ensures : HoldsLock(f)'
<1>1. /\ lockq \in Seq(Ensures) /\ ens \in [Ensures -> Ensure]
      /\ \A f \in Ensures : HoldsLock(f)
  BY DEF IInv, TypeOK
<1>2. /\ ens'[e] = q
      /\ \A f \in Ensures : f # e => ens'[f] = ens[f]
  BY <1>1 DEF Moves
<1>3. CASE q.pc \notin {"count", "swap-rm"} /\ lockq' = lockq
  BY <1>1, <1>2, <1>3 DEF HoldsLock
<1>4. CASE q.pc = "queue" /\ lockq' = Append(lockq, e)
  <2>1. lockq' \in Seq(Ensures) /\ lockq' # <<>>
    BY <1>1, <1>4
  <2>2. lockq # <<>> => Head(lockq') = Head(lockq)
    BY <1>1, <1>4, HeadTailAppend
  <2>. QED
    BY <1>1, <1>2, <1>4, <2>1, <2>2 DEF HoldsLock
<1>5. CASE /\ q.pc \notin {"count", "swap-rm"} /\ ens[e].pc \in {"count", "swap-rm"}
           /\ lockq' = Tail(lockq)
  <2>1. \A f \in Ensures : ens'[f].pc \notin {"count", "swap-rm"}
    BY <1>1, <1>2, <1>5 DEF HoldsLock
  <2>2. lockq' \in Seq(Ensures)
    BY <1>1, <1>5 DEF HoldsLock
  <2>. QED
    BY <2>1, <2>2 DEF HoldsLock
<1>6. CASE lockq # <<>> /\ Head(lockq) = e /\ lockq' = lockq
  BY <1>1, <1>2, <1>6 DEF HoldsLock
<1>. QED
  BY <1>3, <1>4, <1>5, <1>6 DEF LockChange

LEMMA CallInv ==
    ASSUME IInv, NEW e \in Ensures, InFlight(e), NEW r \in Ensure,
           r.ws = ens[e].ws, r.epoch = ens[e].epoch,
           NEW pc \in Pcs \ {"none", "done", "settled"}, SlotFits(pc, r.slot),
           Calls(e, r, pc), SlotChange(e, r), LockChange(e, pc),
           UNCHANGED <<docker, world, control>>,
           lease' \in [Workspaces -> {"none", "starting", "running", "stopped",
                                      "missing", "error"}]
    PROVE  IInv'
<1>1. PICK q : Moves(e, q) /\ q.slot = r.slot /\ q.pc = pc
  BY CallsMoves
<1>2. SlotChange(e, q) /\ LockChange(e, q.pc)
  BY <1>1 DEF SlotChange
<1>3. docker' \in [Workspaces -> Containers]
  BY DEF IInv, TypeOK
<1>. QED
  BY <1>1, <1>2, <1>3, LockKept, MoveInv DEF SlotChange

LEMMA SettleInv ==
    ASSUME IInv, NEW e \in Ensures, InFlight(e), NEW r \in Ensure,
           r.ws = ens[e].ws, r.epoch = ens[e].epoch, ~r.slot,
           NEW res \in {"running", "stopped", "starting", "error", "full"},
           Settles(e, r, res), SlotChange(e, r), LockChange(e, "settled"),
           UNCHANGED <<docker, world, control>>,
           lease' \in [Workspaces -> {"none", "starting", "running", "stopped",
                                      "missing", "error"}]
    PROVE  IInv'
<1>1. PICK q : Moves(e, q) /\ ~q.slot /\ q.pc = "settled"
  BY SettlesMoves
<1>2. q.slot = r.slot
  BY <1>1 DEF Moves, Ensure
<1>3. SlotChange(e, q) /\ LockChange(e, q.pc)
  BY <1>1, <1>2 DEF SlotChange
<1>4. docker' \in [Workspaces -> Containers]
  BY DEF IInv, TypeOK
<1>. QED
  BY <1>1, <1>3, <1>4, LockKept, MoveInv DEF SlotChange

LEMMA RecordFacts ==
    ASSUME NEW r \in Ensure
    PROVE  /\ r.slot \in BOOLEAN /\ r.pc \in Pcs /\ r.saw \in Containers
           /\ \A s \in BOOLEAN : \A h \in BOOLEAN :
                LET q == [r EXCEPT !.slot = s, !.handed = h]
                IN q \in Ensure /\ q.ws = r.ws /\ q.epoch = r.epoch /\ q.slot = s
           /\ Slotted(r) \in Ensure /\ Slotted(r).slot
           /\ Slotted(r).ws = r.ws /\ Slotted(r).epoch = r.epoch
           /\ Unslotted(r) \in Ensure /\ ~Unslotted(r).slot
           /\ Unslotted(r).ws = r.ws /\ Unslotted(r).epoch = r.epoch
BY ZenonT(60) DEF Ensure, Pcs, Slotted, Unslotted

\* The facts every step of an ensure that is under way starts from.
LEMMA UnderWay ==
    ASSUME IInv, NEW e \in Ensures, ens[e].pc \notin {"none", "done"}
    PROVE  /\ InFlight(e) /\ ens[e] \in Ensure /\ ens[e].ws \in Workspaces
           /\ SlotFits(ens[e].pc, ens[e].slot)
           /\ ens[e].saw \in Containers /\ ens[e].slot \in BOOLEAN
           /\ \A st \in {"starting", "running", "stopped", "error"} :
                [lease EXCEPT ![ens[e].ws] = st] \in
                   [Workspaces -> {"none", "starting", "running", "stopped",
                                   "missing", "error"}]
           /\ lease \in [Workspaces -> {"none", "starting", "running", "stopped",
                                        "missing", "error"}]
<1>1. ens[e] \in Ensure /\ InFlight(e) /\ EnsureInv(e)
  BY DEF IInv, TypeOK, InFlight
<1>2. lease \in [Workspaces -> {"none", "starting", "running", "stopped",
                                "missing", "error"}]
  BY DEF IInv, TypeOK
<1>. QED
  BY <1>1, <1>2, RecordFacts DEF EnsureInv, SlotPc

LEMMA AdoptsInv ==
    ASSUME IInv, NEW e \in Ensures, Adopts(e)
    PROVE  IInv'
<1> DEFINE r == ens[e]
           c == r.saw
<1>1. r.pc = "inspect" /\ r.pc \notin {"none", "done"}
  BY DEF Adopts
<1>2. ~r.slot /\ r \in Ensure /\ InFlight(e) /\ c \in Containers
  BY <1>1, UnderWay DEF SlotFits
<1>3. UNCHANGED <<docker, world, control>> /\ pending' = pending
  BY DEF Adopts
<1>4. ASSUME NEW why \in {"create", "start", "swap"}, Queues(e, r, why), lease' = lease
      PROVE  IInv'
  <2> DEFINE q == [r EXCEPT !.why = why]
  <2>1. /\ q \in Ensure /\ q.ws = r.ws /\ q.epoch = r.epoch /\ q.slot = r.slot
    BY <1>2 DEF Ensure
  <2>2. Calls(e, q, "queue") /\ lockq' = Append(lockq, e)
    BY <1>4 DEF Queues
  <2> HIDE DEF q
  <2>. QED
    BY <1>1, <1>2, <1>3, <1>4, <2>1, <2>2, CallInv, UnderWay
       DEF SlotFits, SlotChange, LockChange, Pcs
<1>5. CASE Calls(e, r, "adopt-rm") /\ UNCHANGED <<lease, lockq>>
  BY <1>1, <1>2, <1>3, <1>5, CallInv, UnderWay DEF SlotFits, SlotChange, LockChange, Pcs
<1>6. CASE Leases(r.ws, "running") /\ Settles(e, r, "running") /\ lockq' = lockq
  BY <1>1, <1>2, <1>3, <1>6, SettleInv, UnderWay DEF SlotChange, LockChange, Leases
<1>. QED
  BY <1>4, <1>5, <1>6, Zenon DEF Adopts

LEMMA AdoptRemovedInv ==
    ASSUME IInv, NEW e \in Ensures, AdoptRemoved(e)
    PROVE  IInv'
<1> DEFINE r == ens[e]
           q == [Unslotted(r) EXCEPT !.why = "create"]
<1>1. r.pc = "adopt-rm" /\ r.pc \notin {"none", "done"}
  BY DEF AdoptRemoved
<1>2. r \in Ensure /\ InFlight(e) /\ r.slot \in BOOLEAN
  BY <1>1, UnderWay
<1>3. q \in Ensure /\ q.ws = r.ws /\ q.epoch = r.epoch /\ ~q.slot
  BY <1>2 DEF Unslotted, Ensure
<1>4. /\ Calls(e, q, "queue") /\ lockq' = Append(lockq, e)
      /\ pending' = IF r.slot THEN OneLess(pending) ELSE pending
      /\ UNCHANGED <<docker, lease, world, control>>
  BY DEF AdoptRemoved, Queues
<1>5. q.slot \in BOOLEAN
  BY <1>3 DEF Ensure
<1> HIDE DEF q
<1>6. SlotChange(e, q)
  BY <1>2, <1>3, <1>4, <1>5 DEF SlotChange
<1>. QED
  BY <1>1, <1>2, <1>3, <1>4, <1>6, CallInv, UnderWay DEF SlotFits, LockChange, Pcs

LEMMA AdmittedInv ==
    ASSUME IInv, NEW e \in Ensures, Admitted(e)
    PROVE  IInv'
<1> DEFINE r == ens[e]
           q == [r EXCEPT !.limit = cap]
<1>1. r.pc = "queue" /\ r.pc \notin {"none", "done"}
  BY DEF Admitted
<1>2. ~r.slot /\ r \in Ensure /\ InFlight(e)
  BY <1>1, UnderWay DEF SlotFits
<1>3. q \in Ensure /\ q.ws = r.ws /\ q.epoch = r.epoch /\ q.slot = r.slot
  BY <1>2 DEF Ensure, IInv, TypeOK
<1>4. /\ Calls(e, r, "swap-rm") \/ Calls(e, q, "count")
      /\ lockq # <<>> /\ Head(lockq) = e /\ lockq' = lockq
      /\ UNCHANGED <<docker, lease, world, control, pending>>
  BY DEF Admitted
<1> HIDE DEF q
<1>5. CASE Calls(e, r, "swap-rm")
  BY <1>1, <1>2, <1>4, <1>5, CallInv, UnderWay DEF SlotFits, SlotChange, LockChange, Pcs
<1>6. CASE Calls(e, q, "count")
  BY <1>1, <1>2, <1>3, <1>4, <1>6, CallInv, UnderWay
     DEF SlotFits, SlotChange, LockChange, Pcs
<1>. QED
  BY <1>4, <1>5, <1>6

LEMMA CheckedInv ==
    ASSUME IInv, NEW e \in Ensures, Checked(e)
    PROVE  IInv'
<1> DEFINE r == ens[e]
           q == [Slotted(r) EXCEPT !.limit = 0]
           pc == IF r.why = "start" THEN "start" ELSE "prepare"
<1>1. r.pc = "count" /\ r.pc \notin {"none", "done"}
  BY DEF Checked
<1>2. ~r.slot /\ r \in Ensure /\ InFlight(e)
  BY <1>1, UnderWay DEF SlotFits
<1>3. q \in Ensure /\ q.ws = r.ws /\ q.epoch = r.epoch /\ q.slot
  BY <1>2 DEF Slotted, Ensure
<1>4. lockq' = Tail(lockq) /\ UNCHANGED <<docker, lease, world, control>>
  BY DEF Checked
<1>5. CASE Settles(e, r, "full") /\ pending' = pending
  BY <1>1, <1>2, <1>4, <1>5, SettleInv, UnderWay DEF SlotChange, LockChange
<1>6. CASE Calls(e, q, pc) /\ pending' = pending + 1
  <2>1. pc \in {"start", "prepare"}
    OBVIOUS
  <2> HIDE DEF q, pc
  <2>. QED
    BY <1>1, <1>2, <1>3, <1>4, <1>6, <2>1, CallInv, UnderWay
       DEF SlotFits, SlotChange, LockChange, Pcs
<1>. QED
  BY <1>5, <1>6 DEF Checked

LEMMA SwappedInv ==
    ASSUME IInv, NEW e \in Ensures, Swapped(e)
    PROVE  IInv'
<1> DEFINE r == ens[e]
           q == [Slotted(r) EXCEPT !.handed = TRUE]
<1>1. r.pc = "swap-rm" /\ r.pc \notin {"none", "done"}
  BY DEF Swapped
<1>2. ~r.slot /\ r \in Ensure /\ InFlight(e)
  BY <1>1, UnderWay DEF SlotFits
<1>3. q \in Ensure /\ q.ws = r.ws /\ q.epoch = r.epoch /\ q.slot
  BY <1>2 DEF Slotted, Ensure
<1>4. /\ Calls(e, q, "prepare") /\ pending' = pending + 1
      /\ lockq' = Tail(lockq) /\ UNCHANGED <<docker, lease, world, control>>
  BY DEF Swapped
<1> HIDE DEF q
<1>. QED
  BY <1>1, <1>2, <1>3, <1>4, CallInv, UnderWay DEF SlotFits, SlotChange, LockChange, Pcs

LEMMA StartedInv ==
    ASSUME IInv, NEW e \in Ensures, Started(e)
    PROVE  IInv'
<1> DEFINE pc == IF ens[e].exit = "ok" THEN "reinspect" ELSE "adopt-rm"
<1>1. ens[e].pc = "start" /\ ens[e].pc \notin {"none", "done"}
  BY DEF Started
<1>2. ens[e].slot /\ ens[e] \in Ensure /\ InFlight(e)
  BY <1>1, UnderWay DEF SlotFits
<1>3. /\ Calls(e, ens[e], pc) /\ pc \in {"reinspect", "adopt-rm"}
      /\ UNCHANGED <<docker, lease, world, control, pending, lockq>>
  BY DEF Started
<1> HIDE DEF pc
<1>. QED
  BY <1>1, <1>2, <1>3, CallInv, UnderWay DEF SlotFits, SlotChange, LockChange, Pcs

\* The end of a start or a create, with its slot given back.
LEMMA GivesBackInv ==
    ASSUME IInv, NEW e \in Ensures, ens[e].pc \in {"reinspect", "prepare", "run", "verify"},
           NEW st \in {"starting", "running", "stopped", "error"},
           Leases(ens[e].ws, st), Settles(e, Unslotted(ens[e]), st),
           pending' = OneLess(pending), UNCHANGED <<docker, world, control, lockq>>
    PROVE  IInv'
<1>1. ens[e].pc \notin {"none", "done"}
  OBVIOUS
<1>2. ens[e].slot /\ ens[e] \in Ensure /\ InFlight(e)
  BY <1>1, UnderWay DEF SlotFits
<1>3. LET q == Unslotted(ens[e])
      IN q \in Ensure /\ ~q.slot /\ q.ws = ens[e].ws /\ q.epoch = ens[e].epoch
  BY <1>2, RecordFacts
<1>4. SlotChange(e, Unslotted(ens[e])) /\ LockChange(e, "settled")
  BY <1>2, <1>3 DEF SlotChange, LockChange
<1>. QED
  BY <1>1, <1>2, <1>3, <1>4, SettleInv, UnderWay DEF Leases

LEMMA ReinspectedInv ==
    ASSUME IInv, NEW e \in Ensures, Reinspected(e)
    PROVE  IInv'
<1>1. ens[e].pc = "reinspect" /\ ens[e].pc \notin {"none", "done"}
  BY DEF Reinspected
<1>2. ens[e].slot /\ ens[e] \in Ensure /\ InFlight(e) /\ ens[e].saw \in Containers
  BY <1>1, UnderWay DEF SlotFits
<1>3. UNCHANGED <<docker, world, control, lockq>>
  BY DEF Reinspected
<1>4. CASE ens[e].saw.state = "missing" \/ ens[e].saw.fit = "foreign"
  <2>1. Calls(e, ens[e], "adopt-rm") /\ UNCHANGED <<lease, pending>>
    BY <1>4 DEF Reinspected
  <2>. QED
    BY <1>1, <1>2, <1>3, <2>1, CallInv, UnderWay DEF SlotFits, SlotChange, LockChange, Pcs
<1>5. CASE ~(ens[e].saw.state = "missing" \/ ens[e].saw.fit = "foreign")
  <2>1. ens[e].saw.state \in {"running", "stopped"}
    BY <1>2, <1>5 DEF Containers
  <2>2. /\ Leases(ens[e].ws, ens[e].saw.state)
        /\ Settles(e, Unslotted(ens[e]), ens[e].saw.state)
        /\ pending' = OneLess(pending)
    BY <1>5 DEF Reinspected
  <2>. QED
    BY <1>1, <1>3, <2>1, <2>2, GivesBackInv
<1>. QED
  BY <1>4, <1>5

LEMMA PreparesInv ==
    ASSUME IInv, NEW e \in Ensures, Prepares(e)
    PROVE  IInv'
<1>1. /\ ens[e].pc = "prepare" /\ ens[e].pc \notin {"none", "done"}
      /\ UNCHANGED <<docker, world, control, lockq>>
  BY DEF Prepares
<1>2. CASE Leases(ens[e].ws, "starting") /\ Calls(e, ens[e], "run") /\ pending' = pending
  BY <1>1, <1>2, CallInv, UnderWay DEF SlotFits, SlotChange, LockChange, Pcs, Leases
<1>3. CASE Fails(e)
  BY <1>1, <1>3, GivesBackInv DEF Fails
<1>. QED
  BY <1>2, <1>3 DEF Prepares

LEMMA RanInv ==
    ASSUME IInv, NEW e \in Ensures, Ran(e)
    PROVE  IInv'
<1>1. /\ ens[e].pc = "run" /\ ens[e].pc \notin {"none", "done"}
      /\ UNCHANGED <<docker, world, control, lockq>>
  BY DEF Ran
<1>2. ens[e].slot /\ ens[e] \in Ensure /\ InFlight(e)
  BY <1>1, UnderWay DEF SlotFits
<1>3. CASE Calls(e, ens[e], "verify") /\ UNCHANGED <<lease, pending>>
  BY <1>1, <1>2, <1>3, CallInv, UnderWay DEF SlotFits, SlotChange, LockChange, Pcs
<1>4. CASE /\ ens[e].tries < MaxTries /\ Leases(ens[e].ws, "error")
           /\ Calls(e, [ens[e] EXCEPT !.tries = @ + 1], "prepare") /\ pending' = pending
  <2> DEFINE q == [ens[e] EXCEPT !.tries = @ + 1]
  <2>0. ens[e].tries + 1 \in 0 .. MaxTries
    BY <1>2, <1>4 DEF Ensure, RuntimeAssumption
  <2>1. q \in Ensure /\ q.ws = ens[e].ws /\ q.epoch = ens[e].epoch /\ q.slot = ens[e].slot
    BY <1>2, <2>0 DEF Ensure
  <2>2. Calls(e, q, "prepare")
    BY <1>4
  <2> HIDE DEF q
  <2>. QED
    BY <1>1, <1>2, <1>4, <2>1, <2>2, CallInv, UnderWay
       DEF SlotFits, SlotChange, LockChange, Pcs, Leases
<1>5. CASE Fails(e)
  BY <1>1, <1>5, GivesBackInv DEF Fails
<1>. QED
  BY <1>3, <1>4, <1>5 DEF Ran

LEMMA VerifiedInv ==
    ASSUME IInv, NEW e \in Ensures, Verified(e)
    PROVE  IInv'
<1> DEFINE st == IF ens[e].saw.state = "missing" THEN "starting" ELSE ens[e].saw.state
<1>1. ens[e].pc = "verify" /\ ens[e].saw \in Containers
  BY UnderWay DEF Verified
<1>2. st \in {"starting", "running", "stopped"}
  BY <1>1 DEF Containers
<1>3. /\ Leases(ens[e].ws, st) /\ Settles(e, Unslotted(ens[e]), st)
      /\ pending' = OneLess(pending) /\ UNCHANGED <<docker, world, control, lockq>>
  BY DEF Verified
<1> HIDE DEF st
<1>. QED
  BY <1>1, <1>2, <1>3, GivesBackInv

\* The end of an ensure: its result is cached only if nothing stopped or removed
\* a container since it began, and only its own entry of activeEnsures goes.
LEMMA EnsureEndsInv ==
    ASSUME IInv, NEW e \in Ensures, EnsureEnds(e)
    PROVE  IInv'
<1> DEFINE w == ens[e].ws
<1>1. /\ ens[e].pc = "settled" /\ ens[e] \in Ensure /\ EnsureInv(e)
      /\ w \in Workspaces /\ ~ens[e].slot
  BY DEF EnsureEnds, IInv, TypeOK, EnsureInv, SlotPc, SlotFits
<1> DEFINE r == [ens[e] EXCEPT !.pc = "done"]
<1>2. /\ r \in Ensure /\ r.pc = "done" /\ r.slot = ens[e].slot
      /\ r.ws = w /\ r.epoch = ens[e].epoch
  BY <1>1 DEF Ensure
<1>3. ens' = [ens EXCEPT ![e] = r]
  BY DEF EnsureEnds, IInv, TypeOK, Ensure
<1>4. /\ cached' = IF ens[e].result = "running" /\ ens[e].epoch = epoch
                   THEN [cached EXCEPT ![w] = e] ELSE cached
      /\ active' = IF active[w] = e THEN [active EXCEPT ![w] = None] ELSE active
      /\ UNCHANGED <<docker, lease, world, epoch, overtaken, pending, lockq>>
  BY DEF EnsureEnds
<1> HIDE DEF r
<1>5. /\ ens' \in [Ensures -> Ensure] /\ ens'[e] = r
      /\ \A f \in Ensures : f # e => ens'[f] = ens[f]
      /\ \A f \in Ensures : ens'[f].ws = ens[f].ws /\ ens'[f].epoch = ens[f].epoch
  BY <1>2, <1>3 DEF IInv, TypeOK
<1>6. SlotAccounting'
  BY <1>2, <1>3, <1>4, OneSlotChanges DEF IInv
<1>7. TypeOK'
  BY <1>1, <1>4, <1>5 DEF IInv, TypeOK, world
<1>8. NoStaleCache'
  BY <1>1, <1>4 DEF IInv, TypeOK, NoStaleCache, EnsureInv
<1>9. NewestIsJoined'
  BY <1>1, <1>2, <1>4, <1>5 DEF IInv, TypeOK, NewestIsJoined, InFlight
<1>10. \A f \in Ensures : EnsureInv(f)' /\ HoldsLock(f)'
  <2> TAKE f \in Ensures
  <2>1. EnsureInv(f) /\ HoldsLock(f)
    BY DEF IInv
  <2>2. CASE f = e
    BY <1>1, <1>2, <1>4, <1>5, <2>2 DEF EnsureInv, SlotPc, SlotFits, HoldsLock, world
  <2>3. CASE f # e
    BY <1>4, <1>5, <2>1, <2>3 DEF EnsureInv, SlotPc, HoldsLock, world
  <2>. QED
    BY <2>2, <2>3
<1>11. \A o \in Ops : OpInv(o)'
  BY <1>4 DEF IInv, OpInv, world
<1>12. \A v \in Workspaces : CacheInv(v)'
  BY <1>1, <1>4, <1>5 DEF IInv, TypeOK, CacheInv
<1>. QED
  BY <1>6, <1>7, <1>8, <1>9, <1>10, <1>11, <1>12 DEF IInv

\* The cache, its epoch and the overtaken ensures: untouched, or invalidated by a
\* stop or remove of w.
Untouched == UNCHANGED <<cached, epoch, overtaken>>
Invalidated(w) ==
    /\ cached' = [cached EXCEPT ![w] = None]
    /\ epoch' = epoch + 1
    /\ overtaken' = overtaken \cup {e \in Ensures : ens[e].ws = w}

\* A new ensure of w is the newest of its workspace, and none of those that a
\* stop has overtaken.
LEMMA UpdatedAt ==
    ASSUME NEW S, NEW T, NEW f \in [S -> T], NEW x \in S, NEW y \in T,
           NEW g, g = [f EXCEPT ![x] = y]
    PROVE  g \in [S -> T] /\ g[x] = y /\ \A z \in S : z # x => g[z] = f[z]
OBVIOUS

LEMMA NewEnsureType ==
    ASSUME NEW w \in Workspaces, NEW n \in Nat, epoch \in Nat
    PROVE  LET r == [NewEnsure(w) EXCEPT !.epoch = n]
           IN /\ NewEnsure(w) \in Ensure /\ NewEnsure(w).epoch = epoch
              /\ r \in Ensure /\ r.ws = w /\ r.pc = "inspect" /\ ~r.slot /\ r.epoch = n
<1> DEFINE m == NewEnsure(w)
<1>1. 0 \in 0 .. MaxTries /\ Missing \in Containers
  BY DEF RuntimeAssumption, Missing, Containers
<1>2. m \in Ensure /\ m.ws = w /\ m.pc = "inspect" /\ ~m.slot /\ m.epoch = epoch
  BY <1>1 DEF NewEnsure, Ensure
<1> HIDE DEF m
<1>3. LET r == [m EXCEPT !.epoch = n]
      IN r \in Ensure /\ r.ws = w /\ r.pc = "inspect" /\ ~r.slot /\ r.epoch = n
  BY <1>2 DEF Ensure
<1>. QED
  BY <1>2, <1>3 DEF m

LEMMA BeginInv ==
    ASSUME IInv, NEW w \in Workspaces, NEW b \in Ensures, b = begun + 1, begun' = b,
           NEW r \in Ensure, r.ws = w, r.pc = "inspect", ~r.slot, r.epoch = epoch',
           ens' = [ens EXCEPT ![b] = r],
           active' = [active EXCEPT ![w] = b],
           Untouched \/ Invalidated(w),
           lease' \in [Workspaces -> {"none", "starting", "running", "stopped",
                                      "missing", "error"}],
           ops' \in [Ops -> Op], \A o \in Ops : OpInv(o)',
           UNCHANGED <<docker, cap, deaths, opsBegun, pending, lockq>>
    PROVE  IInv'
<1>1. /\ begun \in Nat /\ epoch \in Nat /\ epoch' \in Nat
      /\ \A v \in Workspaces : v # None
  BY DEF IInv, TypeOK, Untouched, Invalidated, RuntimeAssumption
<1>2. r.pc = "inspect" /\ r.ws = w /\ ~r.slot /\ r.epoch = epoch' /\ b = begun + 1
  OBVIOUS
<1>3. /\ ens' = [ens EXCEPT ![b] = r] /\ active' = [active EXCEPT ![w] = b]
      /\ begun' = b /\ pending' = pending
  OBVIOUS
<1>4. EnsureInv(b) /\ ens[b].pc = "none" /\ ~ens[b].slot /\ ens[b].ws = None
      /\ b \notin overtaken
  BY <1>1 DEF IInv, EnsureInv, SlotPc, SlotFits
<1>5. /\ ens' = [ens EXCEPT ![b] = r]
      /\ ens' \in [Ensures -> Ensure] /\ ens'[b] = r
      /\ \A f \in Ensures : f # b => ens'[f] = ens[f]
  <2>1. ens \in [Ensures -> Ensure]
    BY DEF IInv, TypeOK
  <2>. QED
    BY <1>1, <1>2, <1>3, <2>1, UpdatedAt
<1>6. SlotAccounting' /\ pending' \in Nat
  <2>1. r.slot = ens[b].slot
    BY <1>1, <1>2, <1>4 DEF IInv, TypeOK, Ensure
  <2>. QED
    BY <1>1, <1>2, <1>3, <2>1, OneSlotChanges DEF IInv
<1>7. TypeOK'
  <2>1. /\ cached' \in [Workspaces -> Ensures \cup {None}]
        /\ overtaken' \subseteq Ensures
    BY DEF IInv, TypeOK, Untouched, Invalidated
  <2>2. active' \in [Workspaces -> Ensures \cup {None}] /\ begun' \in 0 .. MaxEnsures
    BY <1>1, <1>3 DEF IInv, TypeOK, RuntimeAssumption
  <2>. QED
    BY <1>1, <1>5, <1>6, <2>1, <2>2 DEF IInv, TypeOK
<1>8. b \notin overtaken'
  BY <1>1, <1>4 DEF Untouched, Invalidated
<1>9. NoStaleCache'
  <2> SUFFICES ASSUME NEW v \in Workspaces, cached'[v] # None
               PROVE  cached'[v] \notin overtaken'
    BY DEF NoStaleCache
  <2>1. cached \in [Workspaces -> Ensures \cup {None}]
    BY DEF IInv, TypeOK
  <2>2. cached'[v] = cached[v]
    BY <2>1 DEF Untouched, Invalidated
  <2>3. cached[v] \notin overtaken /\ ens[cached[v]].ws = v
    BY <2>2 DEF IInv, NoStaleCache, CacheInv
  <2>4. Invalidated(w) => v # w
    BY <2>1 DEF Invalidated
  <2>. QED
    BY <2>2, <2>3, <2>4 DEF Untouched, Invalidated
<1>10. NewestIsJoined'
  <2> SUFFICES ASSUME NEW f \in Ensures, InFlight(f)',
                      \A g \in Ensures : g > f => ens'[g].ws # ens'[f].ws
               PROVE  active'[ens'[f].ws] = f
    BY DEF NewestIsJoined
  <2>1. CASE f = b
    BY <1>2, <1>3, <1>5, <2>1 DEF IInv, TypeOK
  <2>2. CASE f # b
    <3>1. ens'[f] = ens[f] /\ InFlight(f) /\ f < b /\ ens[f].ws \in Workspaces
      BY <1>1, <1>5, <2>2 DEF InFlight, IInv, EnsureInv
    <3>2. ens[f].ws # w
      BY <1>1, <1>2, <1>5, <3>1
    <3>3. \A g \in Ensures : g > f => ens[g].ws # ens[f].ws
      BY <1>4, <1>5, <3>1 DEF RuntimeAssumption
    <3>. QED
      BY <1>3, <3>1, <3>2, <3>3 DEF IInv, NewestIsJoined, TypeOK
  <2>. QED
    BY <2>1, <2>2
<1>11. \A f \in Ensures : EnsureInv(f)' /\ HoldsLock(f)'
  <2> TAKE f \in Ensures
  <2>1. EnsureInv(f) /\ HoldsLock(f) /\ ens[f] \in Ensure
    BY DEF IInv, TypeOK
  <2>2. CASE f = b
    <3>1. ens'[f] = r /\ f = begun' /\ f \notin overtaken' /\ ~(begun' < f)
      BY <1>1, <1>3, <1>5, <1>8, <2>2
    <3>2. SlotPc(ens'[f])
      BY <1>2, <3>1 DEF SlotPc, SlotFits
    <3>3. begun' \in Nat /\ ens'[f].pc # "none" /\ ens'[f].ws \in Workspaces
      BY <1>1, <1>2, <1>3, <3>1
    <3>4. ens'[f].epoch <= epoch' /\ ens'[f].pc \notin {"count", "swap-rm"}
      BY <1>1, <1>2, <3>1
    <3>. QED
      BY <3>1, <3>2, <3>3, <3>4 DEF EnsureInv, HoldsLock
  <2>3. CASE f # b
    <3>1. ens'[f] = ens[f] /\ lockq' = lockq /\ (begun' < f <=> begun < f)
      BY <1>1, <1>3, <1>5, <2>3
    <3>2. ens[f].epoch <= epoch' /\ (f \in overtaken' => ens[f].pc # "none" /\ ens[f].epoch < epoch')
      BY SMTT(30), <1>1, <2>1 DEF EnsureInv, Untouched, Invalidated, RuntimeAssumption, Ensure
    <3>. QED
      BY <2>1, <3>1, <3>2 DEF EnsureInv, SlotPc, HoldsLock
  <2>. QED
    BY <2>2, <2>3
<1>12. \A v \in Workspaces : CacheInv(v)'
  <2>1. \A v \in Workspaces : cached'[v] # None => cached'[v] = cached[v]
    BY DEF IInv, TypeOK, Untouched, Invalidated
  <2>2. \A v \in Workspaces : cached[v] # b
    BY <1>1, <1>4 DEF IInv, CacheInv
  <2>. QED
    <3> SUFFICES ASSUME NEW v \in Workspaces, cached'[v] # None
                 PROVE  ens'[cached'[v]].ws = v
      BY DEF CacheInv
    <3>1. cached'[v] = cached[v] /\ cached[v] # b
      BY <2>1, <2>2
    <3>2. cached[v] \in Ensures /\ ens[cached[v]].ws = v
      BY <3>1 DEF IInv, TypeOK, CacheInv
    <3>. QED
      BY <1>5, <3>1, <3>2
<1>. QED
  BY <1>6, <1>7, <1>9, <1>10, <1>11, <1>12 DEF IInv

LEMMA EnsureBeginsInv ==
    ASSUME IInv, NEW w \in Workspaces, EnsureBegins(w)
    PROVE  IInv'
<1> DEFINE r == [NewEnsure(w) EXCEPT !.epoch = epoch]
<1>1. epoch \in Nat /\ begun \in Nat /\ begun + 1 \in Ensures
  BY DEF IInv, TypeOK, EnsureBegins, Begin, RuntimeAssumption
<1>2. /\ NewEnsure(w) \in Ensure /\ NewEnsure(w).epoch = epoch
      /\ r \in Ensure /\ r.ws = w /\ r.pc = "inspect" /\ ~r.slot /\ r.epoch = epoch
  BY <1>1, NewEnsureType
<1>3. r = NewEnsure(w)
  BY <1>2 DEF Ensure
<1>4. /\ begun' = begun + 1 /\ ens' = [ens EXCEPT ![begun + 1] = NewEnsure(w)]
      /\ active' = [active EXCEPT ![w] = begun + 1] /\ Untouched /\ epoch' = epoch
      /\ UNCHANGED <<docker, lease, ops, cap, deaths, opsBegun, pending, lockq>>
  BY DEF EnsureBegins, Begin, Untouched
<1>5. /\ lease' \in [Workspaces -> {"none", "starting", "running", "stopped",
                                    "missing", "error"}]
      /\ ops' \in [Ops -> Op] /\ \A o \in Ops : OpInv(o)'
  BY <1>4 DEF IInv, TypeOK, OpInv
<1> HIDE DEF r
<1>. QED
  BY <1>1, <1>2, <1>3, <1>4, <1>5, BeginInv

\* Steps of a stop, remove or restart that leave ensures and the cache alone.
LEMMA OpMoveInv ==
    ASSUME IInv, ops' \in [Ops -> Op], \A o \in Ops : OpInv(o)',
           docker' \in [Workspaces -> Containers], opsBegun' \in 0 .. MaxOps,
           UNCHANGED <<lease, cap, deaths, ens, begun, control, pending, lockq>>
    PROVE  IInv'
<1>1. TypeOK' /\ SlotAccounting' /\ NoStaleCache' /\ NewestIsJoined'
  BY DEF IInv, TypeOK, SlotAccounting, NoStaleCache, NewestIsJoined, InFlight, control
<1>2. /\ \A e \in Ensures : EnsureInv(e)' /\ HoldsLock(e)'
      /\ \A w \in Workspaces : CacheInv(w)'
  BY DEF IInv, EnsureInv, HoldsLock, CacheInv, control
<1>. QED
  BY <1>1, <1>2 DEF IInv

\* An op record with another pc keeps its workspace.
LEMMA AsksType ==
    ASSUME IInv, NEW o \in Ops, ops[o].pc # "none",
           NEW pc \in {"inspect", "stop", "rm", "done"}, Asks(o, ops[o], pc)
    PROVE  ops' \in [Ops -> Op] /\ \A p \in Ops : OpInv(p)'
<1> DEFINE r == [ops[o] EXCEPT !.pc = pc, !.did = FALSE, !.saw = Missing]
<1>1. ops[o] \in Op /\ ops[o].ws \in Workspaces /\ ops \in [Ops -> Op]
  BY DEF IInv, TypeOK, OpInv
<1>2. Missing \in Containers
  BY DEF Missing, Containers
<1>3. r \in Op /\ r.ws = ops[o].ws
  BY <1>1, <1>2 DEF Op
<1>4. ops' = [ops EXCEPT ![o] = r]
  BY DEF Asks
<1> HIDE DEF r
<1>. QED
  BY <1>1, <1>3, <1>4 DEF IInv, OpInv

LEMMA OpBeginsInv ==
    ASSUME IInv, NEW w \in Workspaces, NEW kind \in OpKinds, OpBegins(w, kind)
    PROVE  IInv'
<1> DEFINE r == [kind |-> kind, ws |-> w, did |-> FALSE, saw |-> Missing,
                 pc |-> IF kind = "remove" THEN "rm" ELSE "inspect"]
<1>1. Missing \in Containers
  BY DEF Missing, Containers
<1>2. r \in Op /\ r.ws = w
  BY <1>1 DEF Op, RuntimeAssumption
<1>3. ops' = [ops EXCEPT ![opsBegun + 1] = r]
  BY DEF OpBegins
<1> HIDE DEF r
<1>4. ops' \in [Ops -> Op] /\ \A o \in Ops : OpInv(o)'
  BY <1>2, <1>3 DEF IInv, TypeOK, OpInv
<1>5. docker' \in [Workspaces -> Containers] /\ opsBegun' \in 0 .. MaxOps
  BY DEF OpBegins, IInv, TypeOK, RuntimeAssumption
<1>. QED
  BY <1>4, <1>5, OpMoveInv DEF OpBegins

LEMMA DaemonServesInv ==
    ASSUME IInv, NEW o \in Ops, DaemonServes(o)
    PROVE  IInv'
<1>1. /\ ops[o] \in Op /\ ops[o].ws \in Workspaces /\ ops \in [Ops -> Op]
      /\ docker \in [Workspaces -> Containers] /\ Missing \in Containers
  BY DEF DaemonServes, IInv, TypeOK, OpInv, Missing, Containers
<1>2. docker' \in [Workspaces -> Containers]
  BY SMTT(30), <1>1 DEF DaemonServes, OrNot, Containers
<1>3. \A c \in Containers :
        LET r == [ops[o] EXCEPT !.did = TRUE, !.saw = c]
        IN r \in Op /\ r.ws = ops[o].ws
  BY <1>1 DEF Op
<1>4. LET r == [ops[o] EXCEPT !.did = TRUE] IN r \in Op /\ r.ws = ops[o].ws
  BY <1>1 DEF Op
<1>5. \/ \E c \in Containers :
            ops' = [ops EXCEPT ![o] = [ops[o] EXCEPT !.did = TRUE, !.saw = c]]
      \/ ops' = [ops EXCEPT ![o] = [ops[o] EXCEPT !.did = TRUE]]
  BY ZenonT(60), <1>1 DEF DaemonServes, Seen
<1>6. ops' \in [Ops -> Op] /\ \A p \in Ops : OpInv(p)'
  BY <1>1, <1>3, <1>4, <1>5 DEF IInv, OpInv
<1>7. opsBegun' \in 0 .. MaxOps
  BY DEF DaemonServes, IInv, TypeOK
<1>. QED
  BY <1>2, <1>6, <1>7, OpMoveInv DEF DaemonServes

LEMMA StopNeededInv ==
    ASSUME IInv, NEW o \in Ops, StopNeeded(o)
    PROVE  IInv'
<1>1. ops' \in [Ops -> Op] /\ \A p \in Ops : OpInv(p)'
  BY AsksType DEF StopNeeded
<1>2. docker' \in [Workspaces -> Containers] /\ opsBegun' \in 0 .. MaxOps
  BY DEF StopNeeded, IInv, TypeOK
<1>. QED
  BY <1>1, <1>2, OpMoveInv DEF StopNeeded

\* The end of a stop or a remove: whatever ensures of the workspace began before
\* are overtaken, and none of them stays in the cache.
LEMMA InvalidateInv ==
    ASSUME IInv, NEW w \in Workspaces, Invalidated(w),
           lease' \in [Workspaces -> {"none", "starting", "running", "stopped",
                                      "missing", "error"}],
           ops' \in [Ops -> Op], \A o \in Ops : OpInv(o)',
           UNCHANGED <<docker, cap, deaths, ens, begun, opsBegun, active, pending, lockq>>
    PROVE  IInv'
<1>1. cached \in [Workspaces -> Ensures \cup {None}] /\ epoch \in Nat
  BY DEF IInv, TypeOK
<1>2. \A v \in Workspaces : cached'[v] # None => cached'[v] = cached[v] /\ v # w
  BY <1>1 DEF Invalidated
<1>3. TypeOK'
  <2>1. cached' \in [Workspaces -> Ensures \cup {None}]
    BY <1>1 DEF Invalidated
  <2>2. overtaken \subseteq Ensures
    BY DEF IInv, TypeOK
  <2>3. overtaken' \subseteq Ensures
    BY <2>2 DEF Invalidated
  <2>4. epoch' \in Nat
    BY <1>1 DEF Invalidated
  <2>. QED
    BY <2>1, <2>3, <2>4 DEF IInv, TypeOK
<1>4. SlotAccounting' /\ NewestIsJoined'
  BY DEF IInv, SlotAccounting, NewestIsJoined, InFlight
<1>5. NoStaleCache'
  BY <1>2 DEF IInv, NoStaleCache, CacheInv, Invalidated
<1>6. \A v \in Workspaces : CacheInv(v)'
  BY <1>2 DEF IInv, CacheInv
<1>7. \A e \in Ensures : EnsureInv(e)' /\ HoldsLock(e)'
  <2> TAKE e \in Ensures
  <2>1. EnsureInv(e) /\ HoldsLock(e) /\ ens[e].epoch \in Nat
    BY DEF IInv, TypeOK, Ensure
  <2>2. e \in overtaken' => ens[e].pc # "none"
    BY <2>1 DEF EnsureInv, Invalidated, RuntimeAssumption
  <2>3. ens[e].epoch < epoch'
    BY <1>1, <2>1 DEF EnsureInv, Invalidated
  <2>4. epoch' \in Nat
    BY <1>1 DEF Invalidated
  <2>. QED
    BY <2>1, <2>2, <2>3, <2>4 DEF EnsureInv, HoldsLock
<1>. QED
  BY <1>3, <1>4, <1>5, <1>6, <1>7 DEF IInv

LEMMA OpEndsInv ==
    ASSUME IInv, NEW o \in Ops, Stopped(o) \/ Removed(o) \/ Restarts(o)
    PROVE  IInv'
<1> DEFINE w == ops[o].ws
<1>1. ops[o].pc # "none" /\ w \in Workspaces
  <2>1. ops[o].pc \in {"inspect", "stop", "rm"}
    BY DEF Stopped, Removed, Restarts
  <2>. QED
    BY <2>1 DEF IInv, OpInv
<1>2. PICK st \in {"stopped", "missing"} : Invalidates(w, st)
  BY DEF Stopped, Removed, Restarts
<1>3. /\ lease' \in [Workspaces -> {"none", "starting", "running", "stopped",
                                    "missing", "error"}]
      /\ Invalidated(w)
  BY <1>2 DEF Invalidates, Invalidated, IInv, TypeOK
<1>4. ops' \in [Ops -> Op] /\ \A p \in Ops : OpInv(p)'
  <2>1. PICK pc \in {"inspect", "stop", "rm", "done"} : Asks(o, ops[o], pc)
    BY DEF Stopped, Removed, Restarts
  <2>. QED
    BY <1>1, <2>1, AsksType
<1>5. CASE Stopped(o) \/ Removed(o)
  BY <1>1, <1>3, <1>4, <1>5, InvalidateInv DEF Stopped, Removed
<1>6. CASE Restarts(o)
  <2> DEFINE r == [NewEnsure(w) EXCEPT !.epoch = epoch + 1]
  <2>1. /\ epoch \in Nat /\ begun \in Nat /\ begun + 1 \in Ensures
        /\ epoch' = epoch + 1 /\ epoch + 1 \in Nat
    BY <1>3, <1>6 DEF IInv, TypeOK, Restarts, Invalidated, RuntimeAssumption
  <2>2. r \in Ensure /\ r.ws = w /\ r.pc = "inspect" /\ ~r.slot /\ r.epoch = epoch'
    BY <1>1, <2>1, NewEnsureType
  <2>3. /\ begun' = begun + 1 /\ ens' = [ens EXCEPT ![begun + 1] = r]
        /\ active' = [active EXCEPT ![w] = begun + 1]
        /\ UNCHANGED <<docker, cap, deaths, opsBegun, pending, lockq>>
    BY <1>6 DEF Restarts
  <2> HIDE DEF r, w
  <2>. QED
    BY <1>1, <1>3, <1>4, <2>1, <2>2, <2>3, BeginInv
<1>. QED
  BY <1>5, <1>6

LEMMA CacheExpiresInv ==
    ASSUME IInv, NEW w \in Workspaces, CacheExpires(w)
    PROVE  IInv'
<1>1. /\ cached \in [Workspaces -> Ensures \cup {None}]
      /\ cached' = [cached EXCEPT ![w] = None]
      /\ UNCHANGED <<docker, lease, world, ens, active, epoch, overtaken, pending, lockq>>
  BY DEF CacheExpires, IInv, TypeOK
<1>2. \A v \in Workspaces : cached'[v] # None => cached'[v] = cached[v]
  BY <1>1
<1>3. TypeOK' /\ SlotAccounting' /\ NewestIsJoined'
  BY <1>1 DEF IInv, TypeOK, SlotAccounting, NewestIsJoined, InFlight, world
<1>4. NoStaleCache' /\ \A v \in Workspaces : CacheInv(v)'
  BY <1>1, <1>2 DEF IInv, NoStaleCache, CacheInv
<1>5. /\ \A e \in Ensures : EnsureInv(e)' /\ HoldsLock(e)'
      /\ \A o \in Ops : OpInv(o)'
  BY <1>1 DEF IInv, EnsureInv, HoldsLock, OpInv, world
<1>. QED
  BY <1>3, <1>4, <1>5 DEF IInv

\* What happens outside the process, and the admin's choice of a cap.
LEMMA WorldInv ==
    ASSUME IInv, docker' \in [Workspaces -> Containers], cap' \in Caps,
           deaths' \in 0 .. MaxDeaths,
           UNCHANGED <<lease, ens, begun, ops, opsBegun, control, pending, lockq>>
    PROVE  IInv'
<1>1. TypeOK' /\ SlotAccounting' /\ NoStaleCache' /\ NewestIsJoined'
  BY DEF IInv, TypeOK, SlotAccounting, NoStaleCache, NewestIsJoined, InFlight, control
<1>2. /\ \A e \in Ensures : EnsureInv(e)' /\ HoldsLock(e)'
      /\ \A o \in Ops : OpInv(o)'
      /\ \A w \in Workspaces : CacheInv(w)'
  BY DEF IInv, EnsureInv, HoldsLock, OpInv, CacheInv, control
<1>. QED
  BY <1>1, <1>2 DEF IInv

LEMMA OutsideInv ==
    ASSUME IInv,
           \/ \E w \in Workspaces : Dies(w) \/ CleansUp(w)
           \/ \E c \in Caps : SetsCap(c)
           \/ UNCHANGED vars
    PROVE  IInv'
<1>1. /\ docker \in [Workspaces -> Containers] /\ cap \in Caps
      /\ deaths \in 0 .. MaxDeaths /\ Missing \in Containers
  BY DEF IInv, TypeOK, Missing, Containers
<1>2. UNCHANGED <<lease, ens, begun, ops, opsBegun, control, pending, lockq>>
  BY DEF Dies, CleansUp, SetsCap, vars, control, world
<1>3. docker' \in [Workspaces -> Containers]
  BY <1>1 DEF Dies, CleansUp, SetsCap, vars, Containers
<1>4. cap' \in Caps
  BY <1>1 DEF Dies, CleansUp, SetsCap, vars, world
<1>5. deaths' \in 0 .. MaxDeaths
  BY <1>1 DEF Dies, CleansUp, SetsCap, vars, world, RuntimeAssumption
<1>. QED
  BY <1>2, <1>3, <1>4, <1>5, WorldInv

-----------------------------------------------------------------------------
(* The theorems                                                            *)

LEMMA InitInv == Init => IInv
<1> SUFFICES ASSUME Init PROVE IInv
  OBVIOUS
<1> DEFINE u == [NewEnsure(None) EXCEPT !.pc = "none", !.epoch = 0]
<1>1. Missing \in Containers /\ 0 \in 0 .. MaxTries /\ 0 \in 0 .. MaxDeaths
      /\ 0 \in 0 .. MaxOps /\ 0 \in 0 .. MaxEnsures
  BY DEF Missing, Containers, RuntimeAssumption
<1>2. u \in Ensure /\ u.pc = "none" /\ ~u.slot /\ u.epoch = 0 /\ u.ws = None
  <2> DEFINE m == NewEnsure(None)
  <2>1. m \in Ensure /\ m.ws = None /\ ~m.slot
    BY <1>1 DEF NewEnsure, Ensure, Init
  <2> HIDE DEF m
  <2>2. LET r == [m EXCEPT !.pc = "none", !.epoch = 0]
        IN r \in Ensure /\ r.pc = "none" /\ ~r.slot /\ r.epoch = 0 /\ r.ws = None
    BY <2>1 DEF Ensure
  <2>. QED
    BY <2>2 DEF m
<1> HIDE DEF u
<1>3. \A e \in Ensures : ens[e] = u
  BY DEF Init, u
<1>4. TypeOK
  <2>1. docker \in [Workspaces -> Containers]
    BY <1>1 DEF Init, Containers, RuntimeAssumption
  <2>2. lease \in [Workspaces -> {"none", "starting", "running", "stopped",
                                  "missing", "error"}]
    <3>1. \A w \in Workspaces : docker[w] # Missing => docker[w].state \in {"stopped", "running"}
      BY DEF Init
    <3>. QED
      BY <3>1 DEF Init
  <2>3. ens \in [Ensures -> Ensure]
    BY <1>2 DEF Init, u
  <2>4. ops \in [Ops -> Op]
    BY <1>1 DEF Init, Op
  <2>5. /\ active \in [Workspaces -> Ensures \cup {None}]
        /\ cached \in [Workspaces -> Ensures \cup {None}]
    BY DEF Init
  <2>6. /\ cap \in Caps /\ deaths \in 0 .. MaxDeaths /\ begun \in 0 .. MaxEnsures
        /\ opsBegun \in 0 .. MaxOps /\ epoch \in Nat /\ pending \in Nat
    BY <1>1 DEF Init
  <2>7. lockq \in Seq(Ensures) /\ overtaken \subseteq Ensures
    BY DEF Init
  <2>. QED
    BY <2>1, <2>2, <2>3, <2>4, <2>5, <2>6, <2>7 DEF TypeOK
<1>5. SlotAccounting
  <2>1. {e \in Ensures : ens[e].slot} = {}
    BY <1>2, <1>3
  <2>. QED
    BY <2>1, FS_EmptySet DEF SlotAccounting, Init
<1>6. NoStaleCache /\ NewestIsJoined
  BY <1>2, <1>3 DEF Init, NoStaleCache, NewestIsJoined, InFlight
<1>7. \A e \in Ensures : EnsureInv(e) /\ HoldsLock(e)
  <2> TAKE e \in Ensures
  <2>1. ens[e] = u
    BY <1>3
  <2>2. EnsureInv(e)
    BY <1>2, <2>1 DEF Init, EnsureInv, SlotFits, SlotPc, RuntimeAssumption
  <2>3. HoldsLock(e)
    BY <1>2, <2>1 DEF HoldsLock
  <2>. QED
    BY <2>2, <2>3
<1>8. (\A o \in Ops : OpInv(o)) /\ \A w \in Workspaces : CacheInv(w)
  BY DEF Init, OpInv, CacheInv
<1>. QED
  BY <1>4, <1>5, <1>6, <1>7, <1>8 DEF IInv

LEMMA StepInv ==
    ASSUME IInv, [Next]_vars
    PROVE  IInv'
<1>1. ASSUME NEW w \in Workspaces, EnsureBegins(w) \/ CacheExpires(w) PROVE IInv'
  BY <1>1, EnsureBeginsInv, CacheExpiresInv
<1>2. ASSUME NEW w \in Workspaces, NEW kind \in OpKinds, OpBegins(w, kind) PROVE IInv'
  BY <1>2, OpBeginsInv
<1>3. ASSUME NEW e \in Ensures, Step(e) PROVE IInv'
  BY <1>3, EnsureEndsInv, AdoptsInv, AdoptRemovedInv, AdmittedInv, CheckedInv,
     SwappedInv, StartedInv, ReinspectedInv, PreparesInv, RanInv, VerifiedInv DEF Step
<1>4. ASSUME NEW e \in Ensures, DaemonStep(e) PROVE IInv'
  BY <1>4, DaemonInv
<1>5. ASSUME NEW o \in Ops, OpStep(o) PROVE IInv'
  BY <1>5, DaemonServesInv, StopNeededInv, OpEndsInv DEF OpStep
<1>. QED
  BY <1>1, <1>2, <1>3, <1>4, <1>5, OutsideInv DEF Next

\* The invariant of the provider holds in every reachable state.
THEOREM Inductive == Spec => []IInv
<1>. QED
  BY InitInv, StepInv, PTL DEF Spec

\* Type correctness: among others, an ensure never settles with a state that
\* its callers do not know, and the lock queue is never popped when empty.
THEOREM RuntimeTypeCorrect == Spec => []TypeOK
<1>1. IInv => TypeOK
  BY DEF IInv
<1>. QED
  BY Inductive, <1>1, PTL

\* pendingCreates is the number of starts and creates under way, on every path
\* through adoption, start, create, retry and failure.
THEOREM SlotsCounted == Spec => []SlotAccounting
<1>1. IInv => SlotAccounting
  BY DEF IInv
<1>. QED
  BY Inductive, <1>1, PTL

\* A "running" result from before a stop or a remove is never served from the
\* cache afterwards.
THEOREM NeverStale == Spec => []NoStaleCache
<1>1. IInv => NoStaleCache
  BY DEF IInv
<1>. QED
  BY Inductive, <1>1, PTL

\* Callers always join the newest ensure of their workspace, restarts included.
THEOREM JoinsNewest == Spec => []NewestIsJoined
<1>1. IInv => NewestIsJoined
  BY DEF IInv
<1>. QED
  BY Inductive, <1>1, PTL

-----------------------------------------------------------------------------
(* How far the cap is overshot, while docker commands work and the cap is    *)
(* kept.  A slot is given out only while fewer containers than the cap were  *)
(* counted; but a container of an old image lends its slot to the ensure     *)
(* that replaces it, before that ensure is counted in pendingCreates.  So    *)
(* the slots out and the containers that may still lend theirs are counted   *)
(* together (Claims), and so are the containers that run, those that will    *)
(* be started with a slot already given out, and those that are gone but     *)
(* will be replaced all the same (Load).                                     *)

RunningOld == [state |-> "running", fit |-> "oldimage"]

\* Where the record of an ensure says that it ...
Replacing(r) ==       \* means to replace the running container it saw
    \/ r.pc = "inspect" /\ r.did /\ r.saw = RunningOld
    \/ r.pc = "queue" /\ r.why = "swap"
    \/ r.pc = "swap-rm"
TookDown(r) == r.pc = "swap-rm" /\ r.did
Promised(r) ==        \* has a slot for a container that docker will start
    r.pc = "prepare" \/ (r.pc \in {"start", "run"} /\ ~r.did)
Counted(r) == r.pc = "count" /\ r.did
WillStart(r) ==       \* means to start the stopped container it saw
    \/ r.pc = "inspect" /\ r.did /\ r.saw.state = "stopped" /\ r.saw.fit = "current"
    \/ r.pc \in {"queue", "count"} /\ r.why = "start"
    \/ r.pc = "start"
Decided(r) ==         \* has been told what container there is
    r.pc \notin {"none", "done"} /\ (r.pc = "inspect" => r.did)

OldRunning == {w \in Workspaces : docker[w] = RunningOld}
Replaced   == {w \in Workspaces : \E e \in Ensures : Replacing(ens[e]) /\ ens[e].ws = w}
Claims     == OldRunning \cup Replaced
Gone       == Replaced \ OldRunning
Promises   == {e \in Ensures : Promised(ens[e])}
Load       == Cardinality(Running) + Cardinality(Promises) + Cardinality(Gone)

\* Gone although the ensure that replaces it did not take it down.
TakenDown == {w \in Workspaces : \E e \in Ensures : TookDown(ens[e]) /\ ens[e].ws = w}
Lost      == Gone \ TakenDown
Touched   == {ops[o].ws : o \in 1 .. opsBegun}

\* A container of an old image comes from an earlier process: nothing makes one
\* or starts one, and while there is one, only the newest ensure can know it.
LookInv(e) ==
    /\ Decided(ens[e]) /\ ~Replacing(ens[e]) => ens[e].ws \notin OldRunning
    /\ WillStart(ens[e]) \/ TookDown(ens[e]) => docker[ens[e].ws].fit # "oldimage"
    /\ Replacing(ens[e]) => "oldimage" \in Fits
    /\ InFlight(e) /\ docker[ens[e].ws].fit = "oldimage" => active[ens[e].ws] = e
    /\ ens[e].exit # "bind"
    /\ ens[e].pc = "count" => ens[e].limit = cap
OneReplaces ==
    \A e, f \in Ensures :
        Replacing(ens[e]) /\ Replacing(ens[f]) /\ ens[e].ws = ens[f].ws => e = f
ServedInv(o) ==
    /\ ops[o].pc # "none" => o <= opsBegun
    /\ ops[o].pc = "rm" /\ ops[o].did => docker[ops[o].ws].fit # "oldimage"
FitInv(w) == docker[w].fit = "oldimage" => "oldimage" \in Fits

OldInv ==
    /\ \A e \in Ensures : LookInv(e)
    /\ OneReplaces
    /\ \A o \in Ops : ServedInv(o)
    /\ \A w \in Workspaces : FitInv(w)

LostInv == Cardinality(Lost \ Touched) <= deaths

NumbersInv ==
    /\ Cardinality(SlotHolders) + Cardinality(Claims) <= cap + Unearned
    /\ Load <= 2 * cap + Unearned
    /\ \A e \in Ensures : Counted(ens[e]) =>
          /\ Cardinality(Claims) <= ens[e].n + Unearned
          /\ Load <= ens[e].n + cap + Unearned

LoadInv == OldInv /\ LostInv /\ NumbersInv

\* What the bound is claimed under: docker commands work, and one cap.
Steady == ~Flaky /\ \A b, c \in Caps : b = c

-----------------------------------------------------------------------------
(* Counting                                                                *)

LEMMA WorkspaceSet ==
    ASSUME NEW S, S \subseteq Workspaces
    PROVE  IsFiniteSet(S) /\ Cardinality(S) \in Nat
BY FS_Subset, FS_CardinalityType DEF RuntimeAssumption

LEMMA EnsureSet ==
    ASSUME NEW S, S \subseteq Ensures
    PROVE  IsFiniteSet(S) /\ Cardinality(S) \in Nat
<1>1. IsFiniteSet(Ensures)
  BY FS_Interval
<1>. QED
  BY <1>1, FS_Subset, FS_CardinalityType

\* One more at most, one less, or no more.
LEMMA Sized ==
    ASSUME NEW S, IsFiniteSet(S), NEW T, IsFiniteSet(T), NEW x
    PROVE  /\ T \subseteq S => Cardinality(T) <= Cardinality(S)
           /\ T \subseteq S \cup {x} => Cardinality(T) <= Cardinality(S) + 1
           /\ x \in S => Cardinality(S \ {x}) = Cardinality(S) - 1
           /\ Cardinality(S) \in Nat /\ Cardinality(T) \in Nat
           /\ Cardinality(S \ {x}) \in Nat
<1>1. Cardinality(S) \in Nat /\ Cardinality(T) \in Nat
  BY FS_CardinalityType
<1>2. T \subseteq S => Cardinality(T) <= Cardinality(S)
  BY FS_Subset
<1>3. x \in S => Cardinality(S \ {x}) = Cardinality(S) - 1
  BY FS_RemoveElement
<1>4. IsFiniteSet(S \ {x}) /\ Cardinality(S \ {x}) \in Nat
  BY FS_Subset, FS_CardinalityType
<1>5. IsFiniteSet(S \cup {x}) /\ Cardinality(S \cup {x}) <= Cardinality(S) + 1
  <2>1. CASE x \in S
    <3>1. S \cup {x} = S
      BY <2>1
    <3>. QED
      BY <1>1, <3>1
  <2>2. CASE x \notin S
    <3>1. IsFiniteSet(S \cup {x}) /\ Cardinality(S \cup {x}) = Cardinality(S) + 1
      BY <2>2, FS_AddElement
    <3>. QED
      BY <1>1, <3>1
  <2>. QED
    BY <2>1, <2>2
<1>6. T \subseteq S \cup {x} => Cardinality(T) <= Cardinality(S) + 1
  <2>1. Cardinality(S \cup {x}) \in Nat
    BY <1>5, FS_CardinalityType
  <2>2. T \subseteq S \cup {x} => Cardinality(T) <= Cardinality(S \cup {x})
    BY <1>5, FS_Subset
  <2>. QED
    BY <1>1, <1>5, <2>1, <2>2
<1>. QED
  BY <1>1, <1>2, <1>3, <1>4, <1>6

\* A container that ends leaves no more to run, and no more to be lent.
LEMMA Ended ==
    ASSUME NEW R, R \subseteq Workspaces, NEW O, O \subseteq R,
           NEW W, W \subseteq Workspaces, NEW w
    PROVE  /\ Cardinality(R \ {w}) + Cardinality(W \ (O \ {w}))
                 <= Cardinality(R) + Cardinality(W \ O)
           /\ Cardinality((O \ {w}) \cup W) <= Cardinality(O \cup W)
<1>1. /\ IsFiniteSet(R) /\ IsFiniteSet(W \ O) /\ IsFiniteSet(W \ (O \ {w}))
      /\ IsFiniteSet(O \cup W) /\ IsFiniteSet((O \ {w}) \cup W)
  BY WorkspaceSet
<1>2. Cardinality((O \ {w}) \cup W) <= Cardinality(O \cup W)
  BY <1>1, Sized
<1>3. CASE w \in R
  <2>1. Cardinality(R \ {w}) = Cardinality(R) - 1 /\ Cardinality(R) \in Nat
    BY <1>1, <1>3, Sized
  <2>2. W \ (O \ {w}) \subseteq (W \ O) \cup {w}
    OBVIOUS
  <2>3. /\ Cardinality(W \ (O \ {w})) <= Cardinality(W \ O) + 1
        /\ Cardinality(W \ (O \ {w})) \in Nat /\ Cardinality(W \ O) \in Nat
    BY <1>1, <2>2, Sized
  <2>. QED
    BY <1>2, <2>1, <2>3
<1>4. CASE w \notin R
  <2>1. R \ {w} = R /\ W \ (O \ {w}) = W \ O
    BY <1>4
  <2>2. Cardinality(R) \in Nat /\ Cardinality(W \ O) \in Nat
    BY <1>1, FS_CardinalityType
  <2>3. /\ Cardinality(R \ {w}) = Cardinality(R)
        /\ Cardinality(W \ (O \ {w})) = Cardinality(W \ O)
    BY <2>1
  <2>. QED
    BY <1>2, <2>2, <2>3
<1>. QED
  BY <1>3, <1>4

LEMMA NumberTypes ==
    /\ Cardinality(SlotHolders) \in Nat /\ Cardinality(Claims) \in Nat
    /\ Cardinality(Running) \in Nat /\ Cardinality(Promises) \in Nat
    /\ Cardinality(Gone) \in Nat
    /\ Cardinality(SlotHolders)' \in Nat /\ Cardinality(Claims)' \in Nat
    /\ Cardinality(Running)' \in Nat /\ Cardinality(Promises)' \in Nat
    /\ Cardinality(Gone)' \in Nat
<1>1. /\ SlotHolders \subseteq Ensures /\ SlotHolders' \subseteq Ensures
      /\ Promises \subseteq Ensures /\ Promises' \subseteq Ensures
  BY DEF SlotHolders, Promises
<1>2. /\ Claims \subseteq Workspaces /\ Claims' \subseteq Workspaces
      /\ Running \subseteq Workspaces /\ Running' \subseteq Workspaces
      /\ Gone \subseteq Workspaces /\ Gone' \subseteq Workspaces
  BY DEF Claims, OldRunning, Replaced, Running, Gone
<1>. QED
  BY <1>1, <1>2, WorkspaceSet, EnsureSet

LEMMA UnearnedType ==
    /\ TypeOK => deaths \in Nat /\ opsBegun \in Nat /\ Unearned \in Nat
    /\ TypeOK' => deaths' \in Nat /\ opsBegun' \in Nat /\ Unearned' \in Nat
<1>1. TypeOK => deaths \in Nat /\ opsBegun \in Nat
  BY DEF TypeOK, RuntimeAssumption
<1>2. TypeOK' => deaths' \in Nat /\ opsBegun' \in Nat
  BY DEF TypeOK, RuntimeAssumption
<1>. QED
  BY <1>1, <1>2 DEF Unearned

\* A step after which no more is out, and no more was counted.
LEMMA NumbersKept ==
    ASSUME TypeOK, TypeOK', Steady, NumbersInv,
           Unearned <= Unearned',
           Cardinality(SlotHolders)' + Cardinality(Claims)'
               <= Cardinality(SlotHolders) + Cardinality(Claims),
           Cardinality(Claims)' <= Cardinality(Claims),
           Load' <= Load,
           \A f \in Ensures : Counted(ens'[f]) => Counted(ens[f]) /\ ens'[f].n = ens[f].n
    PROVE  NumbersInv'
<1>1. cap' = cap /\ cap \in Nat
  BY DEF TypeOK, Steady, RuntimeAssumption
<1>2. Unearned \in Nat /\ Unearned' \in Nat
  BY UnearnedType DEF TypeOK
<1>3. Load \in Nat /\ Load' \in Nat
  BY NumberTypes DEF Load
<1>4. \A f \in Ensures : ens[f].n \in Nat
  BY DEF TypeOK, Ensure
<1>5. \A f \in Ensures : Counted(ens'[f]) =>
          Cardinality(Claims)' <= ens'[f].n + Unearned' /\ Load' <= ens'[f].n + cap + Unearned'
  <2> SUFFICES ASSUME NEW f \in Ensures, Counted(ens'[f])
               PROVE  /\ Cardinality(Claims)' <= ens'[f].n + Unearned'
                      /\ Load' <= ens'[f].n + cap + Unearned'
    OBVIOUS
  <2>1. Counted(ens[f]) /\ ens'[f].n = ens[f].n
    OBVIOUS
  <2>2. Cardinality(Claims) <= ens[f].n + Unearned /\ Load <= ens[f].n + cap + Unearned
    BY <2>1 DEF NumbersInv
  <2>. QED
    BY <1>1, <1>2, <1>3, <1>4, <2>1, <2>2, NumberTypes
<1>6. Load' <= 2 * cap + Unearned'
  <2>1. Load <= 2 * cap + Unearned
    BY DEF NumbersInv
  <2>. QED
    BY <1>1, <1>2, <1>3, <2>1
<1>7. Cardinality(SlotHolders)' + Cardinality(Claims)' <= cap + Unearned'
  <2>1. Cardinality(SlotHolders) + Cardinality(Claims) <= cap + Unearned
    BY DEF NumbersInv
  <2>. QED
    BY <1>1, <1>2, <2>1, NumberTypes
<1>. QED
  BY <1>1, <1>5, <1>6, <1>7 DEF NumbersInv

-----------------------------------------------------------------------------
(* What a step keeps                                                       *)

\* The record r of an ensure becomes q: it knows no more about old containers.
Follows(r, q) ==
    /\ Decided(q) => Decided(r) /\ q.ws = r.ws
    /\ Replacing(q) <=> Replacing(r)
    /\ WillStart(q) => WillStart(r)
    /\ q.exit # "bind" /\ (q.pc = "count" => q.limit = cap)

\* Nor has it more of what is counted.
Calm(r, q) ==
    /\ Follows(r, q)
    /\ TookDown(q) <=> TookDown(r)
    /\ Promised(q) => Promised(r)
    /\ Counted(q) => Counted(r) /\ q.n = r.n
    /\ q.slot => r.slot

NewestKnows(e) ==
    InFlight(e) /\ docker[ens[e].ws].fit = "oldimage" => active[ens[e].ws] = e

LEMMA OldKept ==
    ASSUME IInv, IInv', Steady, OldInv,
           \A w \in Workspaces : docker'[w].fit = "oldimage" => docker[w].fit = "oldimage",
           OldRunning' \subseteq OldRunning,
           \A f \in Ensures : /\ Follows(ens[f], ens'[f])
                              /\ TookDown(ens'[f]) => \/ TookDown(ens[f])
                                                      \/ docker'[ens'[f].ws].fit # "oldimage",
           \A f \in Ensures : NewestKnows(f)',
           \A o \in Ops : ServedInv(o)'
    PROVE  OldInv'
<1>1. cap' = cap
  BY DEF IInv, TypeOK, Steady
<1>2. \A w \in Workspaces : FitInv(w)'
  BY DEF OldInv, FitInv
<1>3. \A f \in Ensures : Replacing(ens'[f]) \/ TookDown(ens'[f]) \/ WillStart(ens'[f])
                            => Decided(ens'[f])
  BY DEF Replacing, TookDown, WillStart, Decided
<1>4. \A f \in Ensures : Decided(ens'[f]) => ens'[f].ws = ens[f].ws /\ ens'[f].ws \in Workspaces
  BY DEF IInv, EnsureInv, Decided, Follows
<1>5. OneReplaces'
  BY <1>3, <1>4 DEF OldInv, OneReplaces, Follows
<1>6. \A f \in Ensures : LookInv(f)'
  <2> TAKE f \in Ensures
  <2>1. LookInv(f) /\ Follows(ens[f], ens'[f]) /\ NewestKnows(f)'
    BY DEF OldInv
  <2>2. Decided(ens'[f]) /\ ~Replacing(ens'[f]) => ens'[f].ws \notin OldRunning'
    BY <1>4, <2>1 DEF LookInv, Follows
  <2>3. WillStart(ens'[f]) \/ TookDown(ens'[f]) => docker'[ens'[f].ws].fit # "oldimage"
    BY <1>3, <1>4, <2>1 DEF LookInv, Follows
  <2>4. Replacing(ens'[f]) => "oldimage" \in Fits
    BY <2>1 DEF LookInv, Follows
  <2>. QED
    BY <1>1, <2>1, <2>2, <2>3, <2>4 DEF LookInv, Follows, NewestKnows
<1>. QED
  BY <1>2, <1>5, <1>6 DEF OldInv

\* Which workspaces are replaced, and what is promised and held.
LEMMA ReplacedKept ==
    ASSUME IInv, IInv', \A f \in Ensures : Follows(ens[f], ens'[f])
    PROVE  Replaced' = Replaced
<1>1. \A f \in Ensures : Replacing(ens[f]) \/ Replacing(ens'[f])
          => Replacing(ens[f]) /\ Replacing(ens'[f]) /\ ens'[f].ws = ens[f].ws
  BY DEF Follows, Replacing, Decided
<1>. QED
  BY <1>1 DEF Replaced

LEMMA HeldKept ==
    ASSUME \A f \in Ensures : (Promised(ens'[f]) => Promised(ens[f]))
                              /\ (ens'[f].slot => ens[f].slot)
    PROVE  /\ Cardinality(Promises)' <= Cardinality(Promises)
           /\ Cardinality(SlotHolders)' <= Cardinality(SlotHolders)
<1>1. Promises' \subseteq Promises /\ SlotHolders' \subseteq SlotHolders
  BY DEF Promises, SlotHolders
<1>2. Promises \subseteq Ensures /\ SlotHolders \subseteq Ensures
  BY DEF Promises, SlotHolders
<1>3. IsFiniteSet(Promises) /\ IsFiniteSet(SlotHolders)
  BY <1>2, EnsureSet
<1>. QED
  BY <1>1, <1>3, FS_Subset

LEMMA UnearnedGrows ==
    ASSUME TypeOK, TypeOK', deaths <= deaths', opsBegun <= opsBegun'
    PROVE  Unearned <= Unearned'
BY UnearnedType DEF Unearned

LEMMA TouchedIsFinite ==
    ASSUME TypeOK PROVE IsFiniteSet(Touched) /\ Cardinality(Touched) <= opsBegun
<1>1. opsBegun \in Nat
  BY DEF TypeOK, RuntimeAssumption
<1> DEFINE I == 1 .. opsBegun
           g == [o \in I |-> ops[o].ws]
<1>2. IsFiniteSet(I) /\ Cardinality(I) = opsBegun
  BY <1>1, FS_Interval
<1>3. g \in Surjection(I, Touched)
  BY DEF Touched, Surjection
<1> HIDE DEF g, I
<1>. QED
  BY <1>2, <1>3, FS_Surjection

\* Containers as they were, and no more of anything.
LEMMA CalmStep ==
    ASSUME IInv, IInv', Steady, LoadInv,
           \A f \in Ensures : Calm(ens[f], ens'[f]),
           \A f \in Ensures : NewestKnows(f)',
           \A o \in Ops : ServedInv(o)',
           UNCHANGED <<docker, deaths>>,
           opsBegun <= opsBegun', Touched \subseteq Touched'
    PROVE  LoadInv'
<1>1. \A f \in Ensures : Follows(ens[f], ens'[f])
  BY DEF Calm
<1>2. OldRunning' = OldRunning /\ Replaced' = Replaced /\ Running' = Running
  BY <1>1, ReplacedKept DEF OldRunning, Running
<1>3. TakenDown' = TakenDown
  <2>1. \A f \in Ensures : TookDown(ens[f]) \/ TookDown(ens'[f])
            => TookDown(ens[f]) /\ TookDown(ens'[f]) /\ ens'[f].ws = ens[f].ws
    BY DEF Calm, Follows, TookDown, Decided
  <2>. QED
    BY <2>1 DEF TakenDown
<1>4. Claims' = Claims /\ Gone' = Gone /\ Lost' = Lost
  BY <1>2, <1>3 DEF Claims, Gone, Lost
<1>5. OldInv'
  BY <1>1, <1>2, OldKept DEF LoadInv, Calm
<1>6. LostInv'
  <2>1. Lost' \ Touched' \subseteq Lost \ Touched
    BY <1>4
  <2>2. IsFiniteSet(Lost \ Touched)
    <3>1. Lost \ Touched \subseteq Workspaces
      BY DEF Lost, Gone, Replaced
    <3>. QED
      BY <3>1, WorkspaceSet
  <2>3. /\ Cardinality(Lost' \ Touched') <= Cardinality(Lost \ Touched)
        /\ Cardinality(Lost \ Touched) \in Nat
        /\ Cardinality(Lost' \ Touched') \in Nat
    BY <2>1, <2>2, FS_Subset, FS_CardinalityType
  <2>4. Cardinality(Lost \ Touched) <= deaths /\ deaths \in Nat
    BY DEF LoadInv, LostInv, IInv, TypeOK
  <2>. QED
    BY <2>3, <2>4 DEF LostInv
<1>7. NumbersInv'
  <2>1. /\ Cardinality(Promises)' <= Cardinality(Promises)
        /\ Cardinality(SlotHolders)' <= Cardinality(SlotHolders)
    BY HeldKept DEF Calm
  <2>2. Load' <= Load
    BY <1>2, <1>4, <2>1, NumberTypes DEF Load
  <2>3. /\ Cardinality(SlotHolders)' + Cardinality(Claims)'
               <= Cardinality(SlotHolders) + Cardinality(Claims)
        /\ Cardinality(Claims)' <= Cardinality(Claims)
    BY <1>4, <2>1, NumberTypes
  <2>4. Unearned <= Unearned'
    BY UnearnedGrows DEF IInv, TypeOK
  <2>5. \A f \in Ensures : Counted(ens'[f]) => Counted(ens[f]) /\ ens'[f].n = ens[f].n
    BY DEF Calm
  <2>. QED
    BY <2>2, <2>3, <2>4, <2>5, NumbersKept DEF IInv, LoadInv
<1>. QED
  BY <1>5, <1>6, <1>7 DEF LoadInv

\* The container of w ends, on its own, by a stop or by a remove.
LEMMA EndedStep ==
    ASSUME IInv, IInv', Steady, LoadInv, NEW w \in Workspaces, NEW d \in Containers,
           docker' = [docker EXCEPT ![w] = d], d.state # "running",
           d.fit = "oldimage" => docker[w].fit = "oldimage",
           \A f \in Ensures :
               /\ Follows(ens[f], ens'[f])
               /\ TookDown(ens'[f]) => TookDown(ens[f]) \/ docker'[ens'[f].ws].fit # "oldimage"
               /\ Promised(ens'[f]) => Promised(ens[f])
               /\ Counted(ens'[f]) => Counted(ens[f]) /\ ens'[f].n = ens[f].n
               /\ ens'[f].slot => ens[f].slot,
           active' = active,
           \A f \in Ensures : InFlight(f)' => InFlight(f) /\ ens'[f].ws = ens[f].ws,
           \A o \in Ops : ServedInv(o)',
           deaths <= deaths', opsBegun <= opsBegun'
    PROVE  /\ OldInv' /\ NumbersInv'
           /\ OldRunning' = OldRunning \ {w} /\ Replaced' = Replaced
<1>1. \A v \in Workspaces : docker'[v].fit = "oldimage" => docker[v].fit = "oldimage"
  BY DEF IInv, TypeOK
<1>2. Running' = Running \ {w} /\ OldRunning' = OldRunning \ {w}
  <2>1. docker \in [Workspaces -> Containers] /\ d # RunningOld
    BY DEF IInv, TypeOK, RunningOld
  <2>. QED
    BY <2>1 DEF Running, OldRunning
<1>3. Replaced' = Replaced
  BY ReplacedKept
<1>4. \A f \in Ensures : NewestKnows(f)'
  BY <1>1 DEF NewestKnows, LoadInv, OldInv, LookInv, IInv, EnsureInv, InFlight
<1>5. OldInv'
  BY <1>1, <1>2, <1>4, OldKept DEF LoadInv
<1>6. /\ Running \subseteq Workspaces /\ OldRunning \subseteq Running
      /\ Replaced \subseteq Workspaces
  BY DEF Running, OldRunning, Replaced, RunningOld
<1>7. /\ Cardinality(Running)' + Cardinality(Gone)' <= Cardinality(Running) + Cardinality(Gone)
      /\ Cardinality(Claims)' <= Cardinality(Claims)
  BY <1>2, <1>3, <1>6, Ended DEF Gone, Claims
<1>8. /\ Cardinality(Promises)' <= Cardinality(Promises)
      /\ Cardinality(SlotHolders)' <= Cardinality(SlotHolders)
  BY HeldKept
<1>9. Load' <= Load
  BY <1>7, <1>8, NumberTypes DEF Load
<1>10. Cardinality(SlotHolders)' + Cardinality(Claims)'
           <= Cardinality(SlotHolders) + Cardinality(Claims)
  BY <1>7, <1>8, NumberTypes
<1>11. Unearned <= Unearned'
  BY UnearnedGrows DEF IInv
<1>12. NumbersInv'
  BY <1>7, <1>9, <1>10, <1>11, NumbersKept DEF IInv, LoadInv
<1>. QED
  BY <1>2, <1>3, <1>5, <1>12

\* A container is started for a slot that was given out for it.
LEMMA StartedStep ==
    ASSUME IInv, IInv', Steady, LoadInv, NEW e \in Ensures, NEW q \in Ensure,
           NEW w \in Workspaces, NEW d \in Containers,
           docker' = [docker EXCEPT ![w] = d], d.fit # "oldimage",
           docker[w] # RunningOld,
           ens' = [ens EXCEPT ![e] = q],
           Promised(ens[e]), ~Promised(q), q.ws = ens[e].ws,
           Follows(ens[e], q), ~TookDown(q), ~TookDown(ens[e]), ~Counted(q),
           q.slot => ens[e].slot, InFlight(e),
           UNCHANGED <<world, active>>
    PROVE  LoadInv'
<1>1. /\ docker \in [Workspaces -> Containers] /\ ens \in [Ensures -> Ensure]
      /\ ens'[e] = q /\ \A f \in Ensures : f # e => ens'[f] = ens[f]
  BY DEF IInv, TypeOK
<1>2. \A v \in Workspaces : docker'[v].fit = "oldimage" => docker[v].fit = "oldimage"
  BY <1>1
<1>3. OldRunning' = OldRunning /\ Running' \subseteq Running \cup {w}
  BY <1>1 DEF OldRunning, Running, RunningOld
<1>4. \A f \in Ensures : Follows(ens[f], ens'[f])
  BY <1>1 DEF Follows, LoadInv, OldInv, LookInv
<1>5. Replaced' = Replaced
  BY <1>4, ReplacedKept
<1>6. TakenDown' = TakenDown
  BY <1>1 DEF TakenDown
<1>7. Claims' = Claims /\ Gone' = Gone /\ Lost' = Lost /\ Touched' = Touched
  BY <1>3, <1>5, <1>6 DEF Claims, Gone, Lost, Touched, world
<1>8. LostInv'
  BY <1>7 DEF LoadInv, LostInv, world
<1>9. OldInv'
  <2>1. \A f \in Ensures : InFlight(f)' => InFlight(f) /\ ens'[f].ws = ens[f].ws
    BY <1>1 DEF InFlight
  <2>2. \A f \in Ensures : NewestKnows(f)'
    BY <1>2, <2>1 DEF NewestKnows, LoadInv, OldInv, LookInv, IInv, EnsureInv, InFlight
  <2>3. \A o \in Ops : ServedInv(o)'
    BY <1>2 DEF LoadInv, OldInv, ServedInv, world, IInv, OpInv
  <2>4. \A f \in Ensures : TookDown(ens'[f]) => TookDown(ens[f])
    BY <1>1
  <2>. QED
    BY <1>2, <1>3, <1>4, <2>2, <2>3, <2>4, OldKept DEF LoadInv
<1>10. NumbersInv'
  <2>1. Promises' = Promises \ {e} /\ e \in Promises
    BY <1>1 DEF Promises
  <2>2. SlotHolders' \subseteq SlotHolders
    BY <1>1 DEF SlotHolders
  <2>3. /\ IsFiniteSet(Promises) /\ IsFiniteSet(SlotHolders)
        /\ IsFiniteSet(Running) /\ IsFiniteSet(Running')
    <3>1. /\ Promises \subseteq Ensures /\ SlotHolders \subseteq Ensures
          /\ Running \subseteq Workspaces /\ Running' \subseteq Workspaces
      BY DEF Promises, SlotHolders, Running
    <3>. QED
      BY <3>1, EnsureSet, WorkspaceSet
  <2>4. Cardinality(Promises)' = Cardinality(Promises) - 1
    BY <2>1, <2>3, FS_RemoveElement
  <2>5. Cardinality(Running)' <= Cardinality(Running) + 1
    BY <1>3, <2>3, Sized
  <2>6. Cardinality(SlotHolders)' <= Cardinality(SlotHolders)
    BY <2>2, <2>3, FS_Subset
  <2>7. Load' <= Load
    BY <1>7, <2>4, <2>5, NumberTypes DEF Load
  <2>8. /\ Cardinality(SlotHolders)' + Cardinality(Claims)'
               <= Cardinality(SlotHolders) + Cardinality(Claims)
        /\ Cardinality(Claims)' <= Cardinality(Claims)
    BY <1>7, <2>6, NumberTypes
  <2>9. Unearned <= Unearned'
    BY UnearnedGrows DEF IInv, TypeOK, world, RuntimeAssumption
  <2>10. \A f \in Ensures : Counted(ens'[f]) => Counted(ens[f]) /\ ens'[f].n = ens[f].n
    BY <1>1
  <2>. QED
    BY <2>7, <2>8, <2>9, <2>10, NumbersKept DEF IInv, LoadInv
<1>. QED
  BY <1>8, <1>9, <1>10 DEF LoadInv

-----------------------------------------------------------------------------
(* The steps                                                               *)

LEMMA CallRecord ==
    ASSUME TypeOK, NEW e \in Ensures, NEW r \in Ensure, NEW pc \in Pcs, Calls(e, r, pc)
    PROVE  \E q \in Ensure :
              /\ ens' = [ens EXCEPT ![e] = q]
              /\ q.pc = pc /\ ~q.did /\ q.exit = "ok" /\ q.ws = r.ws /\ q.why = r.why
              /\ q.slot = r.slot /\ q.limit = r.limit /\ q.tries = r.tries
<1> DEFINE c == Consumed(r)
           q == [Consumed(r) EXCEPT !.pc = pc]
<1>1. Missing \in Containers
  BY DEF Missing, Containers
<1>2. /\ c \in Ensure /\ ~c.did /\ c.exit = "ok" /\ c.ws = r.ws /\ c.why = r.why
      /\ c.slot = r.slot /\ c.limit = r.limit /\ c.tries = r.tries
  BY <1>1 DEF Consumed, Ensure
<1>3. q = [c EXCEPT !.pc = pc] /\ ens' = [ens EXCEPT ![e] = q]
  BY DEF Calls
<1> HIDE DEF c, q
<1>4. /\ q \in Ensure /\ q.pc = pc /\ q.did = c.did /\ q.exit = c.exit
      /\ q.ws = c.ws /\ q.why = c.why /\ q.slot = c.slot /\ q.limit = c.limit
      /\ q.tries = c.tries
  BY <1>2, <1>3 DEF Ensure, Pcs
<1>. QED
  BY <1>2, <1>3, <1>4

LEMMA SettleRecord ==
    ASSUME TypeOK, NEW e \in Ensures, NEW r \in Ensure,
           NEW res \in {"running", "stopped", "starting", "error", "full"},
           Settles(e, r, res)
    PROVE  \E q \in Ensure :
              /\ ens' = [ens EXCEPT ![e] = q]
              /\ q.pc = "settled" /\ ~q.did /\ q.exit = "ok" /\ q.ws = r.ws
              /\ q.slot = r.slot
<1> DEFINE n == NewEnsure(r.ws)
           q == [NewEnsure(r.ws) EXCEPT
                    !.pc = "settled", !.epoch = r.epoch, !.slot = r.slot, !.result = res]
<1>1. n \in Ensure /\ ~n.did /\ n.exit = "ok" /\ n.ws = r.ws
  BY DEF NewEnsure, Ensure, Containers, Missing, TypeOK
<1>2. /\ q = [n EXCEPT !.pc = "settled", !.epoch = r.epoch, !.slot = r.slot, !.result = res]
      /\ ens' = [ens EXCEPT ![e] = q]
  BY DEF Settles
<1>3. r.epoch \in Nat /\ r.slot \in BOOLEAN
  BY DEF Ensure
<1> HIDE DEF n, q
<1>4. /\ q \in Ensure /\ q.pc = "settled" /\ q.did = n.did /\ q.exit = n.exit
      /\ q.ws = n.ws /\ q.slot = r.slot
  BY ZenonT(60), <1>1, <1>2, <1>3 DEF Ensure
<1>. QED
  BY <1>1, <1>2, <1>4

\* A step of e that leaves docker alone and is calm for e is calm.
LEMMA CalmMove ==
    ASSUME IInv, IInv', Steady, LoadInv, NEW e \in Ensures, NEW q \in Ensure,
           ens' = [ens EXCEPT ![e] = q], Calm(ens[e], q), Decided(ens[e]),
           q.ws = ens[e].ws,
           UNCHANGED <<docker, world, control>>
    PROVE  LoadInv'
<1>1. /\ ens'[e] = q /\ \A f \in Ensures : f # e => ens'[f] = ens[f]
  BY DEF IInv, TypeOK
<1>2. \A f \in Ensures : Calm(ens[f], ens[f])
  BY DEF LoadInv, OldInv, LookInv, Calm, Follows
<1>3. \A f \in Ensures : Calm(ens[f], ens'[f])
  BY <1>1, <1>2
<1>4. \A f \in Ensures : InFlight(f)' => InFlight(f) /\ ens'[f].ws = ens[f].ws
  BY <1>1 DEF InFlight, Decided
<1>5. \A f \in Ensures : NewestKnows(f)'
  BY <1>4 DEF NewestKnows, LoadInv, OldInv, LookInv, control
<1>6. /\ \A o \in Ops : ServedInv(o)'
      /\ Touched' = Touched
  BY DEF LoadInv, OldInv, ServedInv, world, Touched
<1>7. deaths' = deaths /\ opsBegun <= opsBegun'
  BY UnearnedType DEF world, IInv
<1>. QED
  BY <1>3, <1>5, <1>6, <1>7, CalmStep

\* The code goes on to another call, or to the lock.
LEMMA CallIsCalm ==
    ASSUME IInv, IInv', Steady, LoadInv, NEW e \in Ensures, NEW r \in Ensure,
           NEW pc \in Pcs \ {"none", "inspect", "settled", "done"}, Calls(e, r, pc),
           r.ws = ens[e].ws, r.slot => ens[e].slot,
           Decided(ens[e]), ~TookDown(ens[e]),
           Replacing(ens[e]) <=> (pc = "queue" /\ r.why = "swap") \/ pc = "swap-rm",
           pc \in {"prepare", "start", "run"} => Promised(ens[e]),
           (pc \in {"queue", "count"} /\ r.why = "start") \/ pc = "start"
               => WillStart(ens[e]),
           pc = "count" => r.limit = cap,
           UNCHANGED <<docker, world, control>>
    PROVE  LoadInv'
<1>1. PICK q \in Ensure :
              /\ ens' = [ens EXCEPT ![e] = q]
              /\ q.pc = pc /\ ~q.did /\ q.exit = "ok" /\ q.ws = r.ws /\ q.why = r.why
              /\ q.slot = r.slot /\ q.limit = r.limit
  BY CallRecord DEF IInv
<1>2. Replacing(q) <=> Replacing(ens[e])
  BY <1>1 DEF Replacing
<1>3. ~TookDown(q) /\ ~Counted(q)
  BY <1>1 DEF TookDown, Counted
<1>4. (Promised(q) => Promised(ens[e])) /\ (WillStart(q) => WillStart(ens[e]))
  BY <1>1 DEF Promised, WillStart
<1>5. Calm(ens[e], q)
  BY <1>1, <1>2, <1>3, <1>4 DEF Calm, Follows
<1>. QED
  BY <1>1, <1>5, CalmMove

LEMMA SettleIsCalm ==
    ASSUME IInv, IInv', Steady, LoadInv, NEW e \in Ensures, NEW r \in Ensure,
           NEW res \in {"running", "stopped", "starting", "error", "full"},
           Settles(e, r, res),
           r.ws = ens[e].ws, r.slot => ens[e].slot,
           Decided(ens[e]), ~TookDown(ens[e]), ~Replacing(ens[e]),
           UNCHANGED <<docker, world, control>>
    PROVE  LoadInv'
<1>1. PICK q \in Ensure :
              /\ ens' = [ens EXCEPT ![e] = q]
              /\ q.pc = "settled" /\ ~q.did /\ q.exit = "ok" /\ q.ws = r.ws
              /\ q.slot = r.slot
  BY SettleRecord DEF IInv
<1>2. ~Replacing(q) /\ ~TookDown(q) /\ ~Counted(q) /\ ~Promised(q) /\ ~WillStart(q)
  BY <1>1 DEF Replacing, TookDown, Counted, Promised, WillStart
<1>3. Calm(ens[e], q)
  BY <1>1, <1>2 DEF Calm, Follows
<1>. QED
  BY <1>1, <1>3, CalmMove

LEMMA AdoptsLoad ==
    ASSUME IInv, IInv', Steady, LoadInv, NEW e \in Ensures, Adopts(e)
    PROVE  LoadInv'
<1> DEFINE r == ens[e]
           c == r.saw
<1>1. r.pc = "inspect" /\ r.did /\ UNCHANGED <<docker, world, control>>
  BY DEF Adopts
<1>2. r \in Ensure /\ c \in Containers
  BY <1>1, UnderWay
<1>3. Decided(r) /\ ~TookDown(r) /\ (Replacing(r) <=> c = RunningOld)
  BY <1>1 DEF Decided, TookDown, Replacing
<1>4. ASSUME NEW why \in {"create", "start", "swap"}, Queues(e, r, why),
             why = "swap" <=> c = RunningOld, why = "start" => WillStart(r)
      PROVE  LoadInv'
  <2> DEFINE q == [r EXCEPT !.why = why]
  <2>1. q \in Ensure /\ q.ws = r.ws /\ q.slot = r.slot /\ q.why = why
    BY <1>2 DEF Ensure
  <2>2. Calls(e, q, "queue")
    BY <1>4 DEF Queues
  <2> HIDE DEF q
  <2>. QED
    BY <1>1, <1>3, <1>4, <2>1, <2>2, CallIsCalm DEF Pcs
<1>5. CASE c.state = "missing" /\ Queues(e, r, "create")
  BY <1>4, <1>5 DEF RunningOld
<1>6. CASE /\ c.fit = "foreign" \/ (c.fit = "oldimage" /\ c.state = "stopped")
           /\ Calls(e, r, "adopt-rm")
  BY <1>1, <1>2, <1>3, <1>6, CallIsCalm DEF Pcs, RunningOld
<1>7. CASE c.state = "running" /\ c.fit = "oldimage" /\ Queues(e, r, "swap")
  BY <1>2, <1>4, <1>7 DEF RunningOld, Containers
<1>8. CASE c.state = "running" /\ c.fit = "current" /\ Settles(e, r, "running")
  BY <1>1, <1>2, <1>3, <1>8, SettleIsCalm DEF RunningOld
<1>9. CASE c.state = "stopped" /\ c.fit = "current" /\ Queues(e, r, "start")
  BY <1>1, <1>4, <1>9 DEF RunningOld, WillStart
<1>. QED
  BY <1>5, <1>6, <1>7, <1>8, <1>9, Zenon DEF Adopts

LEMMA AdoptRemovedLoad ==
    ASSUME IInv, IInv', Steady, LoadInv, NEW e \in Ensures, AdoptRemoved(e)
    PROVE  LoadInv'
<1> DEFINE r == ens[e]
           q == [Unslotted(r) EXCEPT !.why = "create"]
<1>1. /\ r.pc = "adopt-rm" /\ r \in Ensure /\ UNCHANGED <<docker, world, control>>
      /\ Calls(e, q, "queue")
  BY DEF AdoptRemoved, Queues, IInv, TypeOK
<1>2. q \in Ensure /\ q.ws = r.ws /\ ~q.slot /\ q.why = "create"
  BY <1>1 DEF Unslotted, Ensure
<1> HIDE DEF q
<1>3. Decided(r) /\ ~TookDown(r) /\ ~Replacing(r)
  BY <1>1 DEF Decided, TookDown, Replacing
<1>. QED
  BY <1>1, <1>2, <1>3, CallIsCalm DEF Pcs

LEMMA AdmittedLoad ==
    ASSUME IInv, IInv', Steady, LoadInv, NEW e \in Ensures, Admitted(e)
    PROVE  LoadInv'
<1> DEFINE r == ens[e]
           q == [r EXCEPT !.limit = cap]
<1>1. /\ r.pc = "queue" /\ UNCHANGED <<docker, world, control>>
      /\ \/ r.why = "swap" /\ Calls(e, r, "swap-rm")
         \/ r.why # "swap" /\ Calls(e, q, "count")
  BY Zenon DEF Admitted
<1>0. r \in Ensure
  BY DEF IInv, TypeOK
<1>2. q \in Ensure /\ q.ws = r.ws /\ q.slot = r.slot /\ q.why = r.why /\ q.limit = cap
  BY <1>0 DEF Ensure, IInv, TypeOK
<1> HIDE DEF q
<1>3. /\ Decided(r) /\ ~TookDown(r) /\ (Replacing(r) <=> r.why = "swap")
      /\ r.why = "start" => WillStart(r)
  BY <1>1 DEF Decided, TookDown, Replacing, WillStart
<1>4. CASE r.why = "swap" /\ Calls(e, r, "swap-rm")
  BY <1>0, <1>1, <1>3, <1>4, CallIsCalm DEF Pcs
<1>5. CASE r.why # "swap" /\ Calls(e, q, "count")
  BY <1>1, <1>2, <1>3, <1>5, CallIsCalm DEF Pcs
<1>. QED
  BY <1>1, <1>4, <1>5

LEMMA StartedLoad ==
    ASSUME IInv, IInv', Steady, LoadInv, NEW e \in Ensures, Started(e)
    PROVE  LoadInv'
<1>1. /\ ens[e].pc = "start" /\ ens[e] \in Ensure /\ UNCHANGED <<docker, world, control>>
      /\ Calls(e, ens[e], "reinspect") \/ Calls(e, ens[e], "adopt-rm")
  BY DEF Started, IInv, TypeOK
<1>2. Decided(ens[e]) /\ ~TookDown(ens[e]) /\ ~Replacing(ens[e])
  BY <1>1 DEF Decided, TookDown, Replacing
<1>. QED
  BY <1>1, <1>2, CallIsCalm DEF Pcs

\* The steps of a create, and the end of a start.
LEMMA ReinspectedLoad ==
    ASSUME IInv, IInv', Steady, LoadInv, NEW e \in Ensures,
           Reinspected(e) \/ Prepares(e) \/ Ran(e) \/ Verified(e)
    PROVE  LoadInv'
<1> DEFINE r == ens[e]
<1>1. /\ r.pc \in {"reinspect", "prepare", "run", "verify"}
      /\ UNCHANGED <<docker, world, control>>
  BY DEF Reinspected, Prepares, Ran, Verified
<1>2. r \in Ensure /\ r.saw \in Containers
  BY <1>1, UnderWay
<1>3. Decided(r) /\ ~TookDown(r) /\ ~Replacing(r)
  BY <1>1 DEF Decided, TookDown, Replacing
<1>4. ASSUME NEW res \in {"running", "stopped", "starting", "error", "full"},
             Settles(e, Unslotted(r), res)
      PROVE  LoadInv'
  <2>1. Unslotted(r) \in Ensure /\ ~Unslotted(r).slot /\ Unslotted(r).ws = r.ws
    BY <1>2, RecordFacts
  <2>. QED
    BY <1>1, <1>3, <1>4, <2>1, SettleIsCalm
<1>5. ASSUME NEW pc \in {"adopt-rm", "verify"}, Calls(e, r, pc)
      PROVE  LoadInv'
  BY <1>1, <1>2, <1>3, <1>5, CallIsCalm DEF Pcs
<1>6. CASE Reinspected(e)
  <2>1. CASE r.saw.state = "missing" \/ r.saw.fit = "foreign"
    BY <1>5, <1>6, <2>1 DEF Reinspected
  <2>2. CASE ~(r.saw.state = "missing" \/ r.saw.fit = "foreign")
    <3>1. r.saw.state \in {"running", "stopped"} /\ Settles(e, Unslotted(r), r.saw.state)
      BY <1>2, <1>6, <2>2 DEF Reinspected, Containers
    <3>. QED
      BY <1>4, <3>1
  <2>. QED
    BY <2>1, <2>2
<1>7. CASE Prepares(e)
  <2>1. r.pc = "prepare" /\ Calls(e, r, "run") /\ Promised(r)
    BY <1>7 DEF Prepares, Steady, Promised
  <2>. QED
    BY <1>1, <1>2, <1>3, <2>1, CallIsCalm DEF Pcs
<1>8. CASE Ran(e)
  <2>1. r.exit # "bind"
    BY DEF LoadInv, OldInv, LookInv
  <2>2. Calls(e, r, "verify") \/ Fails(e)
    BY <1>8, <2>1 DEF Ran
  <2>. QED
    BY <1>4, <1>5, <2>2 DEF Fails
<1>9. CASE Verified(e)
  <2>1. PICK st \in {"starting", "running", "stopped"} : Settles(e, Unslotted(r), st)
    BY <1>2, <1>9 DEF Verified, Containers
  <2>. QED
    BY <1>4, <2>1
<1>. QED
  BY <1>6, <1>7, <1>8, <1>9

\* An admission: the count it was given is no lower than what has become of it,
\* so below the cap there is room for one more.
LEMMA CheckedLoad ==
    ASSUME IInv, IInv', Steady, LoadInv, NEW e \in Ensures, Checked(e)
    PROVE  LoadInv'
<1> DEFINE r == ens[e]
           s == [Slotted(r) EXCEPT !.limit = 0]
           pc == IF r.why = "start" THEN "start" ELSE "prepare"
<1>1. /\ r.pc = "count" /\ r.did /\ UNCHANGED <<docker, world, control>>
  BY DEF Checked
<1>2. r \in Ensure /\ r.slot \in BOOLEAN /\ ~r.slot
  BY <1>1, UnderWay DEF SlotFits
<1>3. Decided(r) /\ ~TookDown(r) /\ ~Replacing(r) /\ Counted(r) /\ ~Promised(r)
  BY <1>1 DEF Decided, TookDown, Replacing, Counted, Promised
<1>4. CASE Settles(e, r, "full")
  BY <1>1, <1>2, <1>3, <1>4, SettleIsCalm
<1>5. CASE ~NoRoom(r) /\ Calls(e, s, pc)
  <2>1. s \in Ensure /\ s.ws = r.ws /\ s.slot /\ s.why = r.why
    BY <1>2 DEF Slotted, Ensure
  <2>2. pc \in {"start", "prepare"} /\ (pc = "start" => r.why = "start")
    OBVIOUS
  <2> HIDE DEF s, pc
  <2>3. PICK q \in Ensure :
              /\ ens' = [ens EXCEPT ![e] = q]
              /\ q.pc = pc /\ ~q.did /\ q.exit = "ok" /\ q.ws = r.ws /\ q.why = r.why
              /\ q.slot
    <3>1. pc \in Pcs
      BY <2>2 DEF Pcs
    <3>. QED
      BY <1>5, <2>1, <3>1, CallRecord DEF IInv
  <2>4. /\ ens'[e] = q /\ \A f \in Ensures : f # e => ens'[f] = ens[f]
    BY <2>3 DEF IInv, TypeOK
  <2>5. /\ ~Replacing(q) /\ ~TookDown(q) /\ ~Counted(q)
        /\ WillStart(q) => WillStart(r)
    BY <1>1, <2>2, <2>3 DEF Replacing, TookDown, Counted, WillStart
  <2>6. Follows(r, q)
    BY <1>3, <2>2, <2>3, <2>5 DEF Follows
  <2>7. \A f \in Ensures : Follows(ens[f], ens'[f])
    BY <2>4, <2>6 DEF Follows, LoadInv, OldInv, LookInv
  <2>8. \A f \in Ensures : ~Counted(ens'[f])
    BY <1>1, <2>4, <2>5 DEF IInv, HoldsLock, Counted
  <2>9. OldRunning' = OldRunning /\ Running' = Running /\ Replaced' = Replaced
    BY <1>1, <2>7, ReplacedKept DEF OldRunning, Running
  <2>10. TakenDown' = TakenDown /\ Touched' = Touched
    BY <1>1, <1>3, <2>4, <2>5 DEF TakenDown, Touched, world
  <2>11. Claims' = Claims /\ Gone' = Gone /\ Lost' = Lost
    BY <2>9, <2>10 DEF Claims, Gone, Lost
  <2>12. LostInv'
    BY <1>1, <2>10, <2>11 DEF LoadInv, LostInv, world
  <2>13. OldInv'
    <3>1. \A f \in Ensures : InFlight(f)' => InFlight(f) /\ ens'[f].ws = ens[f].ws
      BY <1>1, <2>3, <2>4 DEF InFlight
    <3>2. \A f \in Ensures : NewestKnows(f)'
      BY <1>1, <3>1 DEF NewestKnows, LoadInv, OldInv, LookInv, control
    <3>3. \A o \in Ops : ServedInv(o)'
      BY <1>1 DEF LoadInv, OldInv, ServedInv, world
    <3>4. \A f \in Ensures : TookDown(ens'[f]) => TookDown(ens[f])
      BY <2>4, <2>5
    <3>. QED
      BY <1>1, <2>7, <2>9, <3>2, <3>3, <3>4, OldKept DEF LoadInv
  <2>14. NumbersInv'
    <3>1. r.n + pending < cap /\ r.n \in Nat /\ cap \in Nat /\ pending \in Nat
      <4>1. r.limit = cap
        BY <1>1 DEF LoadInv, OldInv, LookInv
      <4>2. r.n \in Nat
        BY <1>2 DEF Ensure
      <4>3. cap \in Nat /\ pending \in Nat
        BY DEF IInv, TypeOK, RuntimeAssumption
      <4>. QED
        BY <1>5, <4>1, <4>2, <4>3 DEF NoRoom
    <3>2. pending = Cardinality(SlotHolders)
      BY DEF IInv, SlotAccounting, SlotHolders
    <3>3. /\ Cardinality(Claims) <= r.n + Unearned
          /\ Load <= r.n + cap + Unearned
      BY <1>3 DEF LoadInv, NumbersInv
    <3>4. /\ SlotHolders' \subseteq SlotHolders \cup {e}
          /\ Promises' \subseteq Promises \cup {e}
      BY <2>4 DEF SlotHolders, Promises
    <3>5. /\ IsFiniteSet(SlotHolders) /\ IsFiniteSet(SlotHolders')
          /\ IsFiniteSet(Promises) /\ IsFiniteSet(Promises')
      <4>1. /\ SlotHolders \subseteq Ensures /\ SlotHolders' \subseteq Ensures
            /\ Promises \subseteq Ensures /\ Promises' \subseteq Ensures
        BY DEF SlotHolders, Promises
      <4>. QED
        BY <4>1, EnsureSet
    <3>6. /\ Cardinality(SlotHolders)' <= Cardinality(SlotHolders) + 1
          /\ Cardinality(Promises)' <= Cardinality(Promises) + 1
      BY <3>4, <3>5, Sized
    <3>7. Load' <= Load + 1 /\ Load \in Nat /\ Load' \in Nat
      BY <2>9, <2>11, <3>6, NumberTypes DEF Load
    <3>8. cap' = cap /\ Unearned' = Unearned /\ Unearned \in Nat
      BY <1>1, UnearnedType DEF Unearned, world, IInv
    <3>9. Cardinality(SlotHolders)' + Cardinality(Claims)' <= cap' + Unearned'
      BY <2>11, <3>1, <3>2, <3>3, <3>6, <3>8, NumberTypes
    <3>10. Load' <= 2 * cap' + Unearned'
      BY <3>1, <3>2, <3>3, <3>7, <3>8
    <3>. QED
      BY <2>8, <3>9, <3>10 DEF NumbersInv
  <2>. QED
    BY <2>12, <2>13, <2>14 DEF LoadInv
<1>. QED
  BY <1>4, <1>5, Zenon DEF Checked

\* The ensure that replaces a container has its slot now.
LEMMA SwappedLoad ==
    ASSUME IInv, IInv', Steady, LoadInv, NEW e \in Ensures, Swapped(e)
    PROVE  LoadInv'
<1> DEFINE r == ens[e]
           s == [Slotted(r) EXCEPT !.handed = TRUE]
           w == r.ws
<1>1. /\ r.pc = "swap-rm" /\ r.did /\ UNCHANGED <<docker, world, control>>
      /\ Calls(e, s, "prepare")
  BY DEF Swapped
<1>2. r \in Ensure /\ w \in Workspaces /\ docker[w] \in Containers
  BY <1>1, UnderWay DEF IInv, TypeOK
<1>3. s \in Ensure /\ s.ws = w /\ s.slot /\ s.why = r.why
  BY <1>2 DEF Slotted, Ensure
<1> HIDE DEF s
<1>4. PICK q \in Ensure :
            /\ ens' = [ens EXCEPT ![e] = q]
            /\ q.pc = "prepare" /\ ~q.did /\ q.exit = "ok" /\ q.ws = w /\ q.slot
  BY <1>1, <1>3, CallRecord DEF IInv, Pcs
<1>5. /\ ens'[e] = q /\ \A f \in Ensures : f # e => ens'[f] = ens[f]
  BY <1>4 DEF IInv, TypeOK
<1>6. Replacing(r) /\ TookDown(r) /\ Decided(r)
  BY <1>1 DEF Replacing, TookDown, Decided
<1>7. ~Replacing(q) /\ ~TookDown(q) /\ ~Counted(q) /\ ~WillStart(q)
  BY <1>4 DEF Replacing, TookDown, Counted, WillStart
<1>8. docker[w].fit # "oldimage" /\ w \notin OldRunning
  BY <1>6 DEF LoadInv, OldInv, LookInv, OldRunning, RunningOld
<1>9. \A f \in Ensures : f # e /\ Replacing(ens[f]) => ens[f].ws # w
  BY <1>6 DEF LoadInv, OldInv, OneReplaces
<1>10. \A f \in Ensures : TookDown(ens[f]) => Replacing(ens[f])
  BY DEF TookDown, Replacing
<1>11. OldRunning' = OldRunning /\ Running' = Running /\ Touched' = Touched
  BY <1>1 DEF OldRunning, Running, Touched, world
<1>12. Replaced' = Replaced \ {w} /\ w \in Replaced
  BY <1>2, <1>5, <1>6, <1>7, <1>9 DEF Replaced
<1>13. TakenDown' = TakenDown \ {w} /\ w \in TakenDown
  BY <1>2, <1>5, <1>6, <1>7, <1>9, <1>10 DEF TakenDown
<1>14. /\ Claims' = Claims \ {w} /\ w \in Claims
       /\ Gone' = Gone \ {w} /\ w \in Gone
       /\ Lost' = Lost
  BY <1>8, <1>11, <1>12, <1>13 DEF Claims, Gone, Lost
<1>15. LostInv'
  BY <1>1, <1>11, <1>14 DEF LoadInv, LostInv, world
<1>16. OldInv'
  <2>1. \A f \in Ensures : InFlight(f)' => InFlight(f) /\ ens'[f].ws = ens[f].ws
    BY <1>1, <1>4, <1>5 DEF InFlight
  <2>2. \A f \in Ensures : LookInv(f)'
    <3> TAKE f \in Ensures
    <3>1. LookInv(f) /\ cap' = cap /\ active' = active /\ docker' = docker
      BY <1>1 DEF LoadInv, OldInv, world, control
    <3>2. CASE f = e
      BY <1>4, <1>5, <1>6, <1>7, <1>8, <1>11, <2>1, <3>1, <3>2 DEF LookInv
    <3>3. CASE f # e
      BY <1>5, <1>11, <2>1, <3>1, <3>3 DEF LookInv, InFlight
    <3>. QED
      BY <3>2, <3>3
  <2>3. \A o \in Ops : ServedInv(o)'
    BY <1>1 DEF LoadInv, OldInv, ServedInv, world
  <2>4. OneReplaces'
    BY <1>5, <1>7 DEF LoadInv, OldInv, OneReplaces
  <2>5. \A v \in Workspaces : FitInv(v)'
    BY <1>1 DEF LoadInv, OldInv, FitInv
  <2>. QED
    BY <2>2, <2>3, <2>4, <2>5 DEF OldInv
<1>17. NumbersInv'
  <2>1. /\ IsFiniteSet(SlotHolders) /\ IsFiniteSet(SlotHolders')
        /\ IsFiniteSet(Promises) /\ IsFiniteSet(Promises')
        /\ IsFiniteSet(Claims) /\ IsFiniteSet(Gone)
    <3>1. /\ SlotHolders \subseteq Ensures /\ SlotHolders' \subseteq Ensures
          /\ Promises \subseteq Ensures /\ Promises' \subseteq Ensures
      BY DEF SlotHolders, Promises
    <3>2. Claims \subseteq Workspaces /\ Gone \subseteq Workspaces
      BY DEF Claims, Gone, OldRunning, Replaced
    <3>. QED
      BY <3>1, <3>2, EnsureSet, WorkspaceSet
  <2>2. /\ SlotHolders' \subseteq SlotHolders \cup {e}
        /\ Promises' \subseteq Promises \cup {e}
    BY <1>5 DEF SlotHolders, Promises
  <2>3. /\ Cardinality(SlotHolders)' <= Cardinality(SlotHolders) + 1
        /\ Cardinality(Promises)' <= Cardinality(Promises) + 1
    BY <2>1, <2>2, Sized
  <2>4. /\ Cardinality(Claims)' = Cardinality(Claims) - 1
        /\ Cardinality(Gone)' = Cardinality(Gone) - 1
    <3>1. /\ Cardinality(Claims \ {w}) = Cardinality(Claims) - 1
          /\ Cardinality(Gone \ {w}) = Cardinality(Gone) - 1
      BY ZenonT(60), <1>14, <2>1, FS_RemoveElement
    <3>. QED
      BY <1>14, <3>1
  <2>5. Load' <= Load
    BY <1>11, <2>3, <2>4, NumberTypes DEF Load
  <2>6. /\ Cardinality(SlotHolders)' + Cardinality(Claims)'
               <= Cardinality(SlotHolders) + Cardinality(Claims)
        /\ Cardinality(Claims)' <= Cardinality(Claims)
    BY <2>3, <2>4, NumberTypes
  <2>7. Unearned <= Unearned'
    BY <1>1, UnearnedType DEF Unearned, world, IInv
  <2>8. \A f \in Ensures : Counted(ens'[f]) => Counted(ens[f]) /\ ens'[f].n = ens[f].n
    BY <1>5, <1>7
  <2>. QED
    BY <2>5, <2>6, <2>7, <2>8, NumbersKept DEF IInv, LoadInv
<1>. QED
  BY <1>15, <1>16, <1>17 DEF LoadInv

-----------------------------------------------------------------------------
(* The daemon                                                              *)

\* An ensure is told of a container; only one of an old image matters.
LEMMA InspectedLoad ==
    ASSUME IInv, IInv', Steady, LoadInv, NEW e \in Ensures, DaemonInspects(e)
    PROVE  LoadInv'
<1> DEFINE r == ens[e]
           w == r.ws
           q == [[ens[e] EXCEPT !.saw = docker[ens[e].ws]] EXCEPT !.did = TRUE]
<1>1. /\ r.pc \in {"inspect", "reinspect", "verify"} /\ ~r.did
      /\ UNCHANGED <<docker, world, control>>
      /\ ens' = [ens EXCEPT ![e] = q]
  BY DEF DaemonInspects, Seen, Returns, Steady
<1>2. /\ r \in Ensure /\ w \in Workspaces /\ docker[w] \in Containers /\ InFlight(e)
  BY <1>1, UnderWay DEF IInv, TypeOK
<1>3. /\ q \in Ensure /\ q.pc = r.pc /\ q.did /\ q.ws = w /\ q.exit = r.exit
      /\ q.slot = r.slot /\ q.limit = r.limit /\ q.saw = docker[w] /\ q.why = r.why
  BY <1>2 DEF Ensure
<1> HIDE DEF q
<1>4. /\ ~TookDown(q) /\ ~TookDown(r) /\ ~Counted(q) /\ ~Promised(q) /\ ~Replacing(r)
      /\ r.exit # "bind"
  BY <1>1, <1>3 DEF TookDown, Counted, Promised, Replacing, LoadInv, OldInv, LookInv
<1>5. CASE r.pc # "inspect"
  <2>1. Decided(r) /\ ~Replacing(q) /\ ~WillStart(q)
    BY <1>1, <1>3, <1>5 DEF Decided, Replacing, WillStart
  <2>2. Calm(r, q)
    BY <1>1, <1>3, <1>4, <2>1 DEF Calm, Follows
  <2>. QED
    BY <1>1, <1>3, <2>1, <2>2, CalmMove
<1>6. CASE r.pc = "inspect"
  <2>1. /\ ens'[e] = q /\ \A f \in Ensures : f # e => ens'[f] = ens[f]
    BY <1>1, <1>3 DEF IInv, TypeOK
  <2>2. /\ Replacing(q) <=> docker[w] = RunningOld
        /\ WillStart(q) => docker[w].fit = "current"
    BY <1>3, <1>6 DEF Replacing, WillStart
  <2>3. OldRunning' = OldRunning /\ Running' = Running /\ Touched' = Touched
    BY <1>1 DEF OldRunning, Running, Touched, world
  <2>4. TakenDown' = TakenDown
    BY <1>4, <2>1 DEF TakenDown
  <2>5. Claims' = Claims /\ Gone' = Gone /\ Lost' = Lost
    <3>1. \A v \in Workspaces : v \notin OldRunning => (v \in Replaced' <=> v \in Replaced)
      BY <1>2, <1>3, <1>4, <2>1, <2>2 DEF Replaced, OldRunning
    <3>2. /\ OldRunning \subseteq Workspaces /\ Replaced \subseteq Workspaces
          /\ Replaced' \subseteq Workspaces
      BY DEF OldRunning, Replaced
    <3>. QED
      BY <2>3, <2>4, <3>1, <3>2 DEF Claims, Gone, Lost
  <2>6. SlotHolders' = SlotHolders /\ Promises' \subseteq Promises
    BY <1>3, <1>4, <2>1 DEF SlotHolders, Promises
  <2>7. LostInv'
    BY <1>1, <2>3, <2>5 DEF LoadInv, LostInv, world
  <2>8. NumbersInv'
    <3>1. /\ Cardinality(SlotHolders)' = Cardinality(SlotHolders)
          /\ Cardinality(Promises)' <= Cardinality(Promises)
      <4>1. IsFiniteSet(Promises)
        <5>1. Promises \subseteq Ensures
          BY DEF Promises
        <5>. QED
          BY <5>1, EnsureSet
      <4>. QED
        BY <2>6, <4>1, FS_Subset
    <3>2. Load' <= Load
      BY <2>3, <2>5, <3>1, NumberTypes DEF Load
    <3>3. /\ Cardinality(SlotHolders)' + Cardinality(Claims)'
                 <= Cardinality(SlotHolders) + Cardinality(Claims)
          /\ Cardinality(Claims)' <= Cardinality(Claims)
      BY <2>5, <3>1, NumberTypes
    <3>4. Unearned <= Unearned'
      BY <1>1, UnearnedType DEF Unearned, world, IInv
    <3>5. \A f \in Ensures : Counted(ens'[f]) => Counted(ens[f]) /\ ens'[f].n = ens[f].n
      BY <1>4, <2>1
    <3>. QED
      BY <3>2, <3>3, <3>4, <3>5, NumbersKept DEF IInv, LoadInv
  <2>9. OldInv'
    <3>1. cap' = cap /\ active' = active /\ docker' = docker
      BY <1>1 DEF world, control
    <3>2. \A f \in Ensures : LookInv(f)'
      <4> TAKE f \in Ensures
      <4>1. LookInv(f) /\ FitInv(w)
        BY <1>2 DEF LoadInv, OldInv
      <4>2. CASE f # e
        BY <2>1, <2>3, <3>1, <4>1, <4>2 DEF LookInv, InFlight
      <4>3. CASE f = e
        <5>1. Replacing(q) => "oldimage" \in Fits
          BY <2>2, <4>1 DEF FitInv, RunningOld
        <5>2. ~Replacing(q) => w \notin OldRunning
          BY <2>2 DEF OldRunning
        <5>. QED
          BY <1>2, <1>3, <1>4, <1>6, <2>1, <2>2, <2>3, <3>1, <4>1, <4>3, <5>1, <5>2
             DEF LookInv, InFlight
      <4>. QED
        BY <4>2, <4>3
    <3>3. OneReplaces'
      <4>1. \A f \in Ensures : Replacing(ens[f]) => InFlight(f)
        BY DEF Replacing, InFlight
      <4>2. docker[w] = RunningOld => \A f \in Ensures : InFlight(f) /\ ens[f].ws = w => f = e
        BY <1>2 DEF LoadInv, OldInv, LookInv, RunningOld
      <4>. QED
        BY <1>3, <2>1, <2>2, <4>1, <4>2 DEF LoadInv, OldInv, OneReplaces
    <3>4. /\ \A o \in Ops : ServedInv(o)'
          /\ \A v \in Workspaces : FitInv(v)'
      BY <1>1 DEF LoadInv, OldInv, ServedInv, FitInv, world
    <3>. QED
      BY <3>2, <3>3, <3>4 DEF OldInv
  <2>. QED
    BY <2>7, <2>8, <2>9 DEF LoadInv
<1>. QED
  BY <1>5, <1>6

\* At the moment of the count, what is out is bounded by what is counted.
LEMMA CountedLoad ==
    ASSUME IInv, IInv', Steady, LoadInv, NEW e \in Ensures, DaemonCounts(e)
    PROVE  LoadInv'
<1> DEFINE r == ens[e]
           q == [[ens[e] EXCEPT !.n = Cardinality(Running)] EXCEPT !.did = TRUE]
<1>1. /\ r.pc = "count" /\ ~r.did /\ UNCHANGED <<docker, world, control, pending, lockq>>
      /\ ens' = [ens EXCEPT ![e] = q]
  BY DEF DaemonCounts, Returns, Steady
<1>2. r \in Ensure /\ Cardinality(Running) \in Nat
  BY NumberTypes DEF IInv, TypeOK
<1>3. /\ q \in Ensure /\ q.pc = r.pc /\ q.did /\ q.ws = r.ws /\ q.exit = r.exit
      /\ q.slot = r.slot /\ q.limit = r.limit /\ q.n = Cardinality(Running)
      /\ q.why = r.why
  BY <1>2 DEF Ensure
<1> HIDE DEF q
<1>4. /\ ens'[e] = q /\ \A f \in Ensures : f # e => ens'[f] = ens[f]
  BY <1>1, <1>3 DEF IInv, TypeOK
<1>5. /\ ~TookDown(q) /\ ~TookDown(r) /\ ~Promised(q) /\ ~Promised(r)
      /\ ~Replacing(q) /\ ~Replacing(r) /\ Decided(r) /\ Counted(q)
      /\ WillStart(q) => WillStart(r)
  BY <1>1, <1>3 DEF TookDown, Counted, Promised, Replacing, WillStart, Decided
<1>6. Follows(r, q)
  BY <1>1, <1>3, <1>5 DEF Follows, LoadInv, OldInv, LookInv
<1>7. \A f \in Ensures : Follows(ens[f], ens'[f])
  BY <1>4, <1>6 DEF Follows, LoadInv, OldInv, LookInv
<1>8. /\ OldRunning' = OldRunning /\ Running' = Running /\ Replaced' = Replaced
      /\ Touched' = Touched
  BY <1>1, <1>7, ReplacedKept DEF OldRunning, Running, Touched, world
<1>9. TakenDown' = TakenDown /\ Promises' = Promises /\ SlotHolders' = SlotHolders
  BY <1>3, <1>4, <1>5 DEF TakenDown, Promises, SlotHolders
<1>10. Claims' = Claims /\ Gone' = Gone /\ Lost' = Lost /\ Load' = Load
  BY <1>8, <1>9 DEF Claims, Gone, Lost, Load
<1>11. /\ cap' = cap /\ Unearned' = Unearned /\ Unearned \in Nat /\ cap \in Nat
       /\ deaths' = deaths /\ opsBegun \in Nat /\ deaths \in Nat
  BY <1>1, UnearnedType DEF Unearned, world, IInv, TypeOK, RuntimeAssumption
<1>12. LostInv'
  BY <1>8, <1>10, <1>11 DEF LoadInv, LostInv
<1>13. OldInv'
  <2>1. \A f \in Ensures : InFlight(f)' => InFlight(f) /\ ens'[f].ws = ens[f].ws
    BY <1>3, <1>4 DEF InFlight
  <2>2. \A f \in Ensures : NewestKnows(f)'
    BY <1>1, <2>1 DEF NewestKnows, LoadInv, OldInv, LookInv, control
  <2>3. \A o \in Ops : ServedInv(o)'
    BY <1>1 DEF LoadInv, OldInv, ServedInv, world
  <2>4. \A f \in Ensures : TookDown(ens'[f]) => TookDown(ens[f])
    BY <1>4, <1>5
  <2>. QED
    BY <1>1, <1>7, <1>8, <2>2, <2>3, <2>4, OldKept DEF LoadInv
\* Nobody takes a container down while e holds the lock, so those that are gone
\* died, or a stop or remove that has begun took them.
<1>14. Cardinality(Gone) <= Unearned
  <2>1. TakenDown = {}
    BY <1>1 DEF TakenDown, TookDown, IInv, HoldsLock
  <2>2. Lost = Gone
    BY <2>1 DEF Lost
  <2>3. /\ IsFiniteSet(Gone) /\ IsFiniteSet(Touched) /\ Cardinality(Touched) <= opsBegun
        /\ IsFiniteSet(Gone \ Touched)
    <3>1. Gone \subseteq Workspaces /\ Gone \ Touched \subseteq Workspaces
      BY DEF Gone, Replaced
    <3>. QED
      BY <3>1, WorkspaceSet, TouchedIsFinite DEF IInv
  <2>4. Cardinality(Gone \ Touched) <= deaths
    BY <2>2 DEF LoadInv, LostInv
  <2>5. Cardinality(Gone) <= Cardinality(Gone \ Touched) + Cardinality(Touched)
    <3>1. /\ IsFiniteSet(Gone \cap Touched)
          /\ Cardinality(Gone \cap Touched) <= Cardinality(Touched)
      BY <2>3, FS_Subset
    <3>2. /\ Cardinality(Gone \ Touched)
                = Cardinality(Gone) - Cardinality(Gone \cap Touched)
      BY <2>3, FS_Difference
    <3>3. /\ Cardinality(Gone) \in Nat /\ Cardinality(Touched) \in Nat
          /\ Cardinality(Gone \cap Touched) \in Nat
      BY <2>3, <3>1, FS_CardinalityType
    <3>. QED
      BY <3>1, <3>2, <3>3
  <2>6. /\ Cardinality(Gone) \in Nat /\ Cardinality(Touched) \in Nat
        /\ Cardinality(Gone \ Touched) \in Nat
    BY <2>3, FS_CardinalityType
  <2>7. CASE "oldimage" \in Fits
    BY <1>11, <2>3, <2>4, <2>5, <2>6, <2>7 DEF Unearned
  <2>8. CASE "oldimage" \notin Fits
    <3>1. Gone = {}
      BY <2>8 DEF Gone, Replaced, LoadInv, OldInv, LookInv
    <3>2. Cardinality(Gone) = 0
      BY <3>1, FS_EmptySet
    <3>. QED
      BY <1>11, <3>2
  <2>. QED
    BY <2>7, <2>8
<1>15. Cardinality(Claims) <= Cardinality(Running) + Unearned
  <2>1. /\ IsFiniteSet(OldRunning) /\ IsFiniteSet(Gone) /\ IsFiniteSet(Running)
        /\ OldRunning \subseteq Running
    <3>1. /\ OldRunning \subseteq Workspaces /\ Gone \subseteq Workspaces
          /\ Running \subseteq Workspaces /\ OldRunning \subseteq Running
      BY DEF OldRunning, Gone, Replaced, Running, RunningOld
    <3>. QED
      BY <3>1, WorkspaceSet
  <2>2. Claims = OldRunning \cup Gone /\ OldRunning \cap Gone = {}
    BY DEF Claims, Gone
  <2>3. Cardinality(Claims) = Cardinality(OldRunning) + Cardinality(Gone)
    <3>1. Cardinality(OldRunning \cup Gone)
            = Cardinality(OldRunning) + Cardinality(Gone) - Cardinality(OldRunning \cap Gone)
      BY <2>1, FS_Union
    <3>2. /\ Cardinality(OldRunning \cap Gone) = 0
          /\ Cardinality(OldRunning) \in Nat /\ Cardinality(Gone) \in Nat
      BY <2>1, <2>2, FS_EmptySet, FS_CardinalityType
    <3>. QED
      BY <2>2, <3>1, <3>2
  <2>4. /\ Cardinality(OldRunning) <= Cardinality(Running)
        /\ Cardinality(OldRunning) \in Nat
    BY <2>1, FS_Subset, FS_CardinalityType
  <2>. QED
    BY <1>2, <1>11, <1>14, <2>3, <2>4, NumberTypes
<1>16. Load <= Cardinality(Running) + cap + Unearned
  <2>1. Cardinality(SlotHolders) + Cardinality(Claims) <= cap + Unearned
    BY DEF LoadInv, NumbersInv
  <2>2. Cardinality(Promises) <= Cardinality(SlotHolders)
    <3>1. Promises \subseteq SlotHolders
      BY DEF Promises, SlotHolders, Promised, IInv, EnsureInv, SlotPc, SlotFits
    <3>2. IsFiniteSet(SlotHolders)
      BY FinitelyManyHolders
    <3>. QED
      BY <3>1, <3>2, FS_Subset
  <2>3. Cardinality(Gone) <= Cardinality(Claims)
    <3>1. Gone \subseteq Claims /\ Claims \subseteq Workspaces
      BY DEF Gone, Claims, OldRunning, Replaced
    <3>. QED
      BY <3>1, WorkspaceSet, FS_Subset
  <2>. QED
    BY <1>11, <2>1, <2>2, <2>3, NumberTypes DEF Load
<1>17. NumbersInv'
  <2>1. \A f \in Ensures : Counted(ens'[f]) => f = e
    BY <1>1, <1>4 DEF IInv, HoldsLock, Counted
  <2>2. \A f \in Ensures : Counted(ens'[f]) => ens'[f].n = Cardinality(Running)
    BY <1>3, <1>4, <2>1
  <2>3. /\ Cardinality(SlotHolders)' = Cardinality(SlotHolders)
        /\ Cardinality(Claims)' = Cardinality(Claims)
    BY <1>9, <1>10
  <2>4. /\ Cardinality(SlotHolders)' + Cardinality(Claims)' <= cap' + Unearned'
        /\ Load' <= 2 * cap' + Unearned'
    BY <1>10, <1>11, <2>3 DEF LoadInv, NumbersInv
  <2>. QED
    BY <1>10, <1>11, <1>15, <1>16, <2>2, <2>3, <2>4 DEF NumbersInv
<1>. QED
  BY <1>12, <1>13, <1>17 DEF LoadInv

\* docker rm -f by an ensure: of a container that is in the way, or of the one
\* it replaces.
LEMMA RemovedLoad ==
    ASSUME IInv, IInv', Steady, LoadInv, NEW e \in Ensures, DaemonRemoves(e)
    PROVE  LoadInv'
<1> DEFINE r == ens[e]
           w == r.ws
           q == [ens[e] EXCEPT !.did = TRUE]
<1>1. /\ r.pc \in {"adopt-rm", "swap-rm"} /\ ~r.did
      /\ UNCHANGED <<world, control>>
      /\ ens' = [ens EXCEPT ![e] = q]
      /\ docker' = [docker EXCEPT ![w] = Missing]
  BY DEF DaemonRemoves, OrNot, Returns, Steady
<1>2. r \in Ensure /\ w \in Workspaces /\ InFlight(e) /\ Missing \in Containers
  BY <1>1, UnderWay DEF IInv, TypeOK, Missing, Containers
<1>3. /\ q \in Ensure /\ q.pc = r.pc /\ q.did /\ q.ws = w /\ q.exit = r.exit
      /\ q.slot = r.slot /\ q.limit = r.limit /\ q.why = r.why
  BY <1>2 DEF Ensure
<1> HIDE DEF q
<1>4. /\ ens'[e] = q /\ \A f \in Ensures : f # e => ens'[f] = ens[f]
  BY <1>1, <1>3 DEF IInv, TypeOK
<1>5. /\ ~TookDown(r) /\ ~Promised(q) /\ ~Counted(q) /\ ~WillStart(q) /\ Decided(r)
      /\ Replacing(q) <=> Replacing(r)
      /\ Replacing(r) <=> r.pc = "swap-rm"
      /\ TookDown(q) <=> r.pc = "swap-rm"
  BY <1>1, <1>3 DEF TookDown, Promised, Counted, WillStart, Decided, Replacing
<1>6. docker'[w] = Missing /\ Missing.state = "missing" /\ Missing.fit = "current"
  BY <1>1, <1>2 DEF IInv, TypeOK, Missing
<1>7. \A f \in Ensures :
        /\ Follows(ens[f], ens'[f])
        /\ TookDown(ens'[f]) => TookDown(ens[f]) \/ docker'[ens'[f].ws].fit # "oldimage"
        /\ Promised(ens'[f]) => Promised(ens[f])
        /\ Counted(ens'[f]) => Counted(ens[f]) /\ ens'[f].n = ens[f].n
        /\ ens'[f].slot => ens[f].slot
  <2>1. Follows(r, q)
    BY <1>1, <1>3, <1>5 DEF Follows, LoadInv, OldInv, LookInv
  <2>2. \A f \in Ensures : Follows(ens[f], ens[f])
    BY DEF Follows, LoadInv, OldInv, LookInv
  <2>. QED
    BY <1>3, <1>4, <1>5, <1>6, <2>1, <2>2
<1>8. \A f \in Ensures : InFlight(f)' => InFlight(f) /\ ens'[f].ws = ens[f].ws
  BY <1>3, <1>4 DEF InFlight
<1>9. /\ active' = active /\ deaths' = deaths /\ opsBegun' = opsBegun
      /\ deaths <= deaths' /\ opsBegun <= opsBegun' /\ Touched' = Touched
  BY <1>1, UnearnedType DEF control, world, IInv, Touched
<1>10. \A o \in Ops : ServedInv(o)'
  BY <1>1, <1>2, <1>6 DEF LoadInv, OldInv, ServedInv, world, IInv, TypeOK, OpInv
<1>11. /\ OldInv' /\ NumbersInv'
       /\ OldRunning' = OldRunning \ {w} /\ Replaced' = Replaced
  BY <1>1, <1>2, <1>6, <1>7, <1>8, <1>9, <1>10, EndedStep
<1>12. Lost' \subseteq Lost
  <2>1. CASE r.pc = "adopt-rm"
    <3>1. w \notin OldRunning
      BY <1>5, <2>1 DEF LoadInv, OldInv, LookInv
    <3>2. TakenDown' = TakenDown
      BY <1>4, <1>5, <2>1 DEF TakenDown
    <3>. QED
      BY <1>11, <3>1, <3>2 DEF Lost, Gone
  <2>2. CASE r.pc = "swap-rm"
    <3>1. TakenDown' = TakenDown \cup {w}
      BY <1>2, <1>3, <1>4, <1>5, <2>2 DEF TakenDown
    <3>. QED
      BY <1>11, <3>1 DEF Lost, Gone
  <2>. QED
    BY <1>1, <2>1, <2>2
<1>13. LostInv'
  <2>1. Lost' \ Touched' \subseteq Lost \ Touched /\ IsFiniteSet(Lost \ Touched)
    <3>1. Lost \ Touched \subseteq Workspaces
      BY DEF Lost, Gone, Replaced
    <3>. QED
      BY <1>9, <1>12, <3>1, WorkspaceSet
  <2>2. /\ Cardinality(Lost' \ Touched') <= Cardinality(Lost \ Touched)
        /\ Cardinality(Lost \ Touched) \in Nat /\ Cardinality(Lost' \ Touched') \in Nat
    BY <2>1, FS_Subset, FS_CardinalityType
  <2>3. Cardinality(Lost \ Touched) <= deaths /\ deaths \in Nat
    BY UnearnedType DEF LoadInv, LostInv, IInv
  <2>. QED
    BY <1>9, <2>2, <2>3 DEF LostInv
<1>. QED
  BY <1>11, <1>13 DEF LoadInv

\* docker start and docker run.
LEMMA LaunchedLoad ==
    ASSUME IInv, IInv', Steady, LoadInv, NEW e \in Ensures, DaemonStarts(e) \/ DaemonRuns(e)
    PROVE  LoadInv'
<1> DEFINE r == ens[e]
           w == r.ws
<1>1. r.pc \in {"start", "run"} /\ ~r.did /\ UNCHANGED <<world, control>>
  BY DEF DaemonStarts, DaemonRuns
<1>2. /\ r \in Ensure /\ w \in Workspaces /\ InFlight(e)
      /\ docker[w] \in Containers /\ docker \in [Workspaces -> Containers]
  BY <1>1, UnderWay DEF IInv, TypeOK
<1>3. PICK x \in {"ok", "error"} :
          /\ Returns(e, [ens[e] EXCEPT !.exit = x])
          /\ \/ docker' = docker
             \/ /\ r.pc = "start"
                /\ docker' = [docker EXCEPT ![w] = [docker[w] EXCEPT !.state = "running"]]
             \/ /\ r.pc = "run" /\ docker[w].state = "missing"
                /\ docker' = [docker EXCEPT ![w] = [state |-> "running", fit |-> "current"]]
  <2>1. CASE DaemonStarts(e)
    BY <2>1 DEF DaemonStarts
  <2>2. CASE DaemonRuns(e)
    BY <2>2 DEF DaemonRuns, Steady
  <2>. QED
    BY <2>1, <2>2
<1> DEFINE q == [[ens[e] EXCEPT !.exit = x] EXCEPT !.did = TRUE]
<1>4. ens' = [ens EXCEPT ![e] = q]
  BY <1>3 DEF Returns
<1>5. /\ q \in Ensure /\ q.pc = r.pc /\ q.did /\ q.ws = w /\ q.exit = x
      /\ q.slot = r.slot /\ q.limit = r.limit /\ q.why = r.why
  BY <1>2 DEF Ensure
<1> HIDE DEF q
<1>6. /\ ~TookDown(r) /\ ~TookDown(q) /\ Promised(r) /\ ~Promised(q) /\ ~Counted(q)
      /\ Decided(r) /\ ~Replacing(q) /\ ~Replacing(r)
      /\ WillStart(q) => WillStart(r)
  BY <1>1, <1>5 DEF TookDown, Promised, Counted, Decided, Replacing, WillStart
<1>7. Follows(r, q)
  BY <1>1, <1>5, <1>6 DEF Follows
<1>8. CASE docker' = docker
  <2>1. Calm(r, q)
    BY <1>5, <1>6, <1>7 DEF Calm
  <2>. QED
    BY <1>1, <1>4, <1>5, <1>6, <1>8, <2>1, CalmMove
<1>9. ASSUME NEW d \in Containers, docker' = [docker EXCEPT ![w] = d],
             d.fit # "oldimage", docker[w] # RunningOld
      PROVE  LoadInv'
  <2>1. UNCHANGED <<world, active>>
    BY <1>1 DEF control
  <2>. QED
    BY <1>2, <1>4, <1>5, <1>6, <1>7, <1>9, <2>1, StartedStep
<1>10. CASE /\ r.pc = "start"
            /\ docker' = [docker EXCEPT ![w] = [docker[w] EXCEPT !.state = "running"]]
  <2>1. docker[w].fit # "oldimage"
    BY <1>10 DEF WillStart, LoadInv, OldInv, LookInv
  <2> DEFINE d == [docker[w] EXCEPT !.state = "running"]
  <2>2. d \in Containers /\ d.fit = docker[w].fit
    BY <1>2 DEF Containers
  <2>3. docker' = [docker EXCEPT ![w] = d]
    BY <1>10
  <2> HIDE DEF d
  <2>4. docker[w] # RunningOld
    BY <2>1 DEF RunningOld
  <2>. QED
    BY <1>9, <2>1, <2>2, <2>3, <2>4
<1>11. CASE /\ r.pc = "run" /\ docker[w].state = "missing"
            /\ docker' = [docker EXCEPT ![w] = [state |-> "running", fit |-> "current"]]
  <2> DEFINE d == [state |-> "running", fit |-> "current"]
  <2>1. d \in Containers /\ d.fit # "oldimage"
    BY DEF Containers
  <2>2. docker' = [docker EXCEPT ![w] = d]
    BY <1>11
  <2> HIDE DEF d
  <2>3. docker[w] # RunningOld
    BY <1>11 DEF RunningOld
  <2>. QED
    BY <1>9, <2>1, <2>2, <2>3
<1>. QED
  BY <1>3, <1>8, <1>10, <1>11

-----------------------------------------------------------------------------
(* Ensures that begin or end, and everything else                            *)

LEMMA CalmAsIs ==
    ASSUME LoadInv PROVE \A f \in Ensures : Calm(ens[f], ens[f])
BY DEF LoadInv, OldInv, LookInv, Calm, Follows

LEMMA NothingElse ==
    ASSUME IInv, IInv', Steady, LoadInv, UNCHANGED <<ens, docker, deaths>>,
           active' = active,
           \A o \in Ops : ServedInv(o)',
           opsBegun <= opsBegun', Touched \subseteq Touched'
    PROVE  LoadInv'
<1>1. \A f \in Ensures : Calm(ens[f], ens'[f])
  BY DEF LoadInv, OldInv, LookInv, Calm, Follows
<1>2. \A f \in Ensures : NewestKnows(f)'
  BY DEF NewestKnows, LoadInv, OldInv, LookInv, InFlight
<1>. QED
  BY <1>1, <1>2, CalmStep

LEMMA EnsureEndsLoad ==
    ASSUME IInv, IInv', Steady, LoadInv, NEW e \in Ensures, EnsureEnds(e)
    PROVE  LoadInv'
<1> DEFINE r == ens[e]
           w == r.ws
           q == [ens[e] EXCEPT !.pc = "done"]
<1>1. /\ r.pc = "settled" /\ UNCHANGED <<docker, world>>
      /\ ens' = [ens EXCEPT ![e] = q]
      /\ active' = IF active[w] = e THEN [active EXCEPT ![w] = None] ELSE active
  BY DEF EnsureEnds, IInv, TypeOK
<1>2. r \in Ensure /\ w \in Workspaces /\ InFlight(e)
  BY <1>1, UnderWay
<1>3. /\ q \in Ensure /\ q.pc = "done" /\ q.exit = r.exit /\ q.slot = r.slot /\ q.ws = w
  BY <1>2 DEF Ensure
<1> HIDE DEF q
<1>4. /\ ens'[e] = q /\ \A f \in Ensures : f # e => ens'[f] = ens[f]
  BY <1>1, <1>3 DEF IInv, TypeOK
<1>5. Calm(r, q)
  BY <1>1, <1>3 DEF Calm, Follows, TookDown, Promised, Counted, Decided, Replacing,
                    WillStart, LoadInv, OldInv, LookInv
<1>6. \A f \in Ensures : Calm(ens[f], ens'[f])
  BY <1>4, <1>5, CalmAsIs
<1>7. \A f \in Ensures : NewestKnows(f)'
  <2> SUFFICES ASSUME NEW f \in Ensures, InFlight(f)',
                      docker'[ens'[f].ws].fit = "oldimage"
               PROVE  active'[ens'[f].ws] = f
    BY DEF NewestKnows
  <2>1. f # e /\ ens'[f] = ens[f] /\ InFlight(f)
    BY <1>3, <1>4 DEF InFlight
  <2>2. active[ens[f].ws] = f
    BY <1>1, <2>1 DEF LoadInv, OldInv, LookInv
  <2>. QED
    BY <1>1, <2>1, <2>2 DEF IInv, TypeOK
<1>8. /\ \A o \in Ops : ServedInv(o)'
      /\ Touched' = Touched /\ deaths' = deaths /\ opsBegun <= opsBegun'
  BY <1>1, UnearnedType DEF LoadInv, OldInv, ServedInv, world, Touched, IInv
<1>. QED
  BY <1>1, <1>6, <1>7, <1>8, CalmStep

\* A new ensure is the only one of a workspace with a container of an old image.
LEMMA BeginsLoad ==
    ASSUME IInv, IInv', Steady, LoadInv, NEW w \in Workspaces, NEW b \in Ensures,
           b = begun + 1, NEW n \in Nat,
           ens' = [ens EXCEPT ![b] = [NewEnsure(w) EXCEPT !.epoch = n]],
           active' = [active EXCEPT ![w] = b],
           active[w] = None \/ docker[w].fit # "oldimage",
           UNCHANGED <<docker, deaths, opsBegun>>, Touched' = Touched,
           \A o \in Ops : ServedInv(o)'
    PROVE  LoadInv'
<1> DEFINE q == [NewEnsure(w) EXCEPT !.epoch = n]
<1>1. q.pc = "inspect" /\ ~q.did /\ q.exit = "ok" /\ ~q.slot /\ q.ws = w /\ q \in Ensure
  <2> DEFINE m == NewEnsure(w)
  <2>1. m \in Ensure /\ m.pc = "inspect" /\ ~m.did /\ m.exit = "ok" /\ ~m.slot /\ m.ws = w
    BY DEF NewEnsure, Ensure, Containers, Missing, IInv, TypeOK, RuntimeAssumption
  <2> HIDE DEF m
  <2>2. LET p == [m EXCEPT !.epoch = n]
        IN p.pc = "inspect" /\ ~p.did /\ p.exit = "ok" /\ ~p.slot /\ p.ws = w /\ p \in Ensure
    BY <2>1 DEF Ensure
  <2>. QED
    BY <2>2 DEF m
<1>2. ens' = [ens EXCEPT ![b] = q]
  OBVIOUS
<1> HIDE DEF q
<1>3. /\ ens'[b] = q /\ \A f \in Ensures : f # b => ens'[f] = ens[f]
  BY <1>2 DEF IInv, TypeOK
<1>4. ens[b].pc = "none"
  <2>1. begun \in Nat
    BY DEF IInv, TypeOK, RuntimeAssumption
  <2>2. ens[b].pc = "none" <=> begun < b
    BY DEF IInv, EnsureInv
  <2>. QED
    BY <2>1, <2>2
<1>5. Calm(ens[b], q)
  BY <1>1, <1>4 DEF Calm, Follows, TookDown, Promised, Counted, Decided, Replacing, WillStart
<1>6. \A f \in Ensures : Calm(ens[f], ens'[f])
  BY <1>3, <1>5, CalmAsIs
<1>7. \A f \in Ensures : NewestKnows(f)'
  <2> SUFFICES ASSUME NEW f \in Ensures, InFlight(f)',
                      docker'[ens'[f].ws].fit = "oldimage"
               PROVE  active'[ens'[f].ws] = f
    BY DEF NewestKnows
  <2>1. CASE f = b
    BY <1>1, <1>3, <2>1 DEF IInv, TypeOK
  <2>2. CASE f # b
    <3>1. ens'[f] = ens[f] /\ InFlight(f)
      BY <1>3, <2>2 DEF InFlight
    <3>2. docker[ens[f].ws].fit = "oldimage" /\ active[ens[f].ws] = f
      BY <3>1 DEF LoadInv, OldInv, LookInv
    <3>3. ens[f].ws # w
      BY <3>1, <3>2 DEF RuntimeAssumption
    <3>. QED
      BY <3>1, <3>2, <3>3 DEF IInv, TypeOK, EnsureInv, InFlight
  <2>. QED
    BY <2>1, <2>2
<1>8. opsBegun <= opsBegun'
  BY UnearnedType DEF IInv
<1>. QED
  BY <1>6, <1>7, <1>8, CalmStep

LEMMA OpBeginsLoad ==
    ASSUME IInv, IInv', Steady, LoadInv, NEW w \in Workspaces, NEW kind \in OpKinds,
           OpBegins(w, kind)
    PROVE  LoadInv'
<1> DEFINE r == [kind |-> kind, ws |-> w, did |-> FALSE, saw |-> Missing,
                 pc |-> IF kind = "remove" THEN "rm" ELSE "inspect"]
<1>1. /\ ops' = [ops EXCEPT ![opsBegun + 1] = r] /\ opsBegun' = opsBegun + 1
      /\ UNCHANGED <<ens, docker, deaths, control>>
  BY DEF OpBegins
<1>2. ~r.did
  OBVIOUS
<1> HIDE DEF r
<1>3. opsBegun \in Nat /\ opsBegun + 1 \in Ops /\ ops \in [Ops -> Op]
  BY UnearnedType DEF OpBegins, IInv, TypeOK, RuntimeAssumption
<1>4. /\ ops'[opsBegun + 1] = r
      /\ \A o \in Ops : o # opsBegun + 1 => ops'[o] = ops[o]
  BY <1>1, <1>3
<1>5. \A o \in Ops : ServedInv(o)'
  BY <1>1, <1>2, <1>3, <1>4 DEF ServedInv, LoadInv, OldInv
<1>6. Touched \subseteq Touched'
  <2>1. \A o \in 1 .. opsBegun : o \in 1 .. opsBegun' /\ ops'[o].ws = ops[o].ws
    BY <1>1, <1>3, <1>4
  <2>. QED
    BY <2>1 DEF Touched
<1>7. opsBegun <= opsBegun' /\ active' = active
  BY <1>1, <1>3 DEF control
<1>. QED
  BY <1>1, <1>5, <1>6, <1>7, NothingElse

\* What an op asks for next is not done yet.
LEMMA AsksServed ==
    ASSUME IInv, LoadInv, NEW o \in Ops, ops[o].pc # "none", NEW pc, pc # "none",
           Asks(o, ops[o], pc), UNCHANGED <<docker, opsBegun>>
    PROVE  (\A p \in Ops : ServedInv(p)') /\ Touched' = Touched
<1> DEFINE r == [ops[o] EXCEPT !.pc = pc, !.did = FALSE, !.saw = Missing]
<1>1. ops[o] \in Op /\ ops \in [Ops -> Op] /\ ops' = [ops EXCEPT ![o] = r]
  BY DEF IInv, TypeOK, Asks
<1>2. ~r.did /\ r.ws = ops[o].ws
  BY <1>1 DEF Op
<1> HIDE DEF r
<1>3. ops'[o] = r /\ \A p \in Ops : p # o => ops'[p] = ops[p]
  BY <1>1
<1>4. \A p \in Ops : ServedInv(p)'
  BY <1>2, <1>3 DEF ServedInv, LoadInv, OldInv
<1>5. Touched' = Touched
  <2>1. \A p \in Ops : ops'[p].ws = ops[p].ws
    BY <1>2, <1>3
  <2>2. 1 .. opsBegun \subseteq Ops
    BY DEF IInv, TypeOK, RuntimeAssumption
  <2>. QED
    BY <2>1, <2>2 DEF Touched
<1>. QED
  BY <1>4, <1>5

LEMMA OpGoesOnLoad ==
    ASSUME IInv, IInv', Steady, LoadInv, NEW o \in Ops,
           StopNeeded(o) \/ Stopped(o) \/ Removed(o) \/ Restarts(o)
    PROVE  LoadInv'
<1>1. /\ ops[o].pc \in {"inspect", "stop", "rm"}
      /\ UNCHANGED <<docker, opsBegun, deaths>>
  BY DEF StopNeeded, Stopped, Removed, Restarts
<1>2. PICK pc \in {"stop", "rm", "done"} : Asks(o, ops[o], pc)
  BY DEF StopNeeded, Stopped, Removed, Restarts
<1>3. (\A p \in Ops : ServedInv(p)') /\ Touched' = Touched /\ opsBegun <= opsBegun'
  <2>1. ops[o].pc # "none" /\ pc # "none" /\ UNCHANGED <<docker, opsBegun>>
    BY <1>1
  <2>2. (\A p \in Ops : ServedInv(p)') /\ Touched' = Touched
    BY <1>2, <2>1, AsksServed
  <2>. QED
    BY <1>1, <2>2, UnearnedType DEF IInv
<1>4. CASE StopNeeded(o) \/ Stopped(o) \/ Removed(o)
  <2>1. ens' = ens /\ active' = active
    BY <1>4 DEF StopNeeded, Stopped, Removed, control
  <2>. QED
    BY <1>1, <1>3, <2>1, NothingElse
<1>5. CASE Restarts(o)
  <2>1. /\ begun < MaxEnsures /\ ops[o].pc = "rm" /\ ops[o].did
        /\ ens' = [ens EXCEPT ![begun + 1] =
                      [NewEnsure(ops[o].ws) EXCEPT !.epoch = epoch + 1]]
        /\ active' = [active EXCEPT ![ops[o].ws] = begun + 1]
    BY <1>5 DEF Restarts
  <2>2. /\ begun + 1 \in Ensures /\ ops[o].ws \in Workspaces /\ epoch + 1 \in Nat
    <3>1. begun \in Nat /\ epoch \in Nat /\ MaxEnsures \in Nat
      BY DEF IInv, TypeOK, RuntimeAssumption
    <3>2. ops[o].ws \in Workspaces
      BY <1>1 DEF IInv, OpInv
    <3>. QED
      BY <2>1, <3>1, <3>2
  <2>3. docker[ops[o].ws].fit # "oldimage"
    BY <2>1 DEF LoadInv, OldInv, ServedInv
  <2>. QED
    BY <1>1, <1>3, <2>1, <2>2, <2>3, BeginsLoad
<1>. QED
  BY <1>4, <1>5

\* The daemon stops or removes the container of an op's workspace.
LEMMA DaemonServesLoad ==
    ASSUME IInv, IInv', Steady, LoadInv, NEW o \in Ops, DaemonServes(o)
    PROVE  LoadInv'
<1> DEFINE w == ops[o].ws
<1>1. /\ ops[o].pc \in {"inspect", "stop", "rm"}
      /\ UNCHANGED <<lease, cap, deaths, ens, begun, opsBegun, control, pending, lockq>>
  BY DEF DaemonServes
<1>2. /\ ops[o] \in Op /\ w \in Workspaces /\ ops \in [Ops -> Op]
      /\ docker \in [Workspaces -> Containers] /\ docker[w] \in Containers
      /\ Missing \in Containers
  BY <1>1 DEF IInv, TypeOK, OpInv, Missing, Containers
<1>3. PICK c \in Containers :
         LET r == [ops[o] EXCEPT !.did = TRUE, !.saw = c]
         IN ops' = [ops EXCEPT ![o] = r]
  <2>1. ops[o] = [ops[o] EXCEPT !.saw = ops[o].saw]
    BY <1>2 DEF Op
  <2>2. [ops[o] EXCEPT !.did = TRUE] = [ops[o] EXCEPT !.did = TRUE, !.saw = ops[o].saw]
    BY <1>2 DEF Op
  <2>3. ops[o].saw \in Containers
    BY <1>2 DEF Op
  <2>4. \/ \E c \in Containers :
              ops' = [ops EXCEPT ![o] = [ops[o] EXCEPT !.did = TRUE, !.saw = c]]
        \/ ops' = [ops EXCEPT ![o] = [ops[o] EXCEPT !.did = TRUE]]
    BY <1>2 DEF DaemonServes, Seen
  <2>. QED
    BY <2>2, <2>3, <2>4
<1> DEFINE r == [ops[o] EXCEPT !.did = TRUE, !.saw = c]
<1>4. r.ws = w /\ r.pc = ops[o].pc /\ ops' = [ops EXCEPT ![o] = r]
  BY <1>2, <1>3 DEF Op
<1> HIDE DEF r
<1>5. ops'[o] = r /\ \A p \in Ops : p # o => ops'[p] = ops[p]
  BY <1>2, <1>4
<1>6. Touched' = Touched /\ w \in Touched
  <2>1. (\A p \in Ops : ops'[p].ws = ops[p].ws) /\ 1 .. opsBegun \subseteq Ops
    BY <1>4, <1>5 DEF IInv, TypeOK, RuntimeAssumption
  <2>2. o \in 1 .. opsBegun
    BY <1>1 DEF LoadInv, OldInv, ServedInv, IInv, TypeOK, RuntimeAssumption
  <2>. QED
    BY <1>1, <2>1, <2>2 DEF Touched
<1>7. /\ opsBegun <= opsBegun' /\ deaths <= deaths' /\ active' = active
  BY <1>1, UnearnedType DEF IInv, control
<1>8. \A f \in Ensures : Calm(ens[f], ens'[f])
  BY <1>1 DEF LoadInv, OldInv, LookInv, Calm, Follows
<1>9. CASE docker' = docker /\ ops[o].pc # "rm"
  <2>1. \A p \in Ops : ServedInv(p)'
    BY <1>1, <1>4, <1>5, <1>9 DEF LoadInv, OldInv, ServedInv
  <2>. QED
    BY <1>1, <1>6, <1>7, <1>9, <2>1, NothingElse
<1>10. ASSUME NEW d \in Containers, docker' = [docker EXCEPT ![w] = d], d.state # "running",
              d.fit = "oldimage" => docker[w].fit = "oldimage",
              ops[o].pc = "rm" => d.fit # "oldimage"
       PROVE  LoadInv'
  <2>1. \A v \in Workspaces : docker'[v].fit = "oldimage" => docker[v].fit = "oldimage"
    BY <1>2, <1>10
  <2>2. docker'[w] = d
    BY <1>2, <1>10
  <2>3. \A p \in Ops : ServedInv(p)'
    <3> TAKE p \in Ops
    <3>1. ServedInv(p) /\ (ops[p].pc # "none" => ops[p].ws \in Workspaces)
      BY DEF LoadInv, OldInv, IInv, OpInv
    <3>2. CASE p = o
      BY <1>1, <1>4, <1>5, <1>10, <2>2, <3>1, <3>2 DEF ServedInv
    <3>3. CASE p # o
      BY <1>1, <1>5, <2>1, <3>1, <3>3 DEF ServedInv
    <3>. QED
      BY <3>2, <3>3
  <2>4. /\ \A f \in Ensures :
             /\ Follows(ens[f], ens'[f])
             /\ TookDown(ens'[f]) => TookDown(ens[f]) \/ docker'[ens'[f].ws].fit # "oldimage"
             /\ Promised(ens'[f]) => Promised(ens[f])
             /\ Counted(ens'[f]) => Counted(ens[f]) /\ ens'[f].n = ens[f].n
             /\ ens'[f].slot => ens[f].slot
        /\ \A f \in Ensures : InFlight(f)' => InFlight(f) /\ ens'[f].ws = ens[f].ws
    BY <1>1, <1>8 DEF Calm, InFlight
  <2>5. /\ OldInv' /\ NumbersInv'
        /\ OldRunning' = OldRunning \ {w} /\ Replaced' = Replaced
    BY <1>2, <1>7, <1>10, <2>3, <2>4, EndedStep
  <2>6. Lost' \ Touched' \subseteq Lost \ Touched
    <3>1. TakenDown' = TakenDown
      BY <1>1 DEF TakenDown
    <3>. QED
      BY <1>6, <2>5, <3>1 DEF Lost, Gone
  <2>7. LostInv'
    <3>1. IsFiniteSet(Lost \ Touched)
      <4>1. Lost \ Touched \subseteq Workspaces
        BY DEF Lost, Gone, Replaced
      <4>. QED
        BY <4>1, WorkspaceSet
    <3>2. /\ Cardinality(Lost' \ Touched') <= Cardinality(Lost \ Touched)
          /\ Cardinality(Lost \ Touched) \in Nat /\ Cardinality(Lost' \ Touched') \in Nat
      BY <2>6, <3>1, FS_Subset, FS_CardinalityType
    <3>3. Cardinality(Lost \ Touched) <= deaths /\ deaths \in Nat /\ deaths' = deaths
      BY <1>1, UnearnedType DEF LoadInv, LostInv, IInv
    <3>. QED
      BY <3>2, <3>3 DEF LostInv
  <2>. QED
    BY <2>5, <2>7 DEF LoadInv
<1>11. CASE ops[o].pc = "stop" /\ docker[w].state = "running"
  <2>1. docker' = [docker EXCEPT ![w].state = "stopped"]
    BY <1>11 DEF DaemonServes, OrNot, Steady
  <2> DEFINE d == [docker[w] EXCEPT !.state = "stopped"]
  <2>2. d \in Containers /\ d.state = "stopped" /\ d.fit = docker[w].fit
    BY <1>2 DEF Containers
  <2>3. docker' = [docker EXCEPT ![w] = d]
    BY <2>1
  <2> HIDE DEF d
  <2>. QED
    BY <1>10, <1>11, <2>2, <2>3
<1>12. CASE ops[o].pc = "rm"
  <2>1. docker' = [docker EXCEPT ![w] = Missing]
    BY <1>12 DEF DaemonServes, OrNot, Steady
  <2>. QED
    BY <1>2, <1>10, <2>1 DEF Missing
<1>13. ops[o].pc = "inspect" \/ (ops[o].pc = "stop" /\ docker[w].state # "running")
          => docker' = docker
  BY DEF DaemonServes, OrNot, Steady
<1>. QED
  BY <1>1, <1>9, <1>11, <1>12, <1>13

\* A container dies on its own, or a stopped one is cleaned up.
LEMMA EndsLoad ==
    ASSUME IInv, IInv', Steady, LoadInv, NEW w \in Workspaces, Dies(w) \/ CleansUp(w)
    PROVE  LoadInv'
<1>1. /\ docker \in [Workspaces -> Containers] /\ docker[w] \in Containers
      /\ Missing \in Containers /\ deaths \in Nat /\ opsBegun \in Nat
  BY UnearnedType DEF IInv, TypeOK, Missing, Containers
<1>2. PICK d \in Containers :
         /\ docker' = [docker EXCEPT ![w] = d] /\ d.state # "running"
         /\ d.fit = "oldimage" => docker[w].fit = "oldimage"
  <2>1. CASE Dies(w)
    <3> DEFINE d == [docker[w] EXCEPT !.state = "stopped"]
    <3>1. d \in Containers /\ d.state = "stopped" /\ d.fit = docker[w].fit
      BY <1>1 DEF Containers
    <3>2. docker' = [docker EXCEPT ![w] = d]
      BY <2>1 DEF Dies
    <3> HIDE DEF d
    <3>. QED
      BY <3>1, <3>2
  <2>2. CASE CleansUp(w)
    BY <1>1, <2>2 DEF CleansUp, Missing
  <2>. QED
    BY <2>1, <2>2
<1>3. UNCHANGED <<ens, ops, opsBegun, active>>
  BY DEF Dies, CleansUp, control, world
<1>4. \A v \in Workspaces : docker'[v].fit = "oldimage" => docker[v].fit = "oldimage"
  BY <1>1, <1>2
<1>5. \A o \in Ops : ServedInv(o)'
  BY <1>3, <1>4 DEF ServedInv, LoadInv, OldInv, IInv, OpInv
<1>6. /\ \A f \in Ensures :
           /\ Follows(ens[f], ens'[f])
           /\ TookDown(ens'[f]) => TookDown(ens[f]) \/ docker'[ens'[f].ws].fit # "oldimage"
           /\ Promised(ens'[f]) => Promised(ens[f])
           /\ Counted(ens'[f]) => Counted(ens[f]) /\ ens'[f].n = ens[f].n
           /\ ens'[f].slot => ens[f].slot
      /\ \A f \in Ensures : InFlight(f)' => InFlight(f) /\ ens'[f].ws = ens[f].ws
  BY <1>3 DEF Follows, LoadInv, OldInv, LookInv, InFlight
<1>7. deaths <= deaths' /\ opsBegun <= opsBegun'
  BY <1>1, <1>3 DEF Dies, CleansUp, world
<1>8. /\ OldInv' /\ NumbersInv'
      /\ OldRunning' = OldRunning \ {w} /\ Replaced' = Replaced
  BY <1>2, <1>3, <1>5, <1>6, <1>7, EndedStep
<1>9. TakenDown' = TakenDown /\ Touched' = Touched
  BY <1>3 DEF TakenDown, Touched
<1>10. IsFiniteSet(Lost \ Touched) /\ IsFiniteSet(Lost' \ Touched')
  <2>1. Lost \ Touched \subseteq Workspaces /\ Lost' \ Touched' \subseteq Workspaces
    BY DEF Lost, Gone, Replaced
  <2>. QED
    BY <2>1, WorkspaceSet
<1>11. Cardinality(Lost \ Touched) <= deaths
  BY DEF LoadInv, LostInv
<1>12. CASE Dies(w)
  <2>1. Lost' \ Touched' \subseteq (Lost \ Touched) \cup {w}
    BY <1>8, <1>9 DEF Lost, Gone
  <2>2. /\ Cardinality(Lost' \ Touched') <= Cardinality(Lost \ Touched) + 1
        /\ Cardinality(Lost \ Touched) \in Nat /\ Cardinality(Lost' \ Touched') \in Nat
    BY <1>10, <2>1, Sized
  <2>3. deaths' = deaths + 1
    BY <1>12 DEF Dies
  <2>. QED
    BY <1>1, <1>8, <1>11, <2>2, <2>3 DEF LoadInv, LostInv
<1>13. CASE CleansUp(w)
  <2>1. w \notin OldRunning /\ deaths' = deaths
    BY <1>13 DEF CleansUp, OldRunning, RunningOld, world
  <2>2. Lost' \ Touched' = Lost \ Touched
    BY <1>8, <1>9, <2>1 DEF Lost, Gone
  <2>. QED
    BY <1>8, <1>11, <2>1, <2>2 DEF LoadInv, LostInv
<1>. QED
  BY <1>12, <1>13

-----------------------------------------------------------------------------

LEMMA LoadInit == Init => LoadInv
<1> SUFFICES ASSUME Init PROVE LoadInv
  OBVIOUS
<1>1. IInv
  BY InitInv
<1>2. \A e \in Ensures : /\ ens[e].pc = "none" /\ ~ens[e].slot /\ ens[e].exit = "ok"
  <2>1. LET u == [NewEnsure(None) EXCEPT !.pc = "none", !.epoch = 0]
        IN u.pc = "none" /\ ~u.slot /\ u.exit = "ok"
    BY DEF NewEnsure
  <2>. QED
    BY <2>1 DEF Init
<1>3. \A e \in Ensures :
         /\ ~Replacing(ens[e]) /\ ~Decided(ens[e]) /\ ~WillStart(ens[e])
         /\ ~TookDown(ens[e]) /\ ~Promised(ens[e]) /\ ~Counted(ens[e])
         /\ ~InFlight(e)
  BY <1>2 DEF Replacing, Decided, WillStart, TookDown, Promised, Counted, InFlight
<1>4. OldInv
  <2>1. \A w \in Workspaces : FitInv(w)
    BY DEF Init, FitInv, Missing
  <2>2. \A o \in Ops : ServedInv(o)
    BY DEF Init, ServedInv
  <2>3. \A e \in Ensures : LookInv(e)
    BY <1>2, <1>3 DEF LookInv
  <2>. QED
    BY <1>3, <2>1, <2>2, <2>3 DEF OldInv, OneReplaces
<1>5. /\ Replaced = {} /\ Promises = {} /\ SlotHolders = {}
      /\ Gone = {} /\ Lost = {} /\ Claims \subseteq Running
  BY <1>2, <1>3 DEF Replaced, Promises, SlotHolders, Gone, Lost, Claims, OldRunning,
                    RunningOld, Running
<1>6. /\ Cardinality(Replaced) = 0 /\ Cardinality(Promises) = 0
      /\ Cardinality(SlotHolders) = 0 /\ Cardinality(Gone) = 0
      /\ Cardinality(Lost \ Touched) = 0
  <2>1. Lost \ Touched = {}
    BY <1>5
  <2>. QED
    BY <1>5, <2>1, FS_EmptySet
<1>7. deaths = 0 /\ opsBegun = 0 /\ Unearned = 0 /\ cap \in Nat
  BY <1>1 DEF Init, Unearned, IInv, TypeOK, RuntimeAssumption
<1>8. Cardinality(Running) <= cap /\ Cardinality(Running) \in Nat
  BY NumberTypes DEF Init, Running
<1>9. Cardinality(Claims) <= Cardinality(Running) /\ Cardinality(Claims) \in Nat
  BY <1>5, RunningIsFinite, FS_Subset, NumberTypes
<1>10. NumbersInv
  BY <1>3, <1>6, <1>7, <1>8, <1>9 DEF NumbersInv, Load
<1>11. LostInv
  BY <1>6, <1>7 DEF LostInv
<1>. QED
  BY <1>4, <1>10, <1>11 DEF LoadInv

LEMMA LoadStep ==
    ASSUME IInv, IInv', Steady, LoadInv, [Next]_vars
    PROVE  LoadInv'
<1>1. ASSUME NEW e \in Ensures, Step(e) PROVE LoadInv'
  BY <1>1, EnsureEndsLoad, AdoptsLoad, AdoptRemovedLoad, AdmittedLoad, CheckedLoad,
     SwappedLoad, StartedLoad, ReinspectedLoad DEF Step
<1>2. ASSUME NEW e \in Ensures, DaemonStep(e) PROVE LoadInv'
  BY <1>2, InspectedLoad, RemovedLoad, CountedLoad, LaunchedLoad DEF DaemonStep
<1>3. ASSUME NEW o \in Ops, OpStep(o) PROVE LoadInv'
  BY <1>3, DaemonServesLoad, OpGoesOnLoad DEF OpStep
<1>4. ASSUME NEW w \in Workspaces, NEW kind \in OpKinds, OpBegins(w, kind) PROVE LoadInv'
  BY <1>4, OpBeginsLoad
<1>5. ASSUME NEW w \in Workspaces, Dies(w) \/ CleansUp(w) PROVE LoadInv'
  BY <1>5, EndsLoad
<1>6. ASSUME NEW w \in Workspaces, EnsureBegins(w) PROVE LoadInv'
  <2>1. /\ begun < MaxEnsures /\ active[w] = None
        /\ ens' = [ens EXCEPT ![begun + 1] = NewEnsure(w)]
        /\ active' = [active EXCEPT ![w] = begun + 1]
        /\ UNCHANGED <<docker, deaths, ops, opsBegun>>
    BY <1>6 DEF EnsureBegins, Begin
  <2>2. begun + 1 \in Ensures /\ epoch \in Nat
    BY <2>1 DEF IInv, TypeOK, RuntimeAssumption
  <2>3. NewEnsure(w) = [NewEnsure(w) EXCEPT !.epoch = epoch]
    <3>1. /\ NewEnsure(w) \in Ensure /\ NewEnsure(w).epoch = epoch
          /\ [NewEnsure(w) EXCEPT !.epoch = epoch] \in Ensure
      BY <2>2, NewEnsureType
    <3>. QED
      BY <3>1 DEF Ensure
  <2>4. (\A o \in Ops : ServedInv(o)') /\ Touched' = Touched
    BY <2>1 DEF ServedInv, Touched, LoadInv, OldInv
  <2>5. ens' = [ens EXCEPT ![begun + 1] = [NewEnsure(w) EXCEPT !.epoch = epoch]]
    BY <2>1, <2>3
  <2>. QED
    BY <2>1, <2>2, <2>4, <2>5, BeginsLoad
<1>7. ASSUME (\E w \in Workspaces : CacheExpires(w)) \/ UNCHANGED vars PROVE LoadInv'
  <2>1. UNCHANGED <<ens, docker, deaths, active, ops, opsBegun>>
    BY <1>7 DEF CacheExpires, vars, world
  <2>2. (\A o \in Ops : ServedInv(o)') /\ Touched' = Touched /\ opsBegun <= opsBegun'
    BY <2>1, UnearnedType DEF ServedInv, Touched, LoadInv, OldInv, IInv
  <2>. QED
    BY <2>1, <2>2, NothingElse
<1>8. ASSUME NEW c \in Caps, SetsCap(c) PROVE LoadInv'
  BY <1>8 DEF SetsCap, Steady, IInv, TypeOK
<1>. QED
  BY <1>1, <1>2, <1>3, <1>4, <1>5, <1>6, <1>7, <1>8 DEF Next

\* While docker commands work and the cap stays as it is, the containers that
\* run are at most twice the cap, and as many more as containers of an old image
\* can have ended before their replacement was admitted.
THEOREM OvershootIsBounded ==
    ASSUME ~Flaky, \A b, c \in Caps : b = c
    PROVE  Spec => []OvershootBounded
<1>1. Steady
  BY DEF Steady
<1>2. Init => IInv /\ LoadInv
  BY InitInv, LoadInit
<1>3. IInv /\ LoadInv /\ [Next]_vars => (IInv /\ LoadInv)'
  BY <1>1, StepInv, LoadStep
<1>4. IInv /\ LoadInv => OvershootBounded
  <2> SUFFICES ASSUME IInv, LoadInv PROVE OvershootBounded
    OBVIOUS
  <2>1. Load <= 2 * cap + Unearned
    BY DEF LoadInv, NumbersInv
  <2>2. cap \in Nat /\ Unearned \in Nat
    BY UnearnedType DEF IInv, TypeOK, RuntimeAssumption
  <2>. QED
    BY <2>1, <2>2, NumberTypes DEF OvershootBounded, Load
<1>. QED
  BY <1>2, <1>3, <1>4, PTL DEF Spec

-----------------------------------------------------------------------------
(* Why every ensure settles: nobody who is done holds up the line for the    *)
(* lock, and every step takes an ensure nearer to its end.                   *)

Waiting == {"queue", "count", "swap-rm"}

\* What a step does to the line: nothing, e joins it at the end, or e, whose turn
\* it was, leaves it.
LineChange(e) ==
    \/ (ens[e].pc \in Waiting <=> ens'[e].pc \in Waiting) /\ lockq' = lockq
    \/ ens[e].pc \notin Waiting /\ ens'[e].pc \in Waiting /\ lockq' = Append(lockq, e)
    \/ /\ ens[e].pc \in {"count", "swap-rm"} /\ ens'[e].pc \notin Waiting
       /\ lockq' = Tail(lockq)

Line == /\ \A e \in Ensures : ens[e].pc \in Waiting <=> InLine(e)
        /\ \A i, j \in 1 .. Len(lockq) : lockq[i] = lockq[j] => i = j

LEMMA LineKept ==
    ASSUME IInv, Line, NEW e \in Ensures, LineChange(e),
           \A f \in Ensures : f # e => ens'[f] = ens[f]
    PROVE  Line'
<1>1. lockq \in Seq(Ensures) /\ HoldsLock(e)
  BY DEF IInv, TypeOK
<1> DEFINE q == lockq
<1>2. /\ \A f \in Ensures : ens[f].pc \in Waiting <=> \E i \in 1 .. Len(q) : q[i] = f
      /\ \A i, j \in 1 .. Len(q) : q[i] = q[j] => i = j
  BY DEF Line, InLine
<1>3. CASE (ens[e].pc \in Waiting <=> ens'[e].pc \in Waiting) /\ lockq' = lockq
  BY <1>3 DEF Line, InLine
<1>4. CASE /\ ens[e].pc \notin Waiting /\ ens'[e].pc \in Waiting
           /\ lockq' = Append(lockq, e)
  <2>1. /\ Len(lockq') = Len(q) + 1 /\ lockq'[Len(q) + 1] = e /\ Len(q) \in Nat
        /\ \A i \in 1 .. Len(q) : lockq'[i] = q[i]
    BY <1>1, <1>4
  <2>2. \A i \in 1 .. Len(q) : q[i] # e
    BY <1>2, <1>4
  <2>3. \A i, j \in 1 .. Len(q) + 1 : lockq'[i] = lockq'[j] => i = j
    BY <1>2, <2>1, <2>2
  <2>4. \A f \in Ensures : f # e =>
           (ens'[f].pc \in Waiting <=> \E i \in 1 .. Len(q) + 1 : lockq'[i] = f)
    BY <1>2, <2>1
  <2>. QED
    BY <1>4, <2>1, <2>3, <2>4 DEF Line, InLine
<1>5. CASE /\ ens[e].pc \in {"count", "swap-rm"} /\ ens'[e].pc \notin Waiting
           /\ lockq' = Tail(lockq)
  <2>1. q # <<>> /\ q[1] = e
    BY <1>1, <1>5 DEF HoldsLock
  <2>2. /\ Len(q) \in Nat /\ Len(q) >= 1 /\ Len(lockq') = Len(q) - 1
        /\ \A i \in 1 .. Len(q) - 1 : lockq'[i] = q[i + 1]
    BY <1>1, <1>5, <2>1
  <2>3. \A i, j \in 1 .. Len(q) - 1 : lockq'[i] = lockq'[j] => i = j
    BY <1>2, <2>2
  <2>4. \A i \in 1 .. Len(q) - 1 : lockq'[i] # e
    BY <1>2, <2>1, <2>2
  <2>5. ASSUME NEW f \in Ensures, f # e
        PROVE  ens'[f].pc \in Waiting <=> \E i \in 1 .. Len(q) - 1 : lockq'[i] = f
    <3>1. ASSUME NEW i \in 1 .. Len(q), q[i] = f
          PROVE  \E k \in 1 .. Len(q) - 1 : lockq'[k] = f
      <4>1. i - 1 \in 1 .. Len(q) - 1 /\ lockq'[i - 1] = f
        BY <2>1, <2>2, <2>5, <3>1
      <4>. QED
        BY <4>1
    <3>2. ASSUME NEW k \in 1 .. Len(q) - 1, lockq'[k] = f
          PROVE  \E i \in 1 .. Len(q) : q[i] = f
      <4>1. k + 1 \in 1 .. Len(q) /\ q[k + 1] = f
        BY <2>2, <3>2
      <4>. QED
        BY <4>1
    <3>. QED
      BY <1>2, <2>5, <3>1, <3>2
  <2>. QED
    BY <1>5, <2>2, <2>3, <2>4, <2>5 DEF Line, InLine
<1>. QED
  BY <1>3, <1>4, <1>5 DEF LineChange

LEMMA LineAsIs ==
    ASSUME Line, lockq' = lockq,
           \A f \in Ensures : ens'[f].pc \in Waiting <=> ens[f].pc \in Waiting
    PROVE  Line'
BY DEF Line, InLine

\* What a step of e does to e: nothing leads it back.
Nearer(e) == Ahead(ens'[e]) < Ahead(ens[e])
Progress(e) ==
    /\ Nearer(e) /\ LineChange(e)
    /\ \A f \in Ensures : f # e => ens'[f] = ens[f]

\* How much is ahead where, as numbers.
LEMMA AheadAt ==
    ASSUME NEW r \in Ensure
    PROVE  /\ MaxTries \in Nat /\ r.tries \in Nat /\ r.tries <= MaxTries
           /\ r.pc \in Pcs /\ r.did \in BOOLEAN
           /\ r.pc \in {"queue", "count"} => r.why \in {"create", "start", "swap"}
           /\ Ahead(r) = 2 * Stage(r) + (IF r.did THEN 0 ELSE 1)
           /\ Stage(r) \in Nat
           /\ r.pc = "inspect" => Stage(r) = 12 + 2 * MaxTries
           /\ r.pc = "start" => Stage(r) = 9 + 2 * MaxTries
           /\ r.pc = "reinspect" => Stage(r) = 8 + 2 * MaxTries
           /\ r.pc = "adopt-rm" => Stage(r) = 7 + 2 * MaxTries
           /\ r.pc = "queue" =>
                Stage(r) = 6 + 2 * MaxTries + (IF r.why = "start" THEN 5 ELSE 0)
           /\ r.pc = "count" =>
                Stage(r) = 5 + 2 * MaxTries + (IF r.why = "start" THEN 5 ELSE 0)
           /\ r.pc = "swap-rm" => Stage(r) = 5 + 2 * MaxTries
           /\ r.pc = "prepare" => /\ Stage(r) = 4 + 2 * (MaxTries - r.tries)
                                  /\ Stage(r) <= 4 + 2 * MaxTries
           /\ r.pc = "run" => Stage(r) = 3 + 2 * (MaxTries - r.tries)
           /\ r.pc = "verify" => Stage(r) = 2
           /\ r.pc = "settled" => Stage(r) = 1
           /\ r.pc = "done" => Stage(r) = 0
<1>1. /\ MaxTries \in Nat /\ r.tries \in 0 .. MaxTries /\ r.pc \in Pcs
      /\ r.did \in BOOLEAN /\ r.why \in {"create", "start", "swap"}
  BY DEF Ensure, Pcs, RuntimeAssumption
<1>2. r.tries \in Nat /\ r.tries <= MaxTries /\ MaxTries - r.tries \in Nat
  BY <1>1
<1>. QED
  BY <1>1, <1>2 DEF Ahead, Stage, Pcs

\* A step into a lower stage is a step nearer, whatever docker has done of it.
LEMMA LowerIsNearer ==
    ASSUME NEW r \in Ensure, NEW q \in Ensure, Stage(q) < Stage(r)
    PROVE  Ahead(q) < Ahead(r)
<1>1. Stage(q) \in Nat /\ Stage(r) \in Nat
  BY AheadAt
<1>. QED
  BY <1>1, AheadAt

\* The call, or the end, that e goes on to, when it is at a lower stage.
LEMMA CallsNearer ==
    ASSUME IInv, NEW e \in Ensures, NEW r \in Ensure, NEW pc \in Pcs, Calls(e, r, pc)
    PROVE  /\ ens'[e] \in Ensure /\ ens'[e].pc = pc /\ ens'[e].why = r.why
           /\ ens'[e].tries = r.tries
           /\ \A f \in Ensures : f # e => ens'[f] = ens[f]
           /\ Stage(ens'[e]) < Stage(ens[e]) => Nearer(e)
<1>1. TypeOK /\ ens[e] \in Ensure
  BY DEF IInv, TypeOK
<1>2. PICK q \in Ensure : /\ ens' = [ens EXCEPT ![e] = q] /\ q.pc = pc
                          /\ q.why = r.why /\ q.tries = r.tries
  BY <1>1, CallRecord
<1>3. ens'[e] = q /\ \A f \in Ensures : f # e => ens'[f] = ens[f]
  BY <1>1, <1>2 DEF TypeOK
<1>. QED
  BY <1>1, <1>2, <1>3, LowerIsNearer DEF Nearer

LEMMA SettlesNearer ==
    ASSUME IInv, NEW e \in Ensures, NEW r \in Ensure,
           NEW res \in {"running", "stopped", "starting", "error", "full"},
           Settles(e, r, res), ens[e].pc \notin {"none", "done", "settled"}
    PROVE  /\ Nearer(e) /\ ens'[e].pc = "settled"
           /\ \A f \in Ensures : f # e => ens'[f] = ens[f]
<1>1. TypeOK /\ ens[e] \in Ensure
  BY DEF IInv, TypeOK
<1>2. PICK q \in Ensure : ens' = [ens EXCEPT ![e] = q] /\ q.pc = "settled"
  BY <1>1, SettleRecord
<1>3. ens'[e] = q /\ \A f \in Ensures : f # e => ens'[f] = ens[f]
  BY <1>1, <1>2 DEF TypeOK
<1>4. Stage(ens[e]) > 1
  BY <1>1, AheadAt DEF Pcs
<1>5. Stage(q) = 1
  BY <1>2, AheadAt
<1>. QED
  BY <1>1, <1>2, <1>3, <1>4, <1>5, LowerIsNearer DEF Nearer

\* The steps of an ensure that end in a call of docker.
LEMMA GoesOn ==
    ASSUME IInv, NEW e \in Ensures, NEW r \in Ensure, NEW pc \in Pcs, Calls(e, r, pc),
           \A q \in Ensure : q.pc = pc /\ q.why = r.why /\ q.tries = r.tries
                                => Stage(q) < Stage(ens[e]),
           \/ (ens[e].pc \in Waiting <=> pc \in Waiting) /\ lockq' = lockq
           \/ ens[e].pc \notin Waiting /\ pc \in Waiting /\ lockq' = Append(lockq, e)
           \/ /\ ens[e].pc \in {"count", "swap-rm"} /\ pc \notin Waiting
              /\ lockq' = Tail(lockq)
    PROVE  Progress(e)
<1>1. /\ ens'[e] \in Ensure /\ ens'[e].pc = pc /\ ens'[e].why = r.why
      /\ ens'[e].tries = r.tries
      /\ \A f \in Ensures : f # e => ens'[f] = ens[f]
      /\ Stage(ens'[e]) < Stage(ens[e]) => Nearer(e)
  BY CallsNearer
<1>. QED
  BY <1>1 DEF Progress, LineChange

\* And those that end in the settling of its promise.
LEMMA GoesOff ==
    ASSUME IInv, NEW e \in Ensures, NEW r \in Ensure,
           NEW res \in {"running", "stopped", "starting", "error", "full"},
           Settles(e, r, res), ens[e].pc \notin {"none", "done", "settled"},
           \/ ens[e].pc \notin Waiting /\ lockq' = lockq
           \/ ens[e].pc \in {"count", "swap-rm"} /\ lockq' = Tail(lockq)
    PROVE  Progress(e)
<1>1. /\ Nearer(e) /\ ens'[e].pc = "settled"
      /\ \A f \in Ensures : f # e => ens'[f] = ens[f]
  BY SettlesNearer
<1>. QED
  BY <1>1 DEF Progress, LineChange, Waiting

LEMMA AdoptsProgress ==
    ASSUME IInv, NEW e \in Ensures, Adopts(e)
    PROVE  Progress(e)
<1> DEFINE r == ens[e]
<1>1. r.pc = "inspect" /\ r \in Ensure /\ Stage(r) = 12 + 2 * MaxTries /\ MaxTries \in Nat
  BY UnderWay, AheadAt DEF Adopts
<1>2. ASSUME NEW why \in {"create", "start", "swap"}, Queues(e, r, why)
      PROVE  Progress(e)
  <2> DEFINE q == [r EXCEPT !.why = why]
  <2>1. q \in Ensure
    BY <1>1 DEF Ensure
  <2>2. Calls(e, q, "queue") /\ lockq' = Append(lockq, e)
    BY <1>2 DEF Queues
  <2> HIDE DEF q
  <2>3. \A p \in Ensure : p.pc = "queue" => Stage(p) < Stage(r)
    BY <1>1, AheadAt
  <2>. QED
    BY <1>1, <2>1, <2>2, <2>3, GoesOn DEF Pcs, Waiting
<1>3. CASE Calls(e, r, "adopt-rm") /\ UNCHANGED <<lease, lockq>>
  <2>1. \A p \in Ensure : p.pc = "adopt-rm" => Stage(p) < Stage(r)
    BY <1>1, AheadAt
  <2>. QED
    BY <1>1, <1>3, <2>1, GoesOn DEF Pcs, Waiting
<1>4. CASE Settles(e, r, "running") /\ lockq' = lockq
  BY <1>1, <1>4, GoesOff DEF Waiting
<1>. QED
  BY <1>2, <1>3, <1>4, Zenon DEF Adopts

LEMMA AdoptRemovedProgress ==
    ASSUME IInv, NEW e \in Ensures, AdoptRemoved(e)
    PROVE  Progress(e)
<1> DEFINE r == ens[e]
           q == [Unslotted(r) EXCEPT !.why = "create"]
<1>1. r.pc = "adopt-rm" /\ r \in Ensure /\ Stage(r) = 7 + 2 * MaxTries /\ MaxTries \in Nat
  BY UnderWay, AheadAt DEF AdoptRemoved
<1>2. q \in Ensure /\ q.why = "create"
  BY <1>1 DEF Unslotted, Ensure
<1>3. Calls(e, q, "queue") /\ lockq' = Append(lockq, e)
  BY DEF AdoptRemoved, Queues
<1> HIDE DEF q
<1>4. \A p \in Ensure : p.pc = "queue" /\ p.why = "create" => Stage(p) < Stage(r)
  BY <1>1, AheadAt
<1>. QED
  BY <1>1, <1>2, <1>3, <1>4, GoesOn DEF Pcs, Waiting

LEMMA AdmittedProgress ==
    ASSUME IInv, NEW e \in Ensures, Admitted(e)
    PROVE  Progress(e)
<1> DEFINE r == ens[e]
           q == [r EXCEPT !.limit = cap]
<1>1. r.pc = "queue" /\ r \in Ensure /\ lockq' = lockq
  BY UnderWay DEF Admitted
<1>2. q \in Ensure /\ q.why = r.why
  BY <1>1 DEF Ensure, IInv, TypeOK, RuntimeAssumption
<1>3. (r.why = "swap" /\ Calls(e, r, "swap-rm")) \/ (r.why # "swap" /\ Calls(e, q, "count"))
  BY DEF Admitted
<1> HIDE DEF q
<1>4. \A p \in Ensure : p.pc \in {"swap-rm", "count"} /\ p.why = r.why => Stage(p) < Stage(r)
  BY <1>1, AheadAt
<1>. QED
  BY <1>1, <1>2, <1>3, <1>4, GoesOn DEF Pcs, Waiting

LEMMA CheckedProgress ==
    ASSUME IInv, NEW e \in Ensures, Checked(e)
    PROVE  Progress(e)
<1> DEFINE r == ens[e]
           q == [Slotted(r) EXCEPT !.limit = 0]
           pc == IF r.why = "start" THEN "start" ELSE "prepare"
<1>1. r.pc = "count" /\ r \in Ensure /\ lockq' = Tail(lockq)
  BY UnderWay DEF Checked
<1>2. q \in Ensure
  BY <1>1 DEF Slotted, Ensure
<1>3. Settles(e, r, "full") \/ Calls(e, q, pc)
  BY DEF Checked
<1>4. CASE Settles(e, r, "full")
  BY <1>1, <1>4, GoesOff DEF Waiting
<1>5. CASE Calls(e, q, pc)
  <2>1. \A p \in Ensure : p.pc = pc => Stage(p) < Stage(r)
    <3>1. /\ MaxTries \in Nat
          /\ Stage(r) = 5 + 2 * MaxTries + (IF r.why = "start" THEN 5 ELSE 0)
      BY <1>1, AheadAt
    <3>2. \A p \in Ensure : /\ p.pc = "start" => Stage(p) = 9 + 2 * MaxTries
                            /\ p.pc = "prepare" => Stage(p) <= 4 + 2 * MaxTries
                            /\ Stage(p) \in Nat
      BY AheadAt
    <3>. QED
      BY <3>1, <3>2
  <2>2. pc \in {"start", "prepare"}
    OBVIOUS
  <2> HIDE DEF q, pc
  <2>. QED
    BY <1>1, <1>2, <1>5, <2>1, <2>2, GoesOn DEF Pcs, Waiting
<1>. QED
  BY <1>3, <1>4, <1>5

LEMMA SwappedProgress ==
    ASSUME IInv, NEW e \in Ensures, Swapped(e)
    PROVE  Progress(e)
<1> DEFINE r == ens[e]
           q == [Slotted(r) EXCEPT !.handed = TRUE]
<1>1. r.pc = "swap-rm" /\ r \in Ensure /\ lockq' = Tail(lockq) /\ Calls(e, q, "prepare")
  BY UnderWay DEF Swapped
<1>2. q \in Ensure
  BY <1>1 DEF Slotted, Ensure
<1> HIDE DEF q
<1>3. \A p \in Ensure : p.pc = "prepare" => Stage(p) < Stage(r)
  <2>1. MaxTries \in Nat /\ Stage(r) = 5 + 2 * MaxTries
    BY <1>1, AheadAt
  <2>2. \A p \in Ensure : p.pc = "prepare" => Stage(p) <= 4 + 2 * MaxTries
    BY AheadAt
  <2>3. \A p \in Ensure : Stage(p) \in Nat
    BY AheadAt
  <2>. QED
    BY <2>1, <2>2, <2>3
<1>. QED
  BY <1>1, <1>2, <1>3, GoesOn DEF Pcs, Waiting

LEMMA StartedProgress ==
    ASSUME IInv, NEW e \in Ensures, Started(e)
    PROVE  Progress(e)
<1>1. /\ ens[e].pc = "start" /\ ens[e] \in Ensure /\ lockq' = lockq
      /\ Calls(e, ens[e], "reinspect") \/ Calls(e, ens[e], "adopt-rm")
  BY UnderWay DEF Started
<1>2. \A p \in Ensure : p.pc \in {"reinspect", "adopt-rm"} => Stage(p) < Stage(ens[e])
  BY <1>1, AheadAt
<1>. QED
  BY <1>1, <1>2, GoesOn DEF Pcs, Waiting

LEMMA ReinspectedProgress ==
    ASSUME IInv, NEW e \in Ensures, Reinspected(e)
    PROVE  Progress(e)
<1>1. /\ ens[e].pc = "reinspect" /\ ens[e] \in Ensure /\ lockq' = lockq
      /\ ens[e].saw \in Containers
  BY UnderWay DEF Reinspected
<1>2. CASE Calls(e, ens[e], "adopt-rm")
  <2>1. \A p \in Ensure : p.pc = "adopt-rm" => Stage(p) < Stage(ens[e])
    BY <1>1, AheadAt
  <2>. QED
    BY <1>1, <1>2, <2>1, GoesOn DEF Pcs, Waiting
<1>3. CASE /\ ens[e].saw.state # "missing"
           /\ Settles(e, Unslotted(ens[e]), ens[e].saw.state)
  <2>1. ens[e].saw.state \in {"running", "stopped"}
    BY <1>1, <1>3 DEF Containers
  <2>2. Unslotted(ens[e]) \in Ensure
    BY <1>1, RecordFacts
  <2>. QED
    BY <1>1, <1>3, <2>1, <2>2, GoesOff DEF Waiting
<1>. QED
  BY <1>2, <1>3 DEF Reinspected

LEMMA PreparesProgress ==
    ASSUME IInv, NEW e \in Ensures, Prepares(e)
    PROVE  Progress(e)
<1>1. /\ ens[e].pc = "prepare" /\ ens[e] \in Ensure /\ lockq' = lockq
      /\ Calls(e, ens[e], "run") \/ Settles(e, Unslotted(ens[e]), "error")
  BY UnderWay DEF Prepares, Fails
<1>2. \A p \in Ensure : p.pc = "run" /\ p.tries = ens[e].tries => Stage(p) < Stage(ens[e])
  BY <1>1, AheadAt
<1>3. CASE Calls(e, ens[e], "run")
  BY <1>1, <1>2, <1>3, GoesOn DEF Pcs, Waiting
<1>4. CASE Settles(e, Unslotted(ens[e]), "error")
  <2>1. Unslotted(ens[e]) \in Ensure
    BY <1>1, RecordFacts
  <2>. QED
    BY <1>1, <1>4, <2>1, GoesOff DEF Waiting
<1>. QED
  BY <1>1, <1>3, <1>4

LEMMA RanProgress ==
    ASSUME IInv, NEW e \in Ensures, Ran(e)
    PROVE  Progress(e)
<1>1. ens[e].pc = "run" /\ ens[e] \in Ensure /\ lockq' = lockq
  BY UnderWay DEF Ran
<1>2. CASE Calls(e, ens[e], "verify")
  <2>1. \A p \in Ensure : p.pc = "verify" => Stage(p) < Stage(ens[e])
    BY <1>1, AheadAt
  <2>. QED
    BY <1>1, <1>2, <2>1, GoesOn DEF Pcs, Waiting
<1>3. CASE /\ ens[e].tries < MaxTries
           /\ Calls(e, [ens[e] EXCEPT !.tries = @ + 1], "prepare")
  <2> DEFINE q == [ens[e] EXCEPT !.tries = @ + 1]
  <2>1. ens[e].tries + 1 \in 0 .. MaxTries
    BY <1>1, <1>3 DEF Ensure, RuntimeAssumption
  <2>2. q \in Ensure /\ q.tries = ens[e].tries + 1
    BY <1>1, <2>1 DEF Ensure
  <2>3. Calls(e, q, "prepare")
    BY <1>3
  <2> HIDE DEF q
  <2>4. \A p \in Ensure : p.pc = "prepare" /\ p.tries = q.tries => Stage(p) < Stage(ens[e])
    BY <1>1, <2>2, AheadAt
  <2>. QED
    BY <1>1, <2>2, <2>3, <2>4, GoesOn DEF Pcs, Waiting
<1>4. CASE Fails(e)
  <2>1. Unslotted(ens[e]) \in Ensure
    BY <1>1, RecordFacts
  <2>. QED
    BY <1>1, <1>4, <2>1, GoesOff DEF Fails, Waiting
<1>. QED
  BY <1>2, <1>3, <1>4 DEF Ran

LEMMA VerifiedProgress ==
    ASSUME IInv, NEW e \in Ensures, Verified(e)
    PROVE  Progress(e)
<1> DEFINE st == IF ens[e].saw.state = "missing" THEN "starting" ELSE ens[e].saw.state
<1>1. /\ ens[e].pc = "verify" /\ ens[e] \in Ensure /\ lockq' = lockq
      /\ ens[e].saw \in Containers
  BY UnderWay DEF Verified
<1>2. st \in {"starting", "running", "stopped"} /\ Settles(e, Unslotted(ens[e]), st)
  BY <1>1 DEF Verified, Containers
<1> HIDE DEF st
<1>3. Unslotted(ens[e]) \in Ensure
  BY <1>1, RecordFacts
<1>. QED
  BY <1>1, <1>2, <1>3, GoesOff DEF Waiting

LEMMA EnsureEndsProgress ==
    ASSUME IInv, NEW e \in Ensures, EnsureEnds(e)
    PROVE  Progress(e)
<1> DEFINE q == [ens[e] EXCEPT !.pc = "done"]
<1>1. ens[e].pc = "settled" /\ ens[e] \in Ensure /\ lockq' = lockq /\ TypeOK
  BY DEF EnsureEnds, IInv, TypeOK
<1>2. q \in Ensure /\ q.pc = "done" /\ ens' = [ens EXCEPT ![e] = q]
  BY <1>1 DEF EnsureEnds, TypeOK, Ensure
<1> HIDE DEF q
<1>3. ens'[e] = q /\ \A f \in Ensures : f # e => ens'[f] = ens[f]
  BY <1>1, <1>2 DEF TypeOK
<1>4. Stage(q) < Stage(ens[e])
  BY <1>1, <1>2, AheadAt
<1>. QED
  BY <1>1, <1>2, <1>3, <1>4, LowerIsNearer DEF Progress, Nearer, LineChange, Waiting

\* What docker does of a call, too.
LEMMA DaemonProgress ==
    ASSUME IInv, NEW e \in Ensures, DaemonStep(e)
    PROVE  Progress(e)
<1>1. /\ ens \in [Ensures -> Ensure] /\ ens[e] \in Ensure /\ ~ens[e].did
      /\ lockq' = lockq
  BY DEF IInv, TypeOK, DaemonStep, DaemonInspects, DaemonRemoves, DaemonCounts,
         DaemonStarts, DaemonRuns
<1>2. ASSUME NEW q \in Ensure, Returns(e, q), q.pc = ens[e].pc, q.why = ens[e].why,
             q.tries = ens[e].tries
      PROVE  Progress(e)
  <2> DEFINE p == [q EXCEPT !.did = TRUE]
  <2>1. p \in Ensure /\ p.did /\ p.pc = q.pc /\ p.why = q.why /\ p.tries = q.tries
    BY DEF Ensure
  <2>2. ens' = [ens EXCEPT ![e] = p]
    BY <1>2 DEF Returns
  <2> HIDE DEF p
  <2>3. ens'[e] = p /\ \A f \in Ensures : f # e => ens'[f] = ens[f]
    BY <1>1, <2>2
  <2>4. Stage(p) = Stage(ens[e])
    BY <1>2, <2>1 DEF Stage
  <2>5. Stage(p) \in Nat
    BY <2>1, AheadAt
  <2>6. Ahead(p) < Ahead(ens[e])
    BY <1>1, <2>1, <2>4, <2>5 DEF Ahead
  <2>. QED
    BY <1>1, <1>2, <2>1, <2>3, <2>6 DEF Progress, Nearer, LineChange
<1>3. /\ \A c \in Containers : LET q == [ens[e] EXCEPT !.saw = c]
                               IN /\ q \in Ensure /\ q.pc = ens[e].pc
                                  /\ q.why = ens[e].why /\ q.tries = ens[e].tries
      /\ \A n \in Nat : LET q == [ens[e] EXCEPT !.n = n]
                        IN /\ q \in Ensure /\ q.pc = ens[e].pc
                           /\ q.why = ens[e].why /\ q.tries = ens[e].tries
      /\ \A x \in {"ok", "error", "bind"} : LET q == [ens[e] EXCEPT !.exit = x]
                        IN /\ q \in Ensure /\ q.pc = ens[e].pc
                           /\ q.why = ens[e].why /\ q.tries = ens[e].tries
  BY <1>1 DEF Ensure
<1>4. CASE DaemonInspects(e)
  <2>1. ens[e].ws \in Workspaces
    BY <1>4, UnderWay DEF DaemonInspects
  <2>2. docker[ens[e].ws] \in Containers /\ Missing \in Containers
    BY <2>1 DEF IInv, TypeOK, Containers, Missing
  <2>3. PICK c \in Containers : Returns(e, [ens[e] EXCEPT !.saw = c])
    BY <1>4, <2>2 DEF DaemonInspects, Seen
  <2> DEFINE q == [ens[e] EXCEPT !.saw = c]
  <2>4. /\ q \in Ensure /\ q.pc = ens[e].pc /\ q.why = ens[e].why
        /\ q.tries = ens[e].tries /\ Returns(e, q)
    BY <1>3, <2>3
  <2> HIDE DEF q
  <2>. QED
    BY <1>2, <2>4
<1>5. CASE DaemonRemoves(e)
  BY <1>1, <1>2, <1>5 DEF DaemonRemoves
<1>6. CASE DaemonCounts(e)
  <2>1. Cardinality(Running) \in Nat
    BY RunningIsFinite, FS_CardinalityType
  <2>2. PICK n \in Nat : Returns(e, [ens[e] EXCEPT !.n = n])
    BY <1>6, <2>1 DEF DaemonCounts
  <2> DEFINE q == [ens[e] EXCEPT !.n = n]
  <2>3. /\ q \in Ensure /\ q.pc = ens[e].pc /\ q.why = ens[e].why
        /\ q.tries = ens[e].tries /\ Returns(e, q)
    BY <1>3, <2>2
  <2> HIDE DEF q
  <2>. QED
    BY <1>2, <2>3
<1>7. CASE DaemonStarts(e)
  BY <1>2, <1>3, <1>7 DEF DaemonStarts
<1>8. CASE DaemonRuns(e)
  BY <1>2, <1>3, <1>8 DEF DaemonRuns
<1>. QED
  BY <1>4, <1>5, <1>6, <1>7, <1>8 DEF DaemonStep

LEMMA EnsureProgress ==
    ASSUME IInv, NEW e \in Ensures, Step(e) \/ DaemonStep(e)
    PROVE  Progress(e)
BY EnsureEndsProgress, AdoptsProgress, AdoptRemovedProgress, AdmittedProgress,
   CheckedProgress, SwappedProgress, StartedProgress, ReinspectedProgress,
   PreparesProgress, RanProgress, VerifiedProgress, DaemonProgress DEF Step

\* No other step touches an ensure that is under way, or the line.
LEMMA OthersLeaveThem ==
    ASSUME IInv, [Next]_vars, \A e \in Ensures : ~(Step(e) \/ DaemonStep(e))
    PROVE  /\ \A f \in Ensures : InFlight(f) => ens'[f] = ens[f]
           /\ \A f \in Ensures : ens'[f].pc \in Waiting <=> ens[f].pc \in Waiting
           /\ lockq' = lockq
<1> DEFINE Goal == /\ \A f \in Ensures : InFlight(f) => ens'[f] = ens[f]
                   /\ \A f \in Ensures : ens'[f].pc \in Waiting <=> ens[f].pc \in Waiting
                   /\ lockq' = lockq
<1>1. CASE UNCHANGED <<ens, lockq>>
  BY <1>1 DEF InFlight
<1>2. ASSUME NEW r, r.pc = "inspect", begun < MaxEnsures,
             ens' = [ens EXCEPT ![begun + 1] = r], lockq' = lockq
      PROVE  Goal
  <2>1. begun + 1 \in Ensures /\ ens \in [Ensures -> Ensure] /\ begun \in Nat
    BY <1>2 DEF IInv, TypeOK, RuntimeAssumption
  <2>2. ens[begun + 1].pc = "none"
    BY <2>1 DEF IInv, EnsureInv
  <2>3. ens'[begun + 1] = r /\ \A f \in Ensures : f # begun + 1 => ens'[f] = ens[f]
    BY <1>2, <2>1
  <2>. QED
    BY <1>2, <2>1, <2>2, <2>3 DEF InFlight, Waiting
<1>3. ASSUME NEW w \in Workspaces, EnsureBegins(w) PROVE Goal
  <2>1. NewEnsure(w).pc = "inspect"
    BY DEF NewEnsure
  <2>. QED
    BY <1>2, <1>3, <2>1 DEF EnsureBegins, Begin
<1>4. ASSUME NEW o \in Ops, Restarts(o) PROVE Goal
  <2> DEFINE r == [NewEnsure(ops[o].ws) EXCEPT !.epoch = epoch + 1]
  <2>1. r.pc = "inspect"
    BY DEF NewEnsure
  <2> HIDE DEF r
  <2>2. begun < MaxEnsures /\ ens' = [ens EXCEPT ![begun + 1] = r] /\ lockq' = lockq
    BY <1>4 DEF Restarts, r
  <2>. QED
    BY <1>2, <2>1, <2>2
<1>5. ASSUME NEW w \in Workspaces, CacheExpires(w) \/ Dies(w) \/ CleansUp(w)
      PROVE  UNCHANGED <<ens, lockq>>
  BY <1>5 DEF CacheExpires, Dies, CleansUp
<1>6. ASSUME NEW w \in Workspaces, NEW kind \in OpKinds, OpBegins(w, kind)
      PROVE  UNCHANGED <<ens, lockq>>
  BY <1>6 DEF OpBegins
<1>7. ASSUME NEW o \in Ops, DaemonServes(o) \/ StopNeeded(o) \/ Stopped(o) \/ Removed(o)
      PROVE  UNCHANGED <<ens, lockq>>
  BY <1>7 DEF DaemonServes, StopNeeded, Stopped, Removed
<1>8. ASSUME NEW c \in Caps, SetsCap(c) PROVE UNCHANGED <<ens, lockq>>
  BY <1>8 DEF SetsCap
<1>9. UNCHANGED vars => UNCHANGED <<ens, lockq>>
  BY DEF vars
<1> HIDE DEF Goal
<1>10. UNCHANGED <<ens, lockq>> => Goal
  BY <1>1 DEF Goal
<1>11. Goal
  BY <1>3, <1>4, <1>5, <1>6, <1>7, <1>8, <1>9, <1>10 DEF Next, OpStep
<1>. QED
  BY <1>11 DEF Goal

\* The line for the admission lock is made of the ensures that wait for it or
\* hold it, each once, and only its head counts or swaps: a place in it is given
\* up by everyone who fails or is turned away.
THEOREM LockIsHeldInTurn == Spec => []LockIsAQueue
<1>1. Init => Line
  BY InitInv DEF Init, Line, InLine, IInv, EnsureInv, Waiting, NewEnsure
<1>2. IInv /\ Line /\ [Next]_vars => Line'
  <2> SUFFICES ASSUME IInv, Line, [Next]_vars PROVE Line'
    OBVIOUS
  <2>1. CASE \E e \in Ensures : Step(e) \/ DaemonStep(e)
    BY <2>1, EnsureProgress, LineKept DEF Progress
  <2>2. CASE \A e \in Ensures : ~(Step(e) \/ DaemonStep(e))
    BY <2>2, OthersLeaveThem, LineAsIs
  <2>. QED
    BY <2>1, <2>2
<1>3. IInv /\ Line => LockIsAQueue
  BY DEF IInv, HoldsLock, Line, LockIsAQueue, Waiting
<1>. QED
  BY Inductive, <1>1, <1>2, <1>3, PTL DEF Spec

\* Every step an ensure is part of brings it nearer to its end, whatever docker
\* answers and whoever stops, removes or restarts its container meanwhile.
THEOREM EnsuresDescend == Spec => EnsuresComeCloser
<1>1. IInv /\ [Next]_vars =>
        [\A e \in Ensures : InFlight(e) =>
            ens'[e] = ens[e] \/ Ahead(ens'[e]) < Ahead(ens[e])]_vars
  <2> SUFFICES ASSUME IInv, [Next]_vars, NEW e \in Ensures, InFlight(e)
               PROVE  ens'[e] = ens[e] \/ Ahead(ens'[e]) < Ahead(ens[e])
    OBVIOUS
  <2>1. CASE \E f \in Ensures : Step(f) \/ DaemonStep(f)
    BY <2>1, EnsureProgress DEF Progress, Nearer
  <2>2. CASE \A f \in Ensures : ~(Step(f) \/ DaemonStep(f))
    BY <2>2, OthersLeaveThem
  <2>. QED
    BY <2>1, <2>2
<1>. QED
  BY Inductive, <1>1, PTL DEF Spec, EnsuresComeCloser
=============================================================================
