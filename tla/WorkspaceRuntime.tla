-------------------------- MODULE WorkspaceRuntime --------------------------
(***************************************************************************)
(* The Docker runtime provider (containers/local-docker-runtime-provider.ts *)
(* with containers/lifecycle.ts): bringing a workspace's container up,     *)
(* stopping, removing and restarting it, the admission control that caps   *)
(* running containers, the single-flight map of ensures, the short-lived   *)
(* cache of "running" results with its epoch, and the container leases.    *)
(*                                                                         *)
(* A call of the docker CLI is two steps: the daemon does it, and later    *)
(* the promise resolves with what the daemon saw.  Between two awaits the  *)
(* code is one step.                                                       *)
(***************************************************************************)
EXTENDS Naturals, Sequences, FiniteSets

CONSTANTS Workspaces,
          MaxEnsures,   \* bound: ensures that are started
          MaxOps,       \* bound: stops, removes and restarts
          MaxTries,     \* bound: attempts at a free set of host ports
          MaxDeaths,    \* bound: containers that die on their own
          OpKinds,      \* those in use, a subset of "stop", "remove", "restart"
          Caps,         \* values of the container cap an admin chooses from
          Fits,         \* what containers of an earlier process look like
          Flaky         \* docker commands may fail

None == 0

ASSUME RuntimeAssumption ==
    /\ MaxEnsures \in Nat /\ MaxOps \in Nat /\ MaxTries \in Nat /\ MaxDeaths \in Nat
    /\ OpKinds \subseteq {"stop", "remove", "restart"}
    /\ Caps \subseteq Nat /\ Caps # {}
    /\ Fits \subseteq {"current", "oldimage", "foreign"}
    /\ Flaky \in BOOLEAN
    /\ IsFiniteSet(Workspaces) /\ None \notin Workspaces

Ensures == 1 .. MaxEnsures
Ops     == 1 .. MaxOps

VARIABLES
    docker,    \* the container of each workspace, in the daemon
    lease,     \* code_state of its container_leases row, "none" without a row
    cap,       \* getEffectiveMaxActiveContainers
    deaths,
    ens,       \* runs of ensureCodeContainerInner, by number
    begun,     \* number of ensures started
    ops,       \* runs of stop, remove and restart, by number
    opsBegun,
    active,    \* activeEnsures
    cached,    \* ensure whose result runningStatuses holds while it is fresh
    epoch,     \* runningStatusEpoch
    pending,   \* pendingCreates
    lockq,     \* admissionLock: its holder, then the waiting ensures in order
    overtaken  \* history: ensures begun before a stop or remove that completed

vars == <<docker, lease, cap, deaths, ens, begun, ops, opsBegun, active,
          cached, epoch, pending, lockq, overtaken>>
control == <<active, cached, epoch, overtaken>>
world   == <<cap, deaths, begun, ops, opsBegun>>

\* "foreign": other labels, another /config mount or other ports than expected.
Containers == [state : {"missing", "stopped", "running"},
               fit   : {"current", "oldimage", "foreign"}]
Missing == [state |-> "missing", fit |-> "current"]

Ensure == [ws    : Workspaces \cup {None},
           pc    : {"none", "inspect", "adopt-rm", "queue", "count", "swap-rm",
                    "start", "reinspect", "prepare", "run", "verify",
                    "settled", "done"},
           did   : BOOLEAN,               \* the daemon has carried out the call
           exit  : {"ok", "error", "bind"},  \* how the call ended
           saw   : Containers,            \* last container inspected
           why   : {"create", "start", "swap"},  \* what the lock is taken for
           n     : Nat,                   \* running containers counted
           limit : Nat,                   \* cap read before counting
           slot  : BOOLEAN,               \* it is counted in pendingCreates
           handed : BOOLEAN,              \* the slot came with a recreated container
           tries : 0 .. MaxTries,
           epoch : Nat,
           result : {"none", "running", "stopped", "starting", "error", "full"}]

Op == [kind : {"stop", "remove", "restart"},
       ws   : Workspaces \cup {None},
       pc   : {"none", "inspect", "stop", "rm", "done"},
       did  : BOOLEAN,
       saw  : Containers]

TypeOK ==
    /\ docker \in [Workspaces -> Containers]
    /\ lease \in [Workspaces -> {"none", "starting", "running", "stopped",
                                 "missing", "error"}]
    /\ cap \in Caps
    /\ deaths \in 0 .. MaxDeaths
    /\ ens \in [Ensures -> Ensure]
    /\ begun \in 0 .. MaxEnsures
    /\ ops \in [Ops -> Op]
    /\ opsBegun \in 0 .. MaxOps
    /\ active \in [Workspaces -> Ensures \cup {None}]
    /\ cached \in [Workspaces -> Ensures \cup {None}]
    /\ epoch \in Nat
    /\ pending \in Nat
    /\ lockq \in Seq(Ensures)
    /\ overtaken \subseteq Ensures

NewEnsure(w) ==
    [ws |-> w, pc |-> "inspect", did |-> FALSE, exit |-> "ok", saw |-> Missing,
     why |-> "create", n |-> 0, limit |-> 0, slot |-> FALSE, handed |-> FALSE,
     tries |-> 0, epoch |-> epoch, result |-> "none"]

Init ==
    /\ docker \in [Workspaces -> {Missing} \cup
                      [state : {"stopped", "running"}, fit : Fits]]
    /\ cap \in Caps
    /\ Cardinality({w \in Workspaces : docker[w].state = "running"}) <= cap
    /\ lease = [w \in Workspaces |->
                   IF docker[w] = Missing THEN "none" ELSE docker[w].state]
    /\ deaths = 0
    /\ epoch = 0
    /\ ens = [e \in Ensures |-> [NewEnsure(None) EXCEPT !.pc = "none", !.epoch = 0]]
    /\ begun = 0
    /\ ops = [o \in Ops |-> [kind |-> "stop", ws |-> None, pc |-> "none",
                             did |-> FALSE, saw |-> Missing]]
    /\ opsBegun = 0
    /\ active = [w \in Workspaces |-> None]
    /\ cached = [w \in Workspaces |-> None]
    /\ pending = 0
    /\ lockq = <<>>
    /\ overtaken = {}

-----------------------------------------------------------------------------
(* Helpers                                                                 *)

Running == {w \in Workspaces : docker[w].state = "running"}
InFlight(e) == ens[e].pc \notin {"none", "done"}

\* What the last call returned is not looked at again.
Consumed(r) == [r EXCEPT !.did = FALSE, !.exit = "ok", !.saw = Missing, !.n = 0]

\* e calls docker, or waits, in its next state pc; r is its record so far.
Calls(e, r, pc) == ens' = [ens EXCEPT ![e] = [Consumed(r) EXCEPT !.pc = pc]]

\* The inner promise settles, and its locals are gone.
Settles(e, r, res) ==
    ens' = [ens EXCEPT ![e] = [NewEnsure(r.ws) EXCEPT
                !.pc = "settled", !.epoch = r.epoch, !.slot = r.slot, !.result = res]]

Leases(w, st) == lease' = [lease EXCEPT ![w] = st]

Queues(e, r, why) ==
    /\ Calls(e, [r EXCEPT !.why = why], "queue")
    /\ lockq' = Append(lockq, e)

\* pendingCreates = Math.max(0, pendingCreates - 1)
OneLess(p) == IF p = 0 THEN 0 ELSE p - 1

Unslotted(r) == [r EXCEPT !.slot = FALSE, !.handed = FALSE]
Slotted(r)   == [r EXCEPT !.slot = TRUE]

-----------------------------------------------------------------------------
(* ensureCodeContainer                                                     *)

Begin(w) ==
    /\ begun < MaxEnsures
    /\ begun' = begun + 1
    /\ ens' = [ens EXCEPT ![begun + 1] = NewEnsure(w)]
    /\ active' = [active EXCEPT ![w] = begun + 1]

\* Neither a fresh cached result nor an ensure under way to join.
EnsureBegins(w) ==
    /\ cached[w] = None /\ active[w] = None
    /\ Begin(w)
    /\ UNCHANGED <<docker, lease, cap, deaths, ops, opsBegun, cached, epoch,
                   pending, lockq, overtaken>>

\* The continuation of the await of the inner promise.
SettlesIgnoringEpoch(e) ==   \* mutant: the epoch is not compared
    /\ ens[e].pc = "settled"
    /\ ens' = [ens EXCEPT ![e].pc = "done"]
    /\ LET w == ens[e].ws
       IN /\ cached' = IF ens[e].result = "running"
                       THEN [cached EXCEPT ![w] = e] ELSE cached
          /\ active' = IF active[w] = e THEN [active EXCEPT ![w] = None] ELSE active
    /\ UNCHANGED <<docker, lease, world, epoch, overtaken, pending, lockq>>
SettlesDroppingAny(e) ==     \* mutant: the entry is deleted whoever put it there
    /\ ens[e].pc = "settled"
    /\ ens' = [ens EXCEPT ![e].pc = "done"]
    /\ LET w == ens[e].ws
       IN /\ cached' = IF ens[e].result = "running" /\ ens[e].epoch = epoch
                       THEN [cached EXCEPT ![w] = e] ELSE cached
          /\ active' = [active EXCEPT ![w] = None]
    /\ UNCHANGED <<docker, lease, world, epoch, overtaken, pending, lockq>>
EnsureEnds(e) ==
    /\ ens[e].pc = "settled"
    /\ ens' = [ens EXCEPT ![e].pc = "done"]
    /\ LET w == ens[e].ws
       IN /\ cached' = IF ens[e].result = "running" /\ ens[e].epoch = epoch
                       THEN [cached EXCEPT ![w] = e] ELSE cached
          /\ active' = IF active[w] = e THEN [active EXCEPT ![w] = None] ELSE active
    /\ UNCHANGED <<docker, lease, world, epoch, overtaken, pending, lockq>>

\* RUNNING_STATUS_TTL_MS has passed.
CacheExpires(w) ==
    /\ cached[w] # None
    /\ cached' = [cached EXCEPT ![w] = None]
    /\ UNCHANGED <<docker, lease, world, ens, active, epoch, overtaken, pending, lockq>>

-----------------------------------------------------------------------------
(* What the daemon does for a call of an ensure                            *)

\* The call of e is carried out; r holds what it will return.
\* A docker inspect that fails reads as no container; a stop or a remove that
\* fails goes unnoticed.
Returns(e, r) == ens' = [ens EXCEPT ![e] = [r EXCEPT !.did = TRUE]]
Seen(w)   == {docker[w]} \cup (IF Flaky THEN {Missing} ELSE {})
OrNot(d)  == {d} \cup (IF Flaky THEN {docker} ELSE {})

DaemonInspects(e) ==
    /\ ens[e].pc \in {"inspect", "reinspect", "verify"} /\ ~ens[e].did
    /\ \E c \in Seen(ens[e].ws) :
          Returns(e, [ens[e] EXCEPT !.saw = c])
    /\ UNCHANGED <<docker, lease, world, control, pending, lockq>>

\* docker rm -f, whose failure is ignored
DaemonRemoves(e) ==
    /\ ens[e].pc \in {"adopt-rm", "swap-rm"} /\ ~ens[e].did
    /\ Returns(e, ens[e])
    /\ docker' \in OrNot([docker EXCEPT ![ens[e].ws] = Missing])
    /\ UNCHANGED <<lease, world, control, pending, lockq>>

\* countRunningContainers counts 0 when docker container ls fails.
DaemonCounts(e) ==
    /\ ens[e].pc = "count" /\ ~ens[e].did
    /\ \E n \in {Cardinality(Running)} \cup (IF Flaky THEN {0} ELSE {}) :
          Returns(e, [ens[e] EXCEPT !.n = n])
    /\ UNCHANGED <<docker, lease, world, control, pending, lockq>>

DaemonStarts(e) ==
    /\ ens[e].pc = "start" /\ ~ens[e].did
    /\ LET w == ens[e].ws
       IN \/ /\ docker[w].state # "missing"
             /\ docker' = [docker EXCEPT ![w].state = "running"]
             /\ Returns(e, [ens[e] EXCEPT !.exit = "ok"])
          \/ /\ docker[w].state = "missing" \/ Flaky
             /\ Returns(e, [ens[e] EXCEPT !.exit = "error"])
             /\ UNCHANGED docker
    /\ UNCHANGED <<lease, world, control, pending, lockq>>

\* docker run -d: the name must be free.  A run that fails, for a taken port or
\* another reason, may leave the container behind without starting it.
DaemonRuns(e) ==
    /\ ens[e].pc = "run" /\ ~ens[e].did
    /\ LET w == ens[e].ws
           Built(st) == [docker EXCEPT ![w] = [state |-> st, fit |-> "current"]]
       IN \/ /\ docker[w].state = "missing"
             /\ docker' = Built("running")
             /\ Returns(e, [ens[e] EXCEPT !.exit = "ok"])
          \/ /\ docker[w].state = "missing" /\ Flaky
             /\ docker' \in {docker, Built("stopped")}
             /\ \E x \in {"error", "bind"} :
                   Returns(e, [ens[e] EXCEPT !.exit = x])
          \/ /\ docker[w].state # "missing"
             /\ Returns(e, [ens[e] EXCEPT !.exit = "error"])
             /\ UNCHANGED docker
    /\ UNCHANGED <<lease, world, control, pending, lockq>>

-----------------------------------------------------------------------------
(* ensureCodeContainerInner and adoptCodeContainer                         *)

Adopts(e) ==
    /\ ens[e].pc = "inspect" /\ ens[e].did
    /\ LET r == ens[e]
           c == ens[e].saw
       IN \/ /\ c.state = "missing"
             /\ Queues(e, r, "create")
             /\ UNCHANGED lease
          \/ /\ c.state # "missing"
             /\ c.fit = "foreign" \/ (c.fit = "oldimage" /\ c.state = "stopped")
             /\ Calls(e, r, "adopt-rm")
             /\ UNCHANGED <<lease, lockq>>
          \/ /\ c.state = "running" /\ c.fit = "oldimage"
             /\ Queues(e, r, "swap")
             /\ UNCHANGED lease
          \/ /\ c.state = "running" /\ c.fit = "current"
             /\ Leases(r.ws, "running")
             /\ Settles(e, r, "running")
             /\ UNCHANGED lockq
          \/ /\ c.state = "stopped" /\ c.fit = "current"
             /\ Queues(e, r, "start")
             /\ UNCHANGED lease
    /\ UNCHANGED <<docker, world, control, pending>>

\* The container in the way is gone: create one, through admission again.  The
\* finally of the start path has given its slot back.
AdoptRemoved(e) ==
    /\ ens[e].pc = "adopt-rm" /\ ens[e].did
    /\ Queues(e, Unslotted(ens[e]), "create")
    /\ pending' = IF ens[e].slot THEN OneLess(pending) ELSE pending
    /\ UNCHANGED <<docker, lease, world, control>>

Admitted(e) ==
    /\ ens[e].pc = "queue"
    /\ lockq # <<>> /\ Head(lockq) = e
    /\ IF ens[e].why = "swap"
       THEN Calls(e, ens[e], "swap-rm")
       ELSE Calls(e, [ens[e] EXCEPT !.limit = cap], "count")
    /\ UNCHANGED <<docker, lease, world, control, pending, lockq>>

\* checkCapacity after its await.
NoRoomAbove(r) == r.n + pending > r.limit   \* mutant: one slot too many
NoRoom(r) == r.n + pending >= r.limit
CheckedKeepingLock(e) ==     \* mutant: the lock is not released on rejection
    /\ ens[e].pc = "count" /\ ens[e].did
    /\ \/ /\ NoRoom(ens[e])
          /\ Settles(e, ens[e], "full")
          /\ UNCHANGED <<pending, lockq>>
       \/ /\ ~NoRoom(ens[e])
          /\ Calls(e, [Slotted(ens[e]) EXCEPT !.limit = 0],
                   IF ens[e].why = "start" THEN "start" ELSE "prepare")
          /\ pending' = pending + 1
          /\ lockq' = Tail(lockq)
    /\ UNCHANGED <<docker, lease, world, control>>
Checked(e) ==
    /\ ens[e].pc = "count" /\ ens[e].did
    /\ \/ /\ NoRoom(ens[e])
          /\ Settles(e, ens[e], "full")
          /\ UNCHANGED pending
       \/ /\ ~NoRoom(ens[e])
          /\ Calls(e, [Slotted(ens[e]) EXCEPT !.limit = 0],
                   IF ens[e].why = "start" THEN "start" ELSE "prepare")
          /\ pending' = pending + 1
    /\ lockq' = Tail(lockq)
    /\ UNCHANGED <<docker, lease, world, control>>

\* The slot of the running container goes to its replacement.
Swapped(e) ==
    /\ ens[e].pc = "swap-rm" /\ ens[e].did
    /\ Calls(e, [Slotted(ens[e]) EXCEPT !.handed = TRUE], "prepare")
    /\ pending' = pending + 1
    /\ lockq' = Tail(lockq)
    /\ UNCHANGED <<docker, lease, world, control>>

Started(e) ==
    /\ ens[e].pc = "start" /\ ens[e].did
    /\ Calls(e, ens[e], IF ens[e].exit = "ok" THEN "reinspect" ELSE "adopt-rm")
    /\ UNCHANGED <<docker, lease, world, control, pending, lockq>>

ReinspectedKeepingSlot(e) ==  \* mutant: no finally around the start path
    /\ ens[e].pc = "reinspect" /\ ens[e].did
    /\ LET r == ens[e]
       IN IF r.saw.state = "missing" \/ r.saw.fit = "foreign"
          THEN Calls(e, r, "adopt-rm") /\ UNCHANGED <<lease, pending>>
          ELSE /\ Leases(r.ws, r.saw.state)
               /\ Settles(e, Unslotted(r), r.saw.state)
               /\ UNCHANGED pending
    /\ UNCHANGED <<docker, world, control, lockq>>
Reinspected(e) ==
    /\ ens[e].pc = "reinspect" /\ ens[e].did
    /\ LET r == ens[e]
       IN IF r.saw.state = "missing" \/ r.saw.fit = "foreign"
          THEN Calls(e, r, "adopt-rm") /\ UNCHANGED <<lease, pending>>
          ELSE /\ Leases(r.ws, r.saw.state)
               /\ Settles(e, Unslotted(r), r.saw.state)
               /\ pending' = OneLess(pending)
    /\ UNCHANGED <<docker, world, control, lockq>>

\* An error of the create path: the finally, then recordError.
Fails(e) ==
    /\ Leases(ens[e].ws, "error")
    /\ Settles(e, Unslotted(ens[e]), "error")
    /\ pending' = OneLess(pending)

\* Ports reserved, image found, home directory made: docker run is next.  Any
\* of these may fail, on a full disk or with every port of a range taken.
Prepares(e) ==
    /\ ens[e].pc = "prepare"
    /\ \/ /\ Leases(ens[e].ws, "starting")
          /\ Calls(e, ens[e], "run")
          /\ UNCHANGED pending
       \/ Flaky /\ Fails(e)
    /\ UNCHANGED <<docker, world, control, lockq>>

\* A bind error rejects the ports and tries others; any other error is final.
Ran(e) ==
    /\ ens[e].pc = "run" /\ ens[e].did
    /\ \/ /\ ens[e].exit = "ok"
          /\ Calls(e, ens[e], "verify")
          /\ UNCHANGED <<lease, pending>>
       \/ /\ ens[e].exit = "bind" /\ ens[e].tries < MaxTries
          /\ Leases(ens[e].ws, "error")
          /\ Calls(e, [ens[e] EXCEPT !.tries = @ + 1], "prepare")
          /\ UNCHANGED pending
       \/ /\ ens[e].exit = "error" \/ (ens[e].exit = "bind" /\ ens[e].tries = MaxTries)
          /\ Fails(e)
    /\ UNCHANGED <<docker, world, control, lockq>>

Verified(e) ==
    /\ ens[e].pc = "verify" /\ ens[e].did
    /\ LET r  == ens[e]
           st == IF r.saw.state = "missing" THEN "starting" ELSE r.saw.state
       IN /\ Leases(r.ws, st)
          /\ Settles(e, Unslotted(r), st)
          /\ pending' = OneLess(pending)
    /\ UNCHANGED <<docker, world, control, lockq>>

-----------------------------------------------------------------------------
(* Stop, remove and restart.  The idle sweep, the admin pages, the end of a  *)
(* classroom and the deletion of a user all come down to these.              *)

Asks(o, r, pc) ==
    ops' = [ops EXCEPT ![o] = [r EXCEPT !.pc = pc, !.did = FALSE, !.saw = Missing]]

OpBegins(w, kind) ==
    /\ opsBegun < MaxOps
    /\ opsBegun' = opsBegun + 1
    /\ ops' = [ops EXCEPT ![opsBegun + 1] =
                   [kind |-> kind, ws |-> w, did |-> FALSE, saw |-> Missing,
                    pc |-> IF kind = "remove" THEN "rm" ELSE "inspect"]]
    /\ UNCHANGED <<docker, lease, cap, deaths, ens, begun, control, pending, lockq>>

DaemonServes(o) ==
    /\ ops[o].pc \in {"inspect", "stop", "rm"} /\ ~ops[o].did
    /\ LET w == ops[o].ws
       IN \/ /\ ops[o].pc = "inspect"
             /\ \E c \in Seen(w) : ops' = [ops EXCEPT ![o].did = TRUE, ![o].saw = c]
             /\ UNCHANGED docker
          \/ /\ ops[o].pc = "stop"
             /\ ops' = [ops EXCEPT ![o].did = TRUE]
             /\ docker' \in OrNot(IF docker[w].state = "running"
                                  THEN [docker EXCEPT ![w].state = "stopped"]
                                  ELSE docker)
          \/ /\ ops[o].pc = "rm"
             /\ ops' = [ops EXCEPT ![o].did = TRUE]
             /\ docker' \in OrNot([docker EXCEPT ![w] = Missing])
    /\ UNCHANGED <<lease, cap, deaths, ens, begun, opsBegun, control, pending, lockq>>

StopNeeded(o) ==
    /\ ops[o].pc = "inspect" /\ ops[o].did /\ ops[o].saw.state = "running"
    /\ Asks(o, ops[o], "stop")
    /\ UNCHANGED <<docker, lease, cap, deaths, ens, begun, opsBegun, control,
                   pending, lockq>>

\* The lease, if there is one, and the finally of withRunningStatusInvalidated.
Invalidates(w, st) ==
    /\ lease' = IF lease[w] = "none" THEN lease ELSE [lease EXCEPT ![w] = st]
    /\ cached' = [cached EXCEPT ![w] = None]
    /\ epoch' = epoch + 1
    /\ overtaken' = overtaken \cup {e \in Ensures : ens[e].ws = w}

Stopped(o) ==
    /\ ops[o].did
    /\ ops[o].pc = "stop" \/ (ops[o].pc = "inspect" /\ ops[o].saw.state # "running")
    /\ Invalidates(ops[o].ws, "stopped")
    /\ Asks(o, ops[o], IF ops[o].kind = "restart" THEN "rm" ELSE "done")
    /\ UNCHANGED <<docker, cap, deaths, ens, begun, opsBegun, active, pending, lockq>>

Removed(o) ==
    /\ ops[o].pc = "rm" /\ ops[o].did /\ ops[o].kind = "remove"
    /\ Invalidates(ops[o].ws, "missing")
    /\ Asks(o, ops[o], "done")
    /\ UNCHANGED <<docker, cap, deaths, ens, begun, opsBegun, active, pending, lockq>>

\* restartCodeContainer drops the entry of an ensure that may still be under
\* way and starts another.
Restarts(o) ==
    /\ ops[o].pc = "rm" /\ ops[o].did /\ ops[o].kind = "restart"
    /\ Invalidates(ops[o].ws, "missing")
    /\ Asks(o, ops[o], "done")
    /\ begun < MaxEnsures
    /\ begun' = begun + 1
    /\ ens' = [ens EXCEPT ![begun + 1] = [NewEnsure(ops[o].ws) EXCEPT !.epoch = epoch + 1]]
    /\ active' = [active EXCEPT ![ops[o].ws] = begun + 1]
    /\ UNCHANGED <<docker, cap, deaths, opsBegun, pending, lockq>>

-----------------------------------------------------------------------------
(* The world outside                                                       *)

Dies(w) ==
    /\ deaths < MaxDeaths /\ docker[w].state = "running"
    /\ deaths' = deaths + 1
    /\ docker' = [docker EXCEPT ![w].state = "stopped"]
    /\ UNCHANGED <<lease, cap, ens, begun, ops, opsBegun, control, pending, lockq>>

\* cleanupStoppedContainers
CleansUp(w) ==
    /\ docker[w].state = "stopped"
    /\ docker' = [docker EXCEPT ![w] = Missing]
    /\ UNCHANGED <<lease, world, ens, control, pending, lockq>>

SetsCap(c) ==
    /\ c # cap
    /\ cap' = c
    /\ UNCHANGED <<docker, lease, deaths, ens, begun, ops, opsBegun, control,
                   pending, lockq>>

-----------------------------------------------------------------------------

Step(e) ==
    \/ EnsureEnds(e) \/ Adopts(e) \/ AdoptRemoved(e) \/ Admitted(e) \/ Checked(e)
    \/ Swapped(e) \/ Started(e) \/ Reinspected(e) \/ Prepares(e) \/ Ran(e)
    \/ Verified(e)
DaemonStep(e) ==
    \/ DaemonInspects(e) \/ DaemonRemoves(e) \/ DaemonCounts(e)
    \/ DaemonStarts(e) \/ DaemonRuns(e)
OpStep(o) ==
    DaemonServes(o) \/ StopNeeded(o) \/ Stopped(o) \/ Removed(o) \/ Restarts(o)

Next ==
    \/ \E w \in Workspaces : EnsureBegins(w) \/ CacheExpires(w) \/ Dies(w) \/ CleansUp(w)
    \/ \E w \in Workspaces, kind \in OpKinds : OpBegins(w, kind)
    \/ \E e \in Ensures : Step(e) \/ DaemonStep(e)
    \/ \E o \in Ops : OpStep(o)
    \/ \E c \in Caps : SetsCap(c)

Spec == Init /\ [][Next]_vars

\* docker commands return, and their continuations run.
FairSpec == Spec /\ \A e \in Ensures : WF_vars(Step(e) \/ DaemonStep(e))

-----------------------------------------------------------------------------
(* Properties                                                              *)

\* pendingCreates is exactly the number of ensures between admission and the
\* end of their start or create: no path, failing or not, keeps a slot or gives
\* one back twice, so the clamp at zero never hides anything.
SlotAccounting ==
    pending = Cardinality({e \in Ensures : ens[e].slot})

\* While docker container ls works and nobody changes the cap, the containers
\* that run are at most twice the cap: an admission misses no more than the
\* containers that came up between the daemon's answer and its own check.  Only
\* a replacement is not counted: the container it replaces hands it a slot even
\* when, since the ensure looked, that container died or an op stopped it.
Unearned == IF "oldimage" \in Fits THEN deaths + opsBegun ELSE 0
OvershootBounded == Cardinality(Running) <= 2 * cap + Unearned

\* The cache never answers with a result that an ensure obtained before a stop
\* or a remove of the same workspace was completed.
NoStaleCache ==
    \A w \in Workspaces : cached[w] # None => cached[w] \notin overtaken

\* The newest ensure of a workspace is the one its callers join, as long as it
\* is under way; the end of an ensure that a restart replaced does not drop it.
NewestIsJoined ==
    \A e \in Ensures :
        (InFlight(e) /\ \A f \in Ensures : f > e => ens[f].ws # ens[e].ws)
            => active[ens[e].ws] = e

\* Every ensure settles: nobody waits for the admission lock for ever, whoever
\* fails or is turned away in front of it.
EnsuresSettle ==
    \A e \in Ensures : (ens[e].pc = "inspect") ~> (ens[e].pc = "done")

\* Why that is so, part one: the admission lock is queued for once each, by the
\* ensures that wait for it or hold it and by no other, and only its head counts
\* or swaps.  So nobody waits behind an ensure that failed or was turned away.
InLine(e) == \E i \in 1 .. Len(lockq) : lockq[i] = e
LockIsAQueue ==
    /\ \A e \in Ensures : ens[e].pc \in {"queue", "count", "swap-rm"} <=> InLine(e)
    /\ \A i, j \in 1 .. Len(lockq) : lockq[i] = lockq[j] => i = j
    /\ \A e \in Ensures :
          ens[e].pc \in {"count", "swap-rm"} => lockq # <<>> /\ Head(lockq) = e

\* Part two: what an ensure has before it at most, two steps a stage, with a
\* create that may find its ports taken MaxTries times more.  A start that finds
\* its container gone or foreign goes on to remove it and create one; nothing
\* leads back from a create to a start, or to a second removal.
Stage(r) ==
    LET create == 4 + 2 * MaxTries
        start  == IF r.why = "start" THEN 5 ELSE 0
    IN CASE r.pc = "inspect"   -> create + 8
         [] r.pc = "start"     -> create + 5
         [] r.pc = "reinspect" -> create + 4
         [] r.pc = "adopt-rm"  -> create + 3
         [] r.pc = "queue"     -> create + 2 + start
         [] r.pc = "count"     -> create + 1 + start
         [] r.pc = "swap-rm"   -> create + 1
         [] r.pc = "prepare"   -> 4 + 2 * (MaxTries - r.tries)
         [] r.pc = "run"       -> 3 + 2 * (MaxTries - r.tries)
         [] r.pc = "verify"    -> 2
         [] r.pc = "settled"   -> 1
         [] r.pc \in {"none", "done"} -> 0
Ahead(r) == 2 * Stage(r) + (IF r.did THEN 0 ELSE 1)

\* Whatever docker answers and whoever stops, removes or restarts the container
\* meanwhile, every step an ensure is part of brings it nearer to its end.
EnsuresComeCloser ==
    [][\A e \in Ensures :
          InFlight(e) => ens'[e] = ens[e] \/ Ahead(ens'[e]) < Ahead(ens[e])]_vars

\* "Hard cap on simultaneously running workspace containers."  Broken: see the
\* README.
HardCap == Cardinality(Running) <= cap

\* "The idle sweep stops containers automatically": it looks at the leases that
\* are running or starting, so a container that runs while nothing is going on
\* for its workspace must have such a lease.  Broken: see the README.
Quiet(w) ==
    /\ \A e \in Ensures : ens[e].ws = w => ~InFlight(e)
    /\ \A o \in Ops : ops[o].ws = w => ops[o].pc \in {"none", "done"}
RunningIsLeased ==
    \A w \in Workspaces :
        Quiet(w) /\ docker[w].state = "running" => lease[w] \in {"running", "starting"}

=============================================================================
