----------------------------- MODULE PortLeases -----------------------------
(***************************************************************************)
(* The host ports of workspace containers: how an ensure reserves one      *)
(* (containers/ports.ts and reserveCodePorts, createWithRetries and        *)
(* adoptCodeContainer of the runtime provider), the rows that remember     *)
(* them (storage.ts), and everyone else who may take or free a port:       *)
(* containers that stop or are removed, and programs of the host.          *)
(*                                                                         *)
(* The three ports of a container are reserved alike, so one stands for    *)
(* them; a bind that fails because of another of the three rejects this    *)
(* one as well.  An inspect shows published ports only while a container   *)
(* runs.  Admission, the image and the single flight of ensures are        *)
(* WorkspaceRuntime's; here a workspace has one ensure at a time, and the  *)
(* race of a restart with it is left to that module.                       *)
(***************************************************************************)
EXTENDS Naturals, FiniteSets

CONSTANTS Boxes,          \* workspaces
          LastPort,       \* the range is 1 .. LastPort
          MaxPortFaults   \* bound: failures of docker, crashes, programs started

ASSUME PortsAssumption == LastPort \in Nat \ {0} /\ MaxPortFaults \in Nat

Ports  == 1 .. LastPort
NoPort == 0

VARIABLES leased,      \* container_leases: port and state
          box,         \* containers: state, and the port they would publish
          ensuring,    \* the ensure of each workspace
          reserving,   \* who has portReservationLock
          foreign,     \* ports other programs listen on
          clashed,     \* an upsert has met the unique index (no code)
          portFaults

portVars == <<leased, box, ensuring, reserving, foreign, clashed, portFaults>>

NoEnsure == [step |-> "rest", saw |-> NoPort, others |-> {}, tried |-> {},
             rejected |-> {}, port |-> NoPort]

PortTypeOK ==
    /\ leased \in [Boxes -> [port : Ports \cup {NoPort},
                             st : {"missing", "starting", "running", "stopped", "error"}]]
    /\ box \in [Boxes -> [st : {"none", "created", "stopped", "running"},
                          port : Ports \cup {NoPort}]]
    /\ ensuring \in [Boxes ->
         [step : {"rest", "inspected", "wait", "probe", "prepare", "run", "bind-failed", "ran"},
          saw : Ports \cup {NoPort}, others : SUBSET Ports, tried : SUBSET Ports,
          rejected : SUBSET Ports, port : Ports \cup {NoPort}]]
    /\ reserving \subseteq Boxes
    /\ foreign \subseteq Ports /\ clashed \in BOOLEAN
    /\ portFaults \in 0 .. MaxPortFaults

PortInit ==
    /\ leased = [b \in Boxes |-> [port |-> NoPort, st |-> "missing"]]
    /\ box = [b \in Boxes |-> [st |-> "none", port |-> NoPort]]
    /\ ensuring = [b \in Boxes |-> NoEnsure] /\ reserving = {}
    /\ foreign = {} /\ clashed = FALSE /\ portFaults = 0

AtStep(b, step)   == ensuring[b].step = step
Continues(b, r)   == ensuring' = [ensuring EXCEPT ![b] = r]
Published(b)      == IF box[b].st = "running" THEN box[b].port ELSE NoPort
Listening         == foreign \cup {Published(b) : b \in Boxes}
PortFault         == portFaults < MaxPortFaults /\ portFaults' = portFaults + 1
HostStays         == UNCHANGED <<box, foreign, portFaults>>

(* upsertCodeContainerLease, under the unique index on ports.  One that    *)
(* fails is an error of the ensure, like any other.                        *)
Clashes(b, p) == p # NoPort /\ \E v \in Boxes \ {b} : leased[v].port = p
Upserts(b, p, st) ==
    IF Clashes(b, p) THEN clashed' = TRUE /\ UNCHANGED leased
    ELSE UNCHANGED clashed /\ leased' = [leased EXCEPT ![b] = [port |-> p, st |-> st]]

\* recordError: the ports of the row stay.
Fails(b) ==
    /\ leased' = [leased EXCEPT ![b].st = "error"]
    /\ Continues(b, NoEnsure)

----------------------------------------------------------------------------
(* An ensure inspects the container; the answer is as old as the await.    *)
Inspects(b) ==
    /\ AtStep(b, "rest")
    /\ Continues(b, [NoEnsure EXCEPT !.step = "inspected", !.saw = Published(b)])
    /\ UNCHANGED <<leased, reserving, clashed>> /\ HostStays

\* A running one is adopted with the port it publishes.
Adopts(b) ==
    /\ AtStep(b, "inspected") /\ ensuring[b].saw # NoPort
    /\ Upserts(b, ensuring[b].saw, "running") /\ Continues(b, NoEnsure)
    /\ UNCHANGED reserving /\ HostStays

\* Any other is removed: no port of it can be told.
Recycles(b) ==
    /\ AtStep(b, "inspected") /\ ensuring[b].saw = NoPort
    /\ box' = [box EXCEPT ![b] = [st |-> "none", port |-> NoPort]]
    /\ Continues(b, [NoEnsure EXCEPT !.step = "wait"])
    /\ UNCHANGED <<leased, reserving, foreign, clashed, portFaults>>

----------------------------------------------------------------------------
\* mutant: reservations do not wait for each other
NobodyWaits(b) == TRUE
MayReserve(b)  == reserving = {}

(* withPortReservationLock, and the ports leased to others, read once.     *)
Reserves(b) ==
    /\ AtStep(b, "wait") /\ MayReserve(b) /\ reserving' = reserving \cup {b}
    /\ Continues(b, [ensuring[b] EXCEPT !.step = "probe", !.tried = {},
                        !.others = {leased[v].port : v \in Boxes \ {b}} \ {NoPort}])
    /\ UNCHANGED <<leased, clashed>> /\ HostStays

(* The port it had before comes first, then the range from its start.      *)
OpenPorts(b) == Ports \ (ensuring[b].rejected \cup ensuring[b].others \cup ensuring[b].tried)
IsNextPort(b, p) ==
    IF leased[b].port \in OpenPorts(b) THEN p = leased[b].port
    ELSE p \in OpenPorts(b) /\ \A q \in OpenPorts(b) : p <= q

(* One candidate is probed; a free one is written down, all others wait.   *)
Probes(b) ==
    /\ AtStep(b, "probe") /\ UNCHANGED <<box, foreign, portFaults>>
    /\ \E p \in Ports :
        /\ IsNextPort(b, p)
        /\ IF p \in Listening
           THEN /\ Continues(b, [ensuring[b] EXCEPT !.tried = @ \cup {p}])
                /\ UNCHANGED <<leased, reserving, clashed>>
           ELSE /\ Upserts(b, p, "starting") /\ reserving' = reserving \ {b}
                /\ Continues(b, IF Clashes(b, p) THEN NoEnsure
                                ELSE [ensuring[b] EXCEPT !.step = "prepare", !.port = p])

NoFreePort(b) ==
    /\ AtStep(b, "probe") /\ OpenPorts(b) = {}
    /\ Fails(b) /\ reserving' = reserving \ {b}
    /\ UNCHANGED clashed /\ HostStays

(* createCodeContainer, after its awaits. *)
Prepares(b) ==
    /\ AtStep(b, "prepare")
    /\ Upserts(b, ensuring[b].port, "starting")
    /\ Continues(b, [ensuring[b] EXCEPT !.step = "run"])
    /\ UNCHANGED reserving /\ HostStays

(* docker run, as the daemon does it: the name is in use, another port of  *)
(* the container or something else makes it fail, the port has been taken  *)
(* since it was probed, or the container runs.  A container that could not *)
(* bind its port may stay behind.                                          *)
LeavesBehind(b) == box' \in {box, [box EXCEPT ![b] = [st |-> "created", port |-> NoPort]]}
DockerRuns(b) ==
    LET p == ensuring[b].port IN
    /\ AtStep(b, "run") /\ UNCHANGED <<reserving, foreign, clashed>>
    /\ \/ /\ IF box[b].st # "none" THEN UNCHANGED portFaults ELSE PortFault
          /\ Fails(b) /\ UNCHANGED box
       \/ /\ box[b].st = "none"
          /\ IF p \in Listening THEN UNCHANGED portFaults ELSE PortFault
          /\ Continues(b, [ensuring[b] EXCEPT !.step = "bind-failed"])
          /\ LeavesBehind(b) /\ UNCHANGED leased
       \/ /\ box[b].st = "none" /\ p \notin Listening
          /\ box' = [box EXCEPT ![b] = [st |-> "running", port |-> p]]
          /\ Continues(b, [ensuring[b] EXCEPT !.step = "ran"])
          /\ UNCHANGED <<leased, portFaults>>

(* dockerPortBindError: the port is rejected and its row cleared, where it *)
(* still has it.                                                           *)
ClearsPort(b) ==
    IF leased[b].port = ensuring[b].port
    THEN [leased EXCEPT ![b] = [port |-> NoPort, st |-> "error"]] ELSE leased
RejectsPort(b) ==
    /\ AtStep(b, "bind-failed")
    /\ leased' = ClearsPort(b)
    /\ Continues(b, [NoEnsure EXCEPT !.step = "wait",
                        !.rejected = ensuring[b].rejected \cup {ensuring[b].port}])
    /\ UNCHANGED <<reserving, clashed>> /\ HostStays

\* The published port, or the reserved one where none is shown.
Settled(b) ==
    /\ AtStep(b, "ran")
    /\ Upserts(b, IF Published(b) = NoPort THEN ensuring[b].port ELSE Published(b),
               IF box[b].st = "running" THEN "running"
               ELSE IF box[b].st = "none" THEN "starting" ELSE "stopped")
    /\ Continues(b, NoEnsure)
    /\ UNCHANGED reserving /\ HostStays

----------------------------------------------------------------------------
(* Others: an idle sweep, a deletion or a container that exits by itself;  *)
(* removal for a restart; programs; a crash of the control plane.          *)
BoxStops(b) ==
    /\ box[b].st = "running" /\ box' = [box EXCEPT ![b].st = "stopped"]
    /\ leased' \in {leased, [leased EXCEPT ![b].st = "stopped"]}
    /\ UNCHANGED <<ensuring, reserving, foreign, clashed, portFaults>>
BoxRemoved(b) ==
    /\ box[b].st # "none" /\ AtStep(b, "rest")
    /\ box' = [box EXCEPT ![b] = [st |-> "none", port |-> NoPort]]
    /\ leased' = [leased EXCEPT ![b].st = "missing"]
    /\ UNCHANGED <<ensuring, reserving, foreign, clashed, portFaults>>
ProgramListens(p) ==
    /\ p \notin Listening /\ PortFault /\ foreign' = foreign \cup {p}
    /\ UNCHANGED <<leased, box, ensuring, reserving, clashed>>
ProgramEnds(p) ==
    /\ p \in foreign /\ foreign' = foreign \ {p}
    /\ UNCHANGED <<leased, box, ensuring, reserving, clashed, portFaults>>
HostCrash ==
    /\ PortFault
    /\ ensuring' = [b \in Boxes |-> NoEnsure] /\ reserving' = {}
    /\ UNCHANGED <<leased, box, foreign, clashed>>

PortNext ==
    \/ \E b \in Boxes :
        \/ Inspects(b) \/ Adopts(b) \/ Recycles(b) \/ Reserves(b) \/ Probes(b)
        \/ NoFreePort(b) \/ Prepares(b) \/ DockerRuns(b) \/ RejectsPort(b) \/ Settled(b)
        \/ BoxStops(b) \/ BoxRemoved(b)
    \/ \E p \in Ports : ProgramListens(p) \/ ProgramEnds(p)
    \/ HostCrash

PortSpec == PortInit /\ [][PortNext]_portVars

----------------------------------------------------------------------------
(* No write of a row ever meets the unique index: two reservations never   *)
(* choose one port, whatever each probed while the other awaited its own,  *)
(* and an adopted container's port was not given away meanwhile.  At rest, *)
(* a container that runs and is recorded as running is reached at the port *)
(* it publishes.                                                           *)
PortsAreOwn ==
    /\ ~ clashed
    /\ \A b \in Boxes :
        AtStep(b, "rest") /\ leased[b].st = "running" /\ box[b].st = "running"
            => leased[b].port = box[b].port
=============================================================================
