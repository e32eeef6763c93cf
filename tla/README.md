# Verification of the CodeRunner control plane

CodeRunner gives every student a workspace: a Docker container with an editor,
a robot project and a robot simulator. The control plane (`apps/control`, one
Bun process) brings the containers up and down, runs builds and simulations in
them, and connects browsers to them. It keeps its durable state in SQLite and
everything else in maps of the process. It is single-threaded, and nearly all of
its difficulty comes from what happens at an `await`: two requests for one
workspace, a stop during a start, a late line of output, a crash in between.

This directory holds TLA+ models of the parts where that matters, TLC runs that
check them on small instances, and TLAPS proofs of the central invariants for
every value of the constants.

## 1. The system

| Component | State | Operations | Talks to |
|---|---|---|---|
| Run manager (`runs.ts`) | `jobsByWorkspace`, `activeBuilds`, last status and mode per workspace, connections; `run_jobs` rows | start, stop, restart, connect, disconnect, `runJob`, `recordLog`, readiness timeout, boot reconciliation | runtime provider (ensure, exec), storage, browsers on the run channel |
| Docker runtime provider (`containers/`) | `activeEnsures`, `runningStatuses` and its epoch, `admissionLock`, `portReservationLock`, `pendingCreates`; `container_leases` rows; the containers themselves | ensure (adopt, start, create), stop, remove, restart, cleanup, count | Docker CLI, storage |
| HALSim bridge, NT4 choosers (`ws-bridge.ts`, `halsim.ts`, `nt4-auto.ts`) | one entry per workspace: socket, reconnect timer, backoff, driver-station snapshot, topics | ensureConnected, patches, disconnect, socket callbacks | the simulator in the container |
| Gamepad sessions (`gamepad.ts`) | one session per workspace: selection, last sequence number | select, state, release, closeSession, reset | HALSim bridge |
| WebSocket router (`app/websocket.ts`) | sockets per workspace, pending messages per proxied socket | open, message, close, closeWorkspaceSockets | all of the above |
| Classrooms (`classrooms.ts`, `classroom-sweeper.ts`, `auth/classroom-plugin.ts`) | `classrooms` and guest `user` rows, joins in flight, pending guests | create, join, end, sweep, cleanup | Better Auth, user deletion |
| Imports (`imports.ts`) | `activeImports`, rate limiter; files in the container | GitHub import, lesson load | runtime provider, run manager |
| Idle manager (`idle.ts`), user deletion (`user-deletion.ts`) | none of their own | sweep; delete | run manager, provider, storage |
| Accounts (`auth/`, `app/admin-routes.ts`, `scripts/allowlist.ts`, `scripts/users.ts`) | the roster file and the server's copy of it; user rows with their roles | sign-in, panel edits, reload, seeding at boot, edits by other hands | Better Auth, disk |
| Data directory (`migrations.ts`, `migrate.ts`, `scripts/backup.ts`, `scripts/restore.ts`, panel backups) | the database with its migrations, its copy; projects and their archives | boot, migrate, back up, restore | SQLite, `tar` |
| Deploy files and asset uploads (`app/deploy-files.ts`, `app/assets.ts`) | files of a project; the assets of a workspace | save, delete, list; upload, serve | disk, imports, the student's own programs |
| Port leases (`containers/ports.ts`, `container_leases`) | port columns, `portReservationLock` | reserve, adopt, release | runtime provider, the host's sockets |
| Run scripts (`containers/code/*.sh`) | pid file, log file, processes in the container | run-sim, start-sim, stop-sim | started by `docker exec` from the run manager |
| Web client (`apps/web/src`) | the swap's dialog, status and socket; session record; document list and frames; focus, keys and input mode; run channel; polled states; pane choices and splits | switch project, reload, open Preview, drive, reconnect, poll, hide and drag panes | control plane, session storage |

Interaction: a browser message starts a run; the run manager asks the provider
to *ensure* the container, then executes the run script in it and reads its
output. Stops come from browsers, imports, the idle sweep, the end of a
classroom and the deletion of a user. All of them call into the same two state
machines, the run manager and the provider, which is why these are modelled
first.

What is hard in it: supersession of a run by the next one while the first is
parked at an await; a timer racing the line it waits for; output that is logged
after the stop; admission control that counts containers with an asynchronous
command; a single-flight map that a restart edits; a cache filled by an ensure
that a stop has overtaken; a process crash that leaves rows and containers
behind. PROJECT.json lists every hazard with its line.

What makes each component correct:

- *Run manager*: one current run per workspace and no command that nobody can
  reach; every row ends, once, with the right end; a canceled run is not
  reported as running; build slots and deadlines are exact; the reported status
  is that of the newest run.
- *Provider*: slots are counted exactly, the cap holds, the lock is always handed
  on, no stale cache, one ensure at a time is joined, leases describe the
  containers.
- *Classrooms*: a cleaned classroom has no guest and no join under way, at most
  60 guests, one guest per name.
- *Bridges and gamepads*: one upstream connection, whose callbacks are the only
  ones that count; an attached bridge is never stuck; the cached driver station
  is the simulator's; nothing is held on a robot without a selected controller.
- *Imports and access*: one import at a time per workspace; the recorded module is
  the one in the project; a session that ended holds no socket and no run; a
  deleted workspace stays down; of an abandoned one the sweep stops every container that
  the lease shows.
- *Run scripts*: what a stop found is dead when it returns; one debugger per run.
- *Auto choosers*: a selection never precedes its publication; what is shown is
  what the robot program of now has, however often it restarts.
- *Proxied sockets*: messages in order, once, without a gap; both ends close.
- *Workspace page*: it is never silently stale after a swap; no document of an old
  project comes back; keys are held only where they are captured, and a release
  reaches the robot over the one channel the page should have; every swap settles; polls and channels catch up.
- *Layout*: the panes are as they were chosen and dragged last, for each kind of lesson.
- *Accounts*: who is let in was on the roster while signing in; admins are vouched for.
- *Data directory*: only a fully migrated database is served; a restore loses no project.
- *Files*: a deploy file saved undisturbed is whole where its path leads, and one
  outside the project is never written; an upload answered OK is served whole.
- *Ports*: two reservations never choose one port, and a running container is
  reached at the port it publishes.

## 2. Modules

| Module | What it is |
|---|---|
| `RunManager` | the run manager, with crash and boot |
| `RunLifecycle` | abstract specification of a run's life; `RunManager` implements it |
| `RunManager_proofs` | TLAPS proofs about `RunManager` |
| `WorkspaceRuntime` | the Docker runtime provider with a Docker daemon |
| `MCWorkspaceRuntime` | symmetry set for TLC |
| `WorkspaceRuntime_proofs` | TLAPS proofs about `WorkspaceRuntime` |
| `Classroom` | classrooms: joins, End now, the sweeper, deletion of guests |
| `Roster` | abstract specification of who is in a classroom; `Classroom` implements it |
| `MCClassroom` | symmetry set for TLC |
| `Classroom_proofs` | TLAPS proofs about `Classroom` |
| `HalSimBridge` | the bridge to a workspace's simulator: socket, reconnect timer, driver-station state, the routes that use it, and a simulator |
| `Gamepad` | gamepad sessions and the browser's gamepad channel; extends `HalSimBridge` and holds the specification of both |
| `MCGamepad` | patches and symmetry sets for TLC |
| `Gamepad_proofs` | TLAPS proofs about `Gamepad` and the bridge under it |
| `ImportManager` | the import and lesson jobs of one workspace (actions only) |
| `WorkspaceAccess` | sessions, sockets, requests, Leave, deletion and idle sweep of one guest's workspace; extends `ImportManager` and holds the specification of both |
| `WorkspaceAccess_proofs` | TLAPS proofs about both |
| `SimContainer` | the processes of one workspace container: run scripts, every `stop-sim.sh`, the files they share, the debugger's extension hosts |
| `Accounts` | the roster, sign-ins, the panel's edits, boot, edits by other hands |
| `DataDirectory` | migrations, backup and restore, with crashes |
| `DeployFiles` | one deploy file, its savers and those who change its path |
| `AssetUploads` | uploads of assets that replace one another |
| `PortLeases` | host ports of the workspace containers |
| `MCHost` | the six modules above side by side |
| `Host_proofs` | TLAPS proofs about these six |
| `ProjectSwap` | switching a project, as one tab sees it (actions only) |
| `PreviewPane` | the list and the frames of the project's documents; extends `ProjectSwap` (actions only) |
| `DriverControls` | driving from the keyboard (actions only) |
| `WorkspacePage` | the page; composes the three and holds their specification |
| `Page_proofs` | TLAPS proofs about `WorkspacePage` |
| `Nt4Choosers` | the auto-chooser bridge with its polls, and a NetworkTables server that restarts |
| `Pipe` | abstract specification of a proxied socket; `SocketProxy` implements it |
| `SocketProxy` | one proxied WebSocket: request, browser side, pending queue, upstream |
| `PagePolls` | what the page asks again and again: simulation, choosers, editor |
| `RunChannel` | the run channel's socket and the scope's endpoint |
| `PaneLayout` | which panes are shown and how they are split |
| `MCWeb` | `SocketProxy`, `PagePolls`, `RunChannel` and `PaneLayout` side by side |
| `Web_proofs` | TLAPS proofs about `SocketProxy`, `PaneLayout` and `Nt4Choosers` |

`MCHost` and `MCWeb` put parts side by side that share nothing: a behaviour picks one
of them (`scene`) and the others stand still, so a run costs the sum of its parts and not
their product. Every property speaks of one part.

Definitions named after a mutation (their comment begins with "mutant:") are not
part of the models. They are plausible bugs: substituting one for the definition
beside it must make a property fail, which shows that the property depends on
that code.

### 2.1 RunManager

An action is one turn of the event loop: the code between two awaits. A
`RunJob` object is a record in `job`; its `pc` is the await its coroutine
`runJob` is parked at (`ensuring`: `ensureWorkspaceRunning`; `exec`: the command;
`failing`: the `recordLog` in the catch block). `db` holds the `run_jobs` states,
`current` is `jobsByWorkspace`, `last` is `lastStatusByWorkspace`, `builds` is
`activeBuilds`, and `view` is the last status each browser was sent. `Start`
contains everything `start` does before it returns: the cancellation of the old
job, the new row, the snapshot, the slot, and the first part of `runJob` up to
its await. `Terminate` is `finishJob`.

The environment is the run's command (it prints a waiting line, a readiness
line, and exits at any time with any code), the browsers, and crashes.

Abstractions, each because no property depends on more:

- run ids are numbers in the order of `requested_at` (two requests in the same
  millisecond, whose order SQLite would not fix, are not modelled);
- of each kind of line the first decides, later ones meet settled conditions;
- the effect of `stop-sim.sh` in the container is a command exit, which may
  happen at any time anyway;
- a connection id is used once, and a closed browser is told nothing;
- an ensure that throws and one that returns a runtime that is not running have
  the same effect;
- the streams of a command do not fail and rows are not deleted under a job (see
  the hazards);
- log text, metrics, and the numeric exit code are left out; a shutdown by
  signal is a crash, as `main.ts` installs no handler.

### 2.2 WorkspaceRuntime

`docker` is the daemon's truth: a container per workspace, missing, stopped or
running, with what adoption would find about it (`current`, an `oldimage`, or
`foreign` labels, mount or ports). `lease` is `code_state`. `ens` holds the calls
of `ensureCodeContainerInner` by number, each with its program counter, its locals
and its admission slot; `ops` the stops, removes and restarts. A Docker command is
two steps: the daemon carries it out (`Daemon*`, which sets `did`), and later the
promise resolves and the continuation runs. This is what lets a count be old when
it is used. `lockq` is the chain of promises behind `admissionLock`, `active` is
`activeEnsures`, `cached` and `epoch` the running-status cache, and `overtaken` is a
history variable: the ensures that began before a stop or remove that completed.

Abstractions: preparation for `docker run` (ports, image, home directory, lease
`starting`) is one step, as nothing in it is shared except ports, which
`PortLeases` models; the code image is present and pinned; the volume of demo
mode, `exec`, and the loss of the workspace row are left out. With `Flaky`, any
Docker command may fail, and is treated as the code treats it: a failing inspect
reads as no container, a failing stop or remove goes unnoticed, a failing count
is zero, a failing `docker run` may leave a stopped container behind.

### 2.3 Classroom

The tables are `status` and `cleaned` (the classroom row), `row` (the guest's user
row), `ws` (its workspaces row) and `sess` (session rows); the process keeps
`inFlight` (`inFlightJoins`) and `pending` (`pendingGuests`). A join is a record in
`join` whose `pc` is the await it is parked at: for `createUser` (`creating`, and
`created`, `lost-race` or `not-created` once the database has answered but the
continuation has not run), for the project files, for `findUserById`, for
`createSession`. That the insertion of a guest and the continuation of its join
are two steps is what the cap and the slots are about. `cl` holds the callers of
`deleteUserAndWorkspace`: the admin's End now, the sweeper (with `todo`, the rest
of its list) and an admin who deletes one guest. `Fault` is any failure of
`createUser`, of the project files, of the session, of a deletion, and a crash.

A cleanup deletes its guests one after the other, in any order (`DeleteBegins`):
the container is stopped across an await, then the transaction runs
(`DeleteCommits`), then the directory is removed (`DeleteReturns`). Without a
workspace there is no await before the transaction, so it is part of the step
before it, as is marking the classroom when nobody is left (`GoesOn`).

Abstractions: a code is the classroom it resolves to, and one without a live
classroom is refused at once; a name is its identity key; a guest is named by
the join that created it. Slugs, cookies, the container that a retired session
stops, and the rate limit on failed codes are left out. Joins that
arrive together are interleaved at every await, but an admin deletes only guests
that a listing has shown: the few turns between the insertion of a guest and the
continuation of its join are too few for that round trip. One End now is under
way at a time.

### 2.4 HalSimBridge and Gamepad

`entry` is the bridge's entry of one workspace: its endpoint, socket, connection
state, reconnect timer, `shouldReconnect` (`attached`) and cached driver station.
`sock` holds the WebSocket objects, those the bridge has given up included: the
`readyState` the process sees (`ready`), the connection itself (`net`), frames
sent and not delivered (`out`) and received and not handled (`in`). Everything the
bridge does is synchronous, so an operation or an event is one action; what
interleaves is the events of an old socket with the timer, the operations and
the events of a new one. `disconnect`, `ensureConnected` and the two commands are
operators; their callers are the actions: `Poll` (the status route), `StartRun`,
`StopRun`, `PatchArrives` and `PatchApplies` (the driver-station route before and
after its await), and in `Gamepad` the messages and closes of gamepad channels.

The simulator is external: it takes one connection at a time, greets it with the
state of its driver station, obeys frames in order and reports each flag that
changed in a message of its own. It starts while a run is building or stopping
and may exit at any time.

`Gamepad` adds `session` (`sessions.get`), `chan` (the gamepad sockets as the server
sees them, with the messages under way) and `tab` (the channel hook of one
browser tab). A lost channel is closed for the tab at once and for the server
later, which is the interleaving that breaks `SelectionSurvives` (section 4).

Abstractions: the run is reduced to what its status tells the routes (`building`
is `starting`; all that is not active is `idle`); a patch carries some of mode,
enabled and stop, not the alliance; a joystick frame says whether anything is held;
error texts, `stale`, times of input and the length of the backoff are left out;
there is one tab, and `close()` of the process is not modelled. A WebSocket or
channel that is closed for good is used again, so the bound on their number
bounds how many exist at once, not how many are made.

What does *not* hold of the cache, and is why `CacheAgrees` has the form it has:

- Readback of a stop forces the cached `enabled` off, and the simulator has no such
  rule. If an enable crosses a stop, the simulator ends up enabled and stopped;
  after the next greeting the cache says disabled; when the stop is lifted the
  robot is live and the cache still says disabled. So only one direction holds:
  a robot shown as enabled is enabled.
- `parseDsMode` reads teleop only from a message with both mode flags. A patch to
  auto and then to teleop before the first echo leaves the cached mode at auto,
  as the echo `autonomous: false` alone changes nothing.

### 2.5 SimContainer

`script` is the run script that `docker exec` runs for a run, `sim` the process group
of its `run-sim.sh` (shell, Gradle, the moment between Gradle and the JVM in which no
process of it matches the patterns of `stop-sim.sh`, JVM), `sweep` every execution of
`stop-sim.sh`, whoever started it, and `host` the extension hosts. The control plane
waits for none of them: every `start` fires a `stop-sim.sh` and then the script, which
runs a `stop-sim.sh` of its own; every Stop fires another. Nothing is assumed about the
order in which processes are scheduled, and any process may end at any time. A kill of
the docker client ends nothing in the container.

Abstractions: a pid is the run's number and is never used again; a signal sent to a
process group ends it or, after 40 polls, is followed by KILL; ports, output
and the exit codes of Gradle are left out, except that a build may fail.

### 2.6 ImportManager and WorkspaceAccess

A job of `ImportManager` is one import or lesson socket's request. `project` is the
set of sources whose files are in `/workspace/project`: none between the two commands of
a swap, two if the first of them failed.
`spent` is what the rate limiter holds; its hour does not pass. `WorkspaceAccess` adds
the guest's `session` rows and who authenticated each open `sock`; `run` is the current
run, `request` a POST that waits for its body, `ensures` the ensures in flight,
`leave`, `del` and `idle` the progress of Leave, deletion and the sweep. A request is
authenticated once, when it arrives; what it does after an await does not ask again,
and an ensure asks for the workspace row when it begins, or joins the one in flight. `up` is the
container, `listed` its lease as the idle sweep reads it (`code_state` is `running` or
`starting`, `listIdleWorkspaceIds`): two pieces of state that part. An ensure that ends well
leaves the lease `running`, although a stop may have crossed it; one that fails may have started
the container or removed it, with the lease at `starting`, at `error` or as it was
(`Ends`); a stop writes `stopped` whether or not docker did as told, and over a
container that an ensure started behind its back (`Stopped`). Only `listed` makes the sweep act
(`SweepLists`). `WorkspaceRuntime` has the detail.

Abstractions: only guests (the session of a guest is looked up synchronously at the end
of its authentication; other users have Better Auth's cookie cache); one run and one
workspace; an import socket carries one request, as the client sends it; sessions do
not expire; that the lease is at `starting` while an ensure is under way is left to its end.

### 2.7 Nt4Choosers

The bridge entry keeps `byId`, `byName`, `values` and `published` over a lost
connection, and nothing reopens it except a poll (`Poll`, the page's request every
second while a run is running). Sockets are those of `HalSimBridge`: given-up ones still
deliver events, which the guard of `ws-bridge.ts` must drop. The server is external: it
announces each topic to a subscriber with an id of its choice, sends the values it has,
forgets publications with the connection, and restarts with other ids.

Abstractions: a chooser is two topics, its options and its active option; the MessagePack
encoding, the spellings of topic names, and the selected value are left out.

### 2.8 SocketProxy

Nt4, HALSim and VS Code sockets share this code. The request is answered with the
endpoint of an ensure, and for VS Code only after a probe, so the container may have
moved when the upstream connects. `pending` is `ws.data.pendingMessages`; a message that
finds it full closes the socket. `spoken` is the subprotocol the upstream chose: another
than the one promised to the browser closes both. In Bun `ws.close` runs the close handler
in the same turn. What the upstream sends is handed on at once and has no state.

### 2.9 WorkspacePage: ProjectSwap, PreviewPane, DriverControls

An *era* is the number of swaps that succeeded so far; the tab keeps the era of the
last one it was told of (`acked`), and the content of a session record, of a list or of a
frame is the era it was read in. So "stale" is an inequality.

`dialog` and `swap` are the dialog and the hook (`status`, `success`, `socketRef`),
`socks` the import sockets with the messages under way to the tab, `jobs` the server's
end of each, `record` the workspace's module, `session` and `fetches` the session the
page has and its requests, one for each `reloadNonce`. `warned` is a history variable:
the dialog said that a swap went wrong and no success followed. `list`, `late`, `frame` and
`behind` are the preview's: the newest request for the list, answers it superseded, the
frame shown and the one loading behind it. `station` is the driver station's
focus, visibility, input mode and keys, `channel` the sending half of the gamepad channel
with its throttle, `robot` what the server's session last told the joystick ("off": it has no
selection). `orphaned` is a history variable: a key is held under which the driver station was
unmounted. `WorkspacePage` says what
they do to each other: a success drops list and frames, a session of another kind of
project remounts the panes (`Remounts`) and takes the driver station away (`Unmounts`) or brings
it back (`Mounts`), a dialog that opens takes the focus.

The channel is a set of *lines*, one for each time its effect ran with a slug. A line is one
chain of sockets: each close event sets the timer that connects the next (`LineCloses`,
`TimerFires`). All lines share `socketRef` (`sock`), `reconnectTimerRef` (`timer`), the selection,
the last state sent, and one session in the server, which the close of any of them drops
(`SessionDropped`). The clean-up closes the socket and clears the timer that the refs
name; it does not end the line, because the effect sets `mountedRef` again
(`useGamepadChannel.ts:55`) before it finds that there is no slug (line 56), so the close event
(`CloseHeard`) passes its guard (line 107) and sets the next timer. Lines therefore open,
resend the selection (`ChannelOpens`) and carry what the bridge pushes (`Renders`) in a lesson
without a driver station too.

Abstractions: one tab, one document, one key, kinds of modules instead of modules; what
a job does to the files is `ImportManager`'s; on the gamepad channel a message sent
is a message heard (`Gamepad` has the rest).

### 2.10 Accounts

`allowlist` is the file and `cached` the module's copy; `user` are the rows with role,
linked Auth0 account and a history bit: somebody who may has vouched for the person. A
`request` is one that awaits something: a panel edit that writes, a reload that reads, a
sign-in that asks Better Auth, a deletion that waits for its container. `cli` is what the
script that edits the file is about to write, as another process. A sign-in remembers
whether its person was on the roster at any time since it began.

Abstractions: a person is an address; GitHub and Google, which both vouch for it, are one
provider; an entry for a domain behaves like one for an address; Better Auth is external
(it looks the row up, links accounts of a verified address, runs the hooks).

### 2.11 DataDirectory

`proc` are the processes that open the database (the control plane and `migrate`) with
the migrations each found pending; `db`, `journal` and `writer` stand for SQLite,
which is external: a transaction is all or nothing, one writer at a time, and a crash
leaves a journal that the next to open plays back. `backup`, `restore` and `panel` are the
scripts and the panel's restores, one file operation per step, each of which a crash may
be the last of. A project or archive is a version, or missing, or half of one.

Assumed, because the scripts tell the operator so: the control plane is stopped for a
restore and for a change of release, and no backup runs beside a restore. Assets are
restored like projects, the roster like the database.

### 2.12 DeployFiles and AssetUploads

`DeployFiles` is one file in one directory. `place` is where the directory's path leads (a
student may have made it a link), `entries` and `data` are directories and inodes, `at` and
`handle` a saver's place and open file: the path is resolved, checked and opened again in
steps, while an import replaces the directory and the student works in it. A body is
two pieces, written one after the other. Names, sizes and the walk of a listing are left
out.

`AssetUploads`: an upload is unpacked into a directory of its own, then each of its
assets replaces what was there, file by file. What is served is looked for there and
then among the bundled assets.

### 2.13 PortLeases

`leased` are the port columns of `container_leases`, `box` the containers, `ensuring` each
workspace's ensure with what it saw, tried and had rejected, `reserving` the holder of
`portReservationLock`, `foreign` the ports that programs of the host listen on. The probe of a
port and the write of the row are two steps, and so are `docker run` and the learning
of its failure; `clashed` records that a write met the unique index. One port stands for
the three of a container, which are reserved alike.

### 2.14 PaneLayout, RunChannel, PagePolls

`PaneLayout`: what is shown, how it is split, and what session storage holds, for each kind
of lesson apart; `choice` and `dragged` are history variables, what was chosen and dragged
last. A render with its effects is one step. `RunChannel`: the run channel's socket and retry
timer and the scope's endpoint, across lost connections and lesson switches. `PagePolls`: a
poll does not wait for the one before, and answers come in any order; `fact` is
what the server would answer now, `shown` what the page shows. The three hooks share
nothing, so a behaviour looks at one of them.

## 3. Runs

TLC checks each with two workers in at most about three minutes.

| Run | Instance | Shows |
|---|---|---|
| `runs_safety` | 1 workspace, 1 browser, 2 runs, all modes, 1 crash | what is reported of runs, and that `RunManager` implements `RunLifecycle` |
| `runs_live` | 1 workspace, 2 runs, run and debug | canceled runs end, build slots come back |
| `runtime_safety` | 2 workspaces, 2 ensures, 1 stop/remove/restart, 1 retry, failing commands, cap 1 or 2 and changing, 1 death, containers of an old image | slot accounting, no stale cache, newest ensure joined |
| `runtime_live` | 3 workspaces, 3 ensures, cap 1, containers of an old image | every ensure settles; the overshoot of the cap is bounded |
| `classroom_safety` | 1 classroom for 2, 2 names, 3 joins, expiry, End now, sweeper, 1 deletion, 1 failure or crash | no two students share a guest unasked, and `Classroom` implements `Roster` |
| `classroom_live` | 2 classrooms, 2 joins, End now, sweeper, 2 failures or crashes | a classroom that is over is cleaned; cleanup does not wait for ever |
| `gamepad_safety` | 2 WebSockets and 2 gamepad channels at once, 2 endpoints, 1 run, 1 patch (enable, or stop and auto), 1 lost connection or replaced container, 3 inputs | one upstream connection, cache, nothing held unselected |
| `workspace` | 1 session, 1 run socket, 2 import jobs, requests, Leave, deletion, idle sweep, 1 import allowed | imports record what they did; an ended session holds nothing; a deleted workspace stays down; of an abandoned one no container stays up that its lease shows |
| `page` | 2 swaps, 3 lines of the gamepad channel, 1 lost socket, request or channel, 4 inputs | never silently stale, no old document, keys held only where captured or orphaned, swaps settle, releases arrive |
| `host` | scripts: 2 runs (Debug, Build), 2 stops beside those of the starts, 1 extension host. Accounts: 2 people, 2 requests at once of 3, 1 edit by other hands, 1 restart. Data: 1 home, 2 migrations, 2 panel restores, 3 uses of the scripts, 2 changes, 2 crashes. Files: 2 savers, 3 saves, 2 edits; 2 uploads of 2 assets. Ports: 2 workspaces, 3 ports, 2 faults | a stop kills what it saw; the roster decides; data survives; files are whole; ports are apart |
| `choosers` | 2 WebSockets, 2 endpoints, 1 chooser, 2 options, 2 ids, 3 events beside any number of robot restarts | publish before select, tables that agree, polls reconnect |
| `web` | proxy: 5 messages, a queue of 2, 2 endpoints, 3 moves. Polls: 3 outstanding, 2 changes, 1 refusal, 2 turns. Run channel: 3 losses, 3 lesson switches. Panes: shares of 30 and 70 | the pipe is implemented, both ends close, nothing waits for ever; polls and channels catch up; panes follow choices |

The largest are `runtime_safety` (7.4 million distinct states), `runs_safety` (4.5),
`gamepad_safety` (3.5), `workspace` (1.6) and `page` (1.0); `choosers` and the other runs with
liveness have less than a million.

Invariants that TLAPS proves and that restate, or are implied by, what one of these shows are
not run: the type invariants; `OnlyCurrentUnsignaled`, `RowOpenIffLive`, `SlotHasDeadline`,
`TerminalRowsFinal` and `CanceledNeverRuns` of `RunManager` (the last two follow from
`RefinesLifecycle`); `GuestCap`, `SlotsExact` and `CleanedIsEmpty` of `Classroom`;
`AttachedIsTrying` and `SessionHasChannel` of `Gamepad`; `OneSwap` of `WorkspaceAccess`;
`OneClaimant` of `SimContainer`.

Why the bounds are enough. In the run manager workspaces share only the set of
active builds, and a job only meets its predecessor and its successor, so one
workspace with two runs shows every interference between jobs; the proofs cover
the rest. In the provider the workspaces share the admission lock, the slot
count and the epoch; two ensures may be of one workspace (overtaken by a restart)
or of two. `OvershootBounded` needs three racing ensures for a cap of one, so it
has an instance of its own. In a classroom, three joins with two names for two seats give two joins racing
for one name, two for the last seat, and a third that arrives later or confirms
an existing guest; classrooms share only the sweeper's list, which the run with
two classrooms exercises. In the bridge, one socket in use and one that is being given up are all
that can meet: with both slots taken nothing opens until a close has been seen,
and the stale events of a third would be those of the second. A lost
connection and a replaced container are the two ways an entry loses its socket
without being told to. Three inputs suffice for select, a held stick, and a
release or a lost channel. `CacheAgrees` was also checked with three patches in a
row, of enabled and of the stop, both ways, without gamepad. Deadlock is checked
here: the bridge can always poll. In the `host` run, two runs with a Stop between them and two
more executions of `stop-sim.sh` give every pair of script, sim and sweep, and a third run meets
only the second; two people and two requests at once give every race of a sign-in
with an edit and of two edits, and a third request comes before or after; two migrations are
enough to be between two, and two crashes to crash in what repairs the first; two savers
and two uploads of two assets meet each other in every step; the third port is the one
that both workspaces could fall back to. On the page, two swaps let everything late of the
first meet the second, and take the driver station away and bring it back, with the old line of
the gamepad channel beside the new one. In the workspace, two import jobs race for one entry and one of
them meets the rate limit; one session with its Leave races every socket and request;
the guard of a second session is the same. In the choosers, two
ids for two topics let a restarted program number them the other way round, and two
sockets let a given-up one deliver late. In the `web` run, five messages fill a queue of two
before and after the upstream opens, and the container may leave an endpoint and come
back to it; three polls outstanding are answered in every order. What the proofs cover
(section 5) does not depend on any bound. `CHECK_DEADLOCK FALSE` appears where the bounded number
of ensures, operations, joins, swaps or events lets the model come to rest.

Fairness. `RunManager`: promises settle and timers fire (an ensure returns or
throws, an append completes, the readiness timer elapses, the coroutine goes on),
and a command that was sent SIGTERM exits. Nothing is assumed of users, output,
a command that was not killed, or crashes. `WorkspaceRuntime`: each ensure's next
step is taken, by the daemon or by the event loop. That a Docker command hangs for
ever is excluded by this assumption, and the code has no timeout against it.
`Classroom`: the promises of a join and of a deletion settle, and the sweeper's
interval goes on firing (60 s, started by the process and never stopped while it
runs). Nothing is assumed of students, End now, expiry, failures or crashes, but
failures are finite in number (`MaxFaults`): a deletion that fails every time
would keep its classroom uncleaned, as it should. `WorkspaceAccess`: what was begun
ends (jobs, ensures, bodies of requests, Leave), and the sweep's interval
fires; nobody has to sign in, ask or leave. One condition over all steps of the server but those
of Leave (`ServerNext`) is weaker than one for each and is enough. `Nt4Choosers`: the page polls (every second,
`useAutoChoosers.ts`), and what is under way on a connection arrives or the connection
ends. `SocketProxy`: a request is answered, close frames and messages arrive, and a
connection opens or fails; no one has to send, close or move. `WorkspacePage`:
a socket opens or fails, a job ends, what was sent arrives, the timers of the channel fire, and
polls of the robot's status are answered in a lesson with a driver station (the page renders
then; in a console lesson nothing polls, and it may never render); the student owes nothing. `PagePolls`: the interval
fires, requests are served and answered. `RunChannel`: a socket opens, the retry timer
fires, the frame of the scope loads. The modules of the `host` run and `PaneLayout` have none:
they are checked for safety only.

## 4. Where the code and its texts part

For these a property that states what the text says is in the module, and TLC finds it
violated when it is added to the run's configuration (or to one with the instance named).
No run of its own is spent on them.

1. *A restart during a create can leave a container the idle sweep does not see*
   (`WorkspaceRuntime!RunningIsLeased`, 1 workspace, 1 restart). The ensure that loses the
   race for the container's name writes the lease `error` over the winner's `running`. So *an
   abandoned container may run on* (`WorkspaceAccess!AbandonedIsStopped`, 1 session):
   "The idle sweep stops containers automatically after students have been inactive"
   (`docs/operating/day-to-day.md:70`), but it asks the leases, and an ensure that fails, or
   crosses a stop between its docker command and its lease (`lifecycle.ts:29-42`), leaves
   `error` or `stopped` over a container that runs. What does hold is `AbandonedIsSwept`: in
   the end there is no container that is up with a lease that shows it.
2. *A superseded run becomes the reported run after a crash*
   (`RunManager!SnapshotIsNewestAlways`, 1 workspace, 2 runs, 1 crash).
   `reconcileOrphanedRuns` stores a snapshot for each open row. If run 1 was still being
   canceled when run 2 had already failed, a crash and boot report run 1 as stopped.
3. *The end of a superseded run reaches browsers of the current one*
   (`RunManager!CurrentRunNotOverwritten`, 2 runs, 1 browser). Only the remembered status
   is guarded by `isCurrentJob`.
4. *The cap is not hard* (`WorkspaceRuntime!HardCap`, 2 workspaces, cap 1). The count of
   running containers is older than the count of pending creates it is added to.
   `OvershootBounded` shows the damage is limited: never more than twice the cap, beside the
   containers of an old image that ended on their own or were stopped or removed while
   their replacement waited (`Unearned`), whose slots the count had given away.
5. *The late close of a lost gamepad socket drops the new session*
   (`Gamepad!SelectionSurvives`). `closeSession` does not ask which socket made the
   session; the control plane drops every frame until the student selects again.
6. *A Stop during the first moments of a run does not stop it*
   (`SimContainer!StopIsFinal`, 1 run, 2 stops). The Stop's `stop-sim.sh` may be over before
   the run script of the canceled run, which nothing ends, launches its sim. The
   design (`docs/superpowers/specs/2026-10-14-sim-debugging-design.md:221`) says the Gradle
   process tree is killed and the run ends stopped. The next run's `stop-sim.sh` finds it.
7. *A swap may replace a project without asking* (`ProjectSwap!UnaskedOnlyIfEmpty`). Whether
   a confirmation is asked for is decided by the emptiness the page was last told of.
8. *A blur may send nothing* (`DriverControls!BlurIsNeutral`). The throttle drops a neutral
   state that comes too soon after another; the next render sends it (`ReleaseReachesRobot`).
   *A console lesson does not stop the gamepad channel* (`DriverControls!ConsoleIsIdle` and
   `ConsoleIsStill`, with `Mounted`; 1 swap): "Gate the sim data hooks themselves (not just
   rendering): they no-op on a null slug, so console mode stops the sim polls + idle HALSim/run
   sockets" (`WorkspacePage.tsx:55`). The clean-up closes the socket, which drops the selection and
   releases the robot, but the close event comes after the effect has set `mountedRef` again
   (`useGamepadChannel.ts:55-56`): the line connects anew with the old slug, resends the
   selection, and the render that this causes pushes a key that is still held, to a robot whose
   driver station is gone. Back in a robot lesson *there may be two channels*
   (`DriverControls!OneLine`, 2 swaps): the page sends over the newer, and the close of
   either drops the session of both. With more inputs than the run has, a release (the
   student changes to the controller) that finds the newer one still opening is not
   sent, and the older one keeps the robot as it was; `ReleaseReachesRobot` is
   therefore claimed while no such second channel (`Strays`) is open.
9. *Two requests together may remove the last admin* (`Accounts!AnAdminRemains`): both
   count the admins before either row is gone. One request alone never does
   (`PanelKeepsAnAdmin`, proved).
10. *The roster's copy may stay older than the file* (`Accounts!CopyIsTheFile`): a reload reads the
    file, an edit replaces file and copy, and the reload's answer then replaces the copy. *Someone
    admitted may have no row* (`Accounts!AdmittedHasRow`): it is deleted while the hook reads the file.
11. *A restored database may meet the journal of the one it replaced*
    (`DataDirectory!NothingIsReplayed`). The restore removes `-wal` and `-shm`; this database
    keeps a rollback journal, which stays after a crash.

Seen in the models, contradicted by no text, and worth knowing:

- `clear_sim_files` of a late `stop-sim.sh` removes the pid file and the marker of a run
  that started meanwhile; Gradle or the JVM of it is still found by its command line.
- A swap whose `find -delete` or `cp` fails is recorded and reported as a success
  (`RecordMatches` is claimed only when none failed). A run may be started while an import
  swaps the files.
- `deleteUserAndWorkspace` closes the sockets before it ends the sessions: sockets opened
  in between stay, and can do nothing (`DeletedStaysDown`). A lesson load goes on after
  its socket closed, also past a Leave; the idle sweep then stops the container, if its lease
  shows it. A workspace that is in use again is stopped all the same by a list of idle ones
  that was made before (`SweepStops`); its next request starts the container again.
- Run rows of a deleted user go while a job that was asked to stop is alive; its
  `finishJob` then throws before the entry of `jobsByWorkspace` is removed.
- Proxied sockets carry no workspace, so `closeWorkspaceSockets` does not close them; they
  end with the container.
- A failed auto-chooser connection keeps the topics of the previous robot program
  listed, and the `selected` value of the snapshot outlives it.
- Two concurrent edits of the allowlist start from one cached list and lose one. An edit that
  the script makes beside a running control plane is overwritten by the next edit of the panel,
  and the removal of an address that only the script added fails.
- An import socket that the tab has given up still runs its close handler, which may set the
  status of a swap begun later (`useProjectSwap.ts:166`).
- A driver station that unmounts under a held key leaves the key in the page's state
  (`orphaned`) until another is mounted and the key is pressed and released in it, or it loses the
  focus. The close of the channel's socket releases the robot only until the channel is open
  again, see 8. The input mode is persisted.
- Polls overlap and their answers are taken in the order they arrive, so an older one
  may be shown for a second; one that fails shows the simulation as idle, and one failed probe
  takes the editor away.
- `connection` of the run channel stays "connected" after a switch to a console lesson.
- Of two panel restores of one project that overlap, the later rename fails.
- Two savers of one deploy file mix their pieces, and a listing may read part of a save
  (`DeployFiles!ListingsAreWhole`); two uploads of one asset that overlap mix their files. The
  claims above are for those that nothing overlapped.
- Host ports stay leased by workspaces that are stopped or in error. A stopped container is always
  recreated when ports are published, because an inspect of it shows no published port.

## 5. Proofs

Every safety property that a run checks is a theorem here, and so are the refinements. The
theorems hold for any sets and any bounds, from the named assumptions on the
constants only: `RunAssumption`, `RuntimeAssumption`, `ClassroomAssumption`, `BridgeAssumption`,
`GamepadAssumption`, `ImportAssumption`, `AccessAssumption`, `SimAssumption`, `AccountsAssumption`,
`DataAssumption`, `FilesAssumption`, `UploadsAssumption`, `PortsAssumption`, `SwapAssumption`,
`PageAssumption`, `ProxyAssumption`, `PaneAssumption`, `ChannelAssumption` and `Nt4Assumption`:
types of the constants, finiteness where something is counted, and values that must differ. TLC
evaluates each of them (with `PollsAssumption`, on which no theorem rests).

`RunManager_proofs` proves `Inductive`: `IInv` holds in every reachable state,
where `IInv` is `TypeOK` with

- `RecordInv`: what the fields of one job say about each other (a finished job
  has no slot and no timer, a command exists only from `exec` on, ...);
- `LinkInv`: what job and row say about each other, which is what makes
  `RowOpenIffLive` inductive through a crash and boot;
- `CurrentInv`: the current job of a workspace is live and its newest, and every
  other live job is canceled.

The safety invariants follow from it. They are not inductive alone: that an
unsignaled command belongs to the current job needs to know that every
superseded job is canceled, and that a canceled job is not launched.
`RunManager_proofs` proves that initial states and steps map to those of
`RunLifecycle`, one lemma per action, and the two action properties.

`SnapshotMatchesRow`, `SnapshotIsNewest` and `IdleClientsToldTerminal` need a second invariant on
top, `ReportInv`, since what is reported lags behind the jobs:

- `StateInv`: the state a job would report is that of its row;
- `StatusInv`: what is remembered of a workspace without a job is the end in the row of
  the run it names;
- `NewestInv`: until a crash, the current and the remembered run are the newest of their
  workspace, which `isCurrentJob` keeps when a superseded run ends late;
- `ClientInv`: a browser whose view is not an end is among the clients of a live job of its
  workspace, which will still tell it one.

`WorkspaceRuntime_proofs` proves `IInv` = `TypeOK`, `SlotAccounting`,
`NoStaleCache`, `NewestIsJoined`, and

- `EnsureInv`: numbers of ensures not begun, the program counters at which a
  slot is held, and that an overtaken ensure has an epoch that is past, which is
  why it cannot enter the cache;
- `HoldsLock`: who counts or swaps is the head of the lock queue;
- `OpInv`, `CacheInv`: operations and cache entries are about the workspace they
  are filed under.

`OvershootIsBounded` is claimed under `Steady` (docker commands that work, and one cap; with a
count that fails and reads zero there is no bound) and proves `LoadInv` on top:

- `OldInv`: what an ensure that replaces a container of an old image has seen of it, and that
  each container has one such ensure;
- `LostInv`: old containers that went down by nobody's order are counted by `deaths`;
- `NumbersInv`: slots held and containers that are up, or will be, are within the cap and
  what is `Unearned`, and an ensure that has counted knows at least those there were. The
  count an ensure uses is older than the decision, so the argument compares the set
  counted then with the set of now, by the cardinalities of both.

`Classroom_proofs` proves `IInv` = `TypeOK`, the safety invariants `SlotsExact`,
`GuestCap` and `SessionsHaveGuests`, and

- `Registered`: `inFlightJoins` is exactly the joins under way;
- `CleanedInv` and `CleanerInv`: a cleaned classroom is over and empty, and once
  the guests of a classroom have been listed, its guests are on the list and no
  join is left. This is the comment in `cleanupClassroom` made precise, and it
  survives because a join registers in the turn of its liveness check;
- `NamesUnique`, `JoinInv`, `RoomsExist`: the unique index, and what a join that
  waits at each await may rely on.

The cap is inductive only with `SlotsExact`: a new join counts rows and slots,
while the invariant counts rows and creations. `CleanedIsEmpty` and
`NoUnwittingSharing` follow, and every step is shown to map to a step of `Roster`:
an insertion to `Admit`, which the cap allows, a deletion to `Remove`, or to `Seal`
when it is the last one and the classroom is marked in the same step.

`Gamepad_proofs` proves `IInv` = `TypeOK`, `SessionHasChannel`, and

- `Core`: `OneUpstream`, `AttachedIsTrying`, and that a joystick is held only on a
  connected bridge. One lemma per operation and event of the bridge shows that
  it preserves `Core`, whoever the caller is. The two properties need each other:
  that an open of a new socket makes no second upstream connection needs to know
  that an entry without a socket has none connecting or open, and that a timer
  that fires finds its entry attached and without a socket;
- `HoldingInv`: a run that is not ready has no joystick on its connection, because
  every start disconnects first, and a running one only for a selected
  controller. `HeldIsSelected` follows;
- `ChannelInv`: messages wait only on channels in use, and the tab's is open;
- `CacheInv`, for `CacheAgrees`: only a connection that is up is served, the entry's socket is one
  the bridge still wants, and the cache is `Settled`. That is: the last report of each
  flag under way to the bridge is true of the simulator, and where neither a report nor a
  command that changes the flag is under way, the cache is already right. `CacheAgrees` is the
  case in which nothing is under way. The lemmas about frames say what a sequence of reports
  and commands leaves, for any interleaving of the two directions.

`Host_proofs` proves an invariant for each part of the `host` run, and `HostHolds`, that
together they hold of the parts side by side:

- `ScriptsInv` = `TypeOK`, `OneClaimant`, and `GroupInv`: what a `stop-sim.sh` remembers was launched,
  and is dead once the script is done waiting, although other executions and other runs
  change the files meanwhile (a group once dead stays dead, which is why
  `StopKillsWhatItSaw` needs nothing about the pid file); `MarkerInv`: a host that claimed the pid
  in the marker left the claim file, so the next host finds it; `ScriptInv`, `OwnInv`: no sim
  before its launch, and a run script waits for its own stop.
- `AccountsInv`: what each request knows at its await. A sign-in past its check was listed since it
  began to ask, however the file changed, and every row that is an admin's, or that GitHub or Google
  made, is vouched for.
- `PortInv`: one ensure at a time has the lock, rows with a port differ, and what a reserving
  ensure takes as the others' ports includes every port leased now: rows change while it
  probes, but none gains a port without the lock.
- `UploadInv`: an upload that nothing overlapped has left nothing behind where it removed, and
  everything where it has copied (`NothingOf`, `WholeOf`, `ReplacingInv`).
- `DataInv` = `DbInv` and `FilesInv`: each migration that has a row was run once, in the
  database and in its copy; a process past its check knows exactly what is pending; and a
  project that is gone is one that a restore is about to put back, from an archive that is
  whole, unless a restore was cut short (`cut`).
- `FileInv`: a saver that nobody disturbed has open the file its path leads to, and that
  file holds exactly the pieces it wrote. A new file is a free inode; that there is one
  is a lemma about cardinalities, since there are more inodes than savers and directories.

`Page_proofs` proves `IInv` of the page: `SwapInv`, `ListInv` and `ControlsInv`. The last two are
nearly the properties themselves (`PreviewIsCurrent` with the era of what is still
to come; `HeldOnlyWhenCaptured` with the types of the station and of the lines). `SwapInv` is what `NeverSilentlyStale` needs:

- `SocketInv`, `MessageInv`: only the hook's own socket connects or is open, and a success is
  told once, after it was recorded;
- `EraInv`: eras and reloads are within their bound. Those used, and the swaps that may still
  use one, are together no more than there are sockets, by cardinality;
- `LastWordInv`: while the dialog has not spoken of a failure, a success that may still come
  comes over the open socket of a swap the dialog shows as under way;
- `FreshInv`: unless it has, or such a swap is under way, the newest session request leads to the
  project that is loaded or to an error that is shown.

`WorkspaceAccess_proofs` proves `IInv` = `TypeOK`, `OneSwap`, `EndedHoldsNothing`, and

- `Swaps`: what is in the project at each step of a swap, from which `RecordMatches`
  follows at rest; it is claimed for histories without a failed command (`Sound`);
- `Placed`, `Budget`: what is in the project or recorded was put there by a job that is past its
  swap, and a GitHub import at work was admitted below the limit, so charging the limiter
  at its end never overdraws it;
- `OutIsEnded`: a Leave that has signed out has ended its session, so a socket cannot
  be authenticated by it between the sign-out and the closing of the sockets.

`DeletedStaysDown` is an action property; it needs only that an ensure asks for
the workspace row in the turn in which it begins.

`Web_proofs` proves, of the proxy, `IInv` = `TypeOK` with `PairInv` (which states of the two sockets
go together), `LinkInv` (a link is there from the opening of the upstream on) and `WhereInv`:
what was received, what is in flight, what is pending and what is on the wire follow one
another without a gap while the upstream lives. Every step then maps to one of `Pipe`. Of the
panes it proves `PaneInv`: each split is laid out with its remembered share (`SplitInv`), and where
storage works, what is stored and used is what was chosen and dragged last (`StoredInv`);
`TabHolds` joins the two.

Of the choosers it proves `ChooserInv`, from which `PublishedFirst` and `QuietAgrees` follow:

- `ConnectionInv`: every connection, also one that was given up, is `Orderly`; in particular
  each selection under way on it comes after the publication of its topic, or the server
  has that publication;
- `CurrentInv`: the frames under way on the current connection lead the bridge's tables to
  tables that are `Faithful` to the robot, and what the bridge once published is published
  again. "Lead" is an existential: there is a chain of tables, one for each frame (`Reaches`). A
  frame handled takes the chain's head off, a frame sent adds at its end, and a robot
  that restarts ends the connection, so no induction over the frames is needed;
- `RobotInv`: ids and names of the robot's topics are one to one.

### Why the liveness properties hold

Liveness itself is only model-checked (`CanceledEnds`, `SlotsAreReturned`, `EnsuresSettle`,
`OverIsCleaned`, `CleanersReturn`, `AbandonedIsSwept`, `SwapsSettle`, `ReleaseReachesRobot`,
`PollsReconnect`, `EndsTogether`, `NothingWaits`, `PageCatchesUp`): it rests on fairness, and that
an action stays enabled is beyond this prover. But its argument has two parts that are safety, and
for seven components these are theorems too: that what is waited for is always on its way (an
invariant), and that no step takes it further away (an action property). What is then left to
fairness is that a step which can be taken is taken.

| Liveness | Always on its way | Never further away |
| --- | --- | --- |
| `CanceledEnds`, `SlotsAreReturned` | `CanceledIsEnding`: a canceled run waits for no command that nobody told to stop, a build slot has a deadline | `CanceledWindsDown`: it stays canceled, launches nothing and goes on to no other await |
| `EnsuresSettle` | `LockIsAQueue`: only the head of the admission lock's line works under it, and the line holds no one who is done | `EnsuresComeCloser`: each step of an ensure lowers `Ahead`, which starts from the tries a create has |
| `CleanersReturn` | `WaitsEnd`: a cleaner waits for joins that are under way, and deletes while a guest is left | `CleaningAdvances`: nobody begins to join a classroom that is over, and each step of a join or a cleaner leaves it less to do |
| `AbandonedIsSwept` | `LeftHoldsNothing`: with everybody gone no socket is open, and no run but one of a request from before | `LeftDrains`: the container starts again at most once for each request, load and ensure from before |
| `SwapsSettle` | `WaitIsAnswered`: the socket the dialog waits on connects, has its close under way, or a job that will send it | `WaitShortens`: `ToHear` never grows, and every message sent or heard lowers it |
| `NothingWaits` | `NothingIsNowhere`: a message is received, under way, or pending for an upstream that connects, unless its connection is lost | (messages only move on, `RefinesPipe`) |
| `PageCatchesUp` (the channel's half) | `NothingIsForgotten`: one channel or one retry, never both or neither | `EachStepCatchesUp`: only a loss or a switch raises `FeedsLeft` |

No run lists these, since they say why a run's property holds; TLC agreed with each on
the instances of the runs before it was proved. Three needed invariants of their own:
`WindInv` of the run manager, `VisitorsInv` of the sockets, requests and runs of those who left,
and `WaitInv` of the page (an open socket has its close under way or a job at work, and the
dialog waits only on a socket that connects or is open). The line for the lock is inductive only
with the fact that an ensure appears in it once.

## 6. Plan

1. `RunManager`, `RunLifecycle`, `WorkspaceRuntime`, `Classroom`, `Roster`, `HalSimBridge`,
   `Gamepad` and their proofs. Done.
2. `SimContainer`, `ImportManager` with `WorkspaceAccess`, `SocketProxy` with `Pipe`,
   `Nt4Choosers`, and their proofs. Done.
3. The page (`WorkspacePage` with its parts, `PaneLayout`, `PagePolls`, `RunChannel`) and the host
   (`Accounts`, `DataDirectory`, `DeployFiles`, `AssetUploads`, `PortLeases`), and their proofs. Done.
4. Left: `FailedAttemptLimiter` and the allocation of classroom codes and slugs; the
   heartbeat of the page; a refinement of `PortLeases` and `WorkspaceRuntime` by one module in
   which ports and admission meet.

## 7. Not modelled

- Better Auth, OAuth and the cookie cache of signed-in users who are not guests: library
  code, and requests ask it in one step.
- HTTP routing, configuration, logging, metrics, the schemas of the contracts
  package: no state shared between requests.
- The limiter of failed codes, and codes and slugs: each is a small state of its own.
- The HTTP proxy and the probe whether NetworkTables is alive: one request, one answer.
- Bun's back-pressure on `ws.send` (a send that is dropped is not noticed by the code).
- `exec`, image pinning and the demo-mode volume of the provider; the scripts that
  rebuild workspaces and clean up containers, which are sequential.
- Physical controllers, the Console panel, the simulator views, and the sign-in and
  administration pages of the web client: what they send is modelled where it arrives.

PROJECT.json names each component with the reason.
