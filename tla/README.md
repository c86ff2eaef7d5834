# A verification of the Android appliance daemon in TLA+

The appliance runs one Android emulator in a container and serves it through a
daemon (`appliance/`, Python, one asyncio event loop). This directory models the
parts of the daemon whose correctness depends on the order of events: the life
cycle of the emulator, the data of the AVD across crashes of the daemon, the
WebRTC streams of the viewers, the input of a dashboard session, the secrets that
let clients in and their rotation, and the requests that use Android. TLC checks the
models on small instances; TLAPS proves every safety property of the passing runs for
every size.

## 1. Inventory

| component | state | operations | talks to | hard behaviour |
|---|---|---|---|---|
| life cycle (`supervisor.py`) | state, boot future, boot/stop/watcher tasks, handles of qemu, gRPC and Xvnc, leases, last error | start, stop, restart, wait, lease, idle stop, shutdown; boot, teardown, exit of qemu, one retry | emulator, adb, session, backend | tasks that cancel and replace each other, a crash at any await, callers that join, time out or are cancelled, daemon exit |
| emulator process (`emulator.py`) | qemu, its log watch, AVD locks | launch, stop (sync, emu kill, SIGTERM, SIGKILL), hang detection | adb, supervisor | qemu that outlives SIGKILL, a log that cannot be read |
| first boot (`avd.py`, `StateStore`) | `state.json`, `config.ini`, first-boot marker, userdata | prepare, create, delete, record a completed boot | file system | a kill between two file operations, failed writes, a user who replaces the AVD |
| WebRTC bridge (`webrtc.py`) | the set of streams, per stream: request, receiver, release task, answered | create, open, send, close, release, aclose | session, emulator's gRPC | a viewer that leaves during the request, an emulator that never ends a stream, two limits |
| session (`session.py`) | websocket, control and keys lanes, own stream, held keys, pointers, outbox | stream start/stop, JSEP relay, input, close | hub, bridge, input, supervisor | cancelled lanes, messages after the end of a stream, full queues |
| input (`input.py`) | the contacts of a session | press, move and lift of a contact, release of all, the drag of a wheel notch, paste | session, gRPC | identifiers shared by sessions, a drag that is cut off |
| TURN (`turn.py`) | the turnserver process, the task that keeps it alive, the shared secret | start, stop, supervise with a delay, rotate, credentials | session, API | rotations that overlap, or meet the task while it makes a process |
| API, authentication (`api.py`, `auth.py`) | token, cookie key, login links, their files, temporary files | routes, login, rotation of the token, uploads and downloads | all | sessions and links of an old token, a write that fails or a kill between two, clients that leave |
| backend (`backend.py`, `adb.py`, `grpc_client.py`) | text lock | automation operations under a lease | supervisor, adb, gRPC | adb commands and calls that are cut off, Android that stops between two, the clipboard of the guest used as a channel for text |
| MCP server (`mcp_server.py`, `client.py`) | none that lives on | one API call for each tool; tools that follow a boot in short waits | API | a boot that is stopped or replaced between two waits |
| daemon start (`__main__.py`) | - | reads the secrets, removes uploads, starts the relay, listens | all | what a killed daemon left |
| dashboard (`web/js`) | connection, peer, freeze detector | connect, reconnect, restart of a frozen stream | session | timers that race with events |
| androidctl, installer | none that lives on | client calls | API | - |

What makes each of the first components correct:

* life cycle: no caller waits for a start that no task will end; one qemu at a
  time; one retry; `stopped` means that nothing is left; a running Android is
  watched; leases are exact; after a shutdown request nothing boots;
* first boot: data of the user is never deleted, and unusable data of an
  interrupted first boot is always recognised;
* streams: limits hold, a stream's events reach its own viewer only, every
  stream that was left is released;
* session input: what a session presses in the guest it lets go again, at the
  latest when it closes; what it counts as held is really down; a paste is not
  disturbed by modifiers; a session never starts Android; a close ends;
* access: what a rotation of the token replaced lets nobody in once the rotation is
  answered, on whatever way (token, cookie, login link, open session, TURN
  credential) and whatever a crash leaves in the files; one turnserver lives at a
  time, and one always comes back;
* requests: a request that is over, however it ended, leaves no process, lock, lease
  or file behind; texts of two pastes do not mix and the user's clipboard comes
  back; each request ends.

The full list of hazards, each at its line, is in `PROJECT.json`.

## 2. Modules

| module | models | role |
|---|---|---|
| `Lifecycle` | the promise of the supervisor to its callers | abstract specification |
| `Supervisor` | `supervisor.py` with the visible behaviour of `emulator.py` | implements `Lifecycle` |
| `SupervisorProofs` | - | theorems about `Supervisor`: futures, waiters, qemu, leases |
| `LifecycleProofs` | - | theorems about `Supervisor`: what it leaves behind, and that it implements `Lifecycle` |
| `FirstBoot` | `_prepare`, `_booted`, `StateStore`, `avd.py` | stands alone: one boot at a time |
| `FirstBootProofs` | - | theorems about `FirstBoot` |
| `Bridge` | `webrtc.py`, the streams in `session.py` | stands alone |
| `BridgeProofs` | - | theorems about `Bridge` |
| `Session` | the reader, keys lane, wheel and close of `session.py`, `Pointers` of `input.py`, `text()` of `backend.py` | stands alone; the supervisor is reduced to the four states that a session tells apart |
| `SessionProofs` | - | theorems about `Session` |
| `Auth` | `auth.py` | part of `Access` |
| `Turn` | `turn.py` | part of `Access` |
| `Access` | the rotation of `api.py`, the credential of a stream, the start of the daemon | composes `Auth` and `Turn` with the sessions |
| `AccessProofs` | - | theorems about `Access` |
| `Requests` | `backend.py`, `adb.py`, uploads and downloads of `api.py`, boot tools of `mcp_server.py` | composes the requests with `Lifecycle` as their Android |
| `RequestsProofs` | - | theorems about `Requests` |
| `MCSupervisor`, `MCFirstBoot`, `MCBridge`, `MCSession`, `MCAccess`, `MCRequests` | - | symmetry for TLC |

Definitions whose names end in `_Something` after the name of an action
(`Retry_Unmarked`) are deliberate mistakes. No specification uses them; each
shows that a property would notice that mistake in the code.

### Supervisor

An asyncio task runs uninterrupted between two awaits, so one action is one such
stretch of one task. `state`, `retried`, `leases` are the fields of the same
names. A boot future is a number: `gen` names the current one and `done` is its
outcome; a waiter remembers the number it waits for, so the model can express a
waiter of a replaced future. `boot` and `stop` are the await points of the boot and
the stop task; `boot.cancel` is a `cancel()` that was requested and takes effect
when the task runs next; `prev` is a boot that a retry replaced and that still
unwinds. `emu` is the handle with the way its qemu ended, `orphans` counts living
qemus without a handle. `client` has one record per caller: the request, the await
it is in, the future it waits for, and the answer that is on its way.

Time is not modelled: a timeout may pass at any moment, a running Android may or
may not still be settling, and the idle limit may have passed whenever there is no
lease. That is more than the code can do, so what holds here holds there.

Abstracted: texts, log tails, phases that only change the status text (adb
server and GPU setup are one wait, the polls of a booting guest another), the
activity clock, subscribers of the status.

`Faults` names what the environment may do wrong beyond what the code expects:
`"log"`, a read of the emulator log that fails with an unexpected `OSError`;
`"spawn"`, an adb process that cannot be created in `emu.stop()`.

### Lifecycle

Four states, the set of waiting callers, the used retry, and whether starts are
accepted. Every waiting caller is answered at the same moment, when Android runs
or when the start's stop is over; a retry keeps them waiting; each start and each
stop ends. The refinement mapping takes the clients in `join` as the waiting ones. Its safety
part holds with faults (`LifecycleSteps`); its fairness needs an environment
without them (`ImplementsLifecycle`). `Requests` is built on it: what `Supervisor`
is shown to implement is what the requests are checked against.

### FirstBoot

`_prepare` and `_booted` have no await: only a hard kill separates their file
operations, so each operation is an action and `DaemonDies` may come between them
if `"kill"` is in the environment. `dir` is the directory of each AVD (config.ini, marker,
userdata), `file` the record in `state.json`, `mem` the record in the daemon.
Userdata is `partial` until the daemon records a completed boot, then `user`; a
directory that existed before the daemon is `user` as well. Random marker values
are numbers that never repeat; a marker from elsewhere is `Foreign`. The user may
replace or remove an AVD while Android is stopped; both are external actions.
`env` is the set of faults that the file system and the host are capable of in a
behaviour (`disk`: writes fail; `unlink`: the marker cannot be removed; `kill`: the
daemon dies; `state`: `state.json` is lost; `rename`: the user swaps AVDs). It is
chosen from `Environments` and then fixed, so one run covers several environments.

### Bridge

`st` says where a stream is: requested, open, or on its way out
(`late`: its id is awaited; `answer`: the throwaway answer is being sent; `wait`
and `stuck`: the two timeouts of the release). `cur` is the stream that a session
holds, `owner` the session whose callback a stream has, `lane` what the control
lane waits for, `joined` the set `hub.sessions`. A session leaves `joined` before
its lane is cancelled, as in `_close`. Stream objects are reused by the model once
nobody refers to them.

### Session

One session and the guest that it presses keys and fingers in. `reader` is the
reader task with the touch event it sends, `lane` the queue of the keys lane and
`job` the job that it runs, `wheel` the wheel task, `conn` the stage of `_close`.
`held` and `contacts` are the fields of the session; `down` and `touching` are what
is really pressed in the guest. The properties compare the two. A key event, a
touch event and each modifier of a paste are awaited calls: they arrive, fail, or
are cut off by a `cancel()`. A job of the lane is a down, an up or a press of a named key or
button, a press of a printable character, which no session holds, or a paste. A press
(the dashboard's, an API client's, or BACK of the right mouse button) is a down and an up
in the guest and leaves `_held` alone, so a press of a held key (`Tap`) lets it go in the guest
while the session still counts it as held; `tapped` remembers such keys for `HeldIsDown` and
steers nothing. `letgo` is what `_let_go` took and still has to release.
A text lock that another user holds and releases stands for all other sessions
and API calls; those share nothing else with this session but Android itself.

Android is `stopped` (or stopping), `starting`, `booting` (the last phases of a start) or
`running`, as the supervisor reports it. `news` is a status change whose subscribers have not
been called yet: each boot phase is such a change, and `StatusChanged` is what a session does
about it: it forgets what the guest had. Two facts about time are assumed. A boot takes
seconds, so by its last phases the calls that went to the old emulator have failed (its channel
is closed, they fail at once) and the lane has run dry, but for a paste that waits for the boot
(`Drained`). And a phase lasts longer than a `call_soon`, so the subscribers were called for one
of the last phases before Android runs (`~news` in `BootEnds`). Neither says anything about
`held` or `contacts`: that these are empty in a new guest is up to `StatusChanged`, and
`HeldIsDown` fails if it keeps them.

`env` is the set of events of a behaviour: `stop`, Android stops; `midpaste`, it
does so while a paste lets go of the modifiers; `cut`, a cancelled task takes its
release along; `fail`, a call to the running emulator fails. The properties of
`session` are those of `Calm` behaviours (at most `stop`); the other events are
what its two findings need.

Abstracted: coordinates and pressure, a message with several touch points (they are
taken one after another), the
steps inside `input.paste` before and after the paste key, the rate limits and the
outbox (both only end the reader, which `ReaderEnds` may do at any time). A key of the model is
a key of the guest. Where two names stand for one (`ContextMenu` and the button `MENU`), the code
holds each name by itself: an up of the one lets go what the other one holds, as a press does,
and the model has it as a press.

### Auth, Turn, Access

Every rotation has a number, and each secret (API token, cookie key, TURN secret) is
the number of the rotation that made it, so that "older" means "replaced". A cookie is
the number of the key that signed it and stays in the browser for ever; a login link is
the number of the token at the time. Memory and files are separate variables: a write
may fail, and the daemon may be killed after any of the writes.

`rotate_token` changes all secrets, ends the sessions, and stops turnserver's task
before its first await; that stretch is the one action `RotateToken`, with
`RotateTokenFails` and `KilledWhileRotating` for the places where it breaks off. What
follows is a call of `start()`: `call[r]` says what it waits for (`gather` the cancelled
task, `stop` the old process and then the addresses, `exec` the new process) and which
process of its own it holds. The daemon's own start makes the same call. `watch` is
`_supervise` in the same way. A process is the secret in its configuration, which is
written before an await and read by turnserver after it; `OneTurnserver` is why a process in
the making counts as living.

Assumed of Python and the system: nothing suspends between the check of a token and
the entry in `hub.sessions`; cancelling `create_subprocess_exec` kills the process that it was
making; turnserver reads its configuration while it is made. `answered`
and `restarted` remember, for the properties, which rotations were answered and which
of these had restarted the relay.

Abstracted: wall time (a delay may pass at any time, a login link may be too old at any
time, cookies never are), the failure limit of the middleware, the check of origins,
user names of credentials, and sessions over the local socket, which need no secret.

### Requests

A request is one of five kinds (`calls`, `paste`, `upload`, `pull`, `boot`); the
operations of `backend.py` differ for the model only in how many adb commands they
run. `req[r].pc` is the await a request is in. It enters `lease()`, which starts Android,
joins a start or is refused, and then makes its calls; `stub` says whether the gRPC channel
it took is still open, since a request keeps the channel of the Android it
began with. `waiting` is the variable of `Lifecycle`: the actions of `Android` (an
instance with the requests as clients) are steps of this module, and each of them says what
it does to the channel, the guest and those who wait.

A call ends by itself, fails, or is cut off (its timeout, a cancelled request). A
cut-off call that sets the clipboard may still do so, at once or long after its request has
given the lock back (`ClipboardSetLate`): `cut` remembers that this
happened in the present guest, and `PastesDoNotMix` excludes it. `clip` names whose text is in
the clipboard; a new guest begins with the user's. `files` are temporary files on the disk;
a daemon that starts removes them.

The `boot` kind is a tool of the MCP server that asks for a start or a restart and then
waits in intervals, with a conflict (409) when a stop comes between; its `calls` are the
intervals that are left.

Abstracted: arguments, outputs and their parsing, which adb command it is, sizes, the
activity clock, delays, and the input events of `tap`, `long_press`, `swipe` and `key`.

## 3. Runs

| run | instance | shows |
|---|---|---|
| `supervisor_safety` | 2 callers, 2 requests, faults `log` and `spawn` | the safety properties that need no promise of the environment, and that each step is one of `Lifecycle` (`LifecycleSteps`) |
| `supervisor_live` | 1 caller, 3 requests, no faults | `starting` has a driver, `running` is watched, `stopped` leaves nothing; requests and the shutdown end; `Supervisor` implements `Lifecycle` with its fairness |
| `supervisor_spawn_fault` | 2 callers, fault `spawn` | violation of `RequestReturns` (finding) |
| `firstboot_data` | 2 AVD names; the environments `{}`, `{disk, rename}`, `{unlink, kill, state, rename}` | the user's data is kept in all of them; in `{}` interrupted first boots are recognised |
| `bridge` | 2 viewers, 3 streams, limits 1 and 2 | limits, ownership, number of viewers; every left stream is released |
| `session` | 1 key (a modifier), 1 finger, a lane of 1; the environments `{stop}` and `{stop, midpaste}` | nothing pressed is forgotten, a closed session leaves nothing down, what an open one holds is down, pastes without modifiers; a close completes |
| `session_release` | 1 key, 2 fingers, environment `{cut}` | violation of `AllLetGo` (finding) |
| `session_wake` | 1 key, 1 finger, environment `{stop, midpaste}` | violation of `StartedByOthers` (finding) |
| `access` | 2 rotations in progress, 3 in all, 1 session, 2 faults (failed write or spawn, exit of turnserver, kill) | replaced secrets are dead, in memory, files and sessions; one turnserver; a restart kills the credentials; the relay returns |
| `access_overlap` | 2 rotations, no faults | violation of `ReplacedCredentialsAreDead` (finding) |
| `requests` | 2 requests of any kind, up to 2 adb commands or waits each | nothing is left behind, pastes do not mix, requests end |
| `requests_pull` | as `requests` | violation of `TransfersLeaveNothing` (finding) |

**Bounds.** The life cycle has one boot future and one stop at a time, so two
callers already give a joiner and a rival (a stop, a restart, a lease that ends).
Two callers with a third request and the temporal properties exceed five minutes,
so the third request belongs to the run with one caller: a start, a stop and a
second start follow each other there, which is where a stale future, a stale
error or a used retry would show. Crashes, idle stops and the shutdown are not
requests and are not bounded. In `FirstBoot` two names let the configuration
switch away and back; `MaxIds` bounds how many AVDs are created. In `Bridge` two
viewers exceed a limit of one, and there
are as many stream objects as the limits admit. In `Session` one finger beside the wheel gives two users of
identifiers, and a lane of one a queue that is full behind a running paste; `MaxIds` is the
number of identifiers in use at a time (the code counts on for ever). One key is enough to be
held, tapped, released and pressed again around a paste, and the keys lane takes one job at a
time; but with one key the limit of held keys refuses nothing, so that `TypeOK` is informative
about it only as `SessionTypes`, which is proved for any keys and limit. (With two keys and
the environment `{stop}` the same properties hold: 944,924 states.) In `Access` two rotations overlap, and a third one follows
or meets what they left; two faults give a write that fails in one rotation and a kill in the
next, or a turnserver that exits while a start fails. Daemons start and die as often as
there are faults. One session is enough, as sessions do not touch each other. In `Requests` two
requests give an owner of the lock and a rival, two commands a stop or crash between them;
requests, boots, crashes and restarts are not counted. What the runs
show for these sizes the proofs of section 5 show for all. Symmetry is used in
`supervisor_safety`, `firstboot_data`, `session_release`, `access_overlap` and `requests_pull`, which
check no liveness: nothing distinguishes clients, names, fingers, rotations or requests.

**Fairness.** Weak fairness of each task's next step, because the event loop runs
every ready task and every wait that the steps stand for is bounded: the boot has
a deadline (`boot_timeout`), `emu.stop()` ends after its last timeout even if qemu
lives, calls to the emulator have `CALL_TIMEOUT`, the release of a stream has
`STUCK_AFTER` and `RELEASE_TIMEOUT`. In `Session` only the steps of a close are fair:
the cancelled tasks, what they still send in their `finally` blocks, and `_close`
itself. In `Access` the tasks of the relay are fair, and so is the start of a daemon that
died: the container's unit has `Restart=on-failure` (`install.sh:674`,
`docs/ARCHITECTURE.md:1171`). In `Requests` every call has a timeout (`Acts`), the steps of
Android are fair as in `Lifecycle`: a start ends and a stop ends, but a running Android may run
for ever, so no wait may count on a teardown. Two waits need strong fairness: a request that
waits for a stop (`Enter`) is woken by the end of that stop before anything can
start Android and stop it again, and the text lock (`PasteLocks`) is an `asyncio.Lock`,
which serves in order of arrival. Uploads and downloads may last as long as the client
likes. Nothing is assumed of qemu, of callers, of the
bodies of leases, or of the emulator's `bye`.

**Deadlock** is checked everywhere. The daemon that is down (`AfterShutdown`,
`Exited`) is the only state in which nothing happens; in `Access` and `Requests` a new
daemon follows.

## 4. What the runs found

Five statements of the comments and the documentation do not hold in every
situation; each has a run with a counterexample and an entry under `findings`:

1. after a teardown that failed because adb could not be started, a later boot
   that fails before its launch is never reported: `starting` for good
   (`supervisor_spawn_fault`);
2. a session that closes while it sends a key up or a lift may leave that key or
   finger down in the guest: it was forgotten before the event was sent, and the
   cancel takes the event along (`session_release`);
3. a paste that lets go of modifiers while Android stops starts Android again,
   although a session never should (`session_wake`);
4. a rotation of the token that arrives while another one restarts turnserver finds no
   task and restarts nothing; if the other one has written its configuration already,
   turnserver goes on with a secret that was replaced (`access_overlap`);
5. a pull whose adb command is cut off leaves its temporary file until the daemon starts
   again (`requests_pull`). The model has a second way, which that run's shortest trace does not
   take: a client that leaves before the answer begins (`AnswerDropped`).

Five more need an environment or an order that the passing runs leave out:

* a press of a key that the same session holds lets it go in the guest, while `_held` ("Keys and
  buttons that are down", `session.py:232`) keeps it: the next down of that key is dropped as a
  repeat (`session.py:485`). `HeldIsDown` leaves such keys out; check it without `tapped`;
* an `OSError` while the emulator log is read ends the watcher, and a later crash of qemu
  stays unnoticed behind `running`: check `RunningIsWatched` in `supervisor_safety` with
  `Faults = {"log"}`;
* a failed save together with a failed removal of the marker makes the next daemon delete
  an AVD that had booted: check `UserDataKept` with `Environments = {{"disk", "unlink"}}`;
* a stop during a retry does not wait for the crashed boot to unwind, only for the
  retry (`supervisor.py:435`; harmless as far as the model tells: the old boot only
  unwinds);
* more than `MAX_RELEASING` closed streams can wait for the emulator, up to
  `MAX_STREAMS + MAX_RELEASING - 1` (`docs/ARCHITECTURE.md:712` names the smaller limit;
  `StreamLimits` states the larger one).

## 5. Proofs

All theorems are about any finite set of callers, names, viewers, streams, rotations or
requests, any bound on their number and any value of the limits. No fairness is used: they are
theorems of `Init /\ [][Next]_vars`. Every invariant and action property of the passing runs is
a theorem here, under a promise of the environment where the run has one. Each
strengthened invariant was checked by TLC before it was proved.

**Supervisor.** `Typed` (types, an idle client has no request, leases are counted)
is inductive on its own. `Control` rests on it and adds what the properties leave
unsaid: which future is pending in which state (`FutureInv`), that a stop's future
is the current one and the boot it follows has ended (`StopInv`, `BootInv`), that a
waiter's future is the current one (`JoinInv`), what an outcome says about the last
error (`ErrorInv`), and how many qemus live and were launched at each await point of
the boot (`QemuInv`: a boot is past the lock probe only if no other qemu lives).
None of the properties is inductive alone: that a waiter is served needs to know
that a retry only replaces a future that is done, which needs the link of state
and future. The steps of a client are first reduced to three effects
(`ClientEffects`), so that the invariants are checked against three cases and not
ten requests. Theorems: `TypeCorrect`, `LeasesBalance`, `WaitersAreServed`,
`TeardownsExclude`, `OneQemuAlways`, `CrashNeverLoops`, `JobsFollowState`,
`FailuresReported`, `ShutdownIsFinal`; they hold with the faults too.
`JobsFollowState` (the idle job and the watcher exist exactly while Android runs) is proved
and has no run of its own.

**Life cycle.** `LifecycleProofs` adds what depends on the environment, in three layers over
`Control`, each with the one promise that it needs. All three are checked against three kinds
of steps (`StepKinds`): those of the boot task, of the stop task, and all others, which leave
the tasks alone or begin a boot, a stop or a retry (`Moves`, `OtherEffects`).

* `CleanInv`, without `"spawn"`: what each stage of a teardown has put away already, so
  that nothing is left when it is over (`StopLeavesNothing`);
* `WatchedInv`, without `"log"`: from the launch on a boot has a handle and a watcher, and a
  watcher leaves only with a decision about the exit of its qemu (`RunningStaysWatched`);
* `DriverInv`, without faults: before its launch a boot has no handle of an earlier
  qemu, so that a boot which ends on its own is one whose watcher has an exit to report
  (`StartsAreDriven`). It needs the two others' promises: a teardown that failed leaves the
  handle (finding 1), and a watcher that died reports nothing.

`ImplementsLifecycleSteps` is the refinement without its fairness, and holds with all
faults. The mapping takes the callers in `join` as `waiting`. A boot step is
`Ready`, `Halt` or nothing (`BootStepPublic`), the end of a stop is `Halted`, the watcher's
retry is `Retry`, and the requests are `Boot`, `Join`, `Leave`, `Halt` and `Close`. Two facts
carry it: those who wait are exactly those of the current future (`JoinInv`), so that one
resolution answers all and nobody else, and a start from `stopped` finds nobody who
waits (`NobodyJoined`). `IdleStopIsIdle` combines `LeasesCounted` with `BodyInv`: whoever is in
the body of a request holds a lease.

**FirstBoot.** `UserDataIsKept` assumes of `Environments` that one with failed writes
has no other fault than `rename` (the second item at the end of section 4 is what happens if
it has). The assumption is exact: with any one of `unlink`, `kill` and `state` beside `disk`
TLC finds a behaviour that deletes the user's data.
The invariant says that a marker which a record of an unbooted AVD names is in no
directory with data of the user, in memory and on disk, through every
intermediate file operation.
`FirstBootIsRepaired` is about the environment `{}`, as the property is; each fault alone
violates it. `RepairInv` says of the configured directory at each step of `_prepare` and `_booted` that it
is empty, the user's, or belongs to the recorded first boot, and that memory and file agree
except between a change and its save. `FirstBootTypes` gives the types in every environment.

**Bridge.** `Inv` ties a requested stream to the lane that waits for it and says
that no two sessions hold one stream. The limits follow from it with cardinality
facts: every step but `Start` shrinks both sets, and `Start` adds one stream to
sets that `create()` found below the limits. Theorems: `LimitsHold`,
`SessionsOwnStreams`, `ViewersAreCounted`, `BridgeTypes`.

**Session.** `Typed` says that the lane, the held keys and all messages keep their
types and limits. `Control` says, for behaviours in which at most a stop of Android
disturbs the calls, what each stage of `_close` has behind it (`CloseInv`), that the
modifiers of a paste stay in `held` until it is over (`PasteInv`), that a held key is
down, about to be pressed, or was let go by a keypress (`HeldInv`), that a touch on its way
belongs to a contact (`TouchInv`), that identifiers have one use and a contact of an open
session touches or is about to (`ContactInv`), and that what is down in the guest is held or on
its way up (`Tracked`). `BootInv` is what carries `HeldIsDown` from one guest to the next: in the
last phases of a boot a session whose subscriber was called holds nothing, because it sends
nothing and `StatusChanged` made it forget.
`ClosedLetsGo` needs all of these: a paste that presses its modifiers again during a
close is harmless only because they are still in `held` when `_let_go` takes it.
Theorems: `SessionTypes`, `InputIsTracked`, `InputIsReleased`, `HeldStaysDown`,
`ModifiersAreUp`, for any keys, modifiers, fingers and limits.

**Access.** `RelayInv` is about control only: at most one call of `start()` is in progress, the
task is gone as long as it is, the old process is taken before a new one is asked for, the
daemon's own call runs only while it starts, and a rotation that is over has no call. `OneTurnserver` needs all of it, because a process in the making is owned by
whichever task asked for it. `AuthInv` says that token, key, files, links and sessions are as
young as the last answered rotation *and* as every rotation in progress: without the second
half an answer would not preserve the first. `TurnInv` says the same of every turnserver
that lives or is being made, and of the secret that a later one will take. Theorems: `AccessTypes`,
`AccessOneTurnserver`, `AccessReplaced`, `AccessRestart`, `AccessCurrent`, and `AccessAlone`: if at
most one rotation can be in progress, `ReplacedCredentialsAreDead` holds, so that finding 4
needs the overlap and nothing else. `AccessRelayIsKept` is what `RelayReturns` rests on: while the daemon
runs and turnserver does not, the task is there and watches, or exactly one call is about to leave
one. A rotation that finds no task leaves none itself; it relies on the call that took it.

**Requests.** `PlacesInv` says at which awaits a request is the holder of the lock, a member of
`waiting`, the owner of an adb process or of a file. An action moves one request and
leaves the places of the others alone (`Moves`, `OthersHold`), so each action is checked
for its own request only; the actions of Android move all that wait at once. `ClipInv` says what
the holder of the lock has done to the clipboard at each of its awaits, in a guest where no
call was cut off, and that the text it saved was the user's. Theorems: `RequestTypes`, `RequestsLeaveNothing`, `PastesAlone`.
`RequestsUseLifecycle` closes the composition: the module changes the variables of Android by steps of
`Lifecycle` only, which `ImplementsLifecycleSteps` shows to be all that callers see of the supervisor, and by
a restart of the daemon. `RequestsWaitForAnswers` is what `RequestsEnd` rests on: whoever
joined a start is still among those whom its answer wakes, Android is in a start or a stop
meanwhile, and a text lock that is taken has a holder who works.

**Only model-checked:** liveness, as fairness is out of the prover's reach: `RequestReturns`,
`ShutdownCompletes`, `LeftStreamsGo`, `CloseCompletes`, `RelayReturns`, `RequestsEnd`, and the fairness of
`Lifecycle` in `ImplementsLifecycle`. What some of them rest on is proved: `WaitersAreServed` and
`StartsAreDriven` for `RequestReturns`, `AccessRelayIsKept` for `RelayReturns` and
`RequestsWaitForAnswers` for `RequestsEnd`.

## 6. Not modelled, and the plan

In this order:

1. proofs: the safety that the other liveness properties rest on (`CloseCompletes`,
   `ShutdownCompletes`), and abstract specifications of `Session` and `Access` to refine;
2. `EmulatorStop`: the escalation of `Emulator.stop()` (never a second kill
   request, bounded time, the log watch that must not interfere);
3. `Session`: the outbox at its limit, the queue of the control lane with an
   `_android_stopped` that arrives late, and the retry of the input stream
   (`grpc_client.py`), which may repeat an event;
4. `Requests`: the touches of `tap`, `long_press` and `swipe` and typed keys, which share the
   contacts of the guest with the sessions; upload sizes; the spooled files of the MCP server;
5. `Auth`: the failure limit and the expiry of cookies; `Turn`: the graceful exit;
6. `Link`: the dashboard's connection with its timers and the freeze detector.

Left out for good: routing and JSON of the API, the texts of the MCP tools, androidctl, the
configuration (parsing of environment variables), the installer and the image (glue and I/O), layout and DOM of the dashboard, texts and formatting,
the contents of SDP. The clocks (uptime, activity) and wall time are abstracted.
