----------------------------- MODULE Supervisor -----------------------------
(***************************************************************************)
(* The life cycle state machine of appliance/supervisor.py.                *)
(*                                                                         *)
(* The daemon is one asyncio event loop: a task runs without interruption  *)
(* from one await to the next, so every action below is one such stretch   *)
(* of one task (a caller's request, the boot task, the stop task, the      *)
(* watcher of qemu, the idle job), and the actions interleave.             *)
(*                                                                         *)
(* Task.cancel() takes effect when the cancelled task runs next: the task  *)
(* then unwinds from its await, in a step of its own.                      *)
(***************************************************************************)
EXTENDS Naturals, FiniteSets

CONSTANTS
  Clients,      \* the tasks that call the supervisor's requests
  MaxRequests,  \* bound: how many requests all clients make together
  Faults        \* what the environment may do wrong, see below

(* "log":   an open() or read() of the emulator log fails in _watch_log
            with an OSError that is not FileNotFoundError.
   "spawn": the adb process that emu.stop() needs cannot be created (an
            OSError, for example at the limit of processes or files). *)
ASSUME FaultsAssumption == Faults \subseteq {"log", "spawn"}
ASSUME MaxRequestsAssumption == MaxRequests \in Nat
ASSUME ClientsAssumption == IsFiniteSet(Clients)

VARIABLES
  state,      \* self.state
  gen,        \* how many futures self._boot_done has named; 0 is None
  done,       \* the outcome of the future that self._boot_done names
  retried,    \* self._retried
  lastError,  \* self.last_error is not None
  boot,       \* self._boot_task: its await point, and a pending cancel()
  prev,       \* whether the boot that the last retry replaced still unwinds
  stop,       \* self._stop_task: its await point and its arguments
  emu,        \* self._emu: "none", "live", or how its qemu exited
  orphans,    \* living qemus that outlived SIGKILL and have no handle
  watch,      \* whether the task self._watcher still waits for qemu
  logOk,      \* whether _watch_log of self._emu has not failed
  grpc,       \* self.grpc is not None
  xvnc,       \* self._xvnc is not None
  jobs,       \* self._job_tasks is not empty
  leases,     \* self._leases
  client,     \* the request each client is in
  daemon,     \* "up", "closing" once shutdown() runs, "down" after it
  requests,   \* requests made so far (bounded by MaxRequests)
  launches    \* history: qemus launched for the last _begin_boot

lifeVars  == <<state, gen, done, retried, lastError>>
bootVars  == <<boot, prev>>
emuVars   == <<emu, orphans, watch, logOk>>
connVars  == <<grpc, xvnc>>
callVars  == <<leases, client, requests>>
vars == <<lifeVars, bootVars, stop, emuVars, connVars, jobs,
          callVars, daemon, launches>>

-----------------------------------------------------------------------------
(* Types and small predicates *)

States == {"stopped", "starting", "running", "stopping"}
(* LifecycleError codes that a boot future can fail with. *)
Errors == {"conflict", "boot_failed", "timeout", "unavailable"}
Outcomes == {"none", "pending", "ok"} \cup Errors

(* How a qemu can end: a crash; a FATAL line in its log and an exit by
   itself; a hang line, for which _watch_log killed it; a power-off by the
   guest (status 0 without such a line). "gone" is an exit that the watcher
   has seen, or that nobody watches: how it happened is not read anymore. *)
Exits == {"crash", "fatal", "hang", "poweroff", "gone"}
Exited == emu \in Exits
Living == IF emu = "live" THEN 1 ELSE 0

Teardowns == {"td_emu", "td_grpc", "td_xvnc"}
(* "gpu" stands for adb start-server and setup_gpu, "booting" for the polls
   of the gRPC status, of adb and of sys.boot_completed: only the phase text
   changes between them. *)
LaunchPhases == {"prepare", "gpu", "launch", "connect", "booting", "setup"}
BootPcs == {"none", "waitprev", "done"} \cup Teardowns \cup LaunchPhases
BootActive == boot.pc \notin {"none", "done"}

StopPcs == {"none", "boot"} \cup Teardowns
NoStop == [pc |-> "none", fut |-> 0, err |-> "conflict"]

(* lease() and lease(wake=False) hold a lease, the others do not. A client
   with "start_async" or "restart_async" is the background task that
   _spawn created for start(wait=False) or restart(wait=False). *)
LeaseOps == {"lease", "look"}
TimedOps == {"start", "restart", "wait"}
Ops == {"none", "stop", "start_async", "restart_async"} \cup LeaseOps \cup TimedOps
ClientPcs == {"idle", "join", "woken", "stopwait", "halt", "spin", "body"}
ClientRecords == [op : Ops, pc : ClientPcs, fut : Nat, got : Outcomes]
IdleClient == [op |-> "none", pc |-> "idle", fut |-> 0, got |-> "none"]

Closing == daemon # "up"

TypeOK ==
  /\ state \in States
  /\ gen \in Nat
  /\ done \in Outcomes
  /\ retried \in BOOLEAN
  /\ lastError \in BOOLEAN
  /\ boot \in [pc : BootPcs, cancel : BOOLEAN]
  /\ prev \in BOOLEAN
  /\ stop \in [pc : StopPcs, fut : Nat, err : Errors]
  /\ emu \in {"none", "live"} \cup Exits
  /\ orphans \in Nat
  /\ watch \in BOOLEAN
  /\ logOk \in BOOLEAN
  /\ grpc \in BOOLEAN
  /\ xvnc \in BOOLEAN
  /\ jobs \in BOOLEAN
  /\ leases \in Nat
  /\ client \in [Clients -> ClientRecords]
  /\ daemon \in {"up", "closing", "down"}
  /\ requests \in Nat
  /\ launches \in Nat

Init ==
  /\ state = "stopped"
  /\ gen = 0
  /\ done = "none"
  /\ retried = FALSE
  /\ lastError = FALSE
  /\ boot = [pc |-> "none", cancel |-> FALSE]
  /\ prev = FALSE
  /\ stop = NoStop
  /\ emu = "none"
  /\ orphans = 0
  /\ watch = FALSE
  /\ logOk = TRUE
  /\ grpc = FALSE
  /\ xvnc = FALSE
  /\ jobs = FALSE
  /\ leases = 0
  /\ client = [c \in Clients |-> IdleClient]
  /\ daemon = "up"
  /\ requests = 0
  /\ launches = 0

-----------------------------------------------------------------------------
(* The synchronous helpers of the state machine *)

\* Mutant: last_error of the previous start is not cleared.
BeginBoot_KeepsError ==
  /\ state' = "starting"
  /\ gen' = gen + 1
  /\ done' = "pending"
  /\ retried' = FALSE
  /\ boot' = [pc |-> "prepare", cancel |-> FALSE]
  /\ launches' = 0
  /\ UNCHANGED lastError

BeginBoot ==
  /\ state' = "starting"
  /\ gen' = gen + 1
  /\ done' = "pending"
  /\ retried' = FALSE
  /\ lastError' = FALSE
  /\ boot' = [pc |-> "prepare", cancel |-> FALSE]
  /\ launches' = 0

(* The stop task gets the boot task and the current future. A boot task
   that calls this itself (own) returns right afterwards. *)
BeginStop(error, own) ==
  /\ state' = "stopping"
  /\ jobs' = FALSE
  /\ stop' = [pc |-> "boot", fut |-> gen, err |-> error]
  /\ boot' = CASE own        -> [boot EXCEPT !.pc = "done"]
               [] ~own /\ BootActive  -> [boot EXCEPT !.cancel = TRUE]
               [] ~own /\ ~BootActive -> boot
  /\ UNCHANGED <<gen, done, retried, prev>>

Fail(error, own) ==
  /\ lastError' = TRUE
  /\ BeginStop(error, own)

\* Mutant: the retry always makes a new future.
Retry_NewFuture ==
  /\ state' = "starting"
  /\ retried' = TRUE
  /\ jobs' = FALSE
  /\ prev' = BootActive
  /\ boot' = [pc |-> "waitprev", cancel |-> FALSE]
  /\ gen' = gen + 1
  /\ done' = "pending"
  /\ UNCHANGED <<stop, lastError>>

\* Mutant: the retry is not remembered.
Retry_Unmarked ==
  /\ state' = "starting"
  /\ jobs' = FALSE
  /\ prev' = BootActive
  /\ boot' = [pc |-> "waitprev", cancel |-> FALSE]
  /\ IF done = "pending" THEN UNCHANGED <<gen, done>>
                         ELSE gen' = gen + 1 /\ done' = "pending"
  /\ UNCHANGED <<stop, lastError, retried>>

(* A waiting start keeps its future; a start that had succeeded already
   gets a new one. *)
Retry ==
  /\ state' = "starting"
  /\ retried' = TRUE
  /\ jobs' = FALSE
  /\ prev' = BootActive
  /\ boot' = [pc |-> "waitprev", cancel |-> FALSE]
  /\ IF done = "pending" THEN UNCHANGED <<gen, done>>
                         ELSE gen' = gen + 1 /\ done' = "pending"
  /\ UNCHANGED <<stop, lastError>>

\* Mutant: only the callers of start() are woken.
Resolve_OnlyStart(f, outcome) ==
  IF f = gen /\ done = "pending"
  THEN /\ done' = outcome
       /\ client' = [c \in Clients |->
            IF client[c].pc = "join" /\ client[c].fut = f /\ client[c].op = "start"
            THEN [client[c] EXCEPT !.pc = "woken", !.got = outcome]
            ELSE client[c]]
  ELSE UNCHANGED <<done, client>>

(* set_result or set_exception on future f wakes the clients that wait for
   it. A future that is not the current one is done already. *)
Resolve(f, outcome) ==
  IF f = gen /\ done = "pending"
  THEN /\ done' = outcome
       /\ client' = [c \in Clients |->
            IF client[c].pc = "join" /\ client[c].fut = f
            THEN [client[c] EXCEPT !.pc = "woken", !.got = outcome]
            ELSE client[c]]
  ELSE UNCHANGED <<done, client>>

\* Mutant: the Xvnc of a host GPU is forgotten when qemu is stopped.
TeardownStep_KeepsXvnc(pc, pcNext) ==
  \/ /\ pc = "td_emu" /\ pcNext = "td_grpc"
     /\ emu' \in CASE emu = "live" -> {"live", "gone"}
                  [] emu = "none" -> {"none"}
                  [] OTHER        -> {"gone"}
     /\ watch' = FALSE
     /\ UNCHANGED <<orphans, logOk, connVars>>
  \/ /\ pc = "td_grpc" /\ pcNext = "td_xvnc"
     /\ grpc' = FALSE
     /\ UNCHANGED <<emuVars, xvnc>>
  \/ /\ pc = "td_xvnc" /\ pcNext = "end"
     /\ emu' = "none"
     /\ orphans' = orphans + Living
     /\ UNCHANGED <<watch, logOk, connVars>>

(* One await of _teardown, from pc to pcNext. emu.stop() ends with a dead
   qemu, or gives up on one that SIGKILL does not end; the handle goes last.
   An await that the code skips (nothing to close) changes nothing here. *)
TeardownStep(pc, pcNext) ==
  \/ /\ pc = "td_emu" /\ pcNext = "td_grpc"
     /\ emu' \in CASE emu = "live" -> {"live", "gone"}
                  [] emu = "none" -> {"none"}
                  [] OTHER        -> {"gone"}
     /\ watch' = FALSE
     /\ UNCHANGED <<orphans, logOk, connVars>>
  \/ /\ pc = "td_grpc" /\ pcNext = "td_xvnc"
     /\ grpc' = FALSE
     /\ UNCHANGED <<emuVars, xvnc>>
  \/ /\ pc = "td_xvnc" /\ pcNext = "end"
     /\ xvnc' = FALSE
     /\ emu' = "none"
     /\ orphans' = orphans + Living
     /\ UNCHANGED <<watch, logOk, grpc>>

-----------------------------------------------------------------------------
(* The boot task: _boot, _launch *)

BootRuns(pc) == boot.pc = pc /\ ~boot.cancel
BootGoes(pc) == boot' = [boot EXCEPT !.pc = pc]

(* A cancelled boot unwinds: CancelledError passes every handler, and what
   an await had started (an adb process, an unfinished Xvnc or qemu) is
   killed on the way. *)
BootUnwind ==
  /\ BootActive
  /\ boot.cancel
  /\ boot' = [pc |-> "done", cancel |-> FALSE]
  /\ UNCHANGED <<lifeVars, prev, stop, emuVars, connVars, jobs,
                 callVars, daemon, launches>>

(* The same for the boot that a retry replaced. *)
PreviousUnwind ==
  /\ prev
  /\ prev' = FALSE
  /\ UNCHANGED <<lifeVars, boot, stop, emuVars, connVars, jobs,
                 callVars, daemon, launches>>

BootAwaitPrevious ==
  /\ BootRuns("waitprev")
  /\ ~prev
  /\ BootGoes("td_emu")
  /\ UNCHANGED <<lifeVars, prev, stop, emuVars, connVars, jobs,
                 callVars, daemon, launches>>

BootTeardown ==
  \E pc \in Teardowns, next \in Teardowns \cup {"end"} :
    /\ BootRuns(pc)
    /\ TeardownStep(pc, next)
    /\ BootGoes(IF next = "end" THEN "prepare" ELSE next)
    /\ UNCHANGED <<lifeVars, prev, stop, jobs, callVars, daemon,
                   launches>>

\* Mutant: only the qemu that the daemon still knows is looked for.
AvdLocked_KnownOnly == emu = "live"

(* remove_stale_locks: a living qemu holds the locks of the AVD. *)
AvdLocked == orphans > 0 \/ emu = "live"

BootPrepare ==
  /\ BootRuns("prepare")
  /\ ~AvdLocked
  /\ BootGoes("gpu")
  /\ UNCHANGED <<lifeVars, prev, stop, emuVars, connVars, jobs,
                 callVars, daemon, launches>>

(* The guest reports the boot; its qemu may have exited since. *)
BootCompleted ==
  /\ BootRuns("booting")
  /\ BootGoes("setup")
  /\ UNCHANGED <<lifeVars, prev, stop, emuVars, connVars, jobs,
                 callVars, daemon, launches>>

(* setup_gpu returns an Xvnc for GPU rendering, none for lavapipe. *)
BootGpu ==
  /\ BootRuns("gpu")
  /\ BootGoes("launch")
  /\ xvnc' \in BOOLEAN
  /\ UNCHANGED <<lifeVars, prev, stop, emuVars, grpc, jobs,
                 callVars, daemon, launches>>

\* Mutant: qemu gets no watcher.
BootLaunch_Unwatched ==
  /\ BootRuns("launch")
  /\ BootGoes("connect")
  /\ emu' = "live"
  /\ orphans' = orphans + Living
  /\ logOk' = TRUE
  /\ launches' = launches + 1
  /\ UNCHANGED <<lifeVars, prev, stop, watch, connVars, jobs, callVars, daemon>>

BootLaunch ==
  /\ BootRuns("launch")
  /\ BootGoes("connect")
  /\ emu' = "live"
  /\ orphans' = orphans + Living
  /\ watch' = TRUE
  /\ logOk' = TRUE
  /\ launches' = launches + 1
  /\ UNCHANGED <<lifeVars, prev, stop, connVars, jobs, callVars, daemon>>

BootConnect ==
  /\ BootRuns("connect")
  /\ BootGoes("booting")
  /\ grpc' = TRUE
  /\ UNCHANGED <<lifeVars, prev, stop, emuVars, xvnc, jobs,
                 callVars, daemon, launches>>

(* _setup ends (its commands may fail) and the boot succeeds. *)
BootSucceeds ==
  /\ BootRuns("setup")
  /\ BootGoes("done")
  /\ state' = "running"
  /\ Resolve(gen, "ok")
  /\ jobs' = TRUE
  /\ UNCHANGED <<gen, retried, lastError, prev, stop, emuVars, connVars,
                 leases, requests, daemon, launches>>

\* Mutant: a boot that has no qemu yet returns without a word as well.
BootFails_Silent ==
  /\ \E pc \in LaunchPhases : BootRuns(pc)
  /\ IF emu # "live"
     THEN BootGoes("done") /\ UNCHANGED <<lifeVars, prev, stop, jobs>>
     ELSE \E code \in {"boot_failed", "timeout"} : Fail(code, TRUE)
  /\ UNCHANGED <<emuVars, connVars, callVars, daemon, launches>>

(* A _Failure in any phase: locks, AVD, adb, GPU, launch, unauthorized, or
   the deadline of the boot. When qemu is gone the boot only returns. *)
BootFails ==
  /\ \E pc \in LaunchPhases : BootRuns(pc)
  /\ IF Exited
     THEN BootGoes("done") /\ UNCHANGED <<lifeVars, prev, stop, jobs>>
     ELSE \E code \in {"boot_failed", "timeout"} : Fail(code, TRUE)
  /\ UNCHANGED <<emuVars, connVars, callVars, daemon, launches>>

(* Any other exception: the boot fails whatever qemu does. *)
BootError ==
  /\ \E pc \in LaunchPhases : BootRuns(pc)
  /\ Fail("boot_failed", TRUE)
  /\ UNCHANGED <<emuVars, connVars, callVars, daemon, launches>>

BootStep ==
  \/ BootUnwind \/ BootAwaitPrevious \/ BootTeardown \/ BootPrepare
  \/ BootCompleted \/ BootGpu \/ BootLaunch \/ BootConnect \/ BootSucceeds
  \/ BootFails \/ BootError

-----------------------------------------------------------------------------
(* The stop task: _stop *)

StopGoes(pc) == stop' = [stop EXCEPT !.pc = pc]

\* Mutant: the stop does not wait for the cancelled boot.
StopAwaitBoot_Impatient ==
  /\ stop.pc = "boot"
  /\ StopGoes("td_emu")
  /\ UNCHANGED <<lifeVars, bootVars, emuVars, connVars, jobs, callVars,
                 daemon, launches>>

StopAwaitBoot ==
  /\ stop.pc = "boot"
  /\ ~BootActive
  /\ StopGoes("td_emu")
  /\ UNCHANGED <<lifeVars, bootVars, emuVars, connVars, jobs,
                 callVars, daemon, launches>>

StopTeardown ==
  \E pc \in Teardowns, next \in Teardowns :
    /\ stop.pc = pc
    /\ TeardownStep(pc, next)
    /\ StopGoes(next)
    /\ UNCHANGED <<lifeVars, bootVars, jobs, callVars, daemon,
                   launches>>

\* Mutant: the future is resolved first, which raises if it is done.
StopEnds_ResolvesFirst ==
  /\ state' = IF done = "pending" THEN "stopped" ELSE state
  /\ stop' = NoStop
  /\ Resolve(stop.fut, stop.err)
  /\ UNCHANGED <<gen, retried, lastError, bootVars, jobs, leases, requests,
                 daemon, launches>>

(* The finally block: stopped, and the start that this stop ended fails. *)
StopEnds ==
  /\ state' = "stopped"
  /\ stop' = NoStop
  /\ Resolve(stop.fut, stop.err)
  /\ UNCHANGED <<gen, retried, lastError, bootVars, jobs, leases,
                 requests, daemon, launches>>

StopFinish ==
  /\ stop.pc = "td_xvnc"
  /\ TeardownStep("td_xvnc", "end")
  /\ StopEnds

(* emu.stop() cannot create its adb process: _teardown is given up. *)
StopFault ==
  /\ "spawn" \in Faults
  /\ stop.pc = "td_emu"
  /\ emu = "live"
  /\ StopEnds
  /\ UNCHANGED <<emuVars, connVars>>

StopStep == StopAwaitBoot \/ StopTeardown \/ StopFinish \/ StopFault

-----------------------------------------------------------------------------
(* qemu and its watcher: _watch, _exited *)

EmuExits ==
  /\ emu = "live"
  /\ IF watch
     THEN \/ emu' \in {"crash", "fatal", "poweroff"}
          \/ emu' = "hang" /\ logOk /\ stop.pc \notin Teardowns
     ELSE emu' = "gone"
  /\ UNCHANGED <<lifeVars, bootVars, stop, orphans, watch, logOk, connVars,
                 jobs, callVars, daemon, launches>>

OrphanExits ==
  /\ orphans > 0
  /\ orphans' = orphans - 1
  /\ UNCHANGED <<lifeVars, bootVars, stop, emu, watch, logOk, connVars,
                 jobs, callVars, daemon, launches>>

LogReadFails ==
  /\ "log" \in Faults
  /\ emu = "live"
  /\ logOk
  /\ logOk' = FALSE
  /\ UNCHANGED <<lifeVars, bootVars, stop, emu, orphans, watch, connVars,
                 jobs, callVars, daemon, launches>>

(* The decision about an exit while Android starts or runs. A running
   Android is still settling or not: any time may have passed. *)
HandleExit ==
  \/ emu = "hang" /\ Fail("boot_failed", FALSE)
  \/ emu = "poweroff" /\ BeginStop("conflict", FALSE) /\ UNCHANGED lastError
  \/ /\ emu \in {"fatal", "crash"}
     /\ \/ /\ emu = "fatal" \/ retried \/ state = "running"
           /\ Fail("boot_failed", FALSE)
        \/ /\ emu = "crash" /\ ~retried
           /\ Retry

(* _exited raised: stop all the same. *)
HandlerRaises == BeginStop("unavailable", FALSE) /\ UNCHANGED lastError

(* The watcher ends. emu.wait() raises what _watch_log raised, and then
   nothing looks at the exit. *)
Watch ==
  /\ watch
  /\ Exited
  /\ watch' = FALSE
  /\ IF logOk /\ state \in {"starting", "running"}
     THEN HandleExit \/ HandlerRaises
     ELSE UNCHANGED <<lifeVars, bootVars, stop, jobs>>
  /\ emu' = "gone"
  /\ UNCHANGED <<orphans, logOk, connVars, callVars, daemon, launches>>

-----------------------------------------------------------------------------
(* The idle job. Time is not modelled: with no lease, any time may have
   passed since the last activity. *)

\* Mutant: the idle job does not look at the leases.
IdleCheck_IgnoresLeases ==
  /\ jobs
  /\ state = "running"
  /\ BeginStop("conflict", FALSE)
  /\ UNCHANGED <<lastError, emuVars, connVars, callVars, daemon, launches>>

IdleCheck ==
  /\ jobs
  /\ leases = 0
  /\ state = "running"
  /\ BeginStop("conflict", FALSE)
  /\ UNCHANGED <<lastError, emuVars, connVars, callVars, daemon,
                 launches>>

-----------------------------------------------------------------------------
(* Requests: start, stop, restart, wait, lease *)

taskVars == <<lifeVars, bootVars, stop, jobs, launches>>
envVars  == <<emuVars, connVars, daemon>>

Stays(c, op, pc, f) ==
  client' = [client EXCEPT ![c] = [op |-> op, pc |-> pc, fut |-> f, got |-> "none"]]

\* Mutant: a request that never took a lease gives one back.
Leaves_Unbalanced(c, op, held) ==
  /\ client' = [client EXCEPT ![c] = IdleClient]
  /\ leases' = held - 1

(* The request returns or raises; the finally block of lease() runs. *)
Leaves(c, op, held) ==
  /\ client' = [client EXCEPT ![c] = IdleClient]
  /\ leases' = IF op \in LeaseOps THEN held - 1 ELSE held

(* _start returned: a lease enters its body if there is a connection. *)
Granted(c, op, held) ==
  IF op = "lease" /\ grpc
  THEN Stays(c, op, "body", 0) /\ leases' = held
  ELSE Leaves(c, op, held)

(* One turn of the loop in _start, up to the await it ends in. `held' is
   self._leases when it begins. *)
StartLoop(c, op, wait, held) ==
  \/ /\ Closing
     /\ Leaves(c, op, held)
     /\ UNCHANGED taskVars
  \/ /\ ~Closing /\ state = "running"
     /\ Granted(c, op, held)
     /\ UNCHANGED taskVars
  \/ /\ ~Closing /\ state = "stopping"
     /\ IF wait THEN Stays(c, op, "stopwait", gen) ELSE Stays(c, op, "spin", 0)
     /\ leases' = held
     /\ UNCHANGED taskVars
  \/ /\ ~Closing /\ state = "starting"
     /\ IF wait THEN Stays(c, op, "join", gen) /\ leases' = held
                ELSE Leaves(c, op, held)
     /\ UNCHANGED taskVars
  \/ /\ ~Closing /\ state = "stopped"
     /\ BeginBoot
     /\ IF wait THEN Stays(c, op, "join", gen + 1) /\ leases' = held
                ELSE Leaves(c, op, held)
     /\ UNCHANGED <<prev, stop, jobs>>

NewRequest(c) ==
  /\ client[c].pc = "idle"
  /\ requests < MaxRequests
  /\ requests' = requests + 1
  /\ UNCHANGED envVars

Start(c) ==
  /\ NewRequest(c)
  /\ \/ StartLoop(c, "start", TRUE, leases)
     \/ StartLoop(c, "start_async", FALSE, leases)

(* The stop that restart begins is over before its _start boots. *)
Restart(c) ==
  /\ NewRequest(c)
  /\ \/ /\ state \in {"starting", "running"}
        /\ BeginStop("conflict", FALSE)
        /\ \/ Stays(c, "restart", "stopwait", gen)
           \/ Stays(c, "restart_async", "spin", 0)
        /\ UNCHANGED <<lastError, leases, launches>>
     \/ /\ state \notin {"starting", "running"}
        /\ \/ StartLoop(c, "restart", TRUE, leases)
           \/ /\ Stays(c, "restart_async", "spin", 0)
              /\ UNCHANGED <<taskVars, leases>>

Stop(c) ==
  /\ NewRequest(c)
  /\ state # "stopped"
  /\ IF state = "stopping"
     THEN UNCHANGED taskVars
     ELSE BeginStop("conflict", FALSE) /\ UNCHANGED <<lastError, launches>>
  /\ \/ Stays(c, "stop", "halt", gen)
     \/ client' = [client EXCEPT ![c] = IdleClient]
  /\ UNCHANGED leases

(* wait() of a start in progress; in the other states it answers at once. *)
Wait(c) ==
  /\ NewRequest(c)
  /\ state = "starting"
  /\ Stays(c, "wait", "join", gen)
  /\ UNCHANGED <<taskVars, leases>>

Lease(c) ==
  /\ NewRequest(c)
  /\ StartLoop(c, "lease", TRUE, leases + 1)

(* lease(wake=False); it fails at once while Android does not run. *)
Look(c) ==
  /\ NewRequest(c)
  /\ state = "running"
  /\ grpc
  /\ Stays(c, "look", "body", 0)
  /\ leases' = leases + 1
  /\ UNCHANGED taskVars

StopOver(c) == ~(stop.pc # "none" /\ stop.fut = client[c].fut)

(* The awaited future or stop task is done and the request goes on. *)
Resume(c) ==
  /\ \/ /\ client[c].pc = "woken"
        /\ IF client[c].got = "ok" THEN Granted(c, client[c].op, leases)
                                   ELSE Leaves(c, client[c].op, leases)
        /\ UNCHANGED taskVars
     \/ /\ client[c].pc = "stopwait"
        /\ StopOver(c)
        /\ StartLoop(c, client[c].op, TRUE, leases)
     \/ /\ client[c].pc = "halt"
        /\ StopOver(c)
        /\ Leaves(c, client[c].op, leases)
        /\ UNCHANGED taskVars
     \/ \* A background start: it schedules itself again during a stop.
        /\ client[c].pc = "spin"
        /\ state # "stopping"
        /\ StartLoop(c, client[c].op, FALSE, leases)
  /\ UNCHANGED <<envVars, requests>>

(* The timeout of a request; the boot goes on. *)
Timeout(c) ==
  /\ client[c].pc = "join"
  /\ client[c].op \in TimedOps
  /\ Leaves(c, client[c].op, leases)
  /\ UNCHANGED <<taskVars, envVars, requests>>

\* Mutant: a cancelled request keeps its lease.
Cancel_KeepsLease(c) ==
  /\ client[c].pc \in {"join", "woken", "stopwait", "halt"}
  /\ client' = [client EXCEPT ![c] = IdleClient]
  /\ UNCHANGED <<leases, taskVars, envVars, requests>>

(* The caller's task is cancelled: asyncio.wait and shield() keep what it
   waits for. *)
Cancel(c) ==
  /\ client[c].pc \in {"join", "woken", "stopwait", "halt"}
  /\ Leaves(c, client[c].op, leases)
  /\ UNCHANGED <<taskVars, envVars, requests>>

(* The body of a lease returns, raises or is cancelled. *)
BodyEnds(c) ==
  /\ client[c].pc = "body"
  /\ Leaves(c, client[c].op, leases)
  /\ UNCHANGED <<taskVars, envVars, requests>>

\* Mutant: the shutdown stops a running Android, not a starting one.
Shutdown_LeavesStart ==
  /\ daemon = "up"
  /\ daemon' = "closing"
  /\ IF state = "running"
     THEN BeginStop("conflict", FALSE) /\ UNCHANGED lastError
     ELSE UNCHANGED <<lifeVars, bootVars, stop, jobs>>
  /\ UNCHANGED <<emuVars, connVars, callVars, launches>>

(* shutdown() of the daemon. *)
Shutdown ==
  /\ daemon = "up"
  /\ daemon' = "closing"
  /\ IF state \in {"starting", "running"}
     THEN BeginStop("conflict", FALSE) /\ UNCHANGED lastError
     ELSE UNCHANGED <<lifeVars, bootVars, stop, jobs>>
  /\ UNCHANGED <<emuVars, connVars, callVars, launches>>

\* Mutant: the shutdown waits for the leases as well.
ShutdownEnds_Drains ==
  /\ daemon = "closing"
  /\ stop.pc = "none"
  /\ leases = 0
  /\ daemon' = "down"
  /\ UNCHANGED <<taskVars, emuVars, connVars, callVars>>

ShutdownEnds ==
  /\ daemon = "closing"
  /\ stop.pc = "none"
  /\ daemon' = "down"
  /\ UNCHANGED <<taskVars, emuVars, connVars, callVars>>

(* The daemon is down and no request is left: nothing more happens. *)
AfterShutdown ==
  /\ daemon = "down"
  /\ \A c \in Clients : client[c].pc = "idle"
  /\ UNCHANGED vars

ClientStep(c) ==
  \/ Start(c) \/ Restart(c) \/ Stop(c) \/ Wait(c) \/ Lease(c) \/ Look(c)
  \/ Resume(c) \/ Timeout(c) \/ Cancel(c) \/ BodyEnds(c)

Next ==
  \/ BootStep \/ PreviousUnwind \/ StopStep
  \/ EmuExits \/ OrphanExits \/ LogReadFails \/ Watch
  \/ IdleCheck
  \/ \E c \in Clients : ClientStep(c)
  \/ Shutdown \/ ShutdownEnds \/ AfterShutdown

Safety == Init /\ [][Next]_vars

(* The event loop runs every ready task. The awaits of a boot end because
   the boot has a deadline, those of a stop because emu.stop() escalates to
   SIGKILL and gives up, each after a bounded time. Nothing is assumed of
   qemu, of time, of callers or of lease bodies. *)
Fairness ==
  /\ WF_vars(BootStep)
  /\ WF_vars(PreviousUnwind)
  /\ WF_vars(StopStep)
  /\ WF_vars(Watch)
  /\ WF_vars(ShutdownEnds)
  /\ \A c \in Clients : WF_vars(Resume(c))

Spec == Safety /\ Fairness

-----------------------------------------------------------------------------
(* Properties *)

(* A caller that joined a start waits for a future that somebody will still
   resolve: it is the current one, it is pending, and a boot or a stop is in
   progress. Nothing replaces a pending future (_begin_boot, _retry,
   _stop). *)
NoOrphanedWaiter ==
  /\ \A c \in Clients :
       client[c].pc = "join" => client[c].fut = gen /\ done = "pending"
  /\ done = "pending" => state \in {"starting", "stopping"}
  /\ state = "starting" => done = "pending"
  /\ stop.pc # "none" => stop.fut = gen

(* A start in progress always has somebody who will end it: the boot task,
   or the watcher of a qemu that has exited. In particular, a boot that
   returns without a word because qemu is gone leaves a watcher behind that
   decides (_boot, _watch). *)
StartHasDriver ==
  state = "starting" => BootActive \/ (watch /\ Exited)

(* "Never leave a dead qemu behind a running state": while Android counts
   as running, somebody watches its qemu and the connection exists. *)
RunningIsWatched ==
  state = "running" => emu # "none" /\ watch /\ grpc

(* No two qemus ever run on the AVD, even if one outlives SIGKILL or its
   stop was given up: the probe of the AVD locks keeps the next boot away. *)
OneQemu == orphans + Living <= 1

(* One retry per start request, so a crash never loops: a start launches
   qemu at most twice, however often qemu crashes. *)
OneRetryPerStart == launches <= 2

(* At most one task tears down, and none launches meanwhile: a stop begins
   its teardown only after the boot has unwound, and a retried boot only
   after the crashed one has. *)
TeardownAlone ==
  /\ stop.pc \in Teardowns => ~BootActive
  /\ boot.pc \in Teardowns => ~prev
  /\ stop.pc # "none" <=> state = "stopping"

(* Stopped means that nothing of Android is left: no handle, connection,
   Xvnc, watcher, job or boot. *)
StoppedIsClean ==
  state = "stopped" => /\ emu = "none"
                       /\ ~grpc /\ ~xvnc /\ ~watch /\ ~jobs
                       /\ ~BootActive

(* The periodic jobs run exactly while Android is running. *)
JobsWhileRunning == jobs <=> state = "running"

(* The status tells why a start failed, exactly when it failed: last_error
   is there with a boot_failed or timeout answer, and a stop that somebody
   asked for leaves none. *)
FailureIsReported ==
  /\ done \in {"boot_failed", "timeout"} => lastError
  /\ done = "conflict" => ~lastError
  /\ lastError => state \in {"stopping", "stopped"}

(* No lease is lost or counted twice, whichever way a request ends: error,
   timeout, cancellation in any await. *)
LeaseHolders == {c \in Clients : client[c].op \in LeaseOps}
LeasesCounted == leases = Cardinality(LeaseHolders)

(* The idle stop never takes Android away from a request that holds a
   lease: a stop that no request, no exit and no shutdown began. *)
IdleStopSparesLeases ==
  [][state = "running" /\ state' = "stopping"
       /\ UNCHANGED <<requests, watch, daemon>>
     => \A c \in Clients : client[c].pc # "body"]_vars

(* Once the daemon is closing Android only stops, and when shutdown() is
   done it is stopped. *)
ClosingOnlyStops ==
  /\ Closing => state \in {"stopping", "stopped"}
  /\ daemon = "down" => state = "stopped"

(* Every request comes to an end: a start, restart, wait or stop returns,
   and a lease at least reaches its body. Nobody waits for a start that no
   task will end, and no background start spins for ever. *)
RequestReturns ==
  \A c \in Clients : client[c].pc # "idle" ~> client[c].pc \in {"idle", "body"}

(* The shutdown of the daemon ends, whatever leases are held. *)
ShutdownCompletes == daemon = "closing" ~> daemon = "down"

(* The supervisor implements the life cycle that its callers see: all who
   wait for a start are answered together, once, and a retry keeps them
   waiting. LifecycleSteps is the part without fairness, which needs no
   assumption on the environment. *)
Public == INSTANCE Lifecycle WITH
  waiting <- {c \in Clients : client[c].pc = "join"},
  open <- ~Closing
LifecycleSteps == Public!Safety
ImplementsLifecycle == Public!Spec
=============================================================================
