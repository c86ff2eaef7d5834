--------------------------- MODULE LifecycleProofs ---------------------------
(***************************************************************************)
(* What the supervisor promises to its callers and leaves behind, for      *)
(* every finite set of clients and every bound on the requests: it takes   *)
(* only steps of Lifecycle, its idle stop spares the leases and, as long   *)
(* as the environment keeps the promise that each theorem names, nothing   *)
(* of Android is left unwatched or behind a stop.                          *)
(***************************************************************************)
EXTENDS SupervisorProofs

-----------------------------------------------------------------------------
(* What the steps outside of the boot and stop tasks can do *)

OtherStep ==
  \/ PreviousUnwind \/ EmuExits \/ OrphanExits \/ LogReadFails \/ Watch \/ IdleCheck
  \/ \E c \in Clients : ClientStep(c)
  \/ Shutdown \/ ShutdownEnds \/ UNCHANGED vars

(* They leave the tasks alone, or begin a boot, a stop or a retry. *)
Moves ==
  \/ UNCHANGED <<state, boot, stop>>
  \/ /\ state = "stopped" /\ state' = "starting"
     /\ boot'.pc = "prepare" /\ ~boot'.cancel
     /\ UNCHANGED stop
  \/ /\ state \in {"starting", "running"} /\ state' = "stopping"
     /\ stop'.pc = "boot"
  \/ /\ state \in {"starting", "running"} /\ state' = "starting"
     /\ boot'.pc = "waitprev" /\ ~boot'.cancel
     /\ UNCHANGED stop

(* A qemu can only exit. *)
QemuKept == emu' = emu \/ (emu # "none" /\ emu' \in Exits)

(* Every step is one of the three kinds. *)
LEMMA StepKinds == [Next]_vars => BootStep \/ StopStep \/ OtherStep
  BY DEF Next, OtherStep, AfterShutdown

(* _begin_stop is one of the moves. *)
LEMMA BeginStopMoves ==
  ASSUME state \in {"starting", "running"}, NEW e, NEW own, BeginStop(e, own)
  PROVE  Moves
  BY DEF Moves, BeginStop

(* The tasks after such a step, and what it did to qemu and the connection.
   A watcher that ends, with the log intact, has decided about the exit. *)
LEMMA OtherEffects ==
  ASSUME TypeOK, IdleIsNone, OtherStep
  PROVE  /\ Moves
         /\ QemuKept
         /\ UNCHANGED connVars
         /\ logOk' = logOk \/ "log" \in Faults
         /\ \/ watch' = watch
            \/ /\ ~watch' /\ Exited
               /\ logOk => state' = "stopping" \/ boot'.pc = "waitprev"
                             \/ (state \in {"stopped", "stopping"} /\ state' = state)
<1>1. CASE PreviousUnwind \/ ShutdownEnds \/ UNCHANGED vars
  BY <1>1 DEF PreviousUnwind, ShutdownEnds, vars, Moves, QemuKept, lifeVars, emuVars,
              bootVars, taskVars
<1>2. CASE EmuExits \/ OrphanExits \/ LogReadFails
  BY <1>2 DEF EmuExits, OrphanExits, LogReadFails, Moves, QemuKept, Exits, lifeVars, bootVars
<1>3. CASE Watch
  <2>1. /\ Exited /\ watch' = FALSE /\ emu' = "gone" /\ UNCHANGED <<logOk, connVars>>
    BY <1>3 DEF Watch
  <2>2. QemuKept
    BY <2>1 DEF QemuKept, Exited, Exits
  <2>3. CASE logOk /\ state \in {"starting", "running"}
    <3>1. (state' = "stopping" \/ boot'.pc = "waitprev") /\ Moves
      <4>1. CASE \E e \in Errors : BeginStop(e, FALSE)
        <5>1. state' = "stopping"
          BY <4>1 DEF BeginStop
        <5>2. QED
          BY <2>3, <4>1, <5>1, BeginStopMoves
      <4>2. CASE Retry
        <5>1. /\ state' = "starting" /\ stop' = stop
              /\ boot' = [pc |-> "waitprev", cancel |-> FALSE]
          BY <4>2, Zenon DEF Retry
        <5>2. QED
          BY <2>3, <5>1 DEF Moves
      <4>3. QED
        BY <1>3, <2>3, <4>1, <4>2 DEF Watch, HandleExit, HandlerRaises, Fail, Errors
    <3>2. QED
      BY <2>1, <2>2, <3>1
  <2>4. CASE ~(logOk /\ state \in {"starting", "running"})
    <3>1. UNCHANGED <<state, boot, stop>>
      BY <1>3, <2>4 DEF Watch, lifeVars, bootVars
    <3>2. state \in {"starting", "running", "stopped", "stopping"}
      BY DEF TypeOK, States
    <3>3. QED
      BY <2>1, <2>2, <2>4, <3>1, <3>2 DEF Moves
  <2>5. QED
    BY <2>3, <2>4
<1>4. CASE IdleCheck \/ Shutdown
  <2>1. UNCHANGED <<emuVars, connVars>>
    BY <1>4 DEF IdleCheck, Shutdown
  <2>2. Moves
    <3>1. CASE state \in {"starting", "running"} /\ BeginStop("conflict", FALSE)
      BY <3>1, BeginStopMoves
    <3>2. CASE UNCHANGED <<lifeVars, bootVars, stop, jobs>>
      BY <3>2 DEF Moves, lifeVars, bootVars
    <3>3. QED
      BY <1>4, <3>1, <3>2 DEF IdleCheck, Shutdown
  <2>3. QED
    BY <2>1, <2>2 DEF QemuKept, emuVars
<1>5. ASSUME NEW c \in Clients, ClientStep(c)
      PROVE  Moves /\ UNCHANGED <<emuVars, connVars>>
  <2>1. ClientEffect(c)
    BY <1>5, ClientEffects
  <2>2. UNCHANGED <<emuVars, connVars>>
    BY <2>1 DEF ClientEffect, envVars
  <2>3. CASE UNCHANGED taskVars
    BY <2>2, <2>3 DEF Moves, taskVars, lifeVars, bootVars
  <2>4. CASE state = "stopped" /\ BeginBoot /\ UNCHANGED <<prev, stop, jobs>>
    <3>1. state' = "starting" /\ boot' = [pc |-> "prepare", cancel |-> FALSE]
      BY <2>4 DEF BeginBoot
    <3>2. QED
      BY <2>2, <2>4, <3>1 DEF Moves
  <2>5. CASE state \in {"starting", "running"} /\ BeginStop("conflict", FALSE)
    BY <2>2, <2>5, BeginStopMoves
  <2>6. QED
    BY <2>1, <2>3, <2>4, <2>5 DEF ClientEffect, ClientTasks
<1>6. QED
  BY <1>1, <1>2, <1>3, <1>4, <1>5 DEF OtherStep, QemuKept, emuVars

(* A boot that takes a step is the one of the start, unless it is cancelled,
   and nothing tears down beside it. *)
LEMMA BootStepActive ==
  ASSUME Control, BootStep
  PROVE  /\ BootActive /\ stop.pc \notin Teardowns
         /\ state \in {"starting", "stopping"} /\ (~boot.cancel => state = "starting")
<1>1. BootActive
  BY DEF BootStep, BootUnwind, BootAwaitPrevious, BootTeardown, BootPrepare,
         BootCompleted, BootGpu, BootLaunch, BootConnect, BootSucceeds, BootFails,
         BootError, BootRuns, BootActive, Teardowns, LaunchPhases
<1>2. QED
  BY <1>1 DEF Control, TaskInv, BootInv, StopInv

-----------------------------------------------------------------------------
(* A stop leaves nothing behind *)

(* The teardown closes the watcher, the connection and the Xvnc one after
   the other; what is closed stays closed until the next boot. *)
CleanInv ==
  /\ StoppedIsClean
  /\ stop.pc \in {"td_grpc", "td_xvnc"} => ~watch
  /\ stop.pc = "td_xvnc" => ~grpc

(* A step of the boot task does not stop Android, nor does one happen while
   a stop tears down. *)
LEMMA BootStepStops ==
  ASSUME TypeOK, Control, BootStep
  PROVE  state' # "stopped" /\ stop'.pc \notin Teardowns
<1>1. BootActive /\ state \in {"starting", "stopping"} /\ stop.pc \notin Teardowns
  BY BootStepActive
<1>2. \/ state' \in {state, "running"} /\ stop' = stop
      \/ \E e : BeginStop(e, TRUE)
  BY DEF BootStep, BootUnwind, BootAwaitPrevious, BootTeardown, BootPrepare,
         BootCompleted, BootGpu, BootLaunch, BootConnect, BootSucceeds, BootFails,
         BootError, Fail, lifeVars
<1>3. CASE \E e : BeginStop(e, TRUE)
  BY <1>3 DEF BeginStop, Teardowns
<1>4. QED
  BY <1>1, <1>2, <1>3

(* Every step keeps CleanInv, where a stop always finds its adb process. *)
LEMMA NextClean ==
  ASSUME "spawn" \notin Faults, Typed, Control, CleanInv, [Next]_vars
  PROVE  CleanInv'
<1>1. TypeOK /\ IdleIsNone /\ TypeOK'
  BY NextTyped DEF Typed
<1>2. state' = "stopped" => ~jobs' /\ ~BootActive'
  BY NextControl DEF Control, TaskInv, JobsInv, BootInv
<1>3. CASE BootStep
  BY <1>1, <1>3, BootStepStops DEF CleanInv, StoppedIsClean, Teardowns
<1>4. CASE StopStep
  <2>1. state = "stopping"
    BY <1>4 DEF StopStep, StopAwaitBoot, StopTeardown, StopFinish, StopFault, Teardowns,
                Control, TaskInv, StopInv
  <2>2. CASE StopAwaitBoot
    BY <1>1, <2>1, <2>2, StopGoesFields DEF StopAwaitBoot, CleanInv, StoppedIsClean, lifeVars
  <2>3. CASE StopTeardown
    <3>1. PICK pc \in Teardowns, next \in Teardowns :
            /\ stop.pc = pc /\ TeardownStep(pc, next) /\ StopGoes(next)
            /\ UNCHANGED <<lifeVars, bootVars, jobs>>
      BY <2>3 DEF StopTeardown
    <3>2. stop'.pc = next /\ state' = "stopping"
      BY <1>1, <2>1, <3>1, StopGoesFields DEF lifeVars
    <3>3. \/ next = "td_grpc" /\ ~watch'
          \/ next = "td_xvnc" /\ pc = "td_grpc" /\ ~grpc' /\ watch' = watch
      BY <3>1 DEF TeardownStep, Teardowns, emuVars
    <3>4. QED
      BY <3>1, <3>2, <3>3 DEF CleanInv, StoppedIsClean
  <2>4. CASE StopFinish
    <3>1. stop'.pc = "none" /\ ~watch /\ ~grpc
      BY <2>4 DEF StopFinish, StopEnds, NoStop, CleanInv
    <3>2. ~xvnc' /\ emu' = "none" /\ watch' = watch /\ grpc' = grpc
      BY <2>4 DEF StopFinish, TeardownStep
    <3>3. QED
      BY <1>2, <3>1, <3>2 DEF CleanInv, StoppedIsClean
  <2>5. ~StopFault
    BY DEF StopFault
  <2>6. QED
    BY <1>4, <2>2, <2>3, <2>4, <2>5 DEF StopStep
<1>5. CASE OtherStep
  <2>1. /\ Moves /\ QemuKept
        /\ UNCHANGED connVars
        /\ watch' => watch
    BY <1>1, <1>5, OtherEffects
  <2>2. state' = "stopped" => state = "stopped"
    BY <2>1 DEF Moves
  <2>3. StoppedIsClean'
    BY <1>2, <2>1, <2>2 DEF QemuKept, connVars, CleanInv, StoppedIsClean
  <2>4. stop' = stop \/ stop'.pc = "boot"
    BY <2>1 DEF Moves
  <2>5. QED
    BY <2>1, <2>3, <2>4 DEF CleanInv, connVars
<1>6. QED
  BY <1>3, <1>4, <1>5, StepKinds

(* Stopped means that no handle, connection, Xvnc, watcher, job or boot of
   Android is left, as long as emu.stop() can create its adb process. *)
THEOREM StopLeavesNothing ==
  ASSUME "spawn" \notin Faults
  PROVE  Safety => []StoppedIsClean
<1>1. Init => CleanInv
  <2>1. Init => ~BootActive /\ stop.pc = "none"
    BY DEF Init, BootActive, NoStop
  <2>2. QED
    BY <2>1 DEF Init, CleanInv, StoppedIsClean
<1>2. Typed /\ Control /\ CleanInv /\ [Next]_vars => CleanInv'
  BY NextClean
<1>3. CleanInv => StoppedIsClean
  BY DEF CleanInv
<1>4. QED
  BY <1>1, <1>2, <1>3, ControlHolds, PTL DEF Safety

-----------------------------------------------------------------------------
(* A running Android is watched *)

(* From the launch of qemu on, the boot that goes on has a watched qemu;
   its exit ends or replaces that boot in the same step. *)
WatchedInv ==
  /\ logOk
  /\ state = "starting" /\ boot.pc \in {"connect", "booting", "setup"}
       => emu # "none" /\ watch
  /\ state = "starting" /\ boot.pc \in {"booting", "setup"} => grpc
  /\ RunningIsWatched

(* The boot task keeps WatchedInv. *)
LEMMA BootStepWatched ==
  ASSUME TypeOK, Control, WatchedInv, BootStep
  PROVE  WatchedInv'
<1>1. \A pc : BootRuns(pc) => boot.pc = pc
  BY DEF BootRuns
<1>2. BootActive /\ state \in {"starting", "stopping"} /\ (~boot.cancel => state = "starting")
  BY BootStepActive
<1>3. CASE BootUnwind
  <2>1. state' = "stopping" /\ logOk' = logOk
    BY <1>3 DEF BootUnwind, Control, TaskInv, BootInv, lifeVars, emuVars
  <2>2. QED
    BY <2>1 DEF WatchedInv, RunningIsWatched
<1>4. CASE BootAwaitPrevious \/ BootPrepare \/ BootGpu
  <2>1. boot'.pc \in {"td_emu", "gpu", "launch"} /\ state' = "starting" /\ logOk' = logOk
    BY <1>2, <1>4, BootGoesFields
       DEF BootAwaitPrevious, BootPrepare, BootGpu, BootRuns, lifeVars, emuVars
  <2>2. QED
    BY <2>1 DEF WatchedInv, RunningIsWatched
<1>5. CASE BootTeardown
  <2>1. PICK pc \in Teardowns, next \in Teardowns \cup {"end"} :
          /\ BootRuns(pc)
          /\ TeardownStep(pc, next)
          /\ BootGoes(IF next = "end" THEN "prepare" ELSE next)
          /\ UNCHANGED lifeVars
    BY <1>5 DEF BootTeardown
  <2>2. /\ boot'.pc \in Teardowns \cup {"prepare"} /\ state' = "starting"
        /\ logOk' = logOk
    BY <1>2, <2>1, BootGoesFields DEF BootRuns, TeardownStep, lifeVars, emuVars
  <2>3. QED
    BY <2>2 DEF WatchedInv, RunningIsWatched, Teardowns
<1>6. CASE BootLaunch
  <2>1. /\ boot'.pc = "connect" /\ state' = "starting"
        /\ emu' = "live" /\ watch' /\ logOk'
    BY <1>2, <1>6, BootGoesFields DEF BootLaunch, BootRuns, lifeVars
  <2>2. QED
    BY <2>1 DEF WatchedInv, RunningIsWatched
<1>7. CASE BootConnect \/ BootCompleted
  <2>1. /\ boot'.pc \in {"booting", "setup"} /\ state' = "starting" /\ state = "starting"
        /\ boot.pc \in {"connect", "booting"} /\ UNCHANGED emuVars
        /\ grpc' \/ (boot.pc = "booting" /\ grpc' = grpc)
    BY <1>2, <1>7, BootGoesFields DEF BootConnect, BootCompleted, BootRuns, lifeVars, connVars
  <2>2. QED
    BY <2>1 DEF WatchedInv, RunningIsWatched, emuVars
<1>8. CASE BootSucceeds
  <2>1. /\ state' = "running" /\ state = "starting" /\ boot.pc = "setup"
        /\ UNCHANGED <<emuVars, connVars>>
    BY <1>2, <1>8 DEF BootSucceeds, BootRuns
  <2>2. QED
    BY <2>1 DEF WatchedInv, RunningIsWatched, emuVars, connVars
<1>9. CASE BootFails \/ BootError
  <2>1. UNCHANGED emuVars
    BY <1>9 DEF BootFails, BootError
  <2>2. state' = "stopping" \/ (boot'.pc = "done" /\ state' = "starting")
    <3>1. CASE \E e : Fail(e, TRUE)
      BY <3>1 DEF Fail, BeginStop
    <3>2. CASE BootFails /\ BootGoes("done") /\ UNCHANGED lifeVars
      BY <1>2, <3>2, BootGoesFields DEF BootFails, BootRuns, lifeVars
    <3>3. QED
      BY <1>9, <3>1, <3>2 DEF BootFails, BootError
  <2>3. QED
    BY <2>1, <2>2 DEF WatchedInv, RunningIsWatched, emuVars
<1>10. QED
  BY <1>3, <1>4, <1>5, <1>6, <1>7, <1>8, <1>9 DEF BootStep

(* A stop ends in a stopped Android, and does not touch the log. *)
LEMMA StopStepState ==
  ASSUME TypeOK, Control, StopStep
  PROVE  state' \in {"stopping", "stopped"} /\ logOk' = logOk
<1>1. state = "stopping"
  BY DEF StopStep, StopAwaitBoot, StopTeardown, StopFinish, StopFault, Teardowns,
         Control, TaskInv, StopInv
<1>2. CASE StopAwaitBoot \/ StopTeardown
  BY <1>1, <1>2 DEF StopAwaitBoot, StopTeardown, TeardownStep, lifeVars, emuVars
<1>3. CASE StopFinish \/ StopFault
  BY <1>3 DEF StopFinish, StopFault, StopEnds, TeardownStep, emuVars
<1>4. QED
  BY <1>2, <1>3 DEF StopStep

(* Every step keeps WatchedInv, where the log of qemu can be read. *)
LEMMA NextWatched ==
  ASSUME "log" \notin Faults, Typed, Control, WatchedInv, [Next]_vars
  PROVE  WatchedInv'
<1>1. TypeOK /\ IdleIsNone
  BY DEF Typed
<1>2. CASE BootStep
  BY <1>1, <1>2, BootStepWatched
<1>3. CASE StopStep
  BY <1>1, <1>3, StopStepState DEF WatchedInv, RunningIsWatched
<1>4. CASE OtherStep
  <2>1. /\ Moves /\ QemuKept
        /\ UNCHANGED connVars
        /\ logOk'
        /\ \/ watch' = watch
           \/ state' = "stopping" \/ boot'.pc = "waitprev"
                \/ (state \in {"stopped", "stopping"} /\ state' = state)
    BY <1>1, <1>4, OtherEffects DEF WatchedInv
  <2>2. emu # "none" => emu' # "none"
    BY <2>1 DEF QemuKept, Exits
  <2>3. CASE UNCHANGED <<state, boot, stop>>
    <3>1. state \notin {"stopped", "stopping"} /\ boot.pc # "waitprev" => watch' = watch
      BY <2>1, <2>3
    <3>2. state = "running" => watch' = watch
      <4>1. state = "running" => ~BootActive
        BY DEF Control, TaskInv, BootInv
      <4>2. QED
        BY <3>1, <4>1 DEF BootActive
    <3>3. QED
      BY <2>1, <2>2, <2>3, <3>1, <3>2 DEF WatchedInv, RunningIsWatched, connVars
  <2>4. CASE state' = "starting" /\ boot'.pc \in {"prepare", "waitprev"}
    BY <2>1, <2>4 DEF WatchedInv, RunningIsWatched
  <2>5. CASE state' = "stopping"
    BY <2>1, <2>5 DEF WatchedInv, RunningIsWatched
  <2>6. QED
    BY <2>1, <2>3, <2>4, <2>5 DEF Moves
<1>5. QED
  BY <1>2, <1>3, <1>4, StepKinds

(* Never is a dead qemu left behind a running state: somebody watches it,
   and the connection exists, as long as the log of qemu can be read. *)
THEOREM RunningStaysWatched ==
  ASSUME "log" \notin Faults
  PROVE  Safety => []RunningIsWatched
<1>1. Init => WatchedInv
  BY DEF Init, WatchedInv, RunningIsWatched
<1>2. Typed /\ Control /\ WatchedInv /\ [Next]_vars => WatchedInv'
  BY NextWatched
<1>3. WatchedInv => RunningIsWatched
  BY DEF WatchedInv
<1>4. QED
  BY <1>1, <1>2, <1>3, ControlHolds, PTL DEF Safety

-----------------------------------------------------------------------------
(* A start has a driver *)

(* Before its launch a boot has no qemu, so that it never returns silently
   because of the exit of an earlier one. *)
DriverInv ==
  /\ state = "starting" /\ boot.pc \in {"prepare", "gpu", "launch"} => emu = "none"
  /\ StartHasDriver

(* The boot task keeps DriverInv. *)
LEMMA BootStepDriver ==
  ASSUME TypeOK, Control, WatchedInv, DriverInv, BootStep
  PROVE  DriverInv'
<1>1. BootActive /\ state \in {"starting", "stopping"} /\ (~boot.cancel => state = "starting")
  BY BootStepActive
<1>2. CASE BootUnwind
  <2>1. state' = "stopping"
    BY <1>2 DEF BootUnwind, Control, TaskInv, BootInv, lifeVars
  <2>2. QED
    BY <2>1 DEF DriverInv, StartHasDriver
<1>3. CASE BootTeardown
  <2>1. PICK pc \in Teardowns, next \in Teardowns \cup {"end"} :
          /\ TeardownStep(pc, next)
          /\ BootGoes(IF next = "end" THEN "prepare" ELSE next)
    BY <1>3 DEF BootTeardown
  <2>2. boot'.pc \in Teardowns \/ (boot'.pc = "prepare" /\ emu' = "none")
    BY <2>1, BootGoesFields DEF TeardownStep, Teardowns
  <2>3. QED
    BY <2>2 DEF DriverInv, StartHasDriver, BootActive, Teardowns
<1>4. CASE BootAwaitPrevious \/ BootPrepare \/ BootGpu
  <2>1. /\ boot'.pc \in {"td_emu", "gpu", "launch"}
        /\ boot'.pc = "td_emu" \/ boot.pc \in {"prepare", "gpu"}
        /\ state = "starting" /\ emu' = emu
    BY <1>1, <1>4, BootGoesFields DEF BootAwaitPrevious, BootPrepare, BootGpu, BootRuns, emuVars
  <2>2. QED
    BY <2>1 DEF DriverInv, StartHasDriver, BootActive
<1>5. CASE BootLaunch \/ BootConnect \/ BootCompleted
  <2>1. boot'.pc \in {"connect", "booting", "setup"}
    BY <1>5, BootGoesFields DEF BootLaunch, BootConnect, BootCompleted
  <2>2. QED
    BY <2>1 DEF DriverInv, StartHasDriver, BootActive
<1>6. CASE BootSucceeds
  BY <1>6 DEF BootSucceeds, DriverInv, StartHasDriver
<1>7. CASE BootFails \/ BootError
  <2>1. CASE \E e : Fail(e, TRUE)
    BY <2>1 DEF Fail, BeginStop, DriverInv, StartHasDriver
  <2>2. CASE BootFails /\ Exited /\ BootGoes("done")
    <3>1. /\ boot.pc \in LaunchPhases /\ state = "starting"
          /\ emu \in Exits /\ UNCHANGED emuVars
      BY <1>1, <2>2 DEF BootFails, BootRuns, Exited
    <3>2. boot.pc \in {"connect", "booting", "setup"}
      BY <3>1 DEF DriverInv, LaunchPhases, Exits
    <3>3. watch' /\ Exited'
      BY <3>1, <3>2 DEF WatchedInv, Exited, emuVars
    <3>4. boot'.pc = "done"
      BY <2>2, BootGoesFields
    <3>5. QED
      BY <3>3, <3>4 DEF DriverInv, StartHasDriver
  <2>3. QED
    BY <1>7, <2>1, <2>2 DEF BootFails, BootError
<1>8. QED
  BY <1>2, <1>3, <1>4, <1>5, <1>6, <1>7 DEF BootStep

(* Every step keeps DriverInv, where the environment keeps both promises. *)
LEMMA NextDriver ==
  ASSUME Typed, Control, CleanInv, WatchedInv, DriverInv, "log" \notin Faults, [Next]_vars
  PROVE  DriverInv'
<1>1. TypeOK /\ IdleIsNone
  BY DEF Typed
<1>2. CASE BootStep
  BY <1>1, <1>2, BootStepDriver
<1>3. CASE StopStep
  BY <1>1, <1>3, StopStepState DEF DriverInv, StartHasDriver
<1>4. CASE OtherStep
  <2>1. /\ Moves /\ QemuKept
        /\ \/ watch' = watch
           \/ state' = "stopping" \/ boot'.pc = "waitprev"
                \/ (state \in {"stopped", "stopping"} /\ state' = state)
    BY <1>1, <1>4, OtherEffects DEF WatchedInv
  <2>2. (emu = "none" => emu' = "none") /\ (Exited => Exited')
    BY <2>1 DEF QemuKept, Exited, Exits
  <2>3. CASE UNCHANGED <<state, boot, stop>>
    BY <2>1, <2>2, <2>3 DEF DriverInv, StartHasDriver, BootActive
  <2>4. CASE state = "stopped" /\ state' = "starting" /\ boot'.pc = "prepare"
    BY <2>2, <2>4 DEF CleanInv, StoppedIsClean, DriverInv, StartHasDriver, BootActive
  <2>5. CASE boot'.pc = "waitprev"
    BY <2>5 DEF DriverInv, StartHasDriver, BootActive
  <2>6. CASE state' = "stopping"
    BY <2>6 DEF DriverInv, StartHasDriver
  <2>7. QED
    BY <2>1, <2>3, <2>4, <2>5, <2>6 DEF Moves
<1>5. QED
  BY <1>2, <1>3, <1>4, StepKinds

(* A start in progress always has somebody who will end it: a boot that
   goes on, or the watcher of a qemu that has exited. *)
THEOREM StartsAreDriven ==
  ASSUME Faults = {}
  PROVE  Safety => []StartHasDriver
<1>1. Init => CleanInv /\ WatchedInv /\ DriverInv
  <2>1. Init => ~BootActive /\ stop.pc = "none"
    BY DEF Init, BootActive, NoStop
  <2>2. QED
    BY <2>1 DEF Init, CleanInv, StoppedIsClean, WatchedInv, RunningIsWatched, DriverInv,
                StartHasDriver
<1>2. Typed /\ Control /\ CleanInv /\ WatchedInv /\ DriverInv /\ [Next]_vars
        => (CleanInv /\ WatchedInv /\ DriverInv)'
  BY NextClean, NextWatched, NextDriver
<1>3. DriverInv => StartHasDriver
  BY DEF DriverInv
<1>4. QED
  BY <1>1, <1>2, <1>3, ControlHolds, PTL DEF Safety

-----------------------------------------------------------------------------
(* The supervisor implements Lifecycle *)

Joining == {c \in Clients : client[c].pc = "join"}

(* Only a request that has just come in begins a stop. *)
LEMMA StopsAreRequested ==
  ASSUME NEW c \in Clients, ClientStep(c), state \in {"starting", "running"},
         state' = "stopping"
  PROVE  NewRequest(c)
<1>1. ASSUME NEW op, NEW wait, NEW held, StartLoop(c, op, wait, held)
      PROVE  state' # "stopping"
  BY <1>1 DEF StartLoop, BeginBoot, taskVars, lifeVars
<1>2. ~Resume(c) /\ ~Timeout(c) /\ ~Cancel(c) /\ ~BodyEnds(c)
  BY <1>1 DEF Resume, Timeout, Cancel, BodyEnds, taskVars, lifeVars
<1>3. QED
  BY <1>2 DEF ClientStep, Start, Restart, Stop, Wait, Lease, Look

(* A start that is over has answered everybody. *)
LEMMA NobodyJoined ==
  ASSUME Control, state \notin {"starting", "stopping"}
  PROVE  Joining = {}
  BY DEF Control, TaskInv, JoinInv, FutureInv, Joining

(* A step that leaves the requests alone changes Joining in no way. *)
LEMMA JoiningKept ==
  ASSUME UNCHANGED client
  PROVE  Joining' = Joining
  BY DEF Joining

(* The boot task takes the steps Ready and Halt of Lifecycle. *)
LEMMA BootStepPublic ==
  ASSUME Control, Control', BootStep
  PROVE  [Public!Next]_(Public!vars)
<1> USE DEF Public!vars
<1>1. CASE BootSucceeds
  <2>1. state = "starting"
    BY <1>1, BootStepActive DEF BootSucceeds, BootRuns
  <2>2. state' = "running" /\ UNCHANGED <<retried, daemon>>
    BY <1>1 DEF BootSucceeds
  <2>3. Joining' = {}
    BY <2>2, NobodyJoined DEF Control, TaskInv, JoinInv, FutureInv, Joining
  <2>4. Public!Ready
    BY <2>1, <2>2, <2>3 DEF Public!Ready, Joining, Closing
  <2>5. QED
    BY <2>4 DEF Public!Next
<1>2. CASE ~BootSucceeds
  <2>1. UNCHANGED <<client, daemon>>
    BY <1>2 DEF BootStep, BootUnwind, BootAwaitPrevious, BootTeardown, BootPrepare,
           BootCompleted, BootGpu, BootLaunch, BootConnect, BootFails, BootError, callVars
  <2>2. \/ UNCHANGED <<state, retried>>
        \/ BootRuns(boot.pc) /\ \E e : BeginStop(e, TRUE)
    BY <1>2 DEF BootStep, BootUnwind, BootAwaitPrevious, BootTeardown, BootPrepare,
           BootCompleted, BootGpu, BootLaunch, BootConnect, BootFails, BootError, Fail,
           BootRuns, lifeVars
  <2>3. CASE BootRuns(boot.pc) /\ \E e : BeginStop(e, TRUE)
    <3>1. state = "starting" /\ state' = "stopping" /\ UNCHANGED retried
      BY <2>3, BootStepActive DEF BootRuns, BeginStop
    <3>2. Public!Halt
      BY <2>1, <3>1 DEF Public!Halt, Closing
    <3>3. QED
      BY <3>2 DEF Public!Next
  <2>4. CASE UNCHANGED <<state, retried>>
    BY <2>1, <2>4 DEF Closing
  <2>5. QED
    BY <2>2, <2>3, <2>4
<1>3. QED
  BY <1>1, <1>2

(* The stop task takes the step Halted. *)
LEMMA StopStepPublic ==
  ASSUME Control, Control', StopStep
  PROVE  [Public!Next]_(Public!vars)
<1> USE DEF Public!vars
<1>1. CASE StopAwaitBoot \/ StopTeardown
  BY <1>1 DEF StopAwaitBoot, StopTeardown, lifeVars, callVars, Closing
<1>2. CASE StopFinish \/ StopFault
  <2>1. state = "stopping"
    BY <1>2 DEF StopFinish, StopFault, Teardowns, Control, TaskInv, StopInv
  <2>2. state' = "stopped" /\ UNCHANGED <<retried, daemon>>
    BY <1>2 DEF StopFinish, StopFault, StopEnds
  <2>3. Joining' = {}
    BY <2>2, NobodyJoined DEF Control, TaskInv, JoinInv, FutureInv, Joining
  <2>4. Public!Halted
    BY <2>1, <2>2, <2>3 DEF Public!Halted, Joining, Closing
  <2>5. QED
    BY <2>4 DEF Public!Next
<1>3. QED
  BY <1>1, <1>2 DEF StopStep

(* The watcher takes the steps Retry and Halt. *)
LEMMA WatchPublic ==
  ASSUME Watch
  PROVE  [Public!Next]_(Public!vars)
<1> USE DEF Public!vars
<1>1. UNCHANGED <<client, daemon>>
  BY DEF Watch, callVars
<1>2. CASE UNCHANGED <<lifeVars, bootVars, stop, jobs>>
  BY <1>1, <1>2 DEF lifeVars, Closing
<1>3. CASE state \in {"starting", "running"} /\ \E e : BeginStop(e, FALSE)
  <2>1. Public!Halt
    BY <1>1, <1>3 DEF Public!Halt, BeginStop, Closing
  <2>2. QED
    BY <2>1 DEF Public!Next
<1>4. CASE state \in {"starting", "running"} /\ ~retried /\ Retry
  <2>1. state' = "starting" /\ retried' = TRUE
    BY <1>4, Zenon DEF Retry
  <2>2. Public!Retry
    BY <1>1, <1>4, <2>1 DEF Public!Retry, Closing
  <2>3. QED
    BY <2>2 DEF Public!Next
<1>5. QED
  BY <1>2, <1>3, <1>4 DEF Watch, HandleExit, HandlerRaises, Fail

(* A request boots, joins, leaves, halts, or changes nothing its callers
   see. *)
LEMMA ClientPublic ==
  ASSUME Typed, Control, NEW c \in Clients, ClientStep(c)
  PROVE  [Public!Next]_(Public!vars)
<1> USE DEF Public!vars
<1>1. ClientEffect(c)
  BY ClientEffects DEF Typed
<1>2. PICK r \in ClientRecords : Becomes(c, r)
  BY <1>1 DEF ClientEffect
<1>3. /\ Joining' = IF r.pc = "join" THEN Joining \cup {c} ELSE Joining \ {c}
      /\ r.pc = "join" => state' = "starting"
  <2>1. /\ client'[c] = r
        /\ \A d \in Clients \ {c} : client'[d] = client[d]
    BY <1>2 DEF Becomes, Typed, TypeOK
  <2>2. QED
    BY <1>2, <2>1 DEF Joining, Becomes
<1>4. UNCHANGED daemon
  BY <1>1 DEF ClientEffect, envVars
<1>5. CASE UNCHANGED taskVars
  <2>1. UNCHANGED <<state, retried>>
    BY <1>5 DEF taskVars, lifeVars
  <2>2. Public!Join(c) \/ Public!Leave(c)
    BY <1>3, <1>4, <2>1 DEF Public!Join, Public!Leave, Joining, Closing
  <2>3. QED
    BY <2>2 DEF Public!Next
<1>6. CASE ~Closing /\ state = "stopped" /\ BeginBoot
  <2>1. state' = "starting" /\ retried' = FALSE
    BY <1>6 DEF BeginBoot
  <2>2. Joining = {}
    BY <1>6, NobodyJoined
  <2>3. Joining' = {} \/ Joining' = {c}
    BY <1>3, <2>2
  <2>4. Public!Boot
    BY <1>4, <1>6, <2>1, <2>2, <2>3 DEF Public!Boot, Joining, Closing
  <2>5. QED
    BY <2>4 DEF Public!Next
<1>7. CASE state \in {"starting", "running"} /\ BeginStop("conflict", FALSE)
  <2>1. state' = "stopping" /\ UNCHANGED retried
    BY <1>7 DEF BeginStop
  <2>2. client[c].pc = "idle"
    BY <1>7, <2>1, StopsAreRequested DEF NewRequest
  <2>3. Joining' = Joining
    BY <1>3, <2>1, <2>2 DEF Joining
  <2>4. Public!Halt
    BY <1>4, <1>7, <2>1, <2>3 DEF Public!Halt, Joining, Closing
  <2>5. QED
    BY <2>4 DEF Public!Next
<1>8. QED
  BY <1>1, <1>5, <1>6, <1>7 DEF ClientEffect, ClientTasks

(* Every step of the supervisor is a step of Lifecycle or changes nothing
   there. *)
LEMMA NextPublic ==
  ASSUME Typed, Control, [Next]_vars
  PROVE  [Public!Next]_(Public!vars)
<1> USE DEF Public!vars
<1>1. Control'
  BY NextControl
<1>2. CASE BootStep
  BY <1>1, <1>2, BootStepPublic
<1>3. CASE StopStep
  BY <1>1, <1>3, StopStepPublic
<1>4. CASE Watch
  BY <1>4, WatchPublic
<1>5. CASE \E c \in Clients : ClientStep(c)
  BY <1>5, ClientPublic
<1>6. CASE PreviousUnwind \/ EmuExits \/ OrphanExits \/ LogReadFails \/ UNCHANGED vars
  BY <1>6 DEF PreviousUnwind, EmuExits, OrphanExits, LogReadFails, vars, lifeVars,
              callVars, Closing
<1>7. CASE IdleCheck
  <2>1. Public!Halt
    BY <1>7 DEF IdleCheck, BeginStop, Public!Halt, callVars, Closing
  <2>2. QED
    BY <2>1 DEF Public!Next
<1>8. CASE Shutdown
  <2>1. UNCHANGED <<client, retried>> /\ Closing' /\ ~Closing
    BY <1>8 DEF Shutdown, callVars, BeginStop, lifeVars, Closing
  <2>2. state' = IF state \in {"starting", "running"} THEN "stopping" ELSE state
    BY <1>8 DEF Shutdown, BeginStop, lifeVars
  <2>3. Public!Close
    BY <2>1, <2>2 DEF Public!Close
  <2>4. QED
    BY <2>3 DEF Public!Next
<1>9. CASE ShutdownEnds
  BY <1>9 DEF ShutdownEnds, taskVars, lifeVars, callVars, Closing
<1>10. QED
  BY <1>2, <1>3, <1>4, <1>5, <1>6, <1>7, <1>8, <1>9, StepKinds DEF OtherStep

(* Whatever the environment does, the callers see the life cycle of
   Lifecycle: one answer for all who wait for a start, at most one retry,
   which keeps them waiting, and no start after the shutdown began. *)
THEOREM ImplementsLifecycleSteps == Safety => LifecycleSteps
<1>1. Init => Public!Init
  BY DEF Init, Public!Init, IdleClient, Closing
<1>2. Typed /\ Control /\ [Next]_vars => [Public!Next]_(Public!vars)
  BY NextPublic
<1>3. QED
  BY <1>1, <1>2, ControlHolds, PTL DEF Safety, LifecycleSteps, Public!Safety

-----------------------------------------------------------------------------
(* The idle stop *)

(* Who is in the body of a lease holds it. *)
BodyInv == \A c \in Clients : client[c].pc = "body" => client[c].op \in LeaseOps

(* Resolving a future lets nobody into a body. *)
LEMMA ResolveBody ==
  ASSUME TypeOK, BodyInv, NEW f, NEW o, Resolve(f, o)
  PROVE  BodyInv'
<1>1. \A c \in Clients : client[c] \in ClientRecords
  BY DEF TypeOK
<1>2. \A c \in Clients : client'[c] = client[c] \/ client'[c].pc = "woken"
  BY <1>1 DEF Resolve, ClientRecords
<1>3. QED
  BY <1>2 DEF BodyInv

(* Every step keeps BodyInv. *)
LEMMA NextBody ==
  ASSUME Typed, BodyInv, [Next]_vars
  PROVE  BodyInv'
<1>1. TypeOK /\ IdleIsNone
  BY DEF Typed
<1>2. CASE BootSucceeds \/ StopFinish \/ StopFault
  BY <1>1, <1>2, ResolveBody DEF BootSucceeds, StopFinish, StopFault, StopEnds
<1>3. ASSUME NEW c \in Clients, ClientStep(c)
      PROVE  BodyInv'
  <2>1. PICK r \in ClientRecords : Becomes(c, r)
    BY <1>1, <1>3, ClientEffects DEF ClientEffect
  <2>2. /\ client'[c] = r
        /\ \A d \in Clients \ {c} : client'[d] = client[d]
    BY <1>1, <2>1 DEF Becomes, TypeOK
  <2>3. QED
    BY <2>1, <2>2 DEF Becomes, BodyInv
<1>4. CASE UNCHANGED client
  BY <1>4 DEF BodyInv
<1>5. BootStep => BootSucceeds \/ UNCHANGED client
  BY DEF BootStep, BootUnwind, BootAwaitPrevious, BootTeardown, BootPrepare,
         BootCompleted, BootGpu, BootLaunch, BootConnect, BootFails, BootError, callVars
<1>6. StopStep => StopFinish \/ StopFault \/ UNCHANGED client
  BY DEF StopStep, StopAwaitBoot, StopTeardown, callVars
<1>7. OtherStep => UNCHANGED client \/ \E c \in Clients : ClientStep(c)
  BY DEF OtherStep, PreviousUnwind, EmuExits, OrphanExits, LogReadFails, Watch,
         IdleCheck, Shutdown, ShutdownEnds, vars, callVars
<1>8. QED
  BY <1>2, <1>3, <1>4, <1>5, <1>6, <1>7, StepKinds

(* A running Android that begins to stop without a request, an exit or a
   shutdown was stopped by the idle job. *)
LEMMA IdleStops ==
  ASSUME Typed, Control, [Next]_vars, state = "running", state' = "stopping",
         UNCHANGED <<requests, watch, daemon>>
  PROVE  IdleCheck
<1>1. ~BootStep
  BY BootStepActive
<1>2. ~StopStep
  BY DEF StopStep, StopAwaitBoot, StopTeardown, StopFinish, StopFault, Teardowns,
         Control, TaskInv, StopInv
<1>3. ~Watch /\ ~Shutdown
  BY DEF Watch, Shutdown
<1>4. \A c \in Clients : ~ClientStep(c)
  BY StopsAreRequested DEF NewRequest, Typed, TypeOK
<1>5. QED
  BY <1>1, <1>2, <1>3, <1>4, StepKinds
     DEF OtherStep, PreviousUnwind, EmuExits, OrphanExits, LogReadFails, ShutdownEnds,
         vars, taskVars, lifeVars

(* The idle stop never takes Android away from a request that holds a
   lease, because self._leases counts exactly those requests. *)
THEOREM IdleStopIsIdle == Safety => IdleStopSparesLeases
<1>1. Init => BodyInv
  BY DEF Init, BodyInv, IdleClient
<1>2. Typed /\ BodyInv /\ [Next]_vars => BodyInv'
  BY NextBody
<1>3. Typed /\ Control /\ BodyInv /\ [Next]_vars
        => [state = "running" /\ state' = "stopping"
              /\ UNCHANGED <<requests, watch, daemon>>
            => \A c \in Clients : client[c].pc # "body"]_vars
  <2> SUFFICES ASSUME Typed, Control, BodyInv, [Next]_vars, state = "running",
                      state' = "stopping", UNCHANGED <<requests, watch, daemon>>,
                      NEW c \in Clients, client[c].pc = "body"
               PROVE  FALSE
    OBVIOUS
  <2>1. leases = 0
    BY IdleStops DEF IdleCheck
  <2>2. IsFiniteSet(LeaseHolders) /\ Cardinality(LeaseHolders) = 0
    BY <2>1, ClientsAssumption, FS_Subset DEF Typed, LeasesCounted, LeaseHolders
  <2>3. c \notin LeaseHolders
    BY <2>2, FS_EmptySet
  <2>4. QED
    BY <2>3 DEF BodyInv, LeaseHolders
<1>4. QED
  BY <1>1, <1>2, <1>3, ControlHolds, PTL DEF Safety, IdleStopSparesLeases
=============================================================================
