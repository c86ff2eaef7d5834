-------------------------- MODULE SupervisorProofs --------------------------
(***************************************************************************)
(* Proofs about Supervisor, for every finite set of clients, every bound   *)
(* on the requests and, unless said otherwise, every combination of        *)
(* faults.                                                                 *)
(***************************************************************************)
EXTENDS Supervisor, FiniteSetTheorems, TLAPS

-----------------------------------------------------------------------------
(* What one step of a client can do *)

(* The lease that a request holds. *)
Held(r) == IF r.op \in LeaseOps THEN 1 ELSE 0

(* An idle client is in no request. *)
IdleIsNone == \A c \in Clients : client[c].pc = "idle" => client[c].op = "none"

(* The record of one client is replaced by r, and self._leases follows. *)
Becomes(c, r) ==
  /\ client' = [client EXCEPT ![c] = r]
  /\ leases' = leases - Held(client[c]) + Held(r)
  /\ r.pc = "idle" => r.op = "none"
  /\ r.pc = "join" => r.fut = gen' /\ state' = "starting"
  /\ r.pc = "body" => r.op \in LeaseOps

(* What a request does to the tasks: nothing, a boot or a stop. *)
ClientTasks ==
  \/ UNCHANGED taskVars
  \/ /\ ~Closing /\ state = "stopped"
     /\ BeginBoot
     /\ UNCHANGED <<prev, stop, jobs>>
  \/ /\ state \in {"starting", "running"}
     /\ BeginStop("conflict", FALSE)
     /\ UNCHANGED <<lastError, launches>>

(* The labels that the steps of a client write. *)
LEMMA ClientLabels ==
  /\ {"idle", "join", "woken", "stopwait", "halt", "spin", "body"} = ClientPcs
  /\ {"none", "start", "restart", "wait", "stop", "start_async",
      "restart_async", "lease", "look"} = Ops
  /\ {"lease", "look"} = LeaseOps
  /\ "none" \in Outcomes
  BY DEF ClientPcs, Ops, LeaseOps, TimedOps, Outcomes

(* Stays replaces the record of one client. *)
LEMMA StaysBecomes ==
  ASSUME TypeOK, NEW c \in Clients, NEW op \in Ops, NEW pc \in ClientPcs,
         NEW f \in Nat, Stays(c, op, pc, f), pc # "idle",
         pc = "join" => f = gen' /\ state' = "starting",
         pc = "body" => op \in LeaseOps,
         leases' = leases - Held(client[c]) + (IF op \in LeaseOps THEN 1 ELSE 0)
  PROVE  \E r \in ClientRecords : Becomes(c, r)
<1> DEFINE r == [op |-> op, pc |-> pc, fut |-> f, got |-> "none"]
<1>1. r \in ClientRecords
  BY ClientLabels DEF ClientRecords
<1>2. Becomes(c, r)
  BY DEF Becomes, Stays, Held
<1>3. QED
  BY <1>1, <1>2

(* Leaves makes one client idle and returns its lease. *)
LEMMA LeavesBecomes ==
  ASSUME TypeOK, NEW c \in Clients, NEW op \in Ops, NEW held, Leaves(c, op, held),
         held = leases - Held(client[c]) + (IF op \in LeaseOps THEN 1 ELSE 0)
  PROVE  \E r \in ClientRecords : Becomes(c, r)
<1>1. IdleClient \in ClientRecords /\ Held(IdleClient) = 0
  BY ClientLabels DEF ClientRecords, IdleClient, Held, LeaseOps
<1>2. leases' = leases - Held(client[c]) + Held(IdleClient)
  BY <1>1 DEF Leaves, TypeOK, Held
<1>3. Becomes(c, IdleClient)
  BY <1>2 DEF Becomes, Leaves, IdleClient
<1>4. QED
  BY <1>1, <1>3

(* Granted lets a lease into its body or ends the request. *)
LEMMA GrantedBecomes ==
  ASSUME TypeOK, NEW c \in Clients, NEW op \in Ops, NEW held, Granted(c, op, held),
         held = leases - Held(client[c]) + (IF op \in LeaseOps THEN 1 ELSE 0)
  PROVE  \E r \in ClientRecords : Becomes(c, r)
<1>1. CASE op = "lease" /\ grpc
  <2>1. Stays(c, op, "body", 0) /\ leases' = held
    BY <1>1 DEF Granted
  <2>2. QED
    BY <1>1, <2>1, StaysBecomes, ClientLabels
<1>2. CASE ~(op = "lease" /\ grpc)
  BY <1>2, LeavesBecomes DEF Granted
<1>3. QED
  BY <1>1, <1>2

(* What one turn of the loop in _start may change. *)
LEMMA StartLoopEffect ==
  ASSUME TypeOK, NEW c \in Clients, NEW op \in Ops, NEW wait \in BOOLEAN, NEW held,
         StartLoop(c, op, wait, held),
         held = leases - Held(client[c]) + (IF op \in LeaseOps THEN 1 ELSE 0)
  PROVE  ClientTasks /\ \E r \in ClientRecords : Becomes(c, r)
<1>1. CASE Closing /\ Leaves(c, op, held) /\ UNCHANGED taskVars
  BY <1>1, LeavesBecomes DEF ClientTasks
<1>2. CASE state = "running" /\ Granted(c, op, held) /\ UNCHANGED taskVars
  BY <1>2, GrantedBecomes DEF ClientTasks
<1>3. CASE /\ state = "stopping"
           /\ IF wait THEN Stays(c, op, "stopwait", gen) ELSE Stays(c, op, "spin", 0)
           /\ leases' = held
           /\ UNCHANGED taskVars
  BY <1>3, StaysBecomes, ClientLabels DEF ClientTasks, TypeOK
<1>4. CASE /\ state = "starting"
           /\ IF wait THEN Stays(c, op, "join", gen) /\ leases' = held
                      ELSE Leaves(c, op, held)
           /\ UNCHANGED taskVars
  <2>1. gen' = gen /\ state' = "starting" /\ gen \in Nat
    BY <1>4 DEF taskVars, lifeVars, TypeOK
  <2>2. QED
    BY <1>4, <2>1, StaysBecomes, LeavesBecomes, ClientLabels DEF ClientTasks
<1>5. CASE /\ ~Closing /\ state = "stopped"
           /\ BeginBoot
           /\ IF wait THEN Stays(c, op, "join", gen + 1) /\ leases' = held
                      ELSE Leaves(c, op, held)
           /\ UNCHANGED <<prev, stop, jobs>>
  <2>1. gen' = gen + 1 /\ state' = "starting" /\ gen + 1 \in Nat
    BY <1>5 DEF BeginBoot, TypeOK
  <2>2. QED
    BY <1>5, <2>1, StaysBecomes, LeavesBecomes, ClientLabels DEF ClientTasks
<1>6. QED
  BY <1>1, <1>2, <1>3, <1>4, <1>5 DEF StartLoop

(* One step of a client replaces its record, and starts a boot or a stop or
   leaves the tasks alone; qemu and the connection are not its business. *)
ClientEffect(c) ==
  /\ ClientTasks
  /\ \E r \in ClientRecords : Becomes(c, r)
  /\ requests' \in Nat
  /\ UNCHANGED envVars

(* What a step of a client may change: its record and, of the rest, only
   what _begin_boot or _begin_stop change. *)
LEMMA ClientEffects ==
  ASSUME TypeOK, IdleIsNone, NEW c \in Clients, ClientStep(c)
  PROVE  ClientEffect(c)
<1>1. client[c] \in ClientRecords /\ leases \in Nat /\ gen \in Nat /\ requests \in Nat
  BY DEF TypeOK
<1>2. client[c].op \in Ops
  BY <1>1 DEF ClientRecords
<1>3. leases = leases - Held(client[c])
                 + (IF client[c].op \in LeaseOps THEN 1 ELSE 0)
  BY <1>1 DEF Held
<1>4. ASSUME NewRequest(c)
      PROVE  /\ Held(client[c]) = 0
             /\ requests' \in Nat
             /\ UNCHANGED envVars
             /\ \A op \in Ops \ LeaseOps :
                  leases = leases - Held(client[c]) + (IF op \in LeaseOps THEN 1 ELSE 0)
             /\ \A op \in LeaseOps :
                  leases + 1 = leases - Held(client[c])
                                 + (IF op \in LeaseOps THEN 1 ELSE 0)
  BY <1>1, <1>4 DEF NewRequest, IdleIsNone, Held, LeaseOps
<1>5. CASE Start(c)
  BY <1>4, <1>5, StartLoopEffect, ClientLabels DEF Start, ClientEffect, LeaseOps
<1>6. CASE Restart(c)
  <2>1. CASE /\ state \in {"starting", "running"}
             /\ BeginStop("conflict", FALSE)
             /\ \/ Stays(c, "restart", "stopwait", gen)
                \/ Stays(c, "restart_async", "spin", 0)
             /\ UNCHANGED <<lastError, leases, launches>>
    BY <1>1, <1>4, <1>6, <2>1, StaysBecomes, ClientLabels
       DEF Restart, ClientEffect, ClientTasks, LeaseOps
  <2>2. CASE StartLoop(c, "restart", TRUE, leases)
    BY <1>4, <1>6, <2>2, StartLoopEffect, ClientLabels
       DEF Restart, ClientEffect, LeaseOps
  <2>3. CASE Stays(c, "restart_async", "spin", 0) /\ UNCHANGED <<taskVars, leases>>
    BY <1>1, <1>4, <1>6, <2>3, StaysBecomes, ClientLabels
       DEF Restart, ClientEffect, ClientTasks, LeaseOps
  <2>4. QED
    BY <1>6, <2>1, <2>2, <2>3 DEF Restart
<1>7. CASE Stop(c)
  <2>1. ClientTasks
    BY <1>1, <1>7 DEF Stop, ClientTasks, TypeOK, States
  <2>2. CASE Stays(c, "stop", "halt", gen)
    BY <1>1, <1>4, <1>7, <2>1, <2>2, StaysBecomes, ClientLabels
       DEF Stop, ClientEffect, LeaseOps
  <2>3. CASE client' = [client EXCEPT ![c] = IdleClient]
    BY <1>1, <1>4, <1>7, <2>1, <2>3, LeavesBecomes, ClientLabels
       DEF Stop, ClientEffect, Leaves, LeaseOps
  <2>4. QED
    BY <1>7, <2>2, <2>3 DEF Stop
<1>8. CASE Wait(c)
  <2>1. gen' = gen /\ state' = "starting"
    BY <1>8 DEF Wait, taskVars, lifeVars
  <2>2. QED
    BY <1>1, <1>4, <1>8, <2>1, StaysBecomes, ClientLabels
       DEF Wait, ClientEffect, ClientTasks, LeaseOps
<1>9. CASE Lease(c)
  BY <1>4, <1>9, StartLoopEffect, ClientLabels DEF Lease, ClientEffect, LeaseOps
<1>10. CASE Look(c)
  BY <1>1, <1>4, <1>10, StaysBecomes, ClientLabels
     DEF Look, ClientEffect, ClientTasks, LeaseOps
<1>11. CASE Resume(c)
  <2>1. CASE /\ IF client[c].got = "ok" THEN Granted(c, client[c].op, leases)
                                       ELSE Leaves(c, client[c].op, leases)
             /\ UNCHANGED taskVars
    BY <1>1, <1>2, <1>3, <1>11, <2>1, GrantedBecomes, LeavesBecomes
       DEF Resume, ClientEffect, ClientTasks
  <2>2. CASE StartLoop(c, client[c].op, TRUE, leases)
    BY <1>1, <1>2, <1>3, <1>11, <2>2, StartLoopEffect DEF Resume, ClientEffect
  <2>3. CASE Leaves(c, client[c].op, leases) /\ UNCHANGED taskVars
    BY <1>1, <1>2, <1>3, <1>11, <2>3, LeavesBecomes
       DEF Resume, ClientEffect, ClientTasks
  <2>4. CASE StartLoop(c, client[c].op, FALSE, leases)
    BY <1>1, <1>2, <1>3, <1>11, <2>4, StartLoopEffect DEF Resume, ClientEffect
  <2>5. QED
    BY <1>11, <2>1, <2>2, <2>3, <2>4 DEF Resume
<1>12. CASE Timeout(c) \/ Cancel(c) \/ BodyEnds(c)
  BY <1>1, <1>2, <1>3, <1>12, LeavesBecomes
     DEF Timeout, Cancel, BodyEnds, ClientEffect, ClientTasks
<1>13. QED
  BY <1>5, <1>6, <1>7, <1>8, <1>9, <1>10, <1>11, <1>12 DEF ClientStep

-----------------------------------------------------------------------------
(* Types and leases. self._leases is a natural number only because every
   request gives back exactly the lease it took, so both are proved
   together. *)

Typed == TypeOK /\ IdleIsNone /\ LeasesCounted

(* The part of TypeOK that the state machine of the tasks writes. *)
TaskTypes ==
  /\ state \in States
  /\ gen \in Nat
  /\ done \in Outcomes
  /\ retried \in BOOLEAN
  /\ lastError \in BOOLEAN
  /\ boot \in [pc : BootPcs, cancel : BOOLEAN]
  /\ prev \in BOOLEAN
  /\ stop \in [pc : StopPcs, fut : Nat, err : Errors]
  /\ jobs \in BOOLEAN
  /\ launches \in Nat

(* The part that only qemu, its watcher and the teardown write. *)
EmuTypes ==
  /\ emu \in {"none", "live"} \cup Exits
  /\ orphans \in Nat
  /\ watch \in BOOLEAN
  /\ logOk \in BOOLEAN
  /\ grpc \in BOOLEAN
  /\ xvnc \in BOOLEAN

(* The parts of TypeOK that the lemmas cite. *)
LEMMA TypeParts ==
  TypeOK <=> /\ TaskTypes
             /\ EmuTypes
             /\ leases \in Nat
             /\ client \in [Clients -> ClientRecords]
             /\ daemon \in {"up", "closing", "down"}
             /\ requests \in Nat
  BY DEF TypeOK, TaskTypes, EmuTypes

(* _begin_stop keeps the types. *)
LEMMA BeginStopTypes ==
  ASSUME TaskTypes, NEW e \in Errors, NEW own \in BOOLEAN, BeginStop(e, own),
         lastError' \in BOOLEAN, launches' \in Nat
  PROVE  TaskTypes'
  BY DEF TaskTypes, BeginStop, BootActive, BootPcs, StopPcs, States

(* _retry keeps the types. *)
LEMMA RetryTypes ==
  ASSUME TaskTypes, Retry, launches' \in Nat
  PROVE  TaskTypes'
<1>1. prev' \in BOOLEAN
  BY Zenon DEF Retry, BootActive
<1>2. /\ state' = "starting" /\ retried' = TRUE /\ jobs' = FALSE
      /\ boot' = [pc |-> "waitprev", cancel |-> FALSE]
      /\ \/ gen' = gen /\ done' = done
         \/ gen' = gen + 1 /\ done' = "pending"
      /\ stop' = stop /\ lastError' = lastError
  BY Zenon DEF Retry
<1>3. state' \in States /\ boot' \in [pc : BootPcs, cancel : BOOLEAN]
  BY <1>2 DEF BootPcs, States
<1>4. gen' \in Nat /\ done' \in Outcomes
  BY <1>2 DEF TaskTypes, Outcomes
<1>5. retried' \in BOOLEAN /\ jobs' \in BOOLEAN
  BY <1>2
<1>6. lastError' \in BOOLEAN /\ stop' \in [pc : StopPcs, fut : Nat, err : Errors]
  BY <1>2 DEF TaskTypes
<1>7. QED
  BY <1>1, <1>3, <1>4, <1>5, <1>6 DEF TaskTypes

(* Resolving a future keeps the types and the leases. *)
LEMMA ResolveTypes ==
  ASSUME TypeOK, NEW f, NEW o \in Outcomes, Resolve(f, o)
  PROVE  client' \in [Clients -> ClientRecords] /\ done' \in Outcomes
<1>1. CASE f = gen /\ done = "pending"
  <2>1. \A c \in Clients : client[c] \in ClientRecords
    BY DEF TypeOK
  <2>2. \A c \in Clients : [client[c] EXCEPT !.pc = "woken", !.got = o] \in ClientRecords
    BY <2>1, ClientLabels DEF ClientRecords
  <2>3. QED
    BY <1>1, <2>1, <2>2 DEF Resolve
<1>2. CASE ~(f = gen /\ done = "pending")
  BY <1>2 DEF Resolve, TypeOK
<1>3. QED
  BY <1>1, <1>2

(* Waking the callers of a start takes no lease and gives none back. *)
LEMMA ResolveLeases ==
  ASSUME Typed, NEW f, NEW o \in Outcomes, Resolve(f, o), UNCHANGED leases
  PROVE  IdleIsNone' /\ LeasesCounted'
<1>1. \A c \in Clients : client[c] \in ClientRecords
  BY DEF Typed, TypeOK
<1>2. \A c \in Clients : client'[c].op = client[c].op
                         /\ (client'[c].pc = "idle" => client[c].pc = "idle")
  BY <1>1 DEF Resolve, ClientRecords
<1>3. LeaseHolders' = LeaseHolders
  BY <1>2 DEF LeaseHolders
<1>4. QED
  BY <1>2, <1>3 DEF Typed, IdleIsNone, LeasesCounted

(* Replacing the record of one client changes the number of lease holders
   by at most that client. *)
LEMMA BecomesLeases ==
  ASSUME Typed, NEW c \in Clients, NEW r \in ClientRecords, Becomes(c, r)
  PROVE  /\ client' \in [Clients -> ClientRecords]
         /\ IdleIsNone'
         /\ LeasesCounted'
         /\ leases' \in Nat
<1>1. client \in [Clients -> ClientRecords] /\ leases = Cardinality(LeaseHolders)
  BY DEF Typed, TypeOK, LeasesCounted
<1>2. /\ client' \in [Clients -> ClientRecords]
      /\ client'[c] = r
      /\ \A d \in Clients \ {c} : client'[d] = client[d]
  BY <1>1 DEF Becomes
<1>3. IdleIsNone'
  BY <1>2 DEF IdleIsNone, Becomes, Typed
<1>4. IsFiniteSet(LeaseHolders)
  BY ClientsAssumption, FS_Subset DEF LeaseHolders
<1>5. leases' = Cardinality(LeaseHolders') /\ leases' \in Nat
  <2>1. CASE client[c].op \in LeaseOps /\ r.op \in LeaseOps
    <3>1. LeaseHolders' = LeaseHolders
      BY <1>2, <2>1 DEF LeaseHolders
    <3>2. leases' = leases
      BY <1>1, <1>4, <2>1, FS_CardinalityType DEF Becomes, Held
    <3>3. QED
      BY <1>1, <1>4, <3>1, <3>2, FS_CardinalityType
  <2>2. CASE client[c].op \notin LeaseOps /\ r.op \notin LeaseOps
    <3>1. LeaseHolders' = LeaseHolders
      BY <1>2, <2>2 DEF LeaseHolders
    <3>2. leases' = leases
      BY <1>1, <1>4, <2>2, FS_CardinalityType DEF Becomes, Held
    <3>3. QED
      BY <1>1, <1>4, <3>1, <3>2, FS_CardinalityType
  <2>3. CASE client[c].op \notin LeaseOps /\ r.op \in LeaseOps
    <3>1. LeaseHolders' = LeaseHolders \cup {c} /\ c \notin LeaseHolders
      BY <1>2, <2>3 DEF LeaseHolders
    <3>2. leases' = leases + 1
      BY <1>1, <1>4, <2>3, FS_CardinalityType DEF Becomes, Held
    <3>3. QED
      BY <1>1, <1>4, <3>1, <3>2, FS_CardinalityType, FS_AddElement
  <2>4. CASE client[c].op \in LeaseOps /\ r.op \notin LeaseOps
    <3>1. LeaseHolders' = LeaseHolders \ {c} /\ c \in LeaseHolders
      BY <1>2, <2>4 DEF LeaseHolders
    <3>2. leases' = leases - 1
      BY <1>1, <1>4, <2>4, FS_CardinalityType DEF Becomes, Held
    <3>3. IsFiniteSet(LeaseHolders \ {c})
          /\ Cardinality(LeaseHolders \ {c}) = Cardinality(LeaseHolders) - 1
      BY <1>4, <3>1, FS_RemoveElement
    <3>4. QED
      BY <1>1, <3>1, <3>2, <3>3, FS_CardinalityType
  <2>5. QED
    BY <2>1, <2>2, <2>3, <2>4
<1>6. QED
  BY <1>2, <1>3, <1>5 DEF LeasesCounted

(* A step of a teardown keeps the types. *)
LEMMA TeardownTypes ==
  ASSUME EmuTypes, NEW pc, NEW pcNext, TeardownStep(pc, pcNext)
  PROVE  EmuTypes'
<1>1. Living \in Nat
  BY DEF Living
<1>2. orphans' \in Nat
  BY <1>1 DEF EmuTypes, TeardownStep, emuVars
<1>3. watch' \in BOOLEAN /\ logOk' \in BOOLEAN
  BY DEF EmuTypes, TeardownStep, emuVars
<1>4. grpc' \in BOOLEAN /\ xvnc' \in BOOLEAN
  BY DEF EmuTypes, TeardownStep, connVars
<1>5. emu' \in {"none", "live"} \cup Exits
  BY DEF EmuTypes, TeardownStep, emuVars, Exits
<1>6. QED
  BY <1>2, <1>3, <1>4, <1>5 DEF EmuTypes

(* A step that only touches tasks and qemu, and leaves the requests alone. *)
LEMMA TypedWithoutCalls ==
  ASSUME Typed, TaskTypes', EmuTypes', UNCHANGED <<callVars, daemon>>
  PROVE  Typed'
<1>1. TypeOK'
  BY TypeParts DEF Typed, callVars, TypeOK, TaskTypes, EmuTypes
<1>2. IdleIsNone' /\ LeasesCounted'
  BY DEF Typed, IdleIsNone, LeasesCounted, LeaseHolders, callVars
<1>3. QED
  BY <1>1, <1>2 DEF Typed

(* The boot task keeps Typed. *)
LEMMA BootStepTyped ==
  ASSUME Typed, BootStep
  PROVE  Typed'
<1> USE DEF Typed
<1>1. TaskTypes /\ EmuTypes
  BY TypeParts
<1>2. \A pc \in BootPcs : BootGoes(pc) => boot' \in [pc : BootPcs, cancel : BOOLEAN]
  BY <1>1 DEF TaskTypes, BootGoes
<1>3. CASE BootUnwind \/ BootAwaitPrevious \/ BootPrepare \/ BootCompleted
  <2>1. boot' \in [pc : BootPcs, cancel : BOOLEAN]
    <3>1. {"done", "td_emu", "gpu", "setup"} \subseteq BootPcs
      BY DEF BootPcs, Teardowns, LaunchPhases
    <3>2. CASE BootUnwind
      BY <3>1, <3>2 DEF BootUnwind
    <3>3. CASE BootAwaitPrevious \/ BootPrepare \/ BootCompleted
      BY <1>2, <3>1, <3>3 DEF BootAwaitPrevious, BootPrepare, BootCompleted
    <3>4. QED
      BY <1>3, <3>2, <3>3
  <2>2. /\ UNCHANGED <<lifeVars, prev, stop, emuVars, connVars, jobs,
                       callVars, daemon, launches>>
    BY <1>3 DEF BootUnwind, BootAwaitPrevious, BootPrepare, BootCompleted
  <2>3. TaskTypes' /\ EmuTypes'
    BY <1>1, <2>1, <2>2 DEF TaskTypes, EmuTypes, lifeVars, emuVars, connVars
  <2>4. QED
    BY <2>2, <2>3, TypedWithoutCalls
<1>4. CASE BootTeardown
  <2>1. PICK pc \in Teardowns, next \in Teardowns \cup {"end"} :
          /\ TeardownStep(pc, next)
          /\ BootGoes(IF next = "end" THEN "prepare" ELSE next)
          /\ UNCHANGED <<lifeVars, prev, stop, jobs, callVars, daemon, launches>>
    BY <1>4 DEF BootTeardown
  <2>2. boot' \in [pc : BootPcs, cancel : BOOLEAN]
    BY <1>2, <2>1 DEF BootPcs, LaunchPhases
  <2>3. TaskTypes'
    BY <1>1, <2>1, <2>2 DEF TaskTypes, lifeVars
  <2>4. EmuTypes'
    BY <1>1, <2>1, TeardownTypes
  <2>5. QED
    BY <2>1, <2>3, <2>4, TypedWithoutCalls
<1>5. CASE BootGpu \/ BootLaunch \/ BootConnect
  <2>1. boot' \in [pc : BootPcs, cancel : BOOLEAN]
    BY <1>2, <1>5 DEF BootGpu, BootLaunch, BootConnect, BootPcs, LaunchPhases
  <2>2. TaskTypes' /\ EmuTypes'
    <3>1. CASE BootGpu
      BY <1>1, <2>1, <3>1 DEF TaskTypes, EmuTypes, BootGpu, lifeVars, emuVars
    <3>2. CASE BootLaunch
      <4>1. Living \in Nat
        BY DEF Living
      <4>2. QED
        BY <1>1, <2>1, <3>2, <4>1
           DEF TaskTypes, EmuTypes, BootLaunch, lifeVars, connVars
    <3>3. CASE BootConnect
      BY <1>1, <2>1, <3>3 DEF TaskTypes, EmuTypes, BootConnect, lifeVars, emuVars
    <3>4. QED
      BY <1>5, <3>1, <3>2, <3>3
  <2>3. UNCHANGED <<callVars, daemon>>
    BY <1>5 DEF BootGpu, BootLaunch, BootConnect
  <2>4. QED
    BY <2>2, <2>3, TypedWithoutCalls
<1>6. CASE BootSucceeds
  <2>1. boot' \in [pc : BootPcs, cancel : BOOLEAN]
    BY <1>2, <1>6 DEF BootSucceeds, BootPcs
  <2>2. "ok" \in Outcomes /\ Resolve(gen, "ok") /\ UNCHANGED leases
    BY <1>6 DEF Outcomes, BootSucceeds
  <2>3. client' \in [Clients -> ClientRecords] /\ done' \in Outcomes
    BY <2>2, ResolveTypes
  <2>4. IdleIsNone' /\ LeasesCounted'
    BY <2>2, ResolveLeases
  <2>5. TypeOK'
    BY <1>1, <1>6, <2>1, <2>3
       DEF TypeOK, BootSucceeds, emuVars, connVars, States
  <2>6. QED
    BY <2>4, <2>5
<1>7. CASE BootFails \/ BootError
  <2>1. UNCHANGED <<emuVars, connVars, callVars, daemon, launches>>
    BY <1>7 DEF BootFails, BootError
  <2>2. \/ BootGoes("done") /\ UNCHANGED <<lifeVars, prev, stop, jobs>>
        \/ \E e \in Errors : Fail(e, TRUE)
    BY <1>7 DEF BootFails, BootError, Errors
  <2>3. TaskTypes'
    <3>1. CASE BootGoes("done") /\ UNCHANGED <<lifeVars, prev, stop, jobs>>
      <4>1. boot' \in [pc : BootPcs, cancel : BOOLEAN]
        BY <1>2, <3>1 DEF BootPcs
      <4>2. QED
        BY <1>1, <2>1, <3>1, <4>1 DEF TaskTypes, lifeVars
    <3>2. ASSUME NEW e \in Errors, Fail(e, TRUE)
          PROVE  TaskTypes'
      <4>1. lastError' \in BOOLEAN /\ BeginStop(e, TRUE) /\ launches' \in Nat
        BY <1>1, <2>1, <3>2 DEF Fail, TaskTypes
      <4>2. QED
        BY <1>1, <4>1, BeginStopTypes
    <3>3. QED
      BY <2>2, <3>1, <3>2
  <2>4. EmuTypes'
    BY <1>1, <2>1 DEF EmuTypes, emuVars, connVars
  <2>5. QED
    BY <2>1, <2>3, <2>4, TypedWithoutCalls
<1>8. QED
  BY <1>3, <1>4, <1>5, <1>6, <1>7 DEF BootStep

(* The stop task keeps Typed. *)
LEMMA StopStepTyped ==
  ASSUME Typed, StopStep
  PROVE  Typed'
<1> USE DEF Typed
<1>1. TaskTypes /\ EmuTypes
  BY TypeParts
<1>2. \A pc \in StopPcs : StopGoes(pc) => stop' \in [pc : StopPcs, fut : Nat, err : Errors]
  BY <1>1 DEF TaskTypes, StopGoes
<1>3. CASE StopAwaitBoot
  <2>1. TaskTypes' /\ EmuTypes' /\ UNCHANGED <<callVars, daemon>>
    BY <1>1, <1>2, <1>3 DEF StopAwaitBoot, StopPcs, Teardowns, TaskTypes, EmuTypes,
                            lifeVars, bootVars, emuVars, connVars
  <2>2. QED
    BY <2>1, TypedWithoutCalls
<1>4. CASE StopTeardown
  <2>1. PICK pc \in Teardowns, next \in Teardowns :
          /\ TeardownStep(pc, next)
          /\ StopGoes(next)
          /\ UNCHANGED <<lifeVars, bootVars, jobs, callVars, daemon, launches>>
    BY <1>4 DEF StopTeardown
  <2>2. TaskTypes'
    BY <1>1, <1>2, <2>1 DEF TaskTypes, StopPcs, lifeVars, bootVars
  <2>3. EmuTypes'
    BY <1>1, <2>1, TeardownTypes
  <2>4. QED
    BY <2>1, <2>2, <2>3, TypedWithoutCalls
<1>5. CASE StopFinish \/ StopFault
  <2>1. StopEnds /\ EmuTypes'
    BY <1>1, <1>5, TeardownTypes DEF StopFinish, StopFault, EmuTypes, emuVars, connVars
  <2>2. stop.err \in Outcomes /\ Resolve(stop.fut, stop.err) /\ UNCHANGED leases
    BY <1>1, <2>1 DEF StopEnds, TaskTypes, Outcomes
  <2>3. client' \in [Clients -> ClientRecords] /\ done' \in Outcomes
    BY <2>2, ResolveTypes
  <2>4. IdleIsNone' /\ LeasesCounted'
    BY <2>2, ResolveLeases
  <2>5. NoStop \in [pc : StopPcs, fut : Nat, err : Errors]
    BY DEF NoStop, StopPcs, Errors
  <2>6. TypeOK'
    BY <1>1, <2>1, <2>3, <2>5
       DEF TypeOK, EmuTypes, StopEnds, bootVars, States
  <2>7. QED
    BY <2>4, <2>6
<1>6. QED
  BY <1>3, <1>4, <1>5 DEF StopStep

(* The watcher keeps Typed. *)
LEMMA WatchTyped ==
  ASSUME Typed, Watch
  PROVE  Typed'
<1> USE DEF Typed
<1>1. TaskTypes /\ EmuTypes
  BY TypeParts
<1>2. UNCHANGED <<orphans, logOk, connVars, callVars, daemon, launches>>
      /\ emu' = "gone" /\ watch' = FALSE
  BY DEF Watch
<1>3. EmuTypes'
  BY <1>1, <1>2 DEF EmuTypes, Exits, connVars
<1>4. launches' \in Nat
  BY <1>1, <1>2 DEF TaskTypes
<1>5. TaskTypes'
  <2>1. CASE Retry
    BY <1>1, <1>4, <2>1, RetryTypes
  <2>2. CASE Fail("boot_failed", FALSE)
    BY <1>1, <1>4, <2>2, BeginStopTypes DEF Fail, Errors
  <2>3. CASE BeginStop("conflict", FALSE) /\ UNCHANGED lastError
    BY <1>1, <1>4, <2>3, BeginStopTypes DEF Errors, TaskTypes
  <2>4. CASE BeginStop("unavailable", FALSE) /\ UNCHANGED lastError
    BY <1>1, <1>4, <2>4, BeginStopTypes DEF Errors, TaskTypes
  <2>5. CASE UNCHANGED <<lifeVars, bootVars, stop, jobs>>
    BY <1>1, <1>4, <2>5 DEF TaskTypes, lifeVars, bootVars
  <2>6. QED
    BY <2>1, <2>2, <2>3, <2>4, <2>5 DEF Watch, HandleExit, HandlerRaises
<1>6. QED
  BY <1>2, <1>3, <1>5, TypedWithoutCalls

(* A client keeps Typed. *)
LEMMA ClientTyped ==
  ASSUME Typed, NEW c \in Clients, ClientStep(c)
  PROVE  Typed'
<1> USE DEF Typed
<1>1. ClientEffect(c) /\ TaskTypes /\ EmuTypes
  BY ClientEffects, TypeParts
<1>2. PICK r \in ClientRecords : Becomes(c, r)
  BY <1>1 DEF ClientEffect
<1>3. /\ client' \in [Clients -> ClientRecords]
      /\ IdleIsNone'
      /\ LeasesCounted'
      /\ leases' \in Nat
  BY <1>2, BecomesLeases
<1>4. TaskTypes'
  <2>1. CASE UNCHANGED taskVars
    BY <1>1, <2>1 DEF TaskTypes, taskVars, lifeVars, bootVars
  <2>2. CASE BeginBoot /\ UNCHANGED <<prev, stop, jobs>>
    <3>1. [pc |-> "prepare", cancel |-> FALSE] \in [pc : BootPcs, cancel : BOOLEAN]
      BY DEF BootPcs, LaunchPhases
    <3>2. state' \in States /\ gen' \in Nat /\ done' \in Outcomes /\ launches' \in Nat
      BY <1>1, <2>2 DEF TaskTypes, BeginBoot, States, Outcomes
    <3>3. /\ retried' \in BOOLEAN /\ lastError' \in BOOLEAN
          /\ boot' \in [pc : BootPcs, cancel : BOOLEAN]
      BY <2>2, <3>1 DEF BeginBoot
    <3>4. QED
      BY <1>1, <2>2, <3>2, <3>3 DEF TaskTypes
  <2>3. CASE BeginStop("conflict", FALSE) /\ UNCHANGED <<lastError, launches>>
    BY <1>1, <2>3, BeginStopTypes DEF Errors, TaskTypes
  <2>4. QED
    BY <1>1, <2>1, <2>2, <2>3 DEF ClientEffect, ClientTasks
<1>5. EmuTypes' /\ UNCHANGED daemon
  BY <1>1 DEF EmuTypes, ClientEffect, envVars, emuVars, connVars
<1>6. requests' \in Nat
  BY <1>1 DEF ClientEffect
<1>7. TypeOK'
  BY <1>3, <1>4, <1>5, <1>6 DEF TypeOK, TaskTypes, EmuTypes
<1>8. QED
  BY <1>3, <1>7

(* Typed holds initially. *)
LEMMA InitTyped == Init => Typed
<1>1. Init => TypeOK
  <2>1. NoStop \in [pc : StopPcs, fut : Nat, err : Errors]
    BY DEF NoStop, StopPcs, Errors
  <2>2. IdleClient \in ClientRecords
    BY ClientLabels DEF ClientRecords, IdleClient
  <2>3. [pc |-> "none", cancel |-> FALSE] \in [pc : BootPcs, cancel : BOOLEAN]
    BY DEF BootPcs
  <2>4. Init => TaskTypes
    <3>1. Init => state \in States /\ gen \in Nat /\ done \in Outcomes
      BY DEF Init, States, Outcomes
    <3>2. Init => /\ retried \in BOOLEAN /\ lastError \in BOOLEAN /\ prev \in BOOLEAN
                  /\ jobs \in BOOLEAN
      BY Zenon DEF Init
    <3>3. Init => /\ boot \in [pc : BootPcs, cancel : BOOLEAN]
                  /\ stop \in [pc : StopPcs, fut : Nat, err : Errors]
      BY <2>1, <2>3 DEF Init
    <3>4. Init => launches \in Nat
      BY DEF Init
    <3>5. QED
      BY <3>1, <3>2, <3>3, <3>4 DEF TaskTypes
  <2>5. Init => EmuTypes
    <3>1. Init => /\ watch \in BOOLEAN /\ logOk \in BOOLEAN
                  /\ grpc \in BOOLEAN /\ xvnc \in BOOLEAN
      BY Zenon DEF Init
    <3>2. Init => emu \in {"none", "live"} /\ orphans \in Nat
      BY DEF Init
    <3>3. QED
      BY <3>1, <3>2 DEF EmuTypes
  <2>6. Init => /\ leases \in Nat /\ requests \in Nat
                /\ client \in [Clients -> ClientRecords]
                /\ daemon \in {"up", "closing", "down"}
    BY <2>2 DEF Init
  <2>7. QED
    BY <2>4, <2>5, <2>6, TypeParts
<1>2. Init => IdleIsNone
  BY DEF Init, IdleIsNone, IdleClient
<1>3. Init => LeasesCounted
  <2>1. Init => LeaseHolders = {}
    BY DEF Init, LeaseHolders, IdleClient, LeaseOps
  <2>2. QED
    BY <2>1, FS_EmptySet DEF Init, LeasesCounted
<1>4. QED
  BY <1>1, <1>2, <1>3 DEF Typed

(* Every step keeps Typed. *)
LEMMA NextTyped == Typed /\ [Next]_vars => Typed'
<1> SUFFICES ASSUME Typed, [Next]_vars
             PROVE  Typed'
  OBVIOUS
<1>1. TypeOK /\ TaskTypes /\ EmuTypes
  BY TypeParts DEF Typed
<1>2. CASE BootStep
  BY <1>2, BootStepTyped
<1>3. CASE PreviousUnwind
  <2>1. TaskTypes' /\ EmuTypes' /\ UNCHANGED <<callVars, daemon>>
    BY <1>1, <1>3 DEF PreviousUnwind, TaskTypes, EmuTypes, lifeVars, emuVars, connVars
  <2>2. QED
    BY <2>1, TypedWithoutCalls
<1>4. CASE StopStep
  BY <1>4, StopStepTyped
<1>5. CASE EmuExits \/ OrphanExits \/ LogReadFails
  <2>1. UNCHANGED <<lifeVars, bootVars, stop, jobs, connVars, callVars, daemon, launches>>
    BY <1>5 DEF EmuExits, OrphanExits, LogReadFails
  <2>2. emu' \in {"none", "live"} \cup Exits
    BY <1>1, <1>5 DEF EmuExits, OrphanExits, LogReadFails, EmuTypes, Exits
  <2>3. orphans' \in Nat
    BY <1>1, <1>5 DEF EmuExits, OrphanExits, LogReadFails, EmuTypes
  <2>4. watch' \in BOOLEAN /\ logOk' \in BOOLEAN
    BY <1>1, <1>5 DEF EmuExits, OrphanExits, LogReadFails, EmuTypes
  <2>5. EmuTypes'
    BY <1>1, <2>1, <2>2, <2>3, <2>4 DEF EmuTypes, connVars
  <2>6. TaskTypes'
    BY <1>1, <2>1 DEF TaskTypes, lifeVars, bootVars
  <2>7. QED
    BY <2>1, <2>5, <2>6, TypedWithoutCalls
<1>6. CASE Watch
  BY <1>6, WatchTyped
<1>7. CASE IdleCheck
  <2>1. TaskTypes'
    BY <1>1, <1>7, BeginStopTypes DEF IdleCheck, TaskTypes, Errors
  <2>2. EmuTypes' /\ UNCHANGED <<callVars, daemon>>
    BY <1>1, <1>7 DEF IdleCheck, EmuTypes, emuVars, connVars
  <2>3. QED
    BY <2>1, <2>2, TypedWithoutCalls
<1>8. CASE \E c \in Clients : ClientStep(c)
  BY <1>8, ClientTyped
<1>9. CASE Shutdown
  <2>1. TaskTypes'
    <3>1. CASE BeginStop("conflict", FALSE) /\ UNCHANGED lastError
      BY <1>1, <1>9, <3>1, BeginStopTypes DEF Shutdown, TaskTypes, Errors
    <3>2. CASE UNCHANGED <<lifeVars, bootVars, stop, jobs>>
      BY <1>1, <1>9, <3>2 DEF Shutdown, TaskTypes, lifeVars, bootVars
    <3>3. QED
      BY <1>9, <3>1, <3>2 DEF Shutdown
  <2>2. EmuTypes'
    BY <1>1, <1>9 DEF Shutdown, EmuTypes, emuVars, connVars
  <2>3. UNCHANGED callVars /\ daemon' = "closing"
    BY <1>9 DEF Shutdown
  <2>4. TypeOK'
    BY <1>1, <2>1, <2>2, <2>3 DEF TypeOK, TaskTypes, EmuTypes, callVars
  <2>5. QED
    BY <2>3, <2>4 DEF Typed, IdleIsNone, LeasesCounted, LeaseHolders, callVars
<1>10. CASE ShutdownEnds
  <2>1. UNCHANGED callVars /\ daemon' = "down"
    BY <1>10 DEF ShutdownEnds
  <2>2. TaskTypes' /\ EmuTypes'
    BY <1>1, <1>10 DEF ShutdownEnds, TaskTypes, EmuTypes, taskVars, lifeVars,
                       bootVars, emuVars, connVars
  <2>3. TypeOK'
    BY <1>1, <2>1, <2>2 DEF TypeOK, TaskTypes, EmuTypes, callVars
  <2>4. QED
    BY <2>1, <2>3 DEF Typed, IdleIsNone, LeasesCounted, LeaseHolders, callVars
<1>11. CASE UNCHANGED vars
  <2>1. TaskTypes' /\ EmuTypes' /\ UNCHANGED <<callVars, daemon>>
    BY <1>1, <1>11 DEF vars, TaskTypes, EmuTypes, lifeVars, bootVars, emuVars, connVars
  <2>2. QED
    BY <2>1, TypedWithoutCalls
<1>12. QED
  BY <1>2, <1>3, <1>4, <1>5, <1>6, <1>7, <1>8, <1>9, <1>10, <1>11
     DEF Next, AfterShutdown

(* Every variable keeps its type; in particular self._leases never becomes
   negative. *)
THEOREM TypeCorrect == Safety => []TypeOK
<1>1. Safety => []Typed
  BY InitTyped, NextTyped, PTL DEF Safety
<1>2. Typed => TypeOK
  BY DEF Typed
<1>3. QED
  BY <1>1, <1>2, PTL

(* self._leases is the number of requests inside lease(), whichever way
   requests end: with an answer, an error, a timeout or a cancellation. *)
THEOREM LeasesBalance == Safety => []LeasesCounted
<1>1. Safety => []Typed
  BY InitTyped, NextTyped, PTL DEF Safety
<1>2. Typed => LeasesCounted
  BY DEF Typed
<1>3. QED
  BY <1>1, <1>2, PTL

-----------------------------------------------------------------------------
(* The control of the tasks. The properties NoOrphanedWaiter, TeardownAlone,
   JobsWhileRunning and ClosingOnlyStops are inductive only together with
   where a boot may be and when it is cancelled: the stop task waits for the
   boot it cancelled, and nothing else cancels a boot. *)

BootInv ==
  /\ BootActive => state \in {"starting", "stopping"}
  /\ boot.cancel => BootActive /\ state = "stopping"
  /\ BootActive /\ state = "stopping" => boot.cancel

StopInv ==
  /\ stop.pc # "none" => state = "stopping" /\ stop.fut = gen
  /\ state = "stopping" => stop.pc # "none"
  /\ stop.pc \in Teardowns => ~BootActive
  /\ boot.pc \in Teardowns => ~prev

FutureInv ==
  /\ state = "starting" => done = "pending"
  /\ done = "pending" => state \in {"starting", "stopping"}

JobsInv == (jobs => state = "running") /\ (state = "running" => jobs)

TaskInv == BootInv /\ StopInv /\ FutureInv /\ JobsInv /\ ClosingOnlyStops

JoinInv ==
  \A c \in Clients : client[c].pc = "join" => client[c].fut = gen /\ done = "pending"

(* Why a start failed. The answer is fixed when the stop begins (stop.err)
   and given when it ends, so last_error must survive the stop. *)
ErrorInv ==
  /\ lastError => state \in {"stopping", "stopped"}
  /\ done \in Errors => state = "stopped"
  /\ done \in {"boot_failed", "timeout"} => lastError
  /\ done = "conflict" => ~lastError
  /\ stop.pc # "none" /\ done = "pending" =>
       /\ stop.err \in {"boot_failed", "timeout"} => lastError
       /\ stop.err = "conflict" => ~lastError

(* How often a start has launched qemu, and who may do so. *)
BeforeLaunch == {"waitprev", "prepare", "gpu", "launch"} \cup Teardowns
QemuInv ==
  /\ launches <= IF retried THEN 2 ELSE 1
  /\ boot.pc \in BeforeLaunch => launches <= IF retried THEN 1 ELSE 0
  /\ boot.pc \in {"gpu", "launch"} => ~AvdLocked
  /\ OneQemu

Control == TaskInv /\ JoinInv /\ ErrorInv /\ QemuInv

(* BootGoes moves the boot task and keeps a pending cancel. *)
LEMMA BootGoesFields ==
  ASSUME TypeOK, NEW p, BootGoes(p)
  PROVE  boot'.pc = p /\ boot'.cancel = boot.cancel
  BY DEF TypeOK, BootGoes

(* StopGoes moves the stop task and keeps its arguments. *)
LEMMA StopGoesFields ==
  ASSUME TypeOK, NEW p, StopGoes(p)
  PROVE  stop'.pc = p /\ stop'.fut = stop.fut /\ stop'.err = stop.err
  BY DEF TypeOK, StopGoes

(* What BeginStop does to the boot: it ends, it is cancelled, or there is
   none. *)
LEMMA BeginStopBoot ==
  ASSUME TypeOK, NEW e, NEW own \in BOOLEAN, BeginStop(e, own), own => BootActive,
         ~boot.cancel
  PROVE  /\ boot'.cancel => BootActive'
         /\ BootActive' => boot'.cancel
         /\ boot'.pc = boot.pc \/ ~BootActive'
<1>1. CASE own
  BY <1>1 DEF TypeOK, BeginStop, BootActive
<1>2. CASE ~own /\ BootActive
  BY <1>2 DEF TypeOK, BeginStop, BootActive
<1>3. CASE ~own /\ ~BootActive
  BY <1>3 DEF TypeOK, BeginStop, BootActive
<1>4. QED
  BY <1>1, <1>2, <1>3

(* A stop that begins while Android starts or runs keeps the invariant. Its
   error and last_error agree. *)
LEMMA BeginStopControl ==
  ASSUME TypeOK, Control, NEW e \in Errors, NEW own \in BOOLEAN,
         state \in {"starting", "running"},
         BeginStop(e, own), own => BootActive,
         \/ lastError' = TRUE /\ e # "conflict"
         \/ lastError' = lastError /\ e \in {"conflict", "unavailable"},
         daemon' \in {daemon, "closing"},
         AvdLocked' => AvdLocked, OneQemu', UNCHANGED launches
  PROVE  TaskInv' /\ ErrorInv' /\ QemuInv'
<1> USE DEF Control
<1>1. ~boot.cancel /\ stop.pc = "none" /\ ~lastError
  BY DEF TaskInv, BootInv, StopInv, ErrorInv
<1>2. /\ boot'.cancel => BootActive'
      /\ BootActive' => boot'.cancel
      /\ boot'.pc = boot.pc \/ ~BootActive'
  BY <1>1, BeginStopBoot
<1>3. /\ state' = "stopping" /\ jobs' = FALSE
      /\ stop'.pc = "boot" /\ stop'.fut = gen /\ stop'.err = e
      /\ UNCHANGED <<gen, done, retried, prev>>
  BY DEF BeginStop
<1>4. BootInv'
  BY <1>2, <1>3 DEF BootInv
<1>5. StopInv'
  BY <1>2, <1>3 DEF StopInv, TaskInv, BootActive, Teardowns
<1>6. FutureInv' /\ JobsInv'
  BY <1>3 DEF FutureInv, JobsInv, TaskInv
<1>7. ClosingOnlyStops'
  BY <1>3 DEF ClosingOnlyStops, Closing, TaskInv
<1>8. ErrorInv'
  <2>1. done \notin Errors
    BY DEF ErrorInv
  <2>2. (e \in {"boot_failed", "timeout"} => lastError') /\ (e = "conflict" => ~lastError')
    BY <1>1
  <2>3. QED
    BY <1>3, <2>1, <2>2 DEF ErrorInv, Errors
<1>9. QemuInv'
  BY <1>2, <1>3 DEF QemuInv, BeforeLaunch, BootActive, Teardowns
<1>10. QED
  BY <1>4, <1>5, <1>6, <1>7, <1>8, <1>9 DEF TaskInv

(* Whoever waits for a start keeps waiting for the same future. *)
LEMMA JoinKept ==
  ASSUME JoinInv, UNCHANGED client,
         \/ UNCHANGED <<gen, done>>
         \/ done # "pending"
  PROVE  JoinInv'
  BY DEF JoinInv

(* A retry keeps Control. *)
LEMMA RetryControl ==
  ASSUME TypeOK, Control, Retry, ~retried, state \in {"starting", "running"},
         emu' \in Exits, UNCHANGED <<client, orphans, daemon, launches>>
  PROVE  Control'
<1> USE DEF Control
<1>1. ~boot.cancel /\ stop.pc = "none" /\ ~lastError /\ done \notin Errors /\ ~Closing
  BY DEF TaskInv, BootInv, StopInv, ErrorInv, ClosingOnlyStops
<1>2. /\ state' = "starting" /\ retried' = TRUE /\ jobs' = FALSE
      /\ boot' = [pc |-> "waitprev", cancel |-> FALSE]
      /\ stop' = stop /\ lastError' = lastError
  BY Zenon DEF Retry
<1>3. /\ \/ gen' = gen /\ done' = done
         \/ done # "pending"
      /\ done' = "pending"
  BY Zenon DEF Retry
<1>4. boot'.pc = "waitprev" /\ ~boot'.cancel
  BY <1>2
<1>5. BootInv' /\ StopInv'
  BY <1>1, <1>2, <1>4 DEF BootInv, StopInv, BootActive, Teardowns
<1>6. FutureInv' /\ JobsInv'
  BY <1>2, <1>3 DEF FutureInv, JobsInv
<1>7. ClosingOnlyStops'
  BY <1>1 DEF ClosingOnlyStops, Closing
<1>8. JoinInv'
  BY <1>3, JoinKept
<1>9. ErrorInv'
  BY <1>1, <1>2, <1>3 DEF ErrorInv, Errors
<1>10. QemuInv'
  <2>1. launches' <= 1 /\ launches \in Nat
    BY DEF QemuInv, TypeOK
  <2>2. OneQemu'
    BY DEF QemuInv, OneQemu, Living, Exits, TypeOK
  <2>3. QED
    BY <1>2, <1>4, <2>1, <2>2 DEF QemuInv
<1>11. QED
  BY <1>5, <1>6, <1>7, <1>8, <1>9, <1>10 DEF TaskInv

(* A step of the boot that is not cancelled and stays a boot. `locked' is
   what the next phase may assume of the AVD. *)
LEMMA BootGoesControl ==
  ASSUME TypeOK, Control, NEW p \in BootPcs \ {"none", "done"}, BootActive, ~boot.cancel,
         BootGoes(p), p \in Teardowns => ~prev,
         UNCHANGED <<lifeVars, prev, stop, jobs, callVars, daemon>>
  PROVE  TaskInv' /\ JoinInv' /\ ErrorInv'
<1> USE DEF Control
<1>1. boot'.pc = p /\ ~boot'.cancel /\ BootActive'
  BY BootGoesFields DEF BootActive
<1>2. state = "starting" /\ stop.pc = "none"
  BY DEF TaskInv, BootInv, StopInv
<1>3. BootInv' /\ StopInv'
  BY <1>1, <1>2 DEF BootInv, StopInv, lifeVars, Teardowns
<1>4. FutureInv' /\ JobsInv' /\ ClosingOnlyStops'
  BY DEF TaskInv, FutureInv, JobsInv, ClosingOnlyStops, Closing, lifeVars
<1>5. JoinInv'
  BY JoinKept DEF lifeVars, callVars
<1>6. ErrorInv'
  BY DEF ErrorInv, lifeVars
<1>7. QED
  BY <1>3, <1>4, <1>5, <1>6 DEF TaskInv

(* A teardown launches nothing. *)
LEMMA TeardownQemus ==
  ASSUME TypeOK, OneQemu, NEW pc, NEW pcNext, TeardownStep(pc, pcNext)
  PROVE  OneQemu'
<1>1. CASE pc = "td_emu" /\ emu' \in {emu, "gone", "none"} /\ UNCHANGED orphans
  BY <1>1 DEF OneQemu, Living, TypeOK
<1>2. CASE UNCHANGED emuVars
  BY <1>2 DEF OneQemu, Living, emuVars
<1>3. CASE emu' = "none" /\ orphans' = orphans + Living
  BY <1>3 DEF OneQemu, Living, TypeOK
<1>4. QED
  BY <1>1, <1>2, <1>3 DEF TeardownStep

(* The boot task keeps Control. *)
LEMMA BootStepControl ==
  ASSUME TypeOK, Control, BootStep
  PROVE  Control'
<1> USE DEF Control
<1>1. \A pc : BootRuns(pc) => boot.pc = pc /\ ~boot.cancel
  BY DEF BootRuns
<1>2. {"td_emu", "td_grpc", "td_xvnc", "prepare", "gpu", "launch", "connect",
       "booting", "setup"} \subseteq BootPcs \ {"none", "done"}
  BY DEF BootPcs, LaunchPhases, Teardowns
<1>3. launches \in Nat /\ orphans \in Nat /\ Living \in {0, 1}
  BY DEF TypeOK, Living
<1>4. CASE BootUnwind
  <2>1. /\ boot'.pc = "done" /\ ~boot'.cancel /\ ~BootActive'
        /\ state = "stopping"
    BY <1>4 DEF BootUnwind, BootActive, TaskInv, BootInv
  <2>2. UNCHANGED <<lifeVars, prev, stop, emuVars, jobs, client, daemon, launches>>
    BY <1>4 DEF BootUnwind, callVars
  <2>3. BootInv' /\ StopInv'
    BY <2>1, <2>2 DEF BootInv, StopInv, TaskInv, lifeVars, Teardowns
  <2>4. FutureInv' /\ JobsInv' /\ ClosingOnlyStops'
    BY <2>2 DEF TaskInv, FutureInv, JobsInv, ClosingOnlyStops, Closing, lifeVars
  <2>5. JoinInv' /\ ErrorInv'
    BY <2>2, JoinKept DEF ErrorInv, lifeVars
  <2>6. QemuInv'
    BY <2>1, <2>2 DEF QemuInv, OneQemu, Living, BeforeLaunch, Teardowns, lifeVars, emuVars
  <2>7. QED
    BY <2>3, <2>4, <2>5, <2>6 DEF TaskInv
<1>5. CASE BootAwaitPrevious
  <2>1. boot.pc = "waitprev" /\ ~boot.cancel /\ BootActive /\ boot'.pc = "td_emu"
    BY <1>1, <1>5, BootGoesFields DEF BootAwaitPrevious, BootActive
  <2>2. TaskInv' /\ JoinInv' /\ ErrorInv'
    BY <1>2, <1>5, <2>1, BootGoesControl DEF BootAwaitPrevious
  <2>3. QemuInv'
    BY <1>5, <2>1 DEF BootAwaitPrevious, QemuInv, OneQemu, Living, BeforeLaunch,
                      Teardowns, lifeVars, emuVars
  <2>4. QED
    BY <2>2, <2>3
<1>6. CASE BootTeardown
  <2>1. PICK pc \in Teardowns, next \in Teardowns \cup {"end"} :
          /\ BootRuns(pc)
          /\ TeardownStep(pc, next)
          /\ BootGoes(IF next = "end" THEN "prepare" ELSE next)
          /\ UNCHANGED <<lifeVars, prev, stop, jobs, callVars, daemon, launches>>
    BY <1>6 DEF BootTeardown
  <2>2. /\ boot.pc \in Teardowns /\ ~boot.cancel /\ BootActive /\ ~prev
        /\ boot'.pc \in Teardowns \cup {"prepare"}
    BY <1>1, <2>1, BootGoesFields DEF BootActive, Teardowns, TaskInv, StopInv
  <2>3. TaskInv' /\ JoinInv' /\ ErrorInv'
    <3> DEFINE p == IF next = "end" THEN "prepare" ELSE next
    <3>1. p \in BootPcs \ {"none", "done"} /\ BootGoes(p)
      BY <1>2, <2>1 DEF Teardowns
    <3>2. QED
      BY <2>1, <2>2, <3>1, BootGoesControl
  <2>4. OneQemu'
    BY <2>1, TeardownQemus DEF QemuInv
  <2>5. QemuInv'
    BY <2>1, <2>2, <2>4 DEF QemuInv, BeforeLaunch, Teardowns, lifeVars
  <2>6. QED
    BY <2>3, <2>5
<1>7. CASE BootPrepare \/ BootGpu
  <2>1. /\ boot.pc \in {"prepare", "gpu"} /\ ~boot.cancel /\ BootActive
        /\ ~AvdLocked
        /\ UNCHANGED <<lifeVars, prev, stop, emuVars, jobs, callVars, daemon, launches>>
    BY <1>1, <1>7 DEF BootPrepare, BootGpu, BootActive, QemuInv
  <2>2. PICK p \in {"gpu", "launch"} : BootGoes(p)
    BY <1>7 DEF BootPrepare, BootGpu
  <2>3. TaskInv' /\ JoinInv' /\ ErrorInv' /\ boot'.pc = p
    BY <1>2, <2>1, <2>2, BootGoesControl, BootGoesFields DEF Teardowns
  <2>4. QemuInv'
    BY <2>1, <2>3 DEF QemuInv, OneQemu, Living, AvdLocked, BeforeLaunch, lifeVars, emuVars
  <2>5. QED
    BY <2>3, <2>4
<1>8. CASE BootLaunch
  <2>1. /\ boot.pc = "launch" /\ ~boot.cancel /\ BootActive /\ BootGoes("connect")
        /\ emu' = "live" /\ orphans' = orphans + Living /\ launches' = launches + 1
        /\ UNCHANGED <<lifeVars, prev, stop, jobs, callVars, daemon>>
    BY <1>1, <1>8 DEF BootLaunch, BootActive
  <2>2. TaskInv' /\ JoinInv' /\ ErrorInv' /\ boot'.pc = "connect"
    BY <1>2, <2>1, BootGoesControl, BootGoesFields DEF Teardowns
  <2>3. orphans = 0 /\ Living = 0 /\ Living' = 1
    BY <1>3, <2>1 DEF QemuInv, AvdLocked, Living
  <2>4. launches <= IF retried THEN 1 ELSE 0
    BY <2>1 DEF QemuInv, BeforeLaunch
  <2>5. QemuInv'
    BY <1>3, <2>1, <2>2, <2>3, <2>4
       DEF QemuInv, OneQemu, BeforeLaunch, Teardowns, lifeVars
  <2>6. QED
    BY <2>2, <2>5
<1>9. CASE BootConnect \/ BootCompleted
  <2>1. /\ ~boot.cancel /\ BootActive
        /\ UNCHANGED <<lifeVars, prev, stop, emuVars, jobs, callVars, daemon, launches>>
    BY <1>1, <1>9 DEF BootConnect, BootCompleted, BootActive
  <2>2. PICK p \in {"booting", "setup"} : BootGoes(p)
    BY <1>9 DEF BootConnect, BootCompleted
  <2>3. TaskInv' /\ JoinInv' /\ ErrorInv' /\ boot'.pc = p
    BY <1>2, <2>1, <2>2, BootGoesControl, BootGoesFields DEF Teardowns
  <2>4. QemuInv'
    BY <2>1, <2>3 DEF QemuInv, OneQemu, Living, BeforeLaunch, Teardowns, lifeVars, emuVars
  <2>5. QED
    BY <2>3, <2>4
<1>10. CASE BootSucceeds
  <2>1. /\ boot.pc = "setup" /\ ~boot.cancel /\ boot'.pc = "done" /\ ~boot'.cancel
        /\ state = "starting" /\ stop.pc = "none" /\ done = "pending" /\ ~Closing
    BY <1>1, <1>10, BootGoesFields
       DEF BootSucceeds, BootActive, TaskInv, BootInv, StopInv, FutureInv,
           ClosingOnlyStops
  <2>2. /\ state' = "running" /\ jobs' = TRUE
        /\ UNCHANGED <<gen, retried, lastError, prev, stop, emuVars, daemon, launches>>
    BY <1>10 DEF BootSucceeds
  <2>3. done' = "ok" /\ \A c \in Clients : client'[c].pc # "join"
    <3>1. \A c \in Clients : client[c].pc = "join" => client[c].fut = gen
      BY DEF JoinInv
    <3>2. \A c \in Clients : client[c] \in ClientRecords
      BY DEF TypeOK
    <3>3. QED
      BY <1>10, <2>1, <3>1, <3>2 DEF BootSucceeds, Resolve, ClientRecords
  <2>4. TaskInv'
    BY <2>1, <2>2, <2>3 DEF TaskInv, BootInv, StopInv, FutureInv, JobsInv,
                            ClosingOnlyStops, Closing, BootActive, Teardowns
  <2>5. JoinInv'
    BY <2>3 DEF JoinInv
  <2>6. ErrorInv'
    BY <2>1, <2>2, <2>3 DEF ErrorInv, Errors
  <2>7. QemuInv'
    BY <2>1, <2>2 DEF QemuInv, OneQemu, Living, BeforeLaunch, Teardowns, emuVars
  <2>8. QED
    BY <2>4, <2>5, <2>6, <2>7
<1>11. CASE BootFails \/ BootError
  <2>1. /\ boot.pc \in LaunchPhases /\ ~boot.cancel /\ BootActive /\ state = "starting"
        /\ stop.pc = "none"
    BY <1>1, <1>11 DEF BootFails, BootError, LaunchPhases, BootActive, TaskInv, BootInv,
                       StopInv
  <2>2. UNCHANGED <<emuVars, connVars, callVars, daemon, launches>>
    BY <1>11 DEF BootFails, BootError
  <2>3. CASE BootGoes("done") /\ UNCHANGED <<lifeVars, prev, stop, jobs>>
    <3>1. boot'.pc = "done" /\ ~boot'.cancel
      BY <2>1, <2>3, BootGoesFields
    <3>2. BootInv' /\ StopInv'
      BY <2>1, <2>3, <3>1 DEF BootInv, StopInv, TaskInv, BootActive, Teardowns, lifeVars
    <3>3. FutureInv' /\ JobsInv' /\ ClosingOnlyStops'
      BY <2>2, <2>3 DEF TaskInv, FutureInv, JobsInv, ClosingOnlyStops, Closing, lifeVars
    <3>4. JoinInv' /\ ErrorInv'
      BY <2>2, <2>3, JoinKept DEF ErrorInv, lifeVars, callVars
    <3>5. QemuInv'
      BY <2>2, <2>3, <3>1 DEF QemuInv, OneQemu, Living, BeforeLaunch, Teardowns,
                              lifeVars, emuVars
    <3>6. QED
      BY <3>2, <3>3, <3>4, <3>5 DEF TaskInv
  <2>4. ASSUME NEW e \in {"boot_failed", "timeout"}, Fail(e, TRUE)
        PROVE  Control'
    <3>1. BeginStop(e, TRUE) /\ lastError' = TRUE /\ e \in Errors /\ e # "conflict"
      BY <2>4 DEF Fail, Errors
    <3>2. UNCHANGED <<launches, client, gen, done>> /\ daemon' = daemon
      BY <2>2, <3>1 DEF callVars, BeginStop
    <3>3. (AvdLocked' => AvdLocked) /\ OneQemu'
      BY <2>2 DEF QemuInv, AvdLocked, OneQemu, Living, emuVars
    <3>4. TaskInv' /\ ErrorInv' /\ QemuInv'
      BY <2>1, <3>1, <3>2, <3>3, BeginStopControl
    <3>5. QED
      BY <3>2, <3>4, JoinKept
  <2>5. QED
    BY <1>11, <2>3, <2>4 DEF BootFails, BootError
<1>12. QED
  BY <1>4, <1>5, <1>6, <1>7, <1>8, <1>9, <1>10, <1>11 DEF BootStep

(* The end of a stop: the start that it ended, if any, is answered. *)
LEMMA StopEndsControl ==
  ASSUME TypeOK, Control, stop.pc # "none", ~BootActive, StopEnds, OneQemu'
  PROVE  Control'
<1> USE DEF Control
<1>1. state = "stopping" /\ stop.fut = gen /\ ~boot.cancel /\ done \notin Errors
  BY DEF TaskInv, StopInv, BootInv, ErrorInv
<1>2. /\ state' = "stopped" /\ stop'.pc = "none"
      /\ UNCHANGED <<gen, retried, lastError, boot, prev, jobs, daemon, launches>>
  BY DEF StopEnds, NoStop, bootVars
<1>3. /\ done = "pending" => done' = stop.err
      /\ done # "pending" => done' = done
      /\ \A c \in Clients : client'[c].pc # "join"
  <2>1. \A c \in Clients : client[c].pc = "join" => client[c].fut = gen /\ done = "pending"
    BY DEF JoinInv
  <2>2. \A c \in Clients : client[c] \in ClientRecords
    BY DEF TypeOK
  <2>3. CASE done = "pending"
    <3>1. \A c \in Clients : client'[c].pc # "join"
      BY <1>1, <2>1, <2>2, <2>3 DEF StopEnds, Resolve, ClientRecords
    <3>2. QED
      BY <1>1, <2>3, <3>1 DEF StopEnds, Resolve
  <2>4. CASE done # "pending"
    BY <2>1, <2>4 DEF StopEnds, Resolve
  <2>5. QED
    BY <2>3, <2>4
<1>4. stop.err \in Errors
  BY DEF TypeOK
<1>5. TaskInv'
  BY <1>1, <1>2, <1>3, <1>4
     DEF TaskInv, BootInv, StopInv, FutureInv, JobsInv, ClosingOnlyStops, Closing,
         BootActive, Teardowns, Errors
<1>6. JoinInv'
  BY <1>3 DEF JoinInv
<1>7. ErrorInv'
  BY <1>1, <1>2, <1>3, <1>4 DEF ErrorInv, Errors
<1>8. QemuInv'
  BY <1>2 DEF QemuInv, BootActive, BeforeLaunch, Teardowns
<1>9. QED
  BY <1>5, <1>6, <1>7, <1>8

(* The stop task keeps Control. *)
LEMMA StopStepControl ==
  ASSUME TypeOK, Control, StopStep
  PROVE  Control'
<1> USE DEF Control
<1>1. CASE StopAwaitBoot \/ StopTeardown
  <2>1. PICK p \in Teardowns : StopGoes(p)
    BY <1>1 DEF StopAwaitBoot, StopTeardown, Teardowns
  <2>2. /\ stop.pc # "none" /\ ~BootActive
        /\ UNCHANGED <<lifeVars, bootVars, jobs, callVars, daemon, launches>>
    BY <1>1 DEF StopAwaitBoot, StopTeardown, TaskInv, StopInv, Teardowns
  <2>3. stop'.pc = p /\ stop'.fut = stop.fut /\ stop'.err = stop.err
    BY <2>1, StopGoesFields
  <2>4. TaskInv'
    BY <2>2, <2>3 DEF TaskInv, BootInv, StopInv, FutureInv, JobsInv, ClosingOnlyStops,
                      Closing, BootActive, Teardowns, lifeVars, bootVars
  <2>5. JoinInv'
    BY <2>2, JoinKept DEF lifeVars, callVars
  <2>6. ErrorInv'
    BY <2>2, <2>3 DEF ErrorInv, lifeVars
  <2>7. OneQemu'
    <3>1. CASE StopAwaitBoot
      BY <3>1 DEF StopAwaitBoot, QemuInv, OneQemu, Living, emuVars
    <3>2. CASE StopTeardown
      BY <3>2, TeardownQemus DEF StopTeardown, QemuInv
    <3>3. QED
      BY <1>1, <3>1, <3>2
  <2>8. QemuInv'
    BY <2>2, <2>7 DEF QemuInv, BootActive, BeforeLaunch, Teardowns, lifeVars, bootVars
  <2>9. QED
    BY <2>4, <2>5, <2>6, <2>8
<1>2. CASE StopFinish \/ StopFault
  <2>1. stop.pc # "none" /\ ~BootActive /\ StopEnds
    BY <1>2 DEF StopFinish, StopFault, TaskInv, StopInv, Teardowns
  <2>2. OneQemu'
    <3>1. CASE StopFinish
      BY <3>1, TeardownQemus DEF StopFinish, QemuInv
    <3>2. CASE StopFault
      BY <3>2 DEF StopFault, QemuInv, OneQemu, Living, emuVars
    <3>3. QED
      BY <1>2, <3>1, <3>2
  <2>3. QED
    BY <2>1, <2>2, StopEndsControl
<1>3. QED
  BY <1>1, <1>2 DEF StopStep

(* The watcher keeps Control. *)
LEMMA WatchControl ==
  ASSUME TypeOK, Control, Watch
  PROVE  Control'
<1> USE DEF Control
<1>1. /\ emu \in Exits /\ emu' = "gone"
      /\ UNCHANGED <<orphans, client, daemon, launches>>
  BY DEF Watch, Exited, callVars
<1>2. emu' \in Exits /\ OneQemu' /\ (AvdLocked' => AvdLocked)
  BY <1>1 DEF QemuInv, OneQemu, Living, Exits, AvdLocked, TypeOK
<1>3. CASE state \in {"starting", "running"} /\ Retry /\ ~retried
  BY <1>1, <1>2, <1>3, RetryControl
<1>4. ASSUME NEW e \in Errors, state \in {"starting", "running"}, BeginStop(e, FALSE),
             \/ lastError' = TRUE /\ e # "conflict"
             \/ lastError' = lastError /\ e \in {"conflict", "unavailable"}
      PROVE  Control'
  <2>1. TaskInv' /\ ErrorInv' /\ QemuInv'
    BY <1>1, <1>2, <1>4, BeginStopControl
  <2>2. JoinInv'
    BY <1>1, <1>4, JoinKept DEF BeginStop
  <2>3. QED
    BY <2>1, <2>2
<1>5. CASE UNCHANGED <<lifeVars, bootVars, stop, jobs>>
  <2>1. TaskInv' /\ ErrorInv'
    BY <1>1, <1>5 DEF TaskInv, BootInv, StopInv, FutureInv, JobsInv, ClosingOnlyStops,
                      Closing, BootActive, ErrorInv, lifeVars, bootVars
  <2>2. JoinInv'
    BY <1>1, <1>5, JoinKept DEF lifeVars
  <2>3. QemuInv'
    BY <1>1, <1>2, <1>5 DEF QemuInv, lifeVars, bootVars
  <2>4. QED
    BY <2>1, <2>2, <2>3
<1>6. CASE state \in {"starting", "running"} /\ HandleExit
  <2>1. CASE Fail("boot_failed", FALSE)
    BY <1>4, <1>6, <2>1 DEF Fail, Errors
  <2>2. CASE BeginStop("conflict", FALSE) /\ UNCHANGED lastError
    BY <1>4, <1>6, <2>2 DEF Errors
  <2>3. QED
    BY <1>3, <1>6, <2>1, <2>2 DEF HandleExit
<1>7. CASE state \in {"starting", "running"} /\ HandlerRaises
  BY <1>4, <1>7 DEF HandlerRaises, Errors
<1>8. QED
  BY <1>5, <1>6, <1>7 DEF Watch

(* A client keeps Control. *)
LEMMA ClientControl ==
  ASSUME Typed, Control, NEW c \in Clients, ClientStep(c)
  PROVE  Control'
<1> USE DEF Control, Typed
<1>1. ClientEffect(c)
  BY ClientEffects
<1>2. UNCHANGED <<emu, orphans, daemon>>
  BY <1>1 DEF ClientEffect, envVars, emuVars
<1>3. (AvdLocked' => AvdLocked) /\ OneQemu'
  BY <1>2 DEF QemuInv, AvdLocked, OneQemu, Living
<1>4. /\ TaskInv' /\ ErrorInv' /\ QemuInv'
      /\ UNCHANGED <<gen, done>> \/ done # "pending"
  <2>1. CASE UNCHANGED taskVars
    BY <1>2, <1>3, <2>1
       DEF TaskInv, BootInv, StopInv, FutureInv, JobsInv, ClosingOnlyStops, Closing,
           BootActive, ErrorInv, QemuInv, taskVars, lifeVars, bootVars
  <2>2. CASE ~Closing /\ state = "stopped" /\ BeginBoot /\ UNCHANGED <<prev, stop, jobs>>
    <3>1. stop.pc = "none" /\ done # "pending"
      BY <2>2 DEF TaskInv, StopInv, FutureInv
    <3>2. /\ state' = "starting" /\ done' = "pending"
          /\ ~lastError' /\ launches' = 0
          /\ boot'.pc = "prepare" /\ ~boot'.cancel
      BY <2>2 DEF BeginBoot
    <3>3. TaskInv'
      BY <1>2, <2>2, <3>1, <3>2
         DEF TaskInv, BootInv, StopInv, FutureInv, JobsInv, ClosingOnlyStops, Closing,
             BootActive, Teardowns
    <3>4. ErrorInv'
      BY <2>2, <3>1, <3>2 DEF ErrorInv, Errors
    <3>5. QemuInv'
      BY <1>3, <3>2 DEF QemuInv
    <3>6. QED
      BY <3>1, <3>3, <3>4, <3>5
  <2>3. CASE /\ state \in {"starting", "running"}
             /\ BeginStop("conflict", FALSE)
             /\ UNCHANGED <<lastError, launches>>
    <3>1. TaskInv' /\ ErrorInv' /\ QemuInv'
      BY <1>2, <1>3, <2>3, BeginStopControl DEF Errors
    <3>2. QED
      BY <2>3, <3>1 DEF BeginStop
  <2>4. QED
    BY <1>1, <2>1, <2>2, <2>3 DEF ClientEffect, ClientTasks
<1>5. JoinInv'
  <2>1. PICK r \in ClientRecords : Becomes(c, r)
    BY <1>1 DEF ClientEffect
  <2>2. /\ client'[c] = r
        /\ \A d \in Clients \ {c} : client'[d] = client[d]
    BY <2>1 DEF Becomes, TypeOK
  <2>3. r.pc = "join" => r.fut = gen' /\ done' = "pending"
    BY <1>4, <2>1 DEF Becomes, TaskInv, FutureInv
  <2>4. QED
    BY <1>4, <2>2, <2>3 DEF JoinInv
<1>6. QED
  BY <1>4, <1>5

(* Control holds initially. *)
LEMMA InitControl == Init => Control
<1> SUFFICES ASSUME Init PROVE Control
  OBVIOUS
<1>1. /\ state = "stopped" /\ done = "none" /\ daemon = "up"
      /\ boot.pc = "none" /\ stop.pc = "none"
      /\ emu = "none" /\ orphans = 0 /\ launches = 0
      /\ \A c \in Clients : client[c].pc = "idle"
  BY DEF Init, NoStop, IdleClient
<1>2. ~boot.cancel /\ ~prev /\ ~jobs /\ ~lastError /\ ~retried
  BY DEF Init
<1>3. TaskInv
  BY <1>1, <1>2 DEF TaskInv, BootInv, StopInv, FutureInv, JobsInv, ClosingOnlyStops,
                    Closing, BootActive, Teardowns
<1>4. JoinInv /\ ErrorInv
  BY <1>1, <1>2 DEF JoinInv, ErrorInv, Errors
<1>5. QemuInv
  BY <1>1, <1>2 DEF QemuInv, OneQemu, Living, BeforeLaunch, Teardowns
<1>6. QED
  BY <1>3, <1>4, <1>5 DEF Control

(* Every step keeps Control. *)
LEMMA NextControl == Typed /\ Control /\ [Next]_vars => Control'
<1> SUFFICES ASSUME Typed, Control, [Next]_vars
             PROVE  Control'
  OBVIOUS
<1> USE DEF Control
<1>1. TypeOK
  BY DEF Typed
<1>2. CASE BootStep
  BY <1>1, <1>2, BootStepControl
<1>3. CASE PreviousUnwind
  <2>1. ~prev' /\ UNCHANGED <<lifeVars, boot, stop, emuVars, jobs, client, daemon, launches>>
    BY <1>3 DEF PreviousUnwind, callVars
  <2>2. TaskInv' /\ ErrorInv'
    BY <2>1 DEF TaskInv, BootInv, StopInv, FutureInv, JobsInv, ClosingOnlyStops,
                Closing, BootActive, ErrorInv, lifeVars
  <2>3. JoinInv'
    BY <2>1, JoinKept DEF lifeVars
  <2>4. QemuInv'
    BY <2>1 DEF QemuInv, OneQemu, Living, AvdLocked, lifeVars, emuVars
  <2>5. QED
    BY <2>2, <2>3, <2>4
<1>4. CASE StopStep
  BY <1>1, <1>4, StopStepControl
<1>5. CASE EmuExits \/ OrphanExits \/ LogReadFails \/ ShutdownEnds \/ UNCHANGED vars
  <2>1. UNCHANGED <<lifeVars, bootVars, stop, jobs, client, launches>>
    BY <1>5 DEF EmuExits, OrphanExits, LogReadFails, ShutdownEnds, vars, taskVars,
                callVars
  <2>2. /\ daemon' = "down" => daemon = "down" \/ stop.pc = "none"
        /\ daemon' # "up" => daemon # "up"
    BY <1>5 DEF EmuExits, OrphanExits, LogReadFails, ShutdownEnds, vars
  <2>3. OneQemu' /\ (AvdLocked' => AvdLocked)
    <3>1. CASE EmuExits
      BY <1>1, <3>1 DEF EmuExits, QemuInv, OneQemu, Living, AvdLocked, TypeOK
    <3>2. CASE OrphanExits
      BY <1>1, <3>2 DEF OrphanExits, QemuInv, OneQemu, Living, AvdLocked, TypeOK
    <3>3. CASE UNCHANGED <<emu, orphans>>
      BY <3>3 DEF QemuInv, OneQemu, Living, AvdLocked
    <3>4. QED
      BY <1>5, <3>1, <3>2, <3>3 DEF LogReadFails, ShutdownEnds, vars, emuVars
  <2>4. TaskInv' /\ ErrorInv'
    BY <2>1, <2>2 DEF TaskInv, BootInv, StopInv, FutureInv, JobsInv, ClosingOnlyStops,
                      Closing, BootActive, ErrorInv, lifeVars, bootVars
  <2>5. JoinInv'
    BY <2>1, JoinKept DEF lifeVars
  <2>6. QemuInv'
    BY <2>1, <2>3 DEF QemuInv, lifeVars, bootVars
  <2>7. QED
    BY <2>4, <2>5, <2>6
<1>6. CASE Watch
  BY <1>1, <1>6, WatchControl
<1>7. CASE IdleCheck \/ Shutdown
  <2>1. UNCHANGED <<emu, orphans, client, launches>> /\ daemon' \in {daemon, "closing"}
    BY <1>7 DEF IdleCheck, Shutdown, emuVars, callVars
  <2>2. OneQemu' /\ (AvdLocked' => AvdLocked)
    BY <2>1 DEF QemuInv, OneQemu, Living, AvdLocked
  <2>3. CASE /\ state \in {"starting", "running"}
             /\ BeginStop("conflict", FALSE) /\ UNCHANGED lastError
    <3>1. TaskInv' /\ ErrorInv' /\ QemuInv'
      BY <1>1, <2>1, <2>2, <2>3, BeginStopControl DEF Errors
    <3>2. JoinInv'
      BY <2>1, <2>3, JoinKept DEF BeginStop
    <3>3. QED
      BY <3>1, <3>2
  <2>4. CASE /\ Shutdown /\ state \notin {"starting", "running"}
             /\ UNCHANGED <<lifeVars, bootVars, stop, jobs>>
    <3>1. state \in {"stopped", "stopping"} /\ daemon' = "closing"
      BY <1>1, <2>4 DEF Shutdown, TypeOK, States
    <3>2. TaskInv' /\ ErrorInv'
      BY <2>4, <3>1 DEF TaskInv, BootInv, StopInv, FutureInv, JobsInv, ClosingOnlyStops,
                        BootActive, ErrorInv, lifeVars, bootVars
    <3>3. JoinInv'
      BY <2>1, <2>4, JoinKept DEF lifeVars
    <3>4. QemuInv'
      BY <2>1, <2>2, <2>4 DEF QemuInv, lifeVars, bootVars
    <3>5. QED
      BY <3>2, <3>3, <3>4
  <2>5. QED
    BY <1>7, <2>3, <2>4 DEF IdleCheck, Shutdown
<1>8. CASE \E c \in Clients : ClientStep(c)
  BY <1>8, ClientControl
<1>9. QED
  BY <1>2, <1>3, <1>4, <1>5, <1>6, <1>7, <1>8 DEF Next, AfterShutdown

(* Typed and Control are invariants. *)
LEMMA ControlHolds == Safety => [](Typed /\ Control)
<1>1. Safety => []Typed
  BY InitTyped, NextTyped, PTL DEF Safety
<1>2. QED
  BY <1>1, InitControl, NextControl, PTL DEF Safety

(* No caller is left waiting for a future that nobody will resolve: it is
   the current one, pending, with a boot or a stop in progress. *)
THEOREM WaitersAreServed == Safety => []NoOrphanedWaiter
<1>1. Control => NoOrphanedWaiter
  BY DEF Control, TaskInv, JoinInv, FutureInv, StopInv, NoOrphanedWaiter
<1>2. QED
  BY <1>1, ControlHolds, PTL

(* Boots and stops never tear down or launch at the same time. *)
THEOREM TeardownsExclude == Safety => []TeardownAlone
<1>1. Control => TeardownAlone
  BY DEF Control, TaskInv, StopInv, TeardownAlone
<1>2. QED
  BY <1>1, ControlHolds, PTL

(* At most one qemu runs on the AVD, whatever outlives SIGKILL and whichever
   stop is given up. *)
THEOREM OneQemuAlways == Safety => []OneQemu
<1>1. Control => OneQemu
  BY DEF Control, QemuInv
<1>2. QED
  BY <1>1, ControlHolds, PTL

(* However often qemu crashes, a start launches it at most twice. *)
THEOREM CrashNeverLoops == Safety => []OneRetryPerStart
<1>1. Typed /\ Control => OneRetryPerStart
  BY DEF Typed, TypeOK, Control, QemuInv, OneRetryPerStart
<1>2. QED
  BY <1>1, ControlHolds, PTL

(* The periodic jobs run exactly while Android runs. *)
THEOREM JobsFollowState == Safety => []JobsWhileRunning
<1>1. Typed /\ Control => JobsWhileRunning
  BY DEF Typed, TypeOK, Control, TaskInv, JobsInv, JobsWhileRunning
<1>2. QED
  BY <1>1, ControlHolds, PTL

(* last_error and the answer to the callers always agree. *)
THEOREM FailuresReported == Safety => []FailureIsReported
<1>1. Control => FailureIsReported
  BY DEF Control, ErrorInv, FailureIsReported
<1>2. QED
  BY <1>1, ControlHolds, PTL

(* After shutdown() began Android only stops. *)
THEOREM ShutdownIsFinal == Safety => []ClosingOnlyStops
<1>1. Control => ClosingOnlyStops
  BY DEF Control, TaskInv
<1>2. QED
  BY <1>1, ControlHolds, PTL
=============================================================================
