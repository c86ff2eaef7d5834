--------------------------- MODULE FirstBootProofs ---------------------------
(***************************************************************************)
(* The daemon never deletes data of the user, for any number of AVD names, *)
(* of boots and of restarts, as long as a full disk is the only fault or   *)
(* the disk takes every write. Where nothing goes wrong but stopped and    *)
(* crashed boots, it recognises every first boot that did not complete.    *)
(***************************************************************************)
EXTENDS FirstBoot, TLAPS

(* No record claims an AVD whose data is the user's. *)
Safe(r) == \A n \in Names : Recorded(r, n) => dir[n].data # "user"

(* Ids are drawn in order, and no record names a foreign marker. *)
IdsInv ==
  /\ ids >= Foreign
  /\ \A n \in Names : dir[n].marker <= ids
  /\ file.marker <= ids /\ file.marker # Foreign
  /\ mem.marker <= ids /\ mem.marker # Foreign

PcInv ==
  /\ pc = "delete" => dir[cfg].data # "user"
  /\ pc = "create" => ~dir[cfg].config
  /\ pc = "mark" => dir[cfg].data = "none" /\ dir[cfg].config
  /\ pc \in {"record", "unmark"} => mem.booted
  /\ pc \notin {"down", "stopped", "delete", "create", "mark"} => mem.name = cfg

(* A disk that takes every write: the record is on it before qemu runs. *)
SavedInv ==
  "disk" \notin env /\ pc \in {"launch", "boot", "unmark"} => file = mem

(* A disk that is full, and no other fault: state.json may be behind, but
   what it claims is what the daemon that read it has not changed since. A
   marker that stays behind without config.ini would break that. *)
BehindInv ==
  "disk" \in env =>
    /\ pc \notin {"down", "record", "unmark"} /\ Recorded(file, cfg) => mem = file
    /\ \A n \in Names : ~dir[n].config /\ dir[n].marker # NoMarker
                          => pc = "delete" /\ n = cfg

(* A failed save leaves such a claim until the marker is removed, the very
   next operation. *)
FileInv ==
  \A n \in Names : Recorded(file, n) /\ dir[n].data = "user"
                    => pc = "unmark" /\ n = cfg /\ "disk" \in env

Inv == TypeOK /\ IdsInv /\ Safe(mem) /\ FileInv /\ PcInv /\ SavedInv /\ BehindInv

(* The directories that the actions write are directories. *)
LEMMA DirValues ==
  /\ {Empty, UserAvd, UserFiles} \subseteq Dirs
  /\ \A m \in {NoMarker, Foreign} : [config |-> TRUE, marker |-> m, data |-> "user"] \in Dirs
<1>1. Empty \in Dirs
  BY DEF Dirs, Empty, NoMarker
<1>2. UserAvd \in Dirs
  BY DEF Dirs, UserAvd, NoMarker
<1>3. UserFiles \in Dirs
  BY DEF Dirs, UserFiles, NoMarker
<1>4. \A m \in {NoMarker, Foreign} : [config |-> TRUE, marker |-> m, data |-> "user"] \in Dirs
  BY DEF Dirs, NoMarker, Foreign
<1>5. QED
  BY <1>1, <1>2, <1>3, <1>4

(* Inv holds before the daemon starts. *)
LEMMA InitInv == Init => Inv
<1> SUFFICES ASSUME Init PROVE Inv
  OBVIOUS
<1>1. TypeOK
  <2>1. {Empty, UserAvd, UserFiles} \subseteq Dirs
    BY DirValues
  <2>2. NoRecord \in Records
    BY DEF Records, NoRecord, NoMarker
  <2>3. QED
    BY <2>1, <2>2 DEF Init, TypeOK, Foreign
<1>2. \A n \in Names : dir[n].marker = NoMarker
  <2>1. \A d \in {Empty, UserAvd, UserFiles} : d.marker = NoMarker
    BY DEF Empty, UserAvd, UserFiles
  <2>2. QED
    BY <2>1 DEF Init
<1>3. IdsInv
  BY <1>2 DEF Init, IdsInv, NoRecord, NoMarker, Foreign
<1>4. Safe(mem) /\ Safe(file)
  BY DEF Init, Safe, Recorded, NoRecord
<1>5. PcInv /\ SavedInv
  BY DEF Init, PcInv, SavedInv
<1>6. BehindInv
  BY <1>2 DEF Init, BehindInv
<1>7. QED
  BY <1>1, <1>3, <1>4, <1>5, <1>6 DEF Inv, FileInv, Safe

(* A disk that fills up while other faults are possible is left out: see the
   end of section 4 of the README. A change of the name is no fault. *)
OneFault == "disk" \in env => env \subseteq {"disk", "rename"}

(* Every step keeps the types. *)
LEMMA NextTypeOK == TypeOK /\ [Next]_vars => TypeOK'
<1> SUFFICES ASSUME TypeOK, [Next]_vars, env' = env PROVE TypeOK'
  BY DEF Next, vars
<1> USE DEF TypeOK
<1>1. NoRecord \in Records
  BY DEF NoRecord, Records, NoMarker
<1>2. CASE SaveAgain \/ DaemonStarts \/ DaemonDies
  BY <1>1, <1>2 DEF SaveAgain, DaemonStarts, DaemonDies, Calm, Busy
<1>3. CASE Prepare
  <2>1. [name |-> cfg, created |-> FALSE, booted |-> TRUE, marker |-> NoMarker] \in Records
    BY DEF Records, NoMarker
  <2>2. QED
    BY <1>3, <2>1 DEF Prepare, Busy
<1>4. CASE DeleteStep \/ DeleteEnds \/ DeleteFails
  <2>1. CASE DeleteStep
    <3>1. CASE dir' = [dir EXCEPT ![cfg].config = FALSE]
      BY <2>1, <3>1 DEF DeleteStep, Dirs
    <3>2. CASE dir' = [dir EXCEPT ![cfg].marker = NoMarker]
      BY <2>1, <3>2 DEF DeleteStep, Dirs, NoMarker
    <3>3. CASE dir' = [dir EXCEPT ![cfg].data = "none"]
      BY <2>1, <3>3 DEF DeleteStep, Dirs
    <3>4. QED
      BY <2>1, <3>1, <3>2, <3>3 DEF DeleteStep
  <2>2. CASE DeleteEnds \/ DeleteFails
    BY <2>2 DEF DeleteEnds, DeleteFails, Calm, Busy
  <2>3. QED
    BY <1>4, <2>1, <2>2
<1>5. CASE CreateConfig
  <2>1. [name |-> cfg, created |-> FALSE, booted |-> FALSE, marker |-> NoMarker] \in Records
    BY DEF Records, NoMarker
  <2>2. QED
    BY <1>5, <2>1 DEF CreateConfig, Dirs, Busy
<1>6. CASE CreateMarker
  <2>1. ids' \in Nat
    BY <1>6 DEF CreateMarker
  <2>2. mem' \in Records
    BY <1>6, <2>1 DEF CreateMarker, Records
  <2>3. QED
    BY <1>6, <2>1, <2>2 DEF CreateMarker, Dirs, Busy
<1>7. CASE CreateFails
  BY <1>7 DEF CreateFails, Dirs, Foreign, Calm
<1>8. CASE SaveRecord \/ Launch \/ BootStops
  BY <1>8 DEF SaveRecord, Save, Launch, BootStops, Dirs, Calm
<1>9. CASE BootCompleted
  <2>1. [mem EXCEPT !.booted = TRUE, !.marker = NoMarker] \in Records
    BY DEF Records, NoMarker
  <2>2. QED
    BY <1>9, <2>1 DEF BootCompleted, Completes, Dirs, Calm, Busy
<1>10. CASE RecordBooted \/ RemoveMarker
  BY <1>10 DEF RecordBooted, Save, RemoveMarker, Completes, Dirs, NoMarker, Calm, Busy
<1>11. CASE \E n \in Names : UserReplaces(n) \/ UserRemoves(n)
  <2>1. PICK n \in Names, d \in Dirs : dir' = [dir EXCEPT ![n] = d]
    BY <1>11, DirValues DEF UserReplaces, UserRemoves
  <2>2. UNCHANGED <<file, mem, cfg, pc, ids>>
    BY <1>11 DEF UserReplaces, UserRemoves
  <2>3. QED
    BY <2>1, <2>2
<1>12. CASE UNCHANGED vars
  BY <1>12 DEF vars
<1>13. QED
  BY <1>2, <1>3, <1>4, <1>5, <1>6, <1>7, <1>8, <1>9, <1>10, <1>11, <1>12 DEF Next, Step

(* Steps of the daemon that leave the directories alone. *)
LEMMA RecordSteps ==
  ASSUME Inv, OneFault, UNCHANGED dir, env' = env,
         SaveAgain \/ DaemonStarts \/ DaemonDies \/ Prepare \/ DeleteEnds \/ DeleteFails
           \/ SaveRecord \/ BootStops
  PROVE  Inv'
<1> USE DEF Inv
<1>1. TypeOK'
  BY NextTypeOK DEF Next, Step
<1>2. Safe(mem)' /\ IdsInv'
  <2>1. mem' \in {mem, file, NoRecord}
          \/ mem' = [name |-> cfg, created |-> FALSE, booted |-> TRUE, marker |-> NoMarker]
    BY DEF SaveAgain, DaemonStarts, DaemonDies, Prepare, DeleteEnds, DeleteFails,
           SaveRecord, BootStops
  <2>2. mem' = mem \/ Safe(file) \/ mem'.created = FALSE
    BY <2>1 DEF SaveAgain, DaemonStarts, DaemonDies, Prepare, DeleteEnds, DeleteFails,
                SaveRecord, BootStops, FileInv, Safe, NoRecord
  <2>3. Safe(mem)'
    BY <2>1, <2>2 DEF Safe, Recorded, NoRecord
  <2>4. file' \in {file, mem} /\ ids' = ids
    BY DEF SaveAgain, DaemonStarts, DaemonDies, Prepare, DeleteEnds, DeleteFails,
           SaveRecord, Save, BootStops
  <2>5. IdsInv'
    <3>1. /\ mem'.marker \in {mem.marker, file.marker, NoMarker}
          /\ file'.marker \in {mem.marker, file.marker}
      BY <2>1, <2>4 DEF NoRecord
    <3>2. QED
      BY <2>4, <3>1 DEF IdsInv, NoMarker, Foreign, TypeOK
  <2>6. QED
    BY <2>3, <2>5
<1>3. FileInv'
  BY DEF SaveAgain, DaemonStarts, DaemonDies, Prepare, DeleteEnds, DeleteFails, SaveRecord,
         Save, BootStops, Safe, Recorded, FileInv, Calm, Busy, OneFault
<1>4. PcInv'
  BY DEF SaveAgain, DaemonStarts, DaemonDies, Prepare, DeleteEnds, DeleteFails, SaveRecord,
         BootStops, PcInv, Safe, Recorded, Exists, Known, Unbooted, Matches, TypeOK, Calm, Empty
<1>5. SavedInv'
  BY DEF SaveAgain, DaemonStarts, DaemonDies, Prepare, DeleteEnds, DeleteFails, SaveRecord,
         Save, BootStops, SavedInv
<1>6. BehindInv'
  BY DEF SaveAgain, DaemonStarts, DaemonDies, Prepare, DeleteEnds, DeleteFails, SaveRecord,
         Save, BootStops, BehindInv, Recorded, Known, Unbooted, Matches, OneFault, Calm, Busy,
         Exists, Empty, NoMarker
<1>7. QED
  BY <1>1, <1>2, <1>3, <1>4, <1>5, <1>6

(* Every step keeps Inv, with faults of one kind. *)
LEMMA NextInv == OneFault /\ Inv /\ [Next]_vars => Inv'
<1> SUFFICES ASSUME OneFault, Inv, [Next]_vars, env' = env PROVE Inv'
  BY DEF Next, vars
<1> USE DEF Inv
<1>1. TypeOK'
  BY NextTypeOK
<1>2. /\ cfg \in Names /\ ids \in Nat /\ mem \in Records /\ file \in Records
      /\ \A n \in Names : dir[n] \in Dirs
  BY DEF TypeOK
<1>3. CASE SaveAgain \/ DaemonStarts \/ DaemonDies \/ Prepare \/ DeleteEnds \/ DeleteFails
             \/ SaveRecord \/ BootStops
  <2>1. UNCHANGED dir
    BY <1>3 DEF SaveAgain, DaemonStarts, DaemonDies, Prepare, DeleteEnds, DeleteFails,
                SaveRecord, BootStops
  <2>2. QED
    BY <1>3, <2>1, RecordSteps
<1>4. CASE DeleteStep
  <2>1. /\ \A n \in Names \ {cfg} : dir'[n] = dir[n]
        /\ dir'[cfg].marker \in {dir[cfg].marker, NoMarker}
        /\ dir'[cfg].data # "user"
        /\ UNCHANGED <<file, mem, cfg, pc, ids>> /\ pc = "delete"
    BY <1>4 DEF DeleteStep, TypeOK, Dirs, PcInv
  <2>2. Safe(mem)' /\ FileInv'
    BY <1>2, <2>1 DEF Safe, Recorded, FileInv
  <2>3. IdsInv'
    BY <1>2, <2>1 DEF IdsInv, NoMarker, Foreign
  <2>4. PcInv' /\ SavedInv'
    BY <2>1 DEF PcInv, SavedInv
  <2>5. BehindInv'
    BY <1>2, <2>1 DEF BehindInv, Recorded
  <2>6. QED
    BY <1>1, <2>2, <2>3, <2>4, <2>5
<1>5. CASE CreateConfig
  <2>1. /\ \A n \in Names \ {cfg} : dir'[n] = dir[n]
        /\ dir'[cfg].config = TRUE
        /\ dir'[cfg].marker = dir[cfg].marker
        /\ dir'[cfg].data = dir[cfg].data
        /\ UNCHANGED <<file, cfg, ids>> /\ pc = "create"
    BY <1>5, <1>2 DEF CreateConfig, TypeOK, Dirs
  <2>2. \/ /\ dir[cfg] = Empty
           /\ pc' = "mark" /\ UNCHANGED mem
        \/ /\ pc' = "save"
           /\ mem'.name = cfg /\ mem'.created = FALSE /\ mem'.marker = NoMarker
    BY <1>5 DEF CreateConfig
  <2>3. Safe(mem)' /\ FileInv'
    BY <1>2, <2>1, <2>2 DEF Safe, Recorded, FileInv
  <2>4. IdsInv'
    BY <1>2, <2>1, <2>2 DEF IdsInv, NoMarker, Foreign
  <2>5. PcInv' /\ SavedInv'
    BY <2>1, <2>2 DEF PcInv, SavedInv, Empty
  <2>6. BehindInv'
    BY <1>2, <2>1, <2>2 DEF BehindInv, PcInv, Recorded, Empty
  <2>7. QED
    BY <1>1, <2>3, <2>4, <2>5, <2>6
<1>6. CASE CreateMarker
  <2>1. /\ \A n \in Names \ {cfg} : dir'[n] = dir[n]
        /\ dir'[cfg].marker = ids + 1
        /\ dir'[cfg].data = "none"
        /\ dir'[cfg].config = dir[cfg].config
        /\ mem'.marker = ids + 1 /\ mem'.name = cfg
        /\ ids' = ids + 1 /\ pc' = "save"
        /\ UNCHANGED <<file, cfg>> /\ pc = "mark"
    BY <1>6, <1>2 DEF CreateMarker, TypeOK, Dirs, PcInv
  <2>2. Safe(mem)'
    BY <1>2, <2>1 DEF Safe, Recorded
  <2>3. FileInv'
    BY <1>2, <2>1 DEF Safe, Recorded, FileInv
  <2>4. IdsInv'
    BY <1>2, <2>1 DEF IdsInv, NoMarker, Foreign, Dirs, Records
  <2>5. PcInv' /\ SavedInv'
    BY <2>1 DEF PcInv, SavedInv
  <2>6. BehindInv'
    BY <1>2, <2>1 DEF BehindInv, PcInv, Recorded, IdsInv, Records
  <2>7. QED
    BY <1>1, <2>2, <2>3, <2>4, <2>5, <2>6
<1>7. CASE CreateFails
  <2>1. /\ \A n \in Names \ {cfg} : dir'[n] = dir[n]
        /\ dir'[cfg].marker \in {dir[cfg].marker, Foreign}
        /\ dir'[cfg].data = dir[cfg].data
        /\ dir'[cfg].config = dir[cfg].config
        /\ pc = "create" => UNCHANGED dir
        /\ UNCHANGED <<file, mem, cfg, ids>> /\ pc \in {"create", "mark"}
        /\ pc' = "stopped"
    BY <1>7, <1>2 DEF CreateFails, TypeOK, Dirs
  <2>2. Safe(mem)' /\ FileInv'
    BY <1>2, <2>1 DEF Safe, Recorded, FileInv, IdsInv
  <2>3. IdsInv'
    BY <1>2, <2>1 DEF IdsInv, NoMarker, Foreign
  <2>4. PcInv' /\ SavedInv'
    BY <2>1 DEF PcInv, SavedInv
  <2>5. BehindInv'
    BY <1>2, <2>1 DEF BehindInv, PcInv, Recorded, IdsInv
  <2>6. QED
    BY <1>1, <2>2, <2>3, <2>4, <2>5
<1>8. CASE Launch
  <2>1. /\ \A n \in Names \ {cfg} : dir'[n] = dir[n]
        /\ dir'[cfg].marker = dir[cfg].marker
        /\ dir'[cfg].config = dir[cfg].config
        /\ dir'[cfg].data = "user" => dir[cfg].data = "user"
        /\ UNCHANGED <<file, mem, cfg, ids>> /\ pc = "launch" /\ pc' = "boot"
    BY <1>8, <1>2 DEF Launch, TypeOK, Dirs
  <2>2. Safe(mem)' /\ FileInv'
    BY <1>2, <2>1 DEF Safe, Recorded, FileInv
  <2>3. IdsInv' /\ PcInv' /\ SavedInv'
    BY <1>2, <2>1 DEF IdsInv, PcInv, SavedInv
  <2>4. BehindInv'
    BY <1>2, <2>1 DEF BehindInv, Recorded
  <2>5. QED
    BY <1>1, <2>2, <2>3, <2>4
<1>9. CASE BootCompleted
  <2>1. CASE mem.booted
    <3>1. /\ \A n \in Names \ {cfg} : dir'[n] = dir[n]
          /\ dir'[cfg].marker = dir[cfg].marker
          /\ dir'[cfg].config = dir[cfg].config
          /\ UNCHANGED <<file, mem, cfg, ids>> /\ pc = "boot" /\ pc' = "running"
      BY <1>2, <1>9, <2>1 DEF BootCompleted, Completes, TypeOK, Dirs
    <3>2. Safe(mem)'
      BY <1>2, <2>1, <3>1 DEF Safe, Recorded
    <3>3. ~Recorded(file, cfg)
      BY <2>1, <3>1 DEF Recorded, SavedInv, BehindInv
    <3>4. FileInv'
      BY <1>2, <3>1, <3>3 DEF Safe, Recorded, FileInv
    <3>5. IdsInv' /\ PcInv' /\ SavedInv'
      BY <1>2, <3>1 DEF IdsInv, PcInv, SavedInv
    <3>6. BehindInv'
      BY <1>2, <3>1 DEF BehindInv, Recorded
    <3>7. QED
      BY <1>1, <3>2, <3>4, <3>5, <3>6
  <2>2. CASE ~mem.booted
    <3>1. /\ mem'.name = mem.name /\ mem'.booted = TRUE /\ mem'.marker = NoMarker
          /\ UNCHANGED <<dir, file, cfg, ids>> /\ pc = "boot" /\ pc' = "record"
      BY <1>2, <1>9, <2>2 DEF BootCompleted, Records
    <3>2. Safe(mem)' /\ FileInv'
      BY <3>1 DEF Safe, Recorded, FileInv
    <3>3. IdsInv'
      BY <1>2, <3>1 DEF IdsInv, NoMarker, Foreign
    <3>4. PcInv' /\ SavedInv'
      BY <3>1 DEF PcInv, SavedInv
    <3>5. BehindInv'
      BY <3>1 DEF BehindInv
    <3>6. QED
      BY <1>1, <3>2, <3>3, <3>4, <3>5
  <2>3. QED
    BY <2>1, <2>2
<1>10. CASE RecordBooted
  <2>1. /\ \A n \in Names \ {cfg} : dir'[n] = dir[n]
        /\ dir'[cfg].marker = dir[cfg].marker
        /\ dir'[cfg].config = dir[cfg].config
        /\ UNCHANGED <<mem, cfg, ids>> /\ pc = "record" /\ pc' = "unmark"
    BY <1>2, <1>10 DEF RecordBooted, Completes, TypeOK, Dirs
  <2>2. file' = mem \/ ("disk" \in env /\ file' = file)
    BY <1>10 DEF RecordBooted, Save
  <2>3. Safe(mem)'
    BY <1>2, <2>1 DEF Safe, Recorded, PcInv
  <2>4. FileInv'
    BY <2>1, <2>2, <2>3 DEF FileInv, Safe, Recorded
  <2>5. IdsInv' /\ PcInv' /\ SavedInv'
    BY <1>2, <2>1, <2>2 DEF IdsInv, PcInv, SavedInv
  <2>6. BehindInv'
    BY <1>2, <2>1 DEF BehindInv
  <2>7. QED
    BY <1>1, <2>3, <2>4, <2>5, <2>6
<1>11. CASE RemoveMarker
  <2>1. /\ \A n \in Names \ {cfg} : dir'[n] = dir[n]
        /\ dir'[cfg].marker \in {dir[cfg].marker, NoMarker}
        /\ "disk" \in env => dir'[cfg].marker = NoMarker
        /\ dir'[cfg].config = dir[cfg].config
        /\ dir'[cfg].data = dir[cfg].data
        /\ UNCHANGED <<file, mem, cfg, ids>> /\ pc = "unmark" /\ pc' = "running"
    BY <1>2, <1>11 DEF RemoveMarker, TypeOK, Dirs, OneFault
  <2>2. Safe(mem)'
    BY <1>2, <2>1 DEF Safe, Recorded
  <2>3. FileInv'
    BY <1>2, <2>1 DEF FileInv, Safe, Recorded, SavedInv
  <2>4. IdsInv'
    BY <1>2, <2>1 DEF IdsInv, NoMarker, Foreign
  <2>5. PcInv' /\ SavedInv'
    BY <2>1 DEF PcInv, SavedInv
  <2>6. BehindInv'
    BY <1>2, <2>1 DEF BehindInv, Recorded
  <2>7. QED
    BY <1>1, <2>2, <2>3, <2>4, <2>5, <2>6
<1>12. CASE \E n \in Names : UserReplaces(n) \/ UserRemoves(n)
  <2>1. PICK n \in Names :
          /\ \A k \in Names \ {n} : dir'[k] = dir[k]
          /\ dir'[n].marker \in {NoMarker, Foreign}
          /\ dir'[n].config \/ dir'[n].marker = NoMarker
          /\ UNCHANGED <<file, mem, cfg, pc, ids>> /\ pc \in {"down", "stopped"}
    BY <1>12 DEF UserReplaces, UserRemoves, Empty, TypeOK
  <2>2. Safe(mem)' /\ FileInv'
    BY <1>2, <2>1 DEF Safe, Recorded, FileInv, IdsInv
  <2>3. IdsInv'
    BY <1>2, <2>1 DEF IdsInv, NoMarker, Foreign
  <2>4. PcInv' /\ SavedInv'
    BY <2>1 DEF PcInv, SavedInv
  <2>5. BehindInv'
    BY <1>2, <2>1 DEF BehindInv, Recorded, IdsInv
  <2>6. QED
    BY <1>1, <2>2, <2>3, <2>4, <2>5
<1>13. CASE UNCHANGED vars
  BY <1>1, <1>13 DEF vars, IdsInv, Safe, Recorded, FileInv, PcInv, SavedInv, BehindInv
<1>14. QED
  BY <1>3, <1>4, <1>5, <1>6, <1>7, <1>8, <1>9, <1>10, <1>11, <1>12, <1>13 DEF Next, Step

(* The daemon never deletes data of the user, whatever crashes, restarts,
   renames and replaced directories come between, provided that failed
   writes do not come together with the other faults. *)
THEOREM UserDataIsKept ==
  ASSUME \A e \in Environments : "disk" \in e => e \subseteq {"disk", "rename"}
  PROVE  Spec => UserDataKept
<1>1. Init => OneFault /\ Inv
  BY InitInv DEF Init, OneFault
<1>2. OneFault /\ Inv /\ [Next]_vars => (OneFault /\ Inv)'
  BY NextInv DEF OneFault, Next, vars
<1>3. Inv /\ [Next]_vars
        => [\A n \in Names : dir[n].data = "user" /\ dir'[n].data # "user"
              => UserRemoves(n)]_vars
  <2> SUFFICES ASSUME Inv, Next, NEW n \in Names,
                      dir[n].data = "user", dir'[n].data # "user"
               PROVE  UserRemoves(n)
    BY DEF vars
  <2>1. cfg \in Names /\ dir \in [Names -> Dirs]
    BY DEF Inv, TypeOK
  <2>2. ~DeleteStep
    BY <2>1 DEF Inv, PcInv, DeleteStep, Dirs
  <2>3. ~CreateConfig /\ ~CreateMarker /\ ~CreateFails
    BY <2>1 DEF CreateConfig, CreateMarker, CreateFails, Dirs
  <2>4. ~Launch /\ ~BootCompleted /\ ~RecordBooted /\ ~RemoveMarker
    BY <2>1 DEF Launch, BootCompleted, RecordBooted, RemoveMarker, Completes, Dirs
  <2>5. ~(SaveAgain \/ DaemonStarts \/ DaemonDies \/ Prepare \/ DeleteEnds \/ DeleteFails
             \/ SaveRecord \/ BootStops)
    BY DEF SaveAgain, DaemonStarts, DaemonDies, Prepare, DeleteEnds, DeleteFails,
           SaveRecord, BootStops
  <2>6. PICK k \in Names : UserReplaces(k) \/ UserRemoves(k)
    BY <2>2, <2>3, <2>4, <2>5 DEF Next, Step
  <2>7. ~UserReplaces(k)
    BY <2>1 DEF UserReplaces
  <2>8. k = n
    BY <2>1, <2>6, <2>7 DEF UserRemoves
  <2>9. QED
    BY <2>6, <2>7, <2>8
<1>4. QED
  BY <1>1, <1>2, <1>3, PTL DEF Spec, UserDataKept

-----------------------------------------------------------------------------
(* Interrupted first boots, where nothing else goes wrong *)

(* The directory and record r of a first boot that has begun. *)
Fresh(r) == dir[cfg].config /\ Recorded(r, cfg)
UserOwned == dir[cfg].data = "user"

(* Wherever the daemon may stop, the directory of the AVD is empty, is the
   user's or belongs to the recorded first boot; inside of _prepare and
   _booted it is on its way there. *)
RepairInv ==
  env = {} =>
    /\ pc \notin {"down", "save", "record"} => file = mem
    /\ \A n \in Names \ {cfg} : dir[n].data # "partial"
    /\ pc = "down" => dir[cfg] = Empty \/ UserOwned \/ Fresh(file)
    /\ pc = "stopped" => dir[cfg] = Empty \/ UserOwned \/ Fresh(mem)
    /\ pc = "create" => dir[cfg] = Empty \/ UserOwned
    /\ pc = "mark" => dir[cfg].config /\ dir[cfg].data = "none"
    /\ pc \in {"save", "launch", "boot"} => UserOwned \/ Fresh(mem)
    /\ pc \in {"running", "unmark"} => UserOwned

(* RepairInv holds before the daemon starts. *)
LEMMA InitRepair == Init => RepairInv
<1> SUFFICES ASSUME Init PROVE RepairInv
  OBVIOUS
<1>1. \A n \in Names : dir[n] = Empty \/ dir[n].data = "user"
  BY DEF Init, UserAvd, UserFiles
<1>2. QED
  BY <1>1 DEF Init, RepairInv, UserOwned, Empty

(* Steps that leave the directories alone. *)
LEMMA RecordRepair ==
  ASSUME TypeOK, RepairInv, UNCHANGED <<dir, env>>, env = {},
         SaveAgain \/ DaemonStarts \/ DaemonDies \/ Prepare \/ DeleteEnds
           \/ SaveRecord \/ BootStops
  PROVE  RepairInv'
<1>1. cfg' = cfg
  BY DEF SaveAgain, DaemonStarts, DaemonDies, Prepare, DeleteEnds, SaveRecord, BootStops
<1>2. CASE SaveAgain
  BY <1>1, <1>2 DEF SaveAgain, RepairInv, Fresh, UserOwned, Recorded, Calm
<1>3. CASE DaemonStarts
  BY <1>1, <1>3 DEF DaemonStarts, RepairInv, Fresh, UserOwned, Recorded
<1>4. CASE DaemonDies
  BY <1>1, <1>4 DEF DaemonDies, RepairInv, Fresh, UserOwned, Recorded, Calm
<1>5. CASE Prepare
  <2>1. pc = "stopped" /\ UNCHANGED file
    BY <1>5 DEF Prepare
  <2>2. dir[cfg] = Empty \/ UserOwned \/ Fresh(mem)
    BY <2>1 DEF RepairInv
  <2>3. Exists /\ ~UserOwned => Fresh(mem) /\ Known /\ Unbooted /\ Matches
    BY <2>2 DEF Exists, Empty, Fresh, Recorded, Known, Unbooted, Matches
  <2>4. ~Exists => dir[cfg] = Empty \/ UserOwned
    BY <2>2 DEF Exists, Fresh
  <2>5. \/ pc' = "delete" /\ UNCHANGED mem
        \/ pc' = "save" /\ UserOwned
        \/ pc' = "create" /\ UNCHANGED mem /\ ~Exists
    BY <1>5, <2>3 DEF Prepare
  <2>6. QED
    BY <1>1, <2>1, <2>4, <2>5 DEF RepairInv, UserOwned
<1>6. CASE DeleteEnds
  BY <1>1, <1>6 DEF DeleteEnds, RepairInv, UserOwned
<1>7. CASE SaveRecord
  BY <1>1, <1>7 DEF SaveRecord, Save, RepairInv, Fresh, UserOwned, Recorded
<1>8. CASE BootStops
  BY <1>1, <1>8 DEF BootStops, RepairInv, Fresh, UserOwned, Recorded
<1>9. QED
  BY <1>2, <1>3, <1>4, <1>5, <1>6, <1>7, <1>8

(* Steps that write the directory of the AVD. *)
LEMMA WriteRepair ==
  ASSUME TypeOK, RepairInv, UNCHANGED env, env = {},
         DeleteStep \/ CreateConfig \/ CreateMarker \/ Launch
           \/ BootCompleted \/ RecordBooted \/ RemoveMarker
  PROVE  RepairInv'
<1>1. /\ cfg' = cfg /\ cfg \in Names /\ dir[cfg] \in Dirs
      /\ \A n \in Names \ {cfg} : dir'[n] = dir[n]
  BY DEF DeleteStep, CreateConfig, CreateMarker, Launch, BootCompleted, RecordBooted,
         RemoveMarker, Completes, TypeOK
<1>2. \A n \in Names \ {cfg} : dir'[n].data # "partial"
  BY <1>1 DEF RepairInv
<1>3. CASE DeleteStep
  BY <1>1, <1>2, <1>3 DEF DeleteStep, RepairInv
<1>4. CASE CreateConfig
  <2>1. /\ pc = "create" /\ file' = file
        /\ dir'[cfg].config /\ dir'[cfg].data = dir[cfg].data
        /\ IF dir[cfg] = Empty THEN pc' = "mark" /\ mem' = mem ELSE pc' = "save"
    BY <1>1, <1>4 DEF CreateConfig, TypeOK, Dirs
  <2>2. QED
    BY <1>1, <1>2, <2>1 DEF RepairInv, UserOwned, Empty
<1>5. CASE CreateMarker
  <2>1. /\ dir'[cfg].config /\ dir'[cfg].marker = ids + 1
        /\ mem'.name = cfg /\ mem'.created /\ ~mem'.booted /\ mem'.marker = ids + 1
        /\ pc' = "save"
    BY <1>1, <1>5 DEF CreateMarker, RepairInv, TypeOK, Dirs
  <2>2. ids + 1 # NoMarker
    BY DEF TypeOK, NoMarker
  <2>3. Fresh(mem)'
    BY <1>1, <2>1, <2>2 DEF Fresh, Recorded
  <2>4. QED
    BY <1>1, <1>2, <2>1, <2>3 DEF RepairInv
<1>6. CASE Launch
  <2>1. /\ pc = "launch" /\ pc' = "boot" /\ UNCHANGED <<file, mem>>
        /\ dir'[cfg].config = dir[cfg].config /\ dir'[cfg].marker = dir[cfg].marker
        /\ UserOwned => UserOwned'
    BY <1>1, <1>6 DEF Launch, TypeOK, Dirs, UserOwned
  <2>2. QED
    BY <1>1, <1>2, <2>1 DEF RepairInv, Fresh, Recorded
<1>7. CASE BootCompleted
  <2>1. pc = "boot" /\ file = mem
    BY <1>7 DEF BootCompleted, RepairInv
  <2>2. CASE mem.booted
    <3>1. pc' = "running" /\ UserOwned' /\ UNCHANGED <<file, mem>>
      BY <1>1, <1>7, <2>2 DEF BootCompleted, Completes, UserOwned, TypeOK, Dirs
    <3>2. QED
      BY <1>1, <1>2, <2>1, <3>1 DEF RepairInv
  <2>3. CASE ~mem.booted
    BY <1>1, <1>2, <1>7, <2>3 DEF BootCompleted, RepairInv
  <2>4. QED
    BY <2>2, <2>3
<1>8. CASE RecordBooted
  <2>1. pc' = "unmark" /\ UserOwned' /\ file' = mem /\ mem' = mem
    BY <1>1, <1>8 DEF RecordBooted, Save, Completes, UserOwned, TypeOK, Dirs
  <2>2. QED
    BY <1>1, <1>2, <2>1 DEF RepairInv
<1>9. CASE RemoveMarker
  <2>1. /\ pc = "unmark" /\ pc' = "running" /\ UNCHANGED <<file, mem>>
        /\ dir'[cfg].data = dir[cfg].data
    BY <1>1, <1>9 DEF RemoveMarker, TypeOK, Dirs
  <2>2. QED
    BY <1>1, <1>2, <2>1 DEF RepairInv, UserOwned
<1>10. QED
  BY <1>3, <1>4, <1>5, <1>6, <1>7, <1>8, <1>9

(* Every step keeps RepairInv. *)
LEMMA NextRepair == TypeOK /\ RepairInv /\ [Next]_vars => RepairInv'
<1> SUFFICES ASSUME TypeOK, RepairInv, [Next]_vars, env = {}, env' = env PROVE RepairInv'
  BY DEF Next, vars, RepairInv
<1>1. CASE SaveAgain \/ DaemonStarts \/ DaemonDies \/ Prepare \/ DeleteEnds
             \/ SaveRecord \/ BootStops
  <2>1. UNCHANGED dir
    BY <1>1 DEF SaveAgain, DaemonStarts, DaemonDies, Prepare, DeleteEnds, SaveRecord,
                BootStops
  <2>2. QED
    BY <1>1, <2>1, RecordRepair
<1>2. CASE DeleteStep \/ CreateConfig \/ CreateMarker \/ Launch
             \/ BootCompleted \/ RecordBooted \/ RemoveMarker
  BY <1>2, WriteRepair
<1>3. CASE DeleteFails \/ CreateFails
  BY <1>3 DEF DeleteFails, CreateFails
<1>4. CASE \E n \in Names : UserReplaces(n) \/ UserRemoves(n)
  <2>1. PICK n \in Names :
          /\ \A k \in Names \ {n} : dir'[k] = dir[k]
          /\ dir'[n] = Empty \/ dir'[n].data = "user"
          /\ UNCHANGED <<file, mem, cfg, pc, ids>> /\ pc \in {"down", "stopped"}
    BY <1>4 DEF UserReplaces, UserRemoves, TypeOK
  <2>2. cfg \in Names
    BY DEF TypeOK
  <2>3. CASE n = cfg
    BY <2>1, <2>2, <2>3 DEF RepairInv, UserOwned
  <2>4. CASE n # cfg
    BY <2>1, <2>2, <2>4 DEF RepairInv, UserOwned, Fresh, Recorded, Empty
  <2>5. QED
    BY <2>3, <2>4
<1>5. CASE UNCHANGED vars
  BY <1>5 DEF vars, RepairInv, Fresh, UserOwned, Recorded
<1>6. QED
  BY <1>1, <1>2, <1>3, <1>4, <1>5 DEF Next, Step

(* The state is well typed, in every environment. *)
THEOREM FirstBootTypes == Spec => []TypeOK
<1>1. Init => TypeOK
  BY InitInv DEF Inv
<1>2. QED
  BY <1>1, NextTypeOK, PTL DEF Spec

(* The userdata of an interrupted first boot is recognised by the next
   start, after any number of stops, crashes and restarts of the daemon and
   whatever the user puts in place of the AVD in between. *)
THEOREM FirstBootIsRepaired == Spec => []FirstBootRepaired
<1>1. Init => TypeOK /\ RepairInv
  BY InitInv, InitRepair DEF Inv
<1>2. TypeOK /\ RepairInv /\ [Next]_vars => (TypeOK /\ RepairInv)'
  BY NextTypeOK, NextRepair
<1>3. RepairInv => FirstBootRepaired
  <2> SUFFICES ASSUME RepairInv, NEW n \in Names, env = {}, dir[n].data = "partial"
               PROVE  /\ pc = "down" => Recorded(file, n)
                      /\ pc = "stopped" => Recorded(mem, n)
    BY DEF FirstBootRepaired
  <2>1. n = cfg /\ dir[cfg] # Empty /\ ~UserOwned
    BY DEF RepairInv, Empty, UserOwned
  <2>2. QED
    BY <2>1 DEF RepairInv, Fresh
<1>4. QED
  BY <1>1, <1>2, <1>3, PTL DEF Spec
=============================================================================
