------------------------------ MODULE FirstBoot ------------------------------
(***************************************************************************)
(* The userdata of the AVDs across first boots, crashes and restarts of    *)
(* the daemon: _prepare and _booted of appliance/supervisor.py, StateStore *)
(* with its file state.json, and create, delete and the first-boot marker  *)
(* of appliance/avd.py.                                                    *)
(*                                                                         *)
(* A killed first boot leaves userdata that is good for nothing, so the    *)
(* next start deletes it. Everything else is the user's and must survive.  *)
(*                                                                         *)
(* _prepare and _booted run without an await: only a daemon that is killed *)
(* hard stops between their file operations, which are single steps here.  *)
(***************************************************************************)
EXTENDS Naturals

CONSTANTS
  Names,         \* the AVD names that the configuration may choose
  NoName,        \* the name in a record that does not exist
  MaxIds,        \* bound: the last first-boot id that create() may draw
  Environments   \* what may happen together in one behaviour, see below

(* "disk":   a write fails: of state.json, config.ini or the marker.
   "unlink": a file cannot be removed.
   "kill":   the daemon dies between two file operations of _prepare or
             _booted (SIGKILL, power loss).
   "state":  state.json is missing or unreadable when the daemon starts.
   "rename": the daemon starts with another avd_name. *)
Events == {"disk", "unlink", "kill", "state", "rename"}
ASSUME EnvironmentsAssumption == Environments \subseteq SUBSET Events
ASSUME NamesAssumption == NoName \notin Names
ASSUME MaxIdsAssumption == MaxIds \in Nat

VARIABLES
  dir,    \* the directory of each AVD: config.ini, marker, userdata
  file,   \* the record "avd" in state.json
  mem,    \* the same in store.data of the running daemon
  cfg,    \* cfg.avd_name
  pc,     \* where the daemon is
  ids,    \* the last first-boot id drawn
  env     \* what may happen in this behaviour

vars == <<dir, file, mem, cfg, pc, ids, env>>

(* Markers: none, one that no record of this appliance names (of another
   appliance, or a file left empty by a failed write), and the random ids,
   which never repeat. *)
NoMarker == 0
Foreign  == 1

(* "partial" is the userdata of a first boot that has not completed.
   "user" is userdata of a completed boot, or files that were there before
   the daemon. *)
Empty == [config |-> FALSE, marker |-> NoMarker, data |-> "none"]
UserAvd == [config |-> TRUE, marker |-> NoMarker, data |-> "user"]
UserFiles == [config |-> FALSE, marker |-> NoMarker, data |-> "user"]
Dirs == [config : BOOLEAN, marker : Nat, data : {"none", "partial", "user"}]

NoRecord == [name |-> NoName, created |-> FALSE, booted |-> FALSE,
             marker |-> NoMarker]
Records == [name : Names \cup {NoName}, created : BOOLEAN, booted : BOOLEAN,
            marker : Nat]

(* Awaiting points, where an ordinary stop or crash finds the daemon, and
   the file operations in between. *)
Calm == {"stopped", "launch", "boot", "running"}
Busy == {"delete", "create", "mark", "save", "record", "unmark"}

TypeOK ==
  /\ dir \in [Names -> Dirs]
  /\ file \in Records
  /\ mem \in Records
  /\ cfg \in Names
  /\ pc \in {"down"} \cup Calm \cup Busy
  /\ ids \in Nat
  /\ env \in Environments

(* An AVD is absent, an older one of the user, or a directory with files of
   the user and no config.ini. *)
Init ==
  /\ dir \in [Names -> {Empty, UserAvd, UserFiles}]
  /\ file = NoRecord
  /\ mem = NoRecord
  /\ cfg \in Names
  /\ pc = "down"
  /\ ids = Foreign
  /\ env \in Environments

-----------------------------------------------------------------------------
(* state.json *)

(* store.save(): os.replace is atomic; a failed write only logs. *)
Save == file' = mem \/ ("disk" \in env /\ UNCHANGED file)

(* Later saves, for example of the last activity, write the record again. *)
SaveAgain ==
  /\ pc \in Calm
  /\ file' = mem
  /\ UNCHANGED <<dir, mem, cfg, pc, ids>>

\* Mutant: the daemon serves the AVD of the record, not the configured one.
DaemonStarts_NameOfRecord ==
  /\ pc = "down"
  /\ pc' = "stopped"
  /\ cfg' = file.name
  /\ mem' = file
  /\ UNCHANGED <<dir, file, ids>>

DaemonStarts ==
  /\ pc = "down"
  /\ pc' = "stopped"
  /\ cfg' \in IF "rename" \in env THEN Names ELSE {cfg}
  /\ mem' = file \/ ("state" \in env /\ mem' = NoRecord)
  /\ UNCHANGED <<dir, file, ids>>

DaemonDies ==
  /\ pc \in Calm \cup (IF "kill" \in env THEN Busy ELSE {})
  /\ pc' = "down"
  /\ mem' = NoRecord
  /\ UNCHANGED <<dir, file, cfg, ids>>

-----------------------------------------------------------------------------
(* _prepare *)

Exists == dir[cfg].config
Known == mem.name = cfg
Unbooted == Known /\ mem.created /\ ~mem.booted

Matches == mem.marker # NoMarker /\ dir[cfg].marker = mem.marker

(* The decision. The record of another AVD, and that of an unbooted one
   whose marker does not match, count as none. *)
Prepare ==
  /\ pc = "stopped"
  /\ ids < MaxIds
  /\ \/ /\ Exists /\ Unbooted /\ Matches
        /\ pc' = "delete"
        /\ UNCHANGED mem
     \/ /\ Exists /\ (~Known \/ (Unbooted /\ ~Matches))
        /\ pc' = "save"
        /\ mem' = [name |-> cfg, created |-> FALSE, booted |-> TRUE,
                   marker |-> NoMarker]
     \/ /\ Exists /\ Known /\ ~Unbooted
        /\ pc' = "save"
        /\ UNCHANGED mem
     \/ /\ ~Exists
        /\ pc' = "create"
        /\ UNCHANGED mem
  /\ UNCHANGED <<dir, file, cfg, ids>>

(* shutil.rmtree takes the files one by one, in any order. *)
DeleteStep ==
  /\ pc = "delete"
  /\ dir[cfg] # Empty
  /\ \/ dir' = [dir EXCEPT ![cfg].config = FALSE]
     \/ dir' = [dir EXCEPT ![cfg].marker = NoMarker]
     \/ dir' = [dir EXCEPT ![cfg].data = "none"]
  /\ UNCHANGED <<file, mem, cfg, pc, ids>>

DeleteEnds ==
  /\ pc = "delete"
  /\ dir[cfg] = Empty
  /\ pc' = "create"
  /\ UNCHANGED <<dir, file, mem, cfg, ids>>

DeleteFails ==
  /\ "unlink" \in env
  /\ pc = "delete"
  /\ pc' = "stopped"
  /\ UNCHANGED <<dir, file, mem, cfg, ids>>

(* create() writes config.ini; a directory that held files gets no marker. *)
CreateConfig ==
  /\ pc = "create"
  /\ dir' = [dir EXCEPT ![cfg].config = TRUE]
  /\ IF dir[cfg] = Empty
     THEN pc' = "mark" /\ UNCHANGED mem
     ELSE /\ pc' = "save"
          /\ mem' = [name |-> cfg, created |-> FALSE, booted |-> FALSE,
                     marker |-> NoMarker]
  /\ UNCHANGED <<file, cfg, ids>>

CreateMarker ==
  /\ pc = "mark"
  /\ ids' = ids + 1
  /\ dir' = [dir EXCEPT ![cfg].marker = ids']
  /\ mem' = [name |-> cfg, created |-> TRUE, booted |-> FALSE, marker |-> ids']
  /\ pc' = "save"
  /\ UNCHANGED <<file, cfg>>

CreateFails ==
  /\ "disk" \in env
  /\ \/ pc = "create" /\ UNCHANGED dir
     \/ pc = "mark" /\ dir' \in {dir, [dir EXCEPT ![cfg].marker = Foreign]}
  /\ pc' = "stopped"
  /\ UNCHANGED <<file, mem, cfg, ids>>

\* Mutant: a new record waits for the next save.
SaveRecord_Later ==
  /\ pc = "save"
  /\ pc' = "launch"
  /\ UNCHANGED <<dir, file, mem, cfg, ids>>

SaveRecord ==
  /\ pc = "save"
  /\ Save
  /\ pc' = "launch"
  /\ UNCHANGED <<dir, mem, cfg, ids>>

-----------------------------------------------------------------------------
(* qemu and _booted *)

(* qemu writes userdata as soon as it runs. *)
Launch ==
  /\ pc = "launch"
  /\ pc' = "boot"
  /\ dir' = [dir EXCEPT ![cfg].data = IF @ = "none" THEN "partial" ELSE @]
  /\ UNCHANGED <<file, mem, cfg, ids>>

(* A failed, stopped or crashed boot, and the stop of a running Android. *)
BootStops ==
  /\ pc \in {"launch", "boot", "running"}
  /\ pc' = "stopped"
  /\ UNCHANGED <<dir, file, mem, cfg, ids>>

Completes(d) == [d EXCEPT ![cfg].data = "user"]

(* The guest reports the boot. *)
BootCompleted ==
  /\ pc = "boot"
  /\ IF mem.booted
     THEN /\ pc' = "running"
          /\ dir' = Completes(dir)
          /\ UNCHANGED mem
     ELSE /\ pc' = "record"
          /\ mem' = [mem EXCEPT !.booted = TRUE, !.marker = NoMarker]
          /\ UNCHANGED dir
  /\ UNCHANGED <<file, cfg, ids>>

\* Mutant: the completed boot waits for the next save.
RecordBooted_Later ==
  /\ pc = "record"
  /\ dir' = Completes(dir)
  /\ pc' = "unmark"
  /\ UNCHANGED <<file, mem, cfg, ids>>

(* The data counts as the user's once the daemon has recorded the boot. *)
RecordBooted ==
  /\ pc = "record"
  /\ Save
  /\ dir' = Completes(dir)
  /\ pc' = "unmark"
  /\ UNCHANGED <<mem, cfg, ids>>

(* first_boot_done(); a failure only logs. *)
RemoveMarker ==
  /\ pc = "unmark"
  /\ \/ dir' = [dir EXCEPT ![cfg].marker = NoMarker]
     \/ "unlink" \in env /\ UNCHANGED dir
  /\ pc' = "running"
  /\ UNCHANGED <<file, mem, cfg, ids>>

-----------------------------------------------------------------------------
(* The user, while Android is stopped *)

(* Another AVD is copied or restored in place of this one. It may bring a
   marker of its own. *)
UserReplaces(n) ==
  /\ pc \in {"down", "stopped"}
  /\ \E m \in {NoMarker, Foreign} :
       dir' = [dir EXCEPT ![n] = [config |-> TRUE, marker |-> m, data |-> "user"]]
  /\ UNCHANGED <<file, mem, cfg, pc, ids>>

UserRemoves(n) ==
  /\ pc \in {"down", "stopped"}
  /\ dir[n] # Empty
  /\ dir' = [dir EXCEPT ![n] = Empty]
  /\ UNCHANGED <<file, mem, cfg, pc, ids>>

Step ==
  \/ SaveAgain \/ DaemonStarts \/ DaemonDies
  \/ Prepare \/ DeleteStep \/ DeleteEnds \/ DeleteFails
  \/ CreateConfig \/ CreateMarker \/ CreateFails \/ SaveRecord
  \/ Launch \/ BootStops \/ BootCompleted \/ RecordBooted \/ RemoveMarker
  \/ \E n \in Names : UserReplaces(n) \/ UserRemoves(n)

Next == Step /\ UNCHANGED env

Spec == Init /\ [][Next]_vars

-----------------------------------------------------------------------------
(* Properties *)

(* The daemon never deletes data of the user: of a completed boot, of an
   adopted AVD, of one that was put in place of the daemon's own, or files
   that were in the directory before. Only the user removes it. *)
UserDataKept ==
  [][\A n \in Names : dir[n].data = "user" /\ dir'[n].data # "user" => UserRemoves(n)]_vars

(* Userdata of a first boot that did not complete is recognised: the record
   that the next start reads names the marker in the directory, so that
   start recreates the AVD. For an appliance whose avd_name stays and where
   nothing else goes wrong than stopped, crashed and interrupted boots. *)
Recorded(r, n) ==
  /\ r.name = n /\ r.created /\ ~r.booted
  /\ r.marker # NoMarker /\ dir[n].marker = r.marker
FirstBootRepaired ==
  \A n \in Names : env = {} /\ dir[n].data = "partial" =>
    /\ pc = "down" => Recorded(file, n)
    /\ pc = "stopped" => Recorded(mem, n)
=============================================================================
