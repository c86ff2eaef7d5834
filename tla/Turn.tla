-------------------------------- MODULE Turn --------------------------------
(***************************************************************************)
(* appliance/turn.py: the turnserver process, the task that keeps it       *)
(* alive, and the secret that its configuration and the credentials of the *)
(* viewers share.                                                          *)
(*                                                                         *)
(* An action is what a task does between two awaits. start() runs in the   *)
(* daemon's own start and in every rotation; secrets are numbered as in    *)
(* Auth. A process is known by the secret of its configuration, which was  *)
(* read when the process was made.                                         *)
(***************************************************************************)
EXTENDS Naturals

CONSTANTS
  Rotators,      \* requests for a rotation that can be in progress at once
  Daemon,        \* serve(), which starts turnserver before it listens
  Nobody,        \* no process
  MaxSecret      \* bound: the last secret

ASSUME TurnAssumption == Daemon \notin Rotators /\ MaxSecret \in Nat /\ Nobody \notin 0..MaxSecret

VARIABLES
  secret,       \* self._secret
  secretFile,   \* secrets/turn-secret
  task,         \* self._task is not None
  watch,        \* _supervise: where it waits, and the process it is making
  proc,         \* self._proc, and whether that process lives
  call          \* each call of start(): where it waits, and a process of its own

turnVars == <<secret, secretFile, task, watch, proc, call>>

Starters == Rotators \cup {Daemon}
Keys == 0..MaxSecret
Process == Keys \cup {Nobody}

NotWatching == [pc |-> "none", key |-> Nobody]
NoProc == [key |-> Nobody, alive |-> FALSE]
NoCall == [pc |-> "none", key |-> Nobody]

(* gather: stop() waits for the cancelled task; stop: for the process it
   terminates, then start() for the addresses; exec: for a new process. *)
TurnTypeOK ==
  /\ secret \in Keys /\ secretFile \in Keys
  /\ task \in BOOLEAN
  /\ watch \in [pc : {"none", "wait", "sleep", "exec"}, key : Process]
  /\ proc \in [key : Process, alive : BOOLEAN]
  /\ call \in [Starters -> [pc : {"none", "gather", "stop", "exec"}, key : Process]]

(* The daemon is not running: it and every process of its container are gone. *)
TurnOff ==
  /\ task = FALSE /\ watch = NotWatching /\ proc = NoProc
  /\ call = [s \in Starters |-> NoCall]

TurnInit == secret = 0 /\ secretFile = 0 /\ TurnOff

TurnEnds ==
  /\ task' = FALSE /\ watch' = NotWatching /\ proc' = NoProc
  /\ call' = [s \in Starters |-> NoCall]

(* serve(): the secret is read, and start() begins. *)
TurnStarts ==
  /\ secret' = secretFile
  /\ call' = [call EXCEPT ![Daemon].pc = "stop"]
  /\ UNCHANGED <<secretFile, task, watch, proc>>

-----------------------------------------------------------------------------
(* The process *)

Running == proc.alive

(* turnserver ends by itself. *)
TurnserverExits ==
  /\ proc.alive
  /\ proc' = [proc EXCEPT !.alive = FALSE]
  /\ UNCHANGED <<secret, secretFile, task, watch, call>>

-----------------------------------------------------------------------------
(* _supervise. A cancelled task takes no step of its own: the cancel reaches
   it where it waits. *)

WatchSeesExit ==
  /\ task /\ watch.pc = "wait" /\ ~proc.alive
  /\ watch' = [watch EXCEPT !.pc = "sleep"]
  /\ UNCHANGED <<secret, secretFile, task, proc, call>>

(* After the delay: _spawn lists the addresses, then writes the
   configuration and makes the process. If that fails, the task sleeps again. *)
WatchSpawns ==
  /\ task /\ watch.pc = "sleep"
  /\ watch' = [pc |-> "exec", key |-> secret]
  /\ UNCHANGED <<secret, secretFile, task, proc, call>>

WatchHasProcess ==
  /\ task /\ watch.pc = "exec"
  /\ proc' = [key |-> watch.key, alive |-> TRUE]
  /\ watch' = [pc |-> "wait", key |-> Nobody]
  /\ UNCHANGED <<secret, secretFile, task, call>>

-----------------------------------------------------------------------------
(* stop() and start() *)

(* Mutant: the relay is started again without being stopped. *)
TurnRotates_OnlyStarts(r, n) ==
  /\ secret' = n /\ secretFile' = n
  /\ call' = IF task THEN [call EXCEPT ![r].pc = "stop"] ELSE call
  /\ UNCHANGED <<task, watch, proc>>

(* Mutant: the new secret is written, and not used before the next start of
   the daemon. *)
TurnRotates_FileOnly(r, n) ==
  /\ secretFile' = n
  /\ task' = FALSE
  /\ call' = IF task THEN [call EXCEPT ![r].pc = "gather"] ELSE call
  /\ UNCHANGED <<secret, watch, proc>>

(* rotate() up to its first await. A rotation that finds no task is done. *)
TurnRotates(r, n) ==
  /\ secret' = n /\ secretFile' = n
  /\ task' = FALSE
  /\ call' = IF task THEN [call EXCEPT ![r].pc = "gather"] ELSE call
  /\ UNCHANGED <<watch, proc>>

(* The write fails: the secret in memory is new, and turnserver is left alone. *)
TurnRotateFails(n) ==
  /\ secret' = n
  /\ UNCHANGED <<secretFile, task, watch, proc, call>>

(* The cancelled task is over, and a process that it was making is killed.
   _terminate() takes the process and sends it SIGTERM. *)
Terminate(r) ==
  /\ call[r].pc = "gather"
  /\ watch' = NotWatching
  /\ call' = [call EXCEPT ![r] = [pc |-> "stop",
                                  key |-> IF proc.alive THEN proc.key ELSE Nobody]]
  /\ proc' = NoProc
  /\ UNCHANGED <<secret, secretFile, task>>

(* It exits, at the latest from the SIGKILL after STOP_GRACE. *)
Terminated(r) ==
  /\ call[r].pc = "stop" /\ call[r].key # Nobody
  /\ call' = [call EXCEPT ![r].key = Nobody]
  /\ UNCHANGED <<secret, secretFile, task, watch, proc>>

(* _spawn: the configuration takes the secret after the addresses came. *)
Spawn(s) ==
  /\ call[s].pc = "stop" /\ call[s].key = Nobody
  /\ call' = [call EXCEPT ![s] = [pc |-> "exec", key |-> secret]]
  /\ UNCHANGED <<secret, secretFile, task, watch, proc>>

(* Mutant: a relay that cannot be started is given up. *)
SpawnFails_GivesUp(s) ==
  /\ call[s].pc = "stop" /\ call[s].key = Nobody
  /\ call' = [call EXCEPT ![s] = NoCall]
  /\ UNCHANGED <<secret, secretFile, task, watch, proc>>

(* The process cannot be made: the task waits and tries again. *)
SpawnFails(s) ==
  /\ call[s].pc = "stop" /\ call[s].key = Nobody
  /\ call' = [call EXCEPT ![s] = NoCall]
  /\ task' = TRUE
  /\ watch' = [pc |-> "sleep", key |-> Nobody]
  /\ UNCHANGED <<secret, secretFile, proc>>

Spawned(s) ==
  /\ call[s].pc = "exec"
  /\ proc' = [key |-> call[s].key, alive |-> TRUE]
  /\ call' = [call EXCEPT ![s] = NoCall]
  /\ task' = TRUE
  /\ watch' = [pc |-> "wait", key |-> Nobody]
  /\ UNCHANGED <<secret, secretFile>>

-----------------------------------------------------------------------------
(* The turnservers that live: of _proc, being made by the task, and being
   made or terminated by a call. *)
Live(s) == call[s].key # Nobody

(* Only one turnserver can have the TURN port and the relay ports: none is
   made while another one lives, whoever makes it. *)
OneTurnserver ==
  /\ proc.alive => watch.key = Nobody /\ \A s \in Starters : ~Live(s)
  /\ watch.key # Nobody => \A s \in Starters : ~Live(s)
  /\ \A s, t \in Starters : Live(s) /\ Live(t) => s = t

(* Every turnserver that lives accepts credentials of secret n or later only. *)
AcceptsSince(n) ==
  /\ proc.alive => proc.key >= n
  /\ watch.key # Nobody => watch.key >= n
  /\ \A s \in Starters : Live(s) => call[s].key >= n
=============================================================================
