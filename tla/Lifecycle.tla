----------------------------- MODULE Lifecycle -----------------------------
(***************************************************************************)
(* What the supervisor promises to the callers of its requests, without    *)
(* tasks, futures or processes: the public life cycle of Android, and the  *)
(* callers that wait for a start.                                          *)
(*                                                                         *)
(* A caller that joined a start stays in `waiting' until one answer goes   *)
(* to every waiting caller at once: Ready when Android runs, Halted when   *)
(* the start failed or was stopped. A caller may also leave earlier (its   *)
(* own timeout, a cancelled request), which changes nothing for the rest.  *)
(***************************************************************************)
CONSTANT Clients

VARIABLES
  state,     \* stopped, starting, running or stopping
  waiting,   \* the callers that wait for the start in progress
  retried,   \* the one automatic second boot of this start was used
  open       \* new starts are accepted: no daemon exit was requested

vars == <<state, waiting, retried, open>>

TypeOK ==
  /\ state \in {"stopped", "starting", "running", "stopping"}
  /\ waiting \subseteq Clients
  /\ retried \in BOOLEAN
  /\ open \in BOOLEAN

Init ==
  /\ state = "stopped"
  /\ waiting = {}
  /\ retried = FALSE
  /\ open = TRUE

(* A start of a stopped Android, by a caller that waits or by one that does
   not. *)
Boot ==
  /\ open
  /\ state = "stopped"
  /\ state' = "starting"
  /\ retried' = FALSE
  /\ waiting = {}
  /\ waiting' = {} \/ \E c \in Clients : waiting' = {c}
  /\ UNCHANGED open

Join(c) ==
  /\ state = "starting"
  /\ waiting' = waiting \cup {c}
  /\ UNCHANGED <<state, retried, open>>

Leave(c) ==
  /\ waiting' = waiting \ {c}
  /\ UNCHANGED <<state, retried, open>>

Ready ==
  /\ state = "starting"
  /\ state' = "running"
  /\ waiting' = {}
  /\ UNCHANGED <<retried, open>>

(* The second boot of a crashed start: the waiting callers keep waiting. *)
Retry ==
  /\ state \in {"starting", "running"}
  /\ ~retried
  /\ state' = "starting"
  /\ retried' = TRUE
  /\ UNCHANGED <<waiting, open>>

Halt ==
  /\ state \in {"starting", "running"}
  /\ state' = "stopping"
  /\ UNCHANGED <<waiting, retried, open>>

Halted ==
  /\ state = "stopping"
  /\ state' = "stopped"
  /\ waiting' = {}
  /\ UNCHANGED <<retried, open>>

(* The daemon exits: it stops Android and accepts no start from now on. *)
Close ==
  /\ open
  /\ open' = FALSE
  /\ state' = IF state \in {"starting", "running"} THEN "stopping" ELSE state
  /\ UNCHANGED <<waiting, retried>>

Next ==
  \/ Boot \/ Ready \/ Retry \/ Halt \/ Halted \/ Close
  \/ \E c \in Clients : Join(c) \/ Leave(c)

Safety == Init /\ [][Next]_vars

(* A start ends, in a running Android or in a stop, and a stop ends. *)
EndStart == state = "starting" /\ (Ready \/ Halt)
Fairness == WF_vars(EndStart) /\ WF_vars(Halted)

Spec == Safety /\ Fairness
=============================================================================
