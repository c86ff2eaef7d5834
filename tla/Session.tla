------------------------------- MODULE Session -------------------------------
(***************************************************************************)
(* The input of one dashboard session: the reader, the keys lane, the      *)
(* wheel task and _close of appliance/session.py, the Pointers of          *)
(* appliance/input.py, and what they leave pressed in the guest.           *)
(*                                                                         *)
(* An action is what a task does between two awaits. A call to the         *)
(* emulator is awaited, so a cancel() can end its task while the event is  *)
(* on its way. Android is what the supervisor reports; Supervisor models   *)
(* how it gets there.                                                      *)
(***************************************************************************)
EXTENDS Integers, FiniteSets, Sequences

CONSTANTS
  Keys,          \* named keys and buttons: what can be held
  Modifiers,     \* MODIFIERS
  Fingers,       \* the touch ids of the browser; the mouse is one of them
  None,          \* no key, no contact
  MaxHeld,       \* MAX_HELD
  MaxContacts,   \* MAX_CONTACTS
  LaneSize,      \* LANE
  MaxIds,        \* bound: identifiers that are in use at the same time
  Environments   \* the sets of events to consider

(* "stop":     Android stops, and may be started again.
   "midpaste": it stops while a paste lets go of the modifiers.
   "cut":      a task is cancelled while its release is on the way, and the
               emulator never gets it.
   "fail":     a call to the running emulator fails. *)
Events == {"stop", "midpaste", "cut", "fail"}

ASSUME KeysAssumption == Modifiers \subseteq Keys /\ None \notin Keys
ASSUME FingersAssumption == IsFiniteSet(Keys) /\ IsFiniteSet(Fingers)
ASSUME BoundsAssumption ==
  /\ MaxHeld \in Nat /\ MaxContacts \in Nat /\ LaneSize \in Nat /\ MaxIds \in Nat
  /\ None \notin 1..MaxIds
ASSUME EnvironmentsAssumption == Environments \subseteq SUBSET Events

VARIABLES
  env,        \* the events of this behaviour
  android,    \* sup.state; "stopped" stands for stopping too, and "booting" for
              \* the last phases of starting
  news,       \* sup._notify_pending
  textLock,   \* backend._text_lock: free, held by the lane, or by another user
  conn,       \* how far the session is: open, a stage of _close, or closed
  reader,     \* the reader task and the touch event that it sends
  lane,       \* the jobs in the queue of the keys lane
  job,        \* the job that the keys lane runs
  held,       \* _held: the keys that are down
  contacts,   \* pointers._contacts: the identifier of each finger
  wheel,      \* _wheel and _wheel_task
  letgo,      \* what _let_go still has to release
  down,       \* the guest: keys that are pressed
  touching,   \* the guest: identifiers that touch the screen
  tapped      \* for the properties: held keys that a keypress let go

keyboard == <<down, tapped>>
guest == <<keyboard, touching>>
vars == <<env, android, news, textLock, conn, reader, lane, job, held, contacts,
          wheel, letgo, guest>>

Ids == 1..MaxIds

(* A press is of a named key or a button, or of a printable character, which
   no session holds. *)
Jobs ==
  [op : {"down", "up", "press"}, key : Keys] \cup [op : {"press", "paste"}, key : {None}]

NoTouch == [id |-> None, pressed |-> FALSE]
Idle == [pc |-> "idle", op |-> "none", key |-> None, mods |-> {}, todo |-> {}, cut |-> FALSE]
NoWheel == [pc |-> "none", id |-> None, more |-> FALSE]
Nothing == [ids |-> {}, keys |-> {}]

(* A paste lets go of mods, and todo are those it has still to release or to
   press again; a job that was cancelled is cut. *)
JobType ==
  [pc : {"idle", "send", "release", "boot", "lock", "paste", "again", "gone"},
   op : {"none", "down", "up", "press", "paste"}, key : Keys \cup {None},
   mods : SUBSET Modifiers, todo : SUBSET Modifiers, cut : BOOLEAN]

(* more: notches that wait for the next drag. *)
WheelType ==
  [pc : {"none", "start", "drag", "lift"}, id : Ids \cup {None}, more : BOOLEAN]

TypeOK ==
  /\ env \in Environments
  /\ android \in {"stopped", "starting", "booting", "running"}
  /\ news \in BOOLEAN
  /\ textLock \in {"free", "lane", "other"}
  /\ conn \in {"open", "tasks", "lanes", "touches", "keys", "closed"}
  /\ reader \in [pc : {"read", "send", "gone"},
                 event : [id : Ids \cup {None}, pressed : BOOLEAN]]
  /\ lane \in Seq(Jobs) /\ Len(lane) <= LaneSize
  /\ job \in JobType
  /\ held \subseteq Keys /\ Cardinality(held) <= MaxHeld
  /\ contacts \in [Fingers -> Ids \cup {None}]
  /\ wheel \in WheelType
  /\ letgo \in [ids : SUBSET Ids, keys : SUBSET Keys]
  /\ down \subseteq Keys /\ touching \subseteq Ids /\ tapped \subseteq Keys

NoContacts == [f \in Fingers |-> None]

Init ==
  /\ env \in Environments
  /\ android \in {"stopped", "running"}
  /\ news = FALSE
  /\ textLock = "free"
  /\ conn = "closed"
  /\ reader = [pc |-> "gone", event |-> NoTouch]
  /\ lane = <<>>
  /\ job = [Idle EXCEPT !.pc = "gone"]
  /\ held = {} /\ contacts = NoContacts
  /\ wheel = NoWheel /\ letgo = Nothing
  /\ down = {} /\ touching = {} /\ tapped = {}

-----------------------------------------------------------------------------
(* Shared steps *)

Running == android = "running"

(* Whether a call to the emulator may fail: on a closed channel it does. *)
MayFail == ~Running \/ "fail" \in env

(* input.send() of a contact, and send_key(), reaching the guest. *)
Touch(id, pressed) == touching' = IF pressed THEN touching \cup {id} ELSE touching \ {id}

Key(k, pressed) ==
  /\ down' = IF pressed THEN down \cup {k} ELSE down \ {k}
  /\ tapped' = tapped \ {k}

(* A keypress is a down and an up: it leaves the key up, also one that is
   held. *)
Tap(k) ==
  /\ down' = down \ {k}
  /\ tapped' = tapped \cup ({k} \cap held)

KeyEvent(j) == IF j.op = "press" THEN Tap(j.key) ELSE Key(j.key, j.op = "down")

ContactIds == {contacts[f] : f \in Fingers} \ {None}

(* new_identifier() counts; the model takes a number that nobody uses. *)
Free == {i \in Ids : /\ i \notin touching \cup ContactIds \cup letgo.ids
                     /\ i # wheel.id /\ i # reader.event.id}

(* Lane.put(); a full lane ends the session, see End. *)
Put(j) == lane' = Append(lane, j)

-----------------------------------------------------------------------------
(* Android *)

(* A stop or a crash: the guest is gone, and what it had pressed. *)
AndroidStops ==
  /\ "stop" \in env
  /\ Running
  /\ job.pc = "release" => "midpaste" \in env
  /\ android' = "stopped"
  /\ news' = TRUE
  /\ down' = {} /\ touching' = {} /\ tapped' = {}
  /\ UNCHANGED <<env, textLock, conn, reader, lane, job, held, contacts, wheel, letgo>>

(* A user starts it, not this session. *)
AndroidStarts ==
  /\ android = "stopped"
  /\ android' = "starting"
  /\ news' = TRUE
  /\ UNCHANGED <<env, textLock, conn, reader, lane, job, held, contacts, wheel, letgo, guest>>

(* The calls of a session to an emulator that is gone fail at once, and a
   boot takes seconds: before its last phases begin, only a paste that waits
   for it is left. *)
Drained ==
  /\ conn \in {"open", "closed"}
  /\ reader.pc # "send"
  /\ job.pc \in {"idle", "boot", "gone"}
  /\ job.pc = "idle" => lane = <<>>
  /\ wheel.pc = "none"

(* Each phase of a boot is a change of the status. *)
PhaseChanges ==
  /\ \/ android \in {"starting", "booting"} /\ UNCHANGED android
     \/ android = "starting" /\ Drained /\ android' = "booting"
  /\ news' = TRUE
  /\ UNCHANGED <<env, textLock, conn, reader, lane, job, held, contacts, wheel, letgo, guest>>

(* A phase lasts longer than the call of the subscribers, so they know of the
   last ones when Android runs. *)
BootEnds ==
  /\ \/ android \in {"starting", "booting"} /\ android' = "stopped"
     \/ android = "booting" /\ ~news /\ android' = "running"
  /\ news' = TRUE
  /\ UNCHANGED <<env, textLock, conn, reader, lane, job, held, contacts, wheel, letgo, guest>>

\* Mutant: the keys of the old guest count as held.
StatusChanged_KeepsKeys ==
  /\ news
  /\ news' = FALSE
  /\ contacts' = IF conn = "open" /\ ~Running THEN NoContacts ELSE contacts
  /\ UNCHANGED <<env, android, textLock, conn, reader, lane, job, held, wheel, letgo, guest>>

(* status_changed(): a session in the hub forgets what the guest had. *)
StatusChanged ==
  /\ news
  /\ news' = FALSE
  /\ IF conn = "open" /\ ~Running
     THEN held' = {} /\ contacts' = NoContacts
     ELSE UNCHANGED <<held, contacts>>
  /\ UNCHANGED <<env, android, textLock, conn, reader, lane, job, wheel, letgo, guest>>

(* Another session or an API call types text. *)
OtherText ==
  /\ textLock' = CASE textLock = "free" -> "other" [] textLock = "other" -> "free"
                   [] OTHER -> "lane"
  /\ textLock # "lane"
  /\ UNCHANGED <<env, android, news, conn, reader, lane, job, held, contacts, wheel, letgo, guest>>

-----------------------------------------------------------------------------
(* The reader *)

Connect ==
  /\ conn = "closed"
  /\ conn' = "open"
  /\ reader' = [pc |-> "read", event |-> NoTouch]
  /\ lane' = <<>>
  /\ job' = Idle
  /\ held' = {} /\ contacts' = NoContacts
  /\ wheel' = NoWheel /\ letgo' = Nothing
  /\ UNCHANGED <<env, android, news, textLock, guest>>

(* _ready(): input is refused while Android does not run. *)
Ready == reader.pc = "read" /\ Running

(* _touch, _mouse and Pointers._point: a finger presses, moves or lifts. The
   points of one message are taken one at a time. *)
TouchMessage(f, pressed) ==
  /\ Ready
  /\ IF contacts[f] = None
     THEN /\ pressed
          /\ Cardinality(ContactIds) < MaxContacts
          /\ \E i \in Free :
               /\ \A j \in Free : i <= j
               /\ contacts' = [contacts EXCEPT ![f] = i]
     ELSE contacts' = IF pressed THEN contacts ELSE [contacts EXCEPT ![f] = None]
  /\ reader' = [pc |-> "send",
                event |-> [id |-> IF pressed THEN contacts'[f] ELSE contacts[f],
                           pressed |-> pressed]]
  /\ UNCHANGED <<env, android, news, textLock, conn, lane, job, held, wheel, letgo, guest>>

(* _send_input: the event arrives, or the viewer is told that it failed. *)
TouchSent ==
  /\ reader.pc = "send"
  /\ \/ Running /\ Touch(reader.event.id, reader.event.pressed)
     \/ MayFail /\ UNCHANGED touching
  /\ reader' = [pc |-> "read", event |-> NoTouch]
  /\ UNCHANGED <<env, android, news, textLock, conn, lane, job, held, contacts, wheel, letgo, keyboard>>

\* Mutant: a full lane takes one more job.
KeyMessage_Overfull(j) ==
  /\ Ready
  /\ IF Len(lane) <= LaneSize
     THEN Put(j) /\ UNCHANGED reader
     ELSE reader' = [pc |-> "gone", event |-> NoTouch] /\ UNCHANGED lane
  /\ UNCHANGED <<env, android, news, textLock, conn, job, held, contacts, wheel, letgo, guest>>

(* _key, _button, _text and the right button of the mouse. *)
KeyMessage(j) ==
  /\ Ready
  /\ IF Len(lane) < LaneSize
     THEN Put(j) /\ UNCHANGED reader
     ELSE reader' = [pc |-> "gone", event |-> NoTouch] /\ UNCHANGED lane
  /\ UNCHANGED <<env, android, news, textLock, conn, job, held, contacts, wheel, letgo, guest>>

(* _wheel_message *)
WheelMessage ==
  /\ Ready
  /\ wheel' = [wheel EXCEPT !.more = TRUE, !.pc = IF @ = "none" THEN "start" ELSE @]
  /\ UNCHANGED <<env, android, news, textLock, conn, reader, lane, job, held, contacts, letgo, guest>>

(* The reader ends: the viewer left, sends too much, or end() or _close
   cancels it. An event on its way has arrived or is lost. *)
ReaderEnds ==
  /\ reader.pc # "gone"
  /\ \/ reader.pc = "send" /\ Running /\ Touch(reader.event.id, reader.event.pressed)
     \/ /\ reader.pc = "read" \/ reader.event.pressed \/ ~Running \/ "cut" \in env
        /\ UNCHANGED touching
  /\ reader' = [pc |-> "gone", event |-> NoTouch]
  /\ UNCHANGED <<env, android, news, textLock, conn, lane, job, held, contacts, wheel, letgo, keyboard>>

-----------------------------------------------------------------------------
(* The wheel task: _scroll and play *)

Scroll ==
  /\ wheel.pc = "start"
  /\ \/ /\ ~wheel.more \/ ~Running
        /\ wheel' = NoWheel
     \/ /\ wheel.more /\ Running   \* too short for a drag: wait for more
        /\ wheel' = [wheel EXCEPT !.pc = "none"]
     \/ /\ wheel.more /\ Running
        /\ \E i \in Free : /\ \A j \in Free : i <= j
                           /\ wheel' = [pc |-> "drag", id |-> i, more |-> FALSE]
  /\ UNCHANGED <<env, android, news, textLock, conn, reader, lane, job, held, contacts, letgo, guest>>

\* Mutant: a drag that is cut off is not lifted.
Drag_NoLift ==
  /\ wheel.pc = "drag"
  /\ \/ Running /\ Touch(wheel.id, TRUE) /\ UNCHANGED wheel
     \/ Running /\ Touch(wheel.id, FALSE) /\ wheel' = [wheel EXCEPT !.pc = "start", !.id = None]
     \/ /\ MayFail \/ conn = "tasks"
        /\ wheel' = [wheel EXCEPT !.pc = "none", !.id = None]
        /\ UNCHANGED touching
  /\ UNCHANGED <<env, android, news, textLock, conn, reader, lane, job, held, contacts, letgo, keyboard>>

(* The press or a move arrives; the lift arrives and the task looks for
   more; a call fails, or _close cancels the task: the lift is sent again. *)
Drag ==
  /\ wheel.pc = "drag"
  /\ \/ Running /\ Touch(wheel.id, TRUE) /\ UNCHANGED wheel
     \/ Running /\ Touch(wheel.id, FALSE) /\ wheel' = [wheel EXCEPT !.pc = "start", !.id = None]
     \/ /\ MayFail \/ conn = "tasks"
        /\ wheel' = [wheel EXCEPT !.pc = "lift"]
        /\ UNCHANGED touching
  /\ UNCHANGED <<env, android, news, textLock, conn, reader, lane, job, held, contacts, letgo, keyboard>>

DragLifted ==
  /\ wheel.pc = "lift"
  /\ \/ Running /\ Touch(wheel.id, FALSE)
     \/ MayFail /\ UNCHANGED touching
  /\ wheel' = [wheel EXCEPT !.pc = "none", !.id = None]
  /\ UNCHANGED <<env, android, news, textLock, conn, reader, lane, job, held, contacts, letgo, keyboard>>

(* _close cancels a task that has not begun a drag. *)
WheelCancelled ==
  /\ wheel.pc = "start"
  /\ conn = "tasks"
  /\ wheel' = NoWheel
  /\ UNCHANGED <<env, android, news, textLock, conn, reader, lane, job, held, contacts, letgo, guest>>

-----------------------------------------------------------------------------
(* The keys lane *)

(* backend.text() takes a lease: it starts Android if it does not run. *)
Lease(mods) ==
  /\ job' = [Idle EXCEPT !.pc = IF Running THEN "lock" ELSE "boot", !.op = "paste", !.mods = mods]
  /\ IF android = "stopped"
     THEN android' = "starting" /\ news' = TRUE
     ELSE UNCHANGED <<android, news>>

(* _press: an up lets the key go first; a down of a held key is a repeat and
   dropped, and one too many is refused. A keypress leaves _held alone. *)
Press(j) ==
  IF j.op # "down" \/ (j.key \notin held /\ Cardinality(held) < MaxHeld)
  THEN /\ held' = CASE j.op = "down" -> held \cup {j.key}
                    [] j.op = "up" -> held \ {j.key}
                    [] OTHER -> held
       /\ job' = [Idle EXCEPT !.pc = "send", !.op = j.op, !.key = j.key]
  ELSE UNCHANGED <<held, job>>

\* Mutant: a paste does not let the modifiers go.
NextJob_KeepsModifiers ==
  /\ job.pc = "idle"
  /\ lane # <<>>
  /\ lane' = Tail(lane)
  /\ LET j == Head(lane)
     IN IF j.op # "paste"
        THEN Press(j) /\ UNCHANGED <<android, news>>
        ELSE /\ IF Running THEN Lease(held \cap Modifiers) ELSE UNCHANGED <<job, android, news>>
             /\ UNCHANGED held
  /\ UNCHANGED <<env, textLock, conn, reader, contacts, wheel, letgo, guest>>

(* The lane takes the next job. A paste of a session without modifiers
   checks that Android runs and takes its lease in one step. *)
NextJob ==
  /\ job.pc = "idle"
  /\ lane # <<>>
  /\ lane' = Tail(lane)
  /\ LET j == Head(lane)
         mods == held \cap Modifiers
     IN IF j.op # "paste"
        THEN Press(j) /\ UNCHANGED <<android, news>>
        ELSE /\ CASE ~Running -> UNCHANGED <<job, android, news>>
                  [] Running /\ mods = {} -> Lease(mods)
                  [] OTHER -> /\ job' = [Idle EXCEPT !.pc = "release", !.op = "paste",
                                                     !.mods = mods, !.todo = mods]
                              /\ UNCHANGED <<android, news>>
             /\ UNCHANGED held
  /\ UNCHANGED <<env, textLock, conn, reader, contacts, wheel, letgo, guest>>

(* _send_key of a key or a button: it arrives, or Android is not there. *)
KeySent ==
  /\ job.pc = "send"
  /\ \/ Running /\ KeyEvent(job)
     \/ MayFail /\ UNCHANGED keyboard
  /\ job' = Idle
  /\ UNCHANGED <<env, android, news, textLock, conn, reader, lane, held, contacts, wheel, letgo, touching>>

(* _paste lets a modifier go; after the last one it takes the lease. *)
ModifierReleased(k) ==
  /\ job.pc = "release"
  /\ k \in job.todo
  /\ \/ Running /\ Key(k, FALSE)
     \/ MayFail /\ UNCHANGED keyboard
  /\ IF job.todo = {k}
     THEN Lease(job.mods)
     ELSE job' = [job EXCEPT !.todo = @ \ {k}] /\ UNCHANGED <<android, news>>
  /\ UNCHANGED <<env, textLock, conn, reader, lane, held, contacts, wheel, letgo, touching>>

(* The finally of _paste, which presses the modifiers again. *)
Again(j) == IF j.mods # {} THEN [j EXCEPT !.pc = "again", !.todo = j.mods]
            ELSE IF j.cut THEN [Idle EXCEPT !.pc = "gone"] ELSE Idle

BootAwaited ==
  /\ job.pc = "boot"
  /\ \/ Running /\ job' = [job EXCEPT !.pc = "lock"]
     \/ android = "stopped" /\ job' = Again(job)
  /\ UNCHANGED <<env, android, news, textLock, conn, reader, lane, held, contacts, wheel, letgo, guest>>

LockTaken ==
  /\ job.pc = "lock"
  /\ textLock = "free"
  /\ textLock' = "lane"
  /\ job' = [job EXCEPT !.pc = "paste"]
  /\ UNCHANGED <<env, android, news, conn, reader, lane, held, contacts, wheel, letgo, guest>>

(* The paste key arrived, or a call failed. *)
Pasted ==
  /\ job.pc = "paste"
  /\ textLock' = "free"
  /\ job' = Again(job)
  /\ UNCHANGED <<env, android, news, conn, reader, lane, held, contacts, wheel, letgo, guest>>

ModifierPressed(k) ==
  /\ job.pc = "again"
  /\ k \in job.todo
  /\ \/ Running /\ Key(k, TRUE)
     \/ MayFail /\ UNCHANGED keyboard
  /\ job' = CASE job.todo # {k} -> [job EXCEPT !.todo = @ \ {k}]
              [] job.todo = {k} /\ job.cut -> [Idle EXCEPT !.pc = "gone"]
              [] OTHER -> Idle
  /\ UNCHANGED <<env, android, news, textLock, conn, reader, lane, held, contacts, wheel, letgo, touching>>

-----------------------------------------------------------------------------
(* _close *)

(* The reader or the writer ended. *)
CloseBegins ==
  /\ conn = "open"
  /\ conn' = "tasks"
  /\ UNCHANGED <<env, android, news, textLock, reader, lane, job, held, contacts, wheel, letgo, guest>>

TasksEnded ==
  /\ conn = "tasks"
  /\ reader.pc = "gone" /\ wheel.pc = "none"
  /\ conn' = "lanes"
  /\ UNCHANGED <<env, android, news, textLock, reader, lane, job, held, contacts, wheel, letgo, guest>>

\* Mutant: a job that waits for the text lock is not cancelled.
LaneCancelled_WaitsForLock ==
  /\ conn = "lanes"
  /\ job.pc \notin {"gone", "lock"} /\ ~job.cut
  /\ lane' = <<>>
  /\ job' = IF job.pc \in {"release", "boot", "lock", "paste"}
            THEN Again([job EXCEPT !.cut = TRUE])
            ELSE [Idle EXCEPT !.pc = "gone"]
  /\ textLock' = IF job.pc = "paste" THEN "free" ELSE textLock
  /\ \/ job.pc = "send" /\ Running /\ KeyEvent(job)
     \/ job.pc = "release" /\ Running /\ \E k \in job.todo : Key(k, FALSE)
     \/ job.pc = "again" /\ Running /\ \E k \in job.todo : Key(k, TRUE)
     \/ /\ ~(job.pc = "send" /\ job.op = "up") \/ ~Running \/ "cut" \in env
        /\ UNCHANGED keyboard
  /\ UNCHANGED <<env, android, news, conn, reader, held, contacts, wheel, letgo, touching>>

(* lane.close() cancels the job once. A paste still presses its modifiers
   again, unless that is what it was doing. *)
LaneCancelled ==
  /\ conn = "lanes"
  /\ job.pc # "gone" /\ ~job.cut
  /\ lane' = <<>>
  /\ job' = IF job.pc \in {"release", "boot", "lock", "paste"}
            THEN Again([job EXCEPT !.cut = TRUE])
            ELSE [Idle EXCEPT !.pc = "gone"]
  /\ textLock' = IF job.pc = "paste" THEN "free" ELSE textLock
  /\ \/ job.pc = "send" /\ Running /\ KeyEvent(job)
     \/ job.pc = "release" /\ Running /\ \E k \in job.todo : Key(k, FALSE)
     \/ job.pc = "again" /\ Running /\ \E k \in job.todo : Key(k, TRUE)
     \/ /\ ~(job.pc = "send" /\ job.op = "up") \/ ~Running \/ "cut" \in env
        /\ UNCHANGED keyboard
  /\ UNCHANGED <<env, android, news, conn, reader, held, contacts, wheel, letgo, touching>>

\* Mutant: the session lets go before its lane has ended.
LetGo_Early ==
  /\ conn = "lanes"
  /\ letgo' = [ids |-> ContactIds, keys |-> held]
  /\ held' = {} /\ contacts' = NoContacts
  /\ conn' = IF Running THEN "touches" ELSE "closed"
  /\ UNCHANGED <<env, android, news, textLock, reader, lane, job, wheel, guest>>

(* _let_go takes what is down; without a running Android it is done. *)
LetGo ==
  /\ conn = "lanes"
  /\ job.pc = "gone"
  /\ letgo' = IF Running THEN [ids |-> ContactIds, keys |-> held] ELSE Nothing
  /\ held' = {} /\ contacts' = NoContacts
  /\ conn' = IF Running THEN "touches" ELSE "closed"
  /\ UNCHANGED <<env, android, news, textLock, reader, lane, job, wheel, guest>>

(* One event lifts every contact, then the keys go up one by one. The first
   call that fails ends it. *)
TouchesLifted ==
  /\ conn = "touches"
  /\ \/ /\ Running \/ letgo.ids = {}
        /\ touching' = touching \ letgo.ids
        /\ letgo' = [letgo EXCEPT !.ids = {}]
        /\ conn' = "keys"
     \/ /\ MayFail
        /\ letgo' = Nothing
        /\ conn' = "closed"
        /\ UNCHANGED touching
  /\ UNCHANGED <<env, android, news, textLock, reader, lane, job, held, contacts, wheel, keyboard>>

KeysReleased ==
  /\ conn = "keys"
  /\ \/ \E k \in letgo.keys :
          /\ Running
          /\ Key(k, FALSE)
          /\ letgo' = [letgo EXCEPT !.keys = @ \ {k}]
          /\ UNCHANGED conn
     \/ /\ letgo.keys = {} \/ MayFail
        /\ letgo' = Nothing
        /\ conn' = "closed"
        /\ UNCHANGED keyboard
  /\ UNCHANGED <<env, android, news, textLock, reader, lane, job, held, contacts, wheel, touching>>

-----------------------------------------------------------------------------
AndroidStep == AndroidStops \/ AndroidStarts \/ PhaseChanges \/ BootEnds \/ StatusChanged

ReaderStep ==
  \/ Connect \/ TouchSent \/ WheelMessage \/ ReaderEnds
  \/ \E f \in Fingers, pressed \in BOOLEAN : TouchMessage(f, pressed)
  \/ \E j \in Jobs : KeyMessage(j)

WheelStep == Scroll \/ Drag \/ DragLifted \/ WheelCancelled

LaneStep ==
  \/ NextJob \/ KeySent \/ BootAwaited \/ LockTaken \/ Pasted
  \/ \E k \in Modifiers : ModifierReleased(k) \/ ModifierPressed(k)

CloseStep ==
  CloseBegins \/ TasksEnded \/ LaneCancelled \/ LetGo \/ TouchesLifted \/ KeysReleased

Next == AndroidStep \/ OtherText \/ ReaderStep \/ WheelStep \/ LaneStep \/ CloseStep

Safety == Init /\ [][Next]_vars

(* Once a close has begun its tasks are cancelled and _close goes on; every
   call to the emulator has a deadline. *)
Fairness ==
  /\ WF_vars(conn = "tasks" /\ ReaderEnds)
  /\ WF_vars(conn = "tasks" /\ (WheelCancelled \/ (Drag /\ wheel'.pc = "lift")))
  /\ WF_vars(DragLifted)
  /\ WF_vars(TasksEnded \/ LaneCancelled \/ LetGo \/ TouchesLifted \/ KeysReleased)
  /\ WF_vars(\E k \in Modifiers : ModifierPressed(k))

Spec == Safety /\ Fairness

-----------------------------------------------------------------------------
(* Properties *)

(* Nothing but a stop of Android disturbs the session's calls. *)
Calm == env \subseteq {"stop"}

(* The keys and identifiers that a task or _let_go is about to release. *)
KeysOnTheirWay ==
  letgo.keys \cup (IF job.pc = "send" /\ job.op = "up" THEN {job.key} ELSE {})
IdsOnTheirWay ==
  letgo.ids \cup (IF reader.pc = "send" THEN {reader.event.id} ELSE {})
            \cup (IF wheel.pc \in {"drag", "lift"} THEN {wheel.id} ELSE {})

(* What is down in the guest is known to the session: the key is held, the
   finger a contact, or its release is on the way. Otherwise a key stays
   pressed, or a finger on the screen, that no event of the viewer lifts. *)
NothingForgotten ==
  Calm => /\ down \subseteq held \cup KeysOnTheirWay
          /\ touching \subseteq ContactIds \cup IdsOnTheirWay

(* "Lift this session's touches and release its keys": a closed session leaves
   nothing pressed, whatever its tasks were doing when it closed. *)
AllLetGo == conn = "closed" => down = {} /\ touching = {}

(* The same where no release is cut off and no call fails, and Android does
   not stop under a paste. *)
ClosedLetsGo == Calm => AllLetGo

(* What an open session counts as held is down in the guest as soon as none
   of its events is on the way: its contacts touch, and its keys are down but
   for those that a keypress let go. With a stale key the daemon would drop
   the next press as a repeat, with a stale contact take a touch for a move. *)
HeldIsDown ==
  Calm /\ Running /\ conn = "open" =>
    /\ job.pc = "idle" => held \subseteq down \cup tapped
    /\ reader.pc = "read" => ContactIds \subseteq touching

(* "Android ignores the paste key while a modifier is down": at the paste all
   modifiers of the session are up. *)
PasteHasNoModifiers == Calm /\ job.pc = "paste" => down \cap Modifiers = {}

(* "A session never starts Android": it starts by a step of another one. *)
StartedByOthers == [][android = "stopped" /\ android' = "starting" => UNCHANGED job]_vars

(* A session that closes gets there: a paste that waits for the text lock or
   for Android, a drag or a failing call does not hold it up. *)
CloseCompletes == conn = "tasks" ~> conn = "closed"
===============================================================================
