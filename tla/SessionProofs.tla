---------------------------- MODULE SessionProofs ----------------------------
(***************************************************************************)
(* Proofs about Session: the types; and, while only Android may stop, that *)
(* a session which closes leaves nothing pressed in the guest and that     *)
(* what an open one holds is down, for any keys, modifiers, fingers and    *)
(* limits.                                                                 *)
(***************************************************************************)
EXTENDS Session, FiniteSetTheorems, TLAPS

(* The types that an action needs and TypeOK leaves open: what is sent is a
   key or an identifier. *)
EventInv ==
  /\ reader.pc = "send" => reader.event.id \in Ids
  /\ wheel.pc \in {"drag", "lift"} => wheel.id \in Ids
  /\ job.pc = "send" => \/ job.op = "press" /\ job.key \in Keys \cup {None}
                        \/ job.op \in {"down", "up"} /\ job.key \in Keys

Typed == TypeOK /\ EventInv

(* Without a running Android nothing is pressed in it. *)
GuestInv == ~Running => down = {} /\ touching = {}

(* What each stage of _close has behind it. *)
CloseInv ==
  /\ conn \in {"lanes", "touches", "keys", "closed"} => reader.pc = "gone" /\ wheel.pc = "none"
  /\ conn \in {"touches", "keys", "closed"} => job.pc = "gone" /\ held = {} /\ ContactIds = {}
  /\ conn \notin {"touches", "keys"} => letgo = Nothing
  /\ conn = "keys" => letgo.ids = {}

(* The modifiers of a paste stay held until it is over, or Android stops. *)
PasteInv ==
  /\ job.pc # "boot"
  /\ job.pc = "release" => Running /\ down \cap Modifiers \subseteq job.todo
  /\ job.pc \in {"lock", "paste"} => down \cap Modifiers = {}
  /\ job.pc \in {"release", "again"} => job.todo \subseteq job.mods
  /\ job.pc \in {"release", "lock", "paste", "again"} /\ Running => job.mods \subseteq held

(* The keys that the lane has still to press. *)
ToPress ==
  IF job.pc = "send" /\ job.op = "down" THEN {job.key}
  ELSE IF job.pc \in {"release", "lock", "paste"} THEN job.mods
  ELSE IF job.pc = "again" THEN job.todo ELSE {}

HeldInv ==
  /\ job.pc = "send" /\ job.op = "up" => job.key \notin held
  /\ job.pc = "send" /\ job.op = "down" /\ Running => job.key \in held
  /\ Running /\ conn = "open" /\ job.pc # "gone" => held \subseteq down \cup tapped \cup ToPress

(* A press on its way belongs to a contact. *)
TouchInv ==
  reader.pc = "send" /\ reader.event.pressed /\ Running => reader.event.id \in ContactIds

KeysTracked == down \subseteq held \cup KeysOnTheirWay
TouchesTracked == touching \subseteq ContactIds \cup IdsOnTheirWay
Tracked == KeysTracked /\ TouchesTracked

Parts == GuestInv /\ CloseInv /\ PasteInv /\ HeldInv /\ TouchInv /\ Tracked

(* In the last phases of a boot the session does nothing, and once it has been
   told of them it holds nothing of the old guest. *)
BootInv ==
  android = "booting" =>
    /\ reader.pc # "send"
    /\ job.pc \in {"idle", "gone"}
    /\ job.pc = "idle" => lane = <<>>
    /\ conn = "open" /\ ~news => held = {} /\ ContactIds = {}

(* No identifier has two uses, and a contact touches or is about to. *)
ContactInv ==
  /\ \A f, g \in Fingers : contacts[f] = contacts[g] /\ contacts[f] # None => f = g
  /\ wheel.pc \in {"drag", "lift"} => wheel.id \notin ContactIds
  /\ reader.pc = "send" /\ ~reader.event.pressed => reader.event.id \notin ContactIds
  /\ Running /\ conn = "open" /\ reader.pc # "gone" =>
       ContactIds \subseteq touching \cup (IF reader.pc = "send" THEN {reader.event.id} ELSE {})

Control == Calm => Parts /\ BootInv /\ ContactInv

-----------------------------------------------------------------------------
(* Types *)

(* Keys come and go within the limit of held ones. *)
LEMMA HeldBound ==
  /\ Cardinality({}) <= MaxHeld
  /\ \A S \in SUBSET Keys : \A k : Cardinality(S) <= MaxHeld => Cardinality(S \ {k}) <= MaxHeld
  /\ \A S \in SUBSET Keys, k \in Keys : Cardinality(S) < MaxHeld => Cardinality(S \cup {k}) <= MaxHeld
<1>1. Cardinality({}) <= MaxHeld
  BY FS_EmptySet, BoundsAssumption DEF BoundsAssumption
<1>2. ASSUME NEW S \in SUBSET Keys, NEW k, Cardinality(S) <= MaxHeld
      PROVE  Cardinality(S \ {k}) <= MaxHeld
  <2>1. IsFiniteSet(S)
    BY FingersAssumption, FS_Subset DEF FingersAssumption
  <2>2. Cardinality(S \ {k}) <= Cardinality(S) /\ Cardinality(S) \in Nat /\ Cardinality(S \ {k}) \in Nat
    BY <2>1, FS_Subset, FS_CardinalityType
  <2>3. QED
    BY <1>2, <2>2, BoundsAssumption DEF BoundsAssumption
<1>3. ASSUME NEW S \in SUBSET Keys, NEW k \in Keys, Cardinality(S) < MaxHeld
      PROVE  Cardinality(S \cup {k}) <= MaxHeld
  <2>1. IsFiniteSet(S)
    BY FingersAssumption, FS_Subset DEF FingersAssumption
  <2> DEFINE n == Cardinality(S)
             m == Cardinality(S \cup {k})
  <2>2. n \in Nat /\ (m = n \/ m = n + 1)
    BY <2>1, FS_AddElement, FS_CardinalityType
  <2>3. n < MaxHeld /\ MaxHeld \in Nat
    BY <1>3, BoundsAssumption DEF BoundsAssumption
  <2> HIDE DEF n, m
  <2>4. m <= MaxHeld
    BY <2>2, <2>3
  <2>5. QED
    BY <2>4 DEF m
<1>4. QED
  BY <1>1, <1>2, <1>3

(* The jobs that the actions write are jobs. *)
LEMMA JobValues ==
  /\ Idle \in JobType
  /\ [Idle EXCEPT !.pc = "gone"] \in JobType
  /\ \A j \in JobType : Again(j) \in JobType /\ Again(j).pc # "send"
  /\ \A j \in JobType : Again([j EXCEPT !.cut = TRUE]) \in JobType
  /\ \A j \in JobType : \A k : [j EXCEPT !.todo = @ \ {k}] \in JobType
<1>1. Idle \in JobType /\ [Idle EXCEPT !.pc = "gone"] \in JobType
  BY DEF Idle, JobType
<1>2. \A j \in JobType : Again(j) \in JobType /\ Again(j).pc # "send"
  BY DEF Idle, JobType, Again
<1>3. \A j \in JobType : [j EXCEPT !.cut = TRUE] \in JobType
  BY DEF JobType
<1>4. \A j \in JobType : \A k : [j EXCEPT !.todo = @ \ {k}] \in JobType
  BY DEF JobType
<1>5. QED
  BY <1>1, <1>2, <1>3, <1>4

(* The wheels that the actions write are wheels. *)
LEMMA WheelValues ==
  /\ NoWheel \in WheelType
  /\ \A w \in WheelType : /\ [w EXCEPT !.more = TRUE, !.pc = IF @ = "none" THEN "start" ELSE @] \in WheelType
                          /\ [w EXCEPT !.pc = "none"] \in WheelType
                          /\ [w EXCEPT !.pc = "lift"] \in WheelType
                          /\ [w EXCEPT !.pc = "start", !.id = None] \in WheelType
                          /\ [w EXCEPT !.pc = "none", !.id = None] \in WheelType
  /\ \A i \in Ids : [pc |-> "drag", id |-> i, more |-> FALSE] \in WheelType
BY DEF NoWheel, WheelType

(* The steps of Android and of other users keep the types. *)
LEMMA AndroidTyped == Typed /\ (AndroidStep \/ OtherText) => Typed'
<1> SUFFICES ASSUME Typed, AndroidStep \/ OtherText PROVE Typed'
  OBVIOUS
<1> USE DEF Typed, TypeOK, EventInv, guest, keyboard
<1>1. CASE AndroidStops
  BY <1>1 DEF AndroidStops
<1>2. CASE AndroidStarts
  BY <1>2 DEF AndroidStarts
<1>3. CASE PhaseChanges
  BY <1>3 DEF PhaseChanges
<1>4. CASE BootEnds
  BY <1>4 DEF BootEnds
<1>5. CASE StatusChanged
  <2>1. held' \subseteq Keys /\ Cardinality(held') <= MaxHeld
    BY <1>5, HeldBound DEF StatusChanged
  <2>2. contacts' \in [Fingers -> Ids \cup {None}]
    BY <1>5 DEF StatusChanged, NoContacts
  <2>3. UNCHANGED <<env, android, textLock, conn, reader, lane, job, wheel, letgo, down, touching, tapped>>
    BY <1>5 DEF StatusChanged
  <2>4. news' \in BOOLEAN
    BY <1>5 DEF StatusChanged
  <2>5. QED
    BY <2>1, <2>2, <2>3, <2>4
<1>6. CASE OtherText
  BY <1>6 DEF OtherText
<1>7. QED
  BY <1>1, <1>2, <1>3, <1>4, <1>5, <1>6 DEF AndroidStep

(* The steps of the reader keep the types. *)
LEMMA ReaderTyped == Typed /\ ReaderStep => Typed'
<1> SUFFICES ASSUME Typed, ReaderStep PROVE Typed'
  OBVIOUS
<1> USE DEF Typed, TypeOK, EventInv, guest, keyboard
<1>1. CASE Connect
  <2>1. job' \in JobType /\ wheel' \in WheelType /\ Cardinality(held') <= MaxHeld
    BY <1>1, JobValues, WheelValues, HeldBound DEF Connect
  <2>2. lane' \in Seq(Jobs) /\ Len(lane') <= LaneSize
    BY <1>1, BoundsAssumption DEF Connect, BoundsAssumption
  <2>3. QED
    BY <1>1, <2>1, <2>2 DEF Connect, Idle, NoWheel, Nothing, NoTouch, NoContacts
<1>2. CASE TouchSent
  BY <1>2 DEF TouchSent, Touch, NoTouch
<1>3. CASE WheelMessage
  <2>1. wheel' \in WheelType
    BY <1>3, WheelValues DEF WheelMessage
  <2>2. wheel'.pc \in {"drag", "lift"} => wheel'.id \in Ids
    BY <1>3 DEF WheelMessage, WheelType
  <2>3. QED
    BY <1>3, <2>1, <2>2 DEF WheelMessage
<1>4. CASE ReaderEnds
  BY <1>4 DEF ReaderEnds, Touch, NoTouch
<1>5. ASSUME NEW f \in Fingers, NEW pressed \in BOOLEAN, TouchMessage(f, pressed)
      PROVE  Typed'
  <2>1. Free \subseteq Ids
    BY DEF Free
  <2>2. contacts' \in [Fingers -> Ids \cup {None}] /\ reader'.event.id \in Ids
    BY <1>5, <2>1, BoundsAssumption DEF TouchMessage, BoundsAssumption, Ids
  <2>3. reader' \in [pc : {"read", "send", "gone"},
                     event : [id : Ids \cup {None}, pressed : BOOLEAN]]
    <3>1. \A i \in Ids : [pc |-> "send", event |-> [id |-> i, pressed |-> pressed]]
                          \in [pc : {"read", "send", "gone"},
                              event : [id : Ids \cup {None}, pressed : BOOLEAN]]
      OBVIOUS
    <3>2. \E i : reader' = [pc |-> "send", event |-> [id |-> i, pressed |-> pressed]]
      BY <1>5 DEF TouchMessage
    <3>3. QED
      BY <2>2, <3>1, <3>2
  <2>4. QED
    BY <1>5, <2>2, <2>3 DEF TouchMessage
<1>6. ASSUME NEW j \in Jobs, KeyMessage(j)
      PROVE  Typed'
  <2>1. lane' \in Seq(Jobs) /\ Len(lane') <= LaneSize
    <3>1. lane' = lane \/ (Len(lane) < LaneSize /\ lane' = Append(lane, j))
      BY <1>6 DEF KeyMessage, Put
    <3>2. lane \in Seq(Jobs) /\ Len(lane) <= LaneSize
      OBVIOUS
    <3>3. LaneSize \in Nat
      BY BoundsAssumption DEF BoundsAssumption
    <3> HIDE DEF Typed, TypeOK, EventInv, guest, keyboard
    <3>4. QED
      BY <3>1, <3>2, <3>3
  <2>2. reader' = reader \/ reader' = [pc |-> "gone", event |-> NoTouch]
    BY <1>6 DEF KeyMessage
  <2>3. [pc |-> "gone", event |-> NoTouch] \in [pc : {"read", "send", "gone"},
                                               event : [id : Ids \cup {None}, pressed : BOOLEAN]]
    BY DEF NoTouch
  <2>4. reader'.pc = "send" => reader' = reader
    BY <2>2
  <2>5. QED
    BY <1>6, <2>1, <2>2, <2>3, <2>4 DEF KeyMessage
<1>7. QED
  BY <1>1, <1>2, <1>3, <1>4, <1>5, <1>6 DEF ReaderStep

(* The steps of the wheel task keep the types. *)
LEMMA WheelTyped == Typed /\ WheelStep => Typed'
<1> SUFFICES ASSUME Typed, WheelStep PROVE Typed'
  OBVIOUS
<1> USE DEF Typed, TypeOK, EventInv, guest, keyboard
<1>1. CASE Scroll
  <2>1. wheel' \in WheelType
    BY <1>1, WheelValues DEF Scroll, Free
  <2>2. wheel'.pc \in {"drag", "lift"} => wheel'.id \in Ids
    BY <1>1 DEF Scroll, WheelType, Free, NoWheel
  <2>3. QED
    BY <1>1, <2>1, <2>2 DEF Scroll
<1>2. CASE Drag
  <2>1. wheel' \in WheelType
    BY <1>2, WheelValues DEF Drag
  <2>2. wheel'.pc \in {"drag", "lift"} => wheel'.id \in Ids
    BY <1>2 DEF Drag, WheelType
  <2>3. touching' \subseteq Ids
    BY <1>2 DEF Drag, Touch
  <2>4. QED
    BY <1>2, <2>1, <2>2, <2>3 DEF Drag
<1>3. CASE DragLifted
  <2>1. wheel' \in WheelType
    BY <1>3, WheelValues DEF DragLifted
  <2>2. wheel'.pc \notin {"drag", "lift"}
    BY <1>3 DEF DragLifted, WheelType
  <2>3. QED
    BY <1>3, <2>1, <2>2 DEF DragLifted, Touch
<1>4. CASE WheelCancelled
  BY <1>4, WheelValues DEF WheelCancelled, NoWheel
<1>5. QED
  BY <1>1, <1>2, <1>3, <1>4 DEF WheelStep

(* The lease of a paste is taken by a job. *)
LEMMA LeaseTyped ==
  ASSUME Typed, NEW m \in SUBSET Modifiers, Lease(m)
  PROVE  /\ job' \in JobType /\ job'.pc \in {"lock", "boot"}
         /\ android' \in {"stopped", "starting", "booting", "running"} /\ news' \in BOOLEAN
<1>1. \A pc \in {"lock", "boot"} :
        /\ [Idle EXCEPT !.pc = pc, !.op = "paste", !.mods = m] \in JobType
        /\ [Idle EXCEPT !.pc = pc, !.op = "paste", !.mods = m].pc = pc
  BY DEF Idle, JobType
<1>2. QED
  BY <1>1 DEF Lease, Typed, TypeOK

(* A key event of the lane is a job. *)
LEMMA PressTyped ==
  ASSUME Typed, NEW j \in Jobs, j.op # "paste", Press(j)
  PROVE  /\ job' \in JobType
         /\ job'.pc = "send" => \/ job'.op = "press" /\ job'.key \in Keys \cup {None}
                                \/ job'.op \in {"down", "up"} /\ job'.key \in Keys
         /\ held' \subseteq Keys /\ Cardinality(held') <= MaxHeld
<1>1. j.op \in {"down", "up", "press"} /\ (j.op = "press" \/ j.key \in Keys) /\ j.key \in Keys \cup {None}
  BY DEF Jobs
<1>2. /\ [Idle EXCEPT !.pc = "send", !.op = j.op, !.key = j.key] \in JobType
      /\ [Idle EXCEPT !.pc = "send", !.op = j.op, !.key = j.key].op = j.op
      /\ [Idle EXCEPT !.pc = "send", !.op = j.op, !.key = j.key].key = j.key
  BY <1>1 DEF Idle, JobType
<1>3. held' \subseteq Keys /\ Cardinality(held') <= MaxHeld
  BY <1>1, HeldBound DEF Press, Typed, TypeOK
<1>4. job' = job \/ job' = [Idle EXCEPT !.pc = "send", !.op = j.op, !.key = j.key]
  BY DEF Press
<1>5. QED
  BY <1>1, <1>2, <1>3, <1>4 DEF Typed, TypeOK, EventInv

(* The steps of the keys lane keep the types. *)
LEMMA LaneTyped == Typed /\ LaneStep => Typed'
<1> SUFFICES ASSUME Typed, LaneStep PROVE Typed'
  OBVIOUS
<1>1. CASE NextJob
  <2>1. Head(lane) \in Jobs /\ Tail(lane) \in Seq(Jobs) /\ Len(Tail(lane)) <= Len(lane) /\ Len(lane) \in Nat
    BY <1>1 DEF NextJob, Typed, TypeOK
  <2>2. lane' \in Seq(Jobs) /\ Len(lane') <= LaneSize
    BY <1>1, <2>1, BoundsAssumption DEF NextJob, BoundsAssumption, Typed, TypeOK
  <2>3. CASE Head(lane).op # "paste"
    <3>1. Press(Head(lane)) /\ UNCHANGED <<android, news>>
      BY <1>1, <2>3 DEF NextJob
    <3>2. QED
      BY <1>1, <2>1, <2>2, <2>3, <3>1, PressTyped DEF NextJob, Typed, TypeOK, EventInv, guest, keyboard
  <2>4. CASE Head(lane).op = "paste"
    <3> DEFINE mods == held \cap Modifiers
               rel == [Idle EXCEPT !.pc = "release", !.op = "paste", !.mods = mods, !.todo = mods]
    <3>1. mods \in SUBSET Modifiers /\ rel \in JobType /\ rel.pc = "release"
      BY DEF Idle, JobType
    <3>2. \/ UNCHANGED <<job, android, news>> \/ Lease(mods)
          \/ job' = rel /\ UNCHANGED <<android, news>>
      BY <1>1, <2>4 DEF NextJob
    <3>3. /\ job' \in JobType /\ (job'.pc = "send" => job' = job)
          /\ android' \in {"stopped", "starting", "booting", "running"} /\ news' \in BOOLEAN
      <4>1. CASE UNCHANGED <<job, android, news>>
        BY <4>1 DEF Typed, TypeOK
      <4>2. CASE Lease(mods)
        BY <3>1, <4>2, LeaseTyped
      <4>3. CASE job' = rel /\ UNCHANGED <<android, news>>
        BY <3>1, <4>3 DEF Typed, TypeOK
      <4>4. QED
        BY <3>2, <4>1, <4>2, <4>3
    <3>4. QED
      BY <1>1, <2>2, <2>4, <3>3 DEF NextJob, Typed, TypeOK, EventInv, guest, keyboard
  <2>5. QED
    BY <2>3, <2>4
<1>2. CASE KeySent
  <2>1. down' \subseteq Keys /\ tapped' \subseteq Keys
    BY <1>2 DEF KeySent, KeyEvent, Key, Tap, keyboard, Typed, TypeOK, EventInv
  <2>2. QED
    BY <1>2, <2>1, JobValues DEF KeySent, Idle, Typed, TypeOK, EventInv
<1>3. CASE BootAwaited
  <2>1. job' \in JobType /\ job'.pc # "send"
    <3>1. [job EXCEPT !.pc = "lock"] \in JobType /\ [job EXCEPT !.pc = "lock"].pc = "lock"
      BY DEF JobType, Typed, TypeOK
    <3>2. Again(job) \in JobType /\ Again(job).pc # "send"
      BY JobValues DEF Typed, TypeOK
    <3>3. QED
      BY <1>3, <3>1, <3>2 DEF BootAwaited
  <2>2. QED
    BY <1>3, <2>1 DEF BootAwaited, Typed, TypeOK, EventInv, guest, keyboard
<1>4. CASE LockTaken
  BY <1>4 DEF LockTaken, JobType, Typed, TypeOK, EventInv, guest, keyboard
<1>5. CASE Pasted
  <2>1. job' \in JobType /\ job'.pc # "send"
    BY <1>5, JobValues DEF Pasted, Typed, TypeOK
  <2>2. QED
    BY <1>5, <2>1 DEF Pasted, Typed, TypeOK, EventInv, guest, keyboard
<1>6. ASSUME NEW k \in Modifiers, ModifierReleased(k)
      PROVE  Typed'
  <2>1. /\ job' \in JobType /\ job'.pc # "send"
        /\ android' \in {"stopped", "starting", "booting", "running"} /\ news' \in BOOLEAN
    <3>1. job.mods \in SUBSET Modifiers
      BY DEF JobType, Typed, TypeOK
    <3>2. [job EXCEPT !.todo = @ \ {k}] \in JobType /\ [job EXCEPT !.todo = @ \ {k}].pc = job.pc
      BY JobValues DEF JobType, Typed, TypeOK
    <3>3. job.pc = "release"
      BY <1>6 DEF ModifierReleased
    <3>4. CASE job.todo = {k}
      BY <1>6, <3>1, <3>4, LeaseTyped DEF ModifierReleased
    <3>5. CASE job.todo # {k}
      BY <1>6, <3>2, <3>3, <3>5 DEF ModifierReleased, Typed, TypeOK
    <3>6. QED
      BY <3>4, <3>5
  <2>2. down' \subseteq Keys /\ tapped' \subseteq Keys
    BY <1>6 DEF ModifierReleased, Key, keyboard, Typed, TypeOK
  <2>3. QED
    BY <1>6, <2>1, <2>2 DEF ModifierReleased, Typed, TypeOK, EventInv
<1>7. ASSUME NEW k \in Modifiers, ModifierPressed(k)
      PROVE  Typed'
  <2>1. job' \in JobType /\ job'.pc # "send"
    <3>1. [job EXCEPT !.todo = @ \ {k}] \in JobType /\ [job EXCEPT !.todo = @ \ {k}].pc = job.pc
      BY JobValues DEF JobType, Typed, TypeOK
    <3>2. /\ Idle \in JobType /\ Idle.pc = "idle"
          /\ [Idle EXCEPT !.pc = "gone"] \in JobType /\ [Idle EXCEPT !.pc = "gone"].pc = "gone"
      BY JobValues DEF Idle
    <3>3. /\ job.pc = "again"
          /\ job' \in {[job EXCEPT !.todo = @ \ {k}], Idle, [Idle EXCEPT !.pc = "gone"]}
      BY <1>7 DEF ModifierPressed
    <3>4. QED
      BY <3>1, <3>2, <3>3
  <2>2. down' \subseteq Keys /\ tapped' \subseteq Keys
    BY <1>7, KeysAssumption DEF ModifierPressed, Key, keyboard, KeysAssumption, Typed, TypeOK
  <2>3. QED
    BY <1>7, <2>1, <2>2 DEF ModifierPressed, Typed, TypeOK, EventInv
<1>8. QED
  BY <1>1, <1>2, <1>3, <1>4, <1>5, <1>6, <1>7 DEF LaneStep

(* The steps of _close keep the types. *)
LEMMA CloseTyped == Typed /\ CloseStep => Typed'
<1> SUFFICES ASSUME Typed, CloseStep PROVE Typed'
  OBVIOUS
<1> USE DEF Typed, TypeOK, EventInv, guest, keyboard
<1>1. CASE CloseBegins
  BY <1>1 DEF CloseBegins
<1>2. CASE TasksEnded
  BY <1>2 DEF TasksEnded
<1>3. CASE LaneCancelled
  <2>1. job' \in JobType /\ job'.pc # "send"
    <3>1. [job EXCEPT !.cut = TRUE] \in JobType
      BY DEF JobType
    <3>2. Again([job EXCEPT !.cut = TRUE]) \in JobType /\ Again([job EXCEPT !.cut = TRUE]).pc # "send"
      BY <3>1, JobValues
    <3>3. [Idle EXCEPT !.pc = "gone"] \in JobType /\ [Idle EXCEPT !.pc = "gone"].pc = "gone"
      BY JobValues DEF Idle
    <3>4. QED
      BY <1>3, <3>2, <3>3 DEF LaneCancelled
  <2>2. down' \subseteq Keys /\ tapped' \subseteq Keys
    <3>1. job.todo \subseteq Keys
      BY KeysAssumption DEF KeysAssumption, JobType
    <3>2. QED
      BY <1>3, <3>1 DEF LaneCancelled, KeyEvent, Key, Tap
  <2>3. lane' \in Seq(Jobs) /\ Len(lane') <= LaneSize
    BY <1>3, BoundsAssumption DEF LaneCancelled, BoundsAssumption
  <2>4. QED
    BY <1>3, <2>1, <2>2, <2>3 DEF LaneCancelled
<1>4. CASE LetGo
  <2>1. ContactIds \subseteq Ids
    BY DEF ContactIds
  <2>2. Cardinality(held') <= MaxHeld
    BY <1>4, HeldBound DEF LetGo
  <2>3. QED
    BY <1>4, <2>1, <2>2 DEF LetGo, NoContacts, Nothing
<1>5. CASE TouchesLifted
  BY <1>5 DEF TouchesLifted, Nothing
<1>6. CASE KeysReleased
  BY <1>6 DEF KeysReleased, Key, Nothing
<1>7. QED
  BY <1>1, <1>2, <1>3, <1>4, <1>5, <1>6 DEF CloseStep

(* Every step keeps the types. *)
LEMMA NextTyped == Typed /\ [Next]_vars => Typed'
<1>1. CASE UNCHANGED vars
  BY <1>1 DEF vars, guest, keyboard, Typed, TypeOK, EventInv
<1>2. QED
  BY <1>1, AndroidTyped, ReaderTyped, WheelTyped, LaneTyped, CloseTyped DEF Next

LEMMA InitTyped == Init => Typed
<1> SUFFICES ASSUME Init PROVE Typed
  OBVIOUS
<1>1. job \in JobType /\ wheel \in WheelType /\ Cardinality(held) <= MaxHeld
  BY JobValues, WheelValues, HeldBound DEF Init
<1>2. lane \in Seq(Jobs) /\ Len(lane) <= LaneSize
  BY BoundsAssumption DEF Init, BoundsAssumption
<1>3. job.pc = "gone" /\ wheel.pc = "none" /\ reader.pc = "gone"
  BY DEF Init, Idle, NoWheel
<1>4. QED
  BY <1>1, <1>2, <1>3 DEF Init, Typed, TypeOK, EventInv, NoTouch, NoContacts, Nothing

(* Every variable of a session keeps its type: the lane, the held keys and
   the messages stay within their bounds. *)
THEOREM SessionTypes == Safety => []TypeOK
<1>1. Safety => []Typed
  BY InitTyped, NextTyped, PTL DEF Safety
<1>2. Typed => TypeOK
  BY DEF Typed
<1>3. QED
  BY <1>1, <1>2, PTL

-----------------------------------------------------------------------------
(* What a closing session leaves *)

(* The lease of a paste while Android runs. *)
LEMMA LeaseEffect ==
  ASSUME NEW m, Lease(m), Running
  PROVE  job'.pc = "lock" /\ job'.mods = m /\ job'.op = "paste" /\ UNCHANGED android
BY DEF Lease, Idle, Running

(* A key job is sent, with the key held or let go, or it is dropped. *)
LEMMA PressEffect ==
  ASSUME NEW j, Press(j)
  PROVE  \/ UNCHANGED <<held, job>>
         \/ /\ job'.pc = "send" /\ job'.op = j.op /\ job'.key = j.key
            /\ held' = CASE j.op = "down" -> held \cup {j.key}
                         [] j.op = "up" -> held \ {j.key}
                         [] OTHER -> held
BY DEF Press, Idle

(* The steps of what Android and other users do keep the parts. *)
LEMMA AndroidControl ==
  ASSUME Typed, Typed', Calm, Parts, BootInv, AndroidStep \/ OtherText
  PROVE  Parts'
<1>0. GuestInv /\ CloseInv /\ PasteInv /\ HeldInv /\ TouchInv /\ Tracked
  BY DEF Parts
<1>1. CASE AndroidStops
  <2>1. GuestInv' /\ CloseInv' /\ HeldInv'
    BY <1>0, <1>1 DEF AndroidStops, guest, keyboard, GuestInv, Running, CloseInv, ContactIds, HeldInv, ToPress
  <2>2. TouchInv' /\ Tracked'
    BY <1>0, <1>1 DEF AndroidStops, guest, keyboard, TouchInv, ContactIds, Running, Tracked, KeysTracked, TouchesTracked, KeysOnTheirWay, IdsOnTheirWay
  <2>3. PasteInv'
    BY <1>0, <1>1 DEF AndroidStops, guest, keyboard, Running, ContactIds, GuestInv, CloseInv, PasteInv, HeldInv, ToPress, TouchInv, Tracked, KeysTracked, TouchesTracked, KeysOnTheirWay, IdsOnTheirWay, Calm
  <2>4. QED
    BY <2>1, <2>2, <2>3 DEF Parts
<1>2. CASE AndroidStarts
  <2>1. GuestInv' /\ CloseInv' /\ PasteInv'
    BY <1>0, <1>2 DEF AndroidStarts, guest, keyboard, GuestInv, Running, CloseInv, ContactIds, PasteInv
  <2>2. HeldInv' /\ TouchInv' /\ Tracked'
    BY <1>0, <1>2 DEF AndroidStarts, guest, keyboard, HeldInv, ToPress, Running, TouchInv, ContactIds, Tracked, KeysTracked, TouchesTracked, KeysOnTheirWay, IdsOnTheirWay
  <2>3. QED
    BY <2>1, <2>2 DEF Parts
<1>3. CASE PhaseChanges
  <2>1. GuestInv' /\ CloseInv' /\ PasteInv'
    BY <1>0, <1>3 DEF PhaseChanges, guest, keyboard, GuestInv, Running, CloseInv, ContactIds, PasteInv
  <2>2. HeldInv' /\ TouchInv' /\ Tracked'
    BY <1>0, <1>3 DEF PhaseChanges, guest, keyboard, HeldInv, ToPress, Running, TouchInv, ContactIds, Tracked, KeysTracked, TouchesTracked, KeysOnTheirWay, IdsOnTheirWay
  <2>3. QED
    BY <2>1, <2>2 DEF Parts
<1>4. CASE BootEnds
  <2>1. /\ ~Running /\ android' \in {"stopped", "running"}
        /\ UNCHANGED <<conn, reader, job, held, contacts, wheel, letgo, down, touching, tapped>>
    BY <1>4 DEF BootEnds, guest, keyboard, Running
  <2>2. Running' => /\ reader.pc # "send" /\ job.pc \in {"idle", "gone"}
                    /\ conn = "open" => held = {}
    BY <1>4 DEF BootEnds, BootInv, Running
  <2>3. GuestInv' /\ CloseInv' /\ PasteInv'
    BY <1>0, <2>1, <2>2 DEF GuestInv, Running, CloseInv, ContactIds, PasteInv
  <2>4. TouchInv' /\ Tracked'
    BY <1>0, <2>1, <2>2 DEF TouchInv, ContactIds, Running, Tracked, KeysTracked, TouchesTracked, KeysOnTheirWay, IdsOnTheirWay
  <2>5. HeldInv'
    BY <1>0, <2>1, <2>2 DEF HeldInv, Running
  <2>6. QED
    BY <2>3, <2>4, <2>5 DEF Parts
<1>5. CASE StatusChanged
  <2>1. GuestInv' /\ CloseInv' /\ PasteInv'
    BY <1>0, <1>5 DEF StatusChanged, guest, keyboard, NoContacts, GuestInv, Running, CloseInv, ContactIds, PasteInv
  <2>2. HeldInv' /\ TouchInv'
    BY <1>0, <1>5 DEF StatusChanged, guest, keyboard, NoContacts, HeldInv, ToPress, Running, TouchInv, ContactIds
  <2>3. Tracked'
    BY <1>0, <1>5 DEF StatusChanged, guest, keyboard, NoContacts, Running, ContactIds, GuestInv, CloseInv, PasteInv, HeldInv, ToPress, TouchInv, Tracked, KeysTracked, TouchesTracked, KeysOnTheirWay, IdsOnTheirWay, Calm
  <2>4. QED
    BY <2>1, <2>2, <2>3 DEF Parts
<1>6. CASE OtherText
  <2>1. GuestInv' /\ CloseInv' /\ PasteInv'
    BY <1>0, <1>6 DEF OtherText, guest, keyboard, GuestInv, Running, CloseInv, ContactIds, PasteInv
  <2>2. HeldInv' /\ TouchInv' /\ Tracked'
    BY <1>0, <1>6 DEF OtherText, guest, keyboard, HeldInv, ToPress, Running, TouchInv, ContactIds, Tracked, KeysTracked, TouchesTracked, KeysOnTheirWay, IdsOnTheirWay
  <2>3. QED
    BY <2>1, <2>2 DEF Parts
<1>7. QED
  BY <1>1, <1>2, <1>3, <1>4, <1>5, <1>6 DEF AndroidStep

(* The steps of the reader keep the parts. *)
LEMMA ReaderControl ==
  ASSUME Typed, Typed', Calm, Parts, ReaderStep
  PROVE  Parts'
<1>0. GuestInv /\ CloseInv /\ PasteInv /\ HeldInv /\ TouchInv /\ Tracked
  BY DEF Parts
<1>1. CASE Connect
  <2>1. GuestInv' /\ CloseInv' /\ PasteInv'
    BY <1>0, <1>1 DEF Connect, guest, keyboard, Idle, NoWheel, NoTouch, NoContacts, GuestInv, Running, CloseInv, ContactIds, PasteInv
  <2>2. HeldInv' /\ TouchInv'
    BY <1>0, <1>1 DEF Connect, guest, keyboard, Idle, NoWheel, NoTouch, NoContacts, HeldInv, ToPress, Running, TouchInv, ContactIds
  <2>3. Tracked'
    BY <1>0, <1>1 DEF Connect, guest, keyboard, Idle, NoWheel, NoTouch, NoContacts, Running, ContactIds, GuestInv, CloseInv, PasteInv, HeldInv, ToPress, TouchInv, Tracked, KeysTracked, TouchesTracked, KeysOnTheirWay, IdsOnTheirWay, Calm
  <2>4. QED
    BY <2>1, <2>2, <2>3 DEF Parts
<1>2. CASE TouchSent
  <2>1. GuestInv' /\ CloseInv' /\ PasteInv'
    BY <1>0, <1>2 DEF TouchSent, guest, keyboard, Touch, NoTouch, MayFail, GuestInv, Running, CloseInv, ContactIds, PasteInv
  <2>2. HeldInv' /\ TouchInv'
    BY <1>0, <1>2 DEF TouchSent, guest, keyboard, Touch, NoTouch, MayFail, HeldInv, ToPress, Running, TouchInv, ContactIds
  <2>3. Tracked'
    BY <1>0, <1>2 DEF TouchSent, guest, keyboard, Touch, NoTouch, MayFail, Running, ContactIds, GuestInv, CloseInv, PasteInv, HeldInv, ToPress, TouchInv, Tracked, KeysTracked, TouchesTracked, KeysOnTheirWay, IdsOnTheirWay, Calm
  <2>4. QED
    BY <2>1, <2>2, <2>3 DEF Parts
<1>3. CASE WheelMessage
  <2>1. GuestInv' /\ CloseInv' /\ PasteInv'
    BY <1>0, <1>3 DEF WheelMessage, guest, keyboard, Ready, GuestInv, Running, CloseInv, ContactIds, PasteInv
  <2>2. HeldInv' /\ TouchInv' /\ Tracked'
    BY <1>0, <1>3 DEF WheelMessage, guest, keyboard, Ready, HeldInv, ToPress, Running, TouchInv, ContactIds, Tracked, KeysTracked, TouchesTracked, KeysOnTheirWay, IdsOnTheirWay
  <2>3. QED
    BY <2>1, <2>2 DEF Parts
<1>4. CASE ReaderEnds
  <2>1. GuestInv' /\ CloseInv' /\ PasteInv'
    BY <1>0, <1>4 DEF ReaderEnds, guest, keyboard, Touch, NoTouch, GuestInv, Running, CloseInv, ContactIds, PasteInv
  <2>2. HeldInv' /\ TouchInv'
    BY <1>0, <1>4 DEF ReaderEnds, guest, keyboard, Touch, NoTouch, HeldInv, ToPress, Running, TouchInv, ContactIds
  <2>3. Tracked'
    BY <1>0, <1>4 DEF ReaderEnds, guest, keyboard, Touch, NoTouch, Running, ContactIds, GuestInv, CloseInv, PasteInv, HeldInv, ToPress, TouchInv, Tracked, KeysTracked, TouchesTracked, KeysOnTheirWay, IdsOnTheirWay, Calm
  <2>4. QED
    BY <2>1, <2>2, <2>3 DEF Parts
<1>5. ASSUME NEW f \in Fingers, NEW pressed \in BOOLEAN, TouchMessage(f, pressed)
      PROVE  Parts'
  <2>1. /\ reader'.pc = "send" /\ reader'.event.pressed = pressed
        /\ reader'.event.id = IF pressed THEN contacts'[f] ELSE contacts[f]
        /\ reader.pc = "read"
        /\ UNCHANGED <<android, conn, job, held, wheel, letgo, down, touching>>
    BY <1>5 DEF TouchMessage, Ready, guest, keyboard
  <2>2. /\ pressed => contacts'[f] \in Ids /\ \A g \in Fingers \ {f} : contacts'[g] = contacts[g]
        /\ pressed => contacts[f] \in {None, contacts'[f]}
        /\ ~pressed => \A g \in Fingers : contacts'[g] = contacts[g] \/ g = f
    BY <1>5 DEF TouchMessage, Free, Typed, TypeOK
  <2>3. None \notin Ids
    BY BoundsAssumption DEF BoundsAssumption, Ids
  <2>4. /\ pressed => reader'.event.id \in ContactIds'
        /\ ContactIds \subseteq ContactIds' \cup {reader'.event.id}
    BY <2>1, <2>2, <2>3 DEF ContactIds
  <2>5. GuestInv' /\ CloseInv' /\ PasteInv'
    BY <1>0, <1>5 DEF TouchMessage, guest, keyboard, Ready, Free, GuestInv, Running, CloseInv, ContactIds, PasteInv
  <2>6. HeldInv'
    BY <1>0, <1>5 DEF TouchMessage, guest, keyboard, Ready, Free, HeldInv, ToPress, Running
  <2>7. TouchInv'
    BY <2>1, <2>4 DEF TouchInv
  <2>8. Tracked'
    BY <1>0, <2>1, <2>4 DEF Tracked, KeysTracked, TouchesTracked, KeysOnTheirWay, IdsOnTheirWay
  <2>9. QED
    BY <2>5, <2>6, <2>7, <2>8 DEF Parts
<1>6. ASSUME NEW j \in Jobs, KeyMessage(j)
      PROVE  Parts'
  <2>1. GuestInv' /\ CloseInv' /\ PasteInv'
    BY <1>0, <1>6 DEF KeyMessage, guest, keyboard, Ready, Put, NoTouch, GuestInv, Running, CloseInv, ContactIds, PasteInv
  <2>2. HeldInv' /\ TouchInv' /\ Tracked'
    BY <1>0, <1>6 DEF KeyMessage, guest, keyboard, Ready, Put, NoTouch, HeldInv, ToPress, Running, TouchInv, ContactIds, Tracked, KeysTracked, TouchesTracked, KeysOnTheirWay, IdsOnTheirWay
  <2>3. QED
    BY <2>1, <2>2 DEF Parts
<1>7. QED
  BY <1>1, <1>2, <1>3, <1>4, <1>5, <1>6 DEF ReaderStep

(* The steps of the wheel task keep the parts. *)
LEMMA WheelControl ==
  ASSUME Typed, Typed', Calm, Parts, WheelStep
  PROVE  Parts'
<1>0. GuestInv /\ CloseInv /\ PasteInv /\ HeldInv /\ TouchInv /\ Tracked
  BY DEF Parts
<1>1. CASE Scroll
  <2>1. GuestInv' /\ CloseInv' /\ PasteInv'
    BY <1>0, <1>1 DEF Scroll, guest, keyboard, Free, NoWheel, GuestInv, Running, CloseInv, ContactIds, PasteInv
  <2>2. HeldInv' /\ TouchInv' /\ Tracked'
    BY <1>0, <1>1 DEF Scroll, guest, keyboard, Free, NoWheel, HeldInv, ToPress, Running, TouchInv, ContactIds, Tracked, KeysTracked, TouchesTracked, KeysOnTheirWay, IdsOnTheirWay
  <2>3. QED
    BY <2>1, <2>2 DEF Parts
<1>2. CASE Drag
  <2>1. GuestInv' /\ CloseInv' /\ PasteInv'
    BY <1>0, <1>2 DEF Drag, guest, keyboard, Touch, MayFail, GuestInv, Running, CloseInv, ContactIds, PasteInv
  <2>2. HeldInv' /\ TouchInv'
    BY <1>0, <1>2 DEF Drag, guest, keyboard, Touch, MayFail, HeldInv, ToPress, Running, TouchInv, ContactIds
  <2>3. Tracked'
    <3>1. KeysTracked'
      BY <1>0, <1>2 DEF Drag, keyboard, Tracked, KeysTracked, KeysOnTheirWay
    <3>2. wheel.pc = "drag" /\ UNCHANGED <<contacts, reader, letgo>>
      BY <1>2 DEF Drag
    <3>3. \/ wheel'.pc \in {"drag", "lift"} /\ wheel'.id = wheel.id /\ touching' \subseteq touching \cup {wheel.id}
          \/ touching' = touching \ {wheel.id}
      <4>1. [wheel EXCEPT !.pc = "lift"].pc = "lift" /\ [wheel EXCEPT !.pc = "lift"].id = wheel.id
        BY DEF Typed, TypeOK, WheelType
      <4>2. QED
        BY <1>2, <4>1 DEF Drag, Touch
    <3>4. TouchesTracked'
      BY <1>0, <3>2, <3>3 DEF Tracked, TouchesTracked, IdsOnTheirWay, ContactIds
    <3>5. QED
      BY <3>1, <3>4 DEF Tracked, KeysTracked, TouchesTracked
  <2>4. QED
    BY <2>1, <2>2, <2>3 DEF Parts
<1>3. CASE DragLifted
  <2>1. GuestInv' /\ CloseInv' /\ PasteInv'
    BY <1>0, <1>3 DEF DragLifted, guest, keyboard, Touch, MayFail, GuestInv, Running, CloseInv, ContactIds, PasteInv
  <2>2. HeldInv' /\ TouchInv'
    BY <1>0, <1>3 DEF DragLifted, guest, keyboard, Touch, MayFail, HeldInv, ToPress, Running, TouchInv, ContactIds
  <2>3. Tracked'
    BY <1>0, <1>3 DEF DragLifted, guest, keyboard, Touch, MayFail, Running, ContactIds, GuestInv, CloseInv, PasteInv, HeldInv, ToPress, TouchInv, Tracked, KeysTracked, TouchesTracked, KeysOnTheirWay, IdsOnTheirWay, Calm
  <2>4. QED
    BY <2>1, <2>2, <2>3 DEF Parts
<1>4. CASE WheelCancelled
  <2>1. GuestInv' /\ CloseInv' /\ PasteInv'
    BY <1>0, <1>4 DEF WheelCancelled, guest, keyboard, NoWheel, GuestInv, Running, CloseInv, ContactIds, PasteInv
  <2>2. HeldInv' /\ TouchInv' /\ Tracked'
    BY <1>0, <1>4 DEF WheelCancelled, guest, keyboard, NoWheel, HeldInv, ToPress, Running, TouchInv, ContactIds, Tracked, KeysTracked, TouchesTracked, KeysOnTheirWay, IdsOnTheirWay
  <2>3. QED
    BY <2>1, <2>2 DEF Parts
<1>5. QED
  BY <1>1, <1>2, <1>3, <1>4 DEF WheelStep

(* The steps of the keys lane keep the parts. *)
LEMMA LaneControl ==
  ASSUME Typed, Typed', Calm, Parts, LaneStep
  PROVE  Parts'
<1>0. GuestInv /\ CloseInv /\ PasteInv /\ HeldInv /\ TouchInv /\ Tracked
  BY DEF Parts
<1>1. CASE NextJob
  <2>1. /\ job.pc = "idle" /\ letgo.keys = {}
        /\ UNCHANGED <<conn, reader, contacts, wheel, letgo, down, touching>>
    BY <1>0, <1>1 DEF NextJob, CloseInv, Nothing, guest, keyboard
  <2>2. down \subseteq held
    BY <1>0, <2>1 DEF Tracked, KeysTracked, TouchesTracked, KeysOnTheirWay
  <2>3. \/ UNCHANGED <<held, job, android>>
        \/ /\ job'.pc = "send" /\ job'.op \in {"down", "up", "press"} /\ UNCHANGED android
           /\ held' = CASE job'.op = "down" -> held \cup {job'.key}
                        [] job'.op = "up" -> held \ {job'.key}
                        [] OTHER -> held
        \/ /\ Running /\ UNCHANGED <<held, android>>
           /\ \/ job'.pc = "lock" /\ job'.mods = {} /\ held \cap Modifiers = {}
              \/ job'.pc = "release" /\ job'.mods = held \cap Modifiers /\ job'.todo = job'.mods
    <3> DEFINE mods == held \cap Modifiers
    <3>1. CASE Head(lane).op # "paste"
      <4>1. Head(lane).op \in {"down", "up", "press"}
        BY <1>1, <3>1 DEF NextJob, Typed, TypeOK, Jobs
      <4>2. Press(Head(lane)) /\ UNCHANGED android
        BY <1>1, <3>1 DEF NextJob
      <4>3. QED
        BY <4>1, <4>2, PressEffect
    <3>2. CASE Head(lane).op = "paste"
      <4>1. \/ UNCHANGED <<job, android>>
            \/ Running /\ mods = {} /\ Lease(mods)
            \/ /\ Running /\ UNCHANGED android
               /\ job' = [Idle EXCEPT !.pc = "release", !.op = "paste", !.mods = mods, !.todo = mods]
        BY <1>1, <3>2 DEF NextJob
      <4>2. UNCHANGED held
        BY <1>1, <3>2 DEF NextJob
      <4>3. Running /\ Lease(mods) => job'.pc = "lock" /\ job'.mods = mods /\ UNCHANGED android
        BY LeaseEffect
      <4>4. job' = [Idle EXCEPT !.pc = "release", !.op = "paste", !.mods = mods, !.todo = mods]
              => job'.pc = "release" /\ job'.mods = mods /\ job'.todo = mods
        BY DEF Idle
      <4>5. QED
        BY <4>1, <4>2, <4>3, <4>4
    <3>3. QED
      BY <3>1, <3>2
  <2>4. GuestInv' /\ CloseInv' /\ HeldInv'
    BY <1>0, <1>1 DEF NextJob, guest, keyboard, Press, Lease, Idle, Jobs, GuestInv, Running, CloseInv, ContactIds, HeldInv, ToPress
  <2>5. TouchInv'
    BY <1>0, <1>1 DEF NextJob, guest, keyboard, Press, Lease, Idle, Jobs, TouchInv, ContactIds, Running
  <2>6. PasteInv'
    BY <1>0, <2>1, <2>2, <2>3 DEF PasteInv, Running
  <2>7. KeysTracked'
    <3>1. letgo'.keys = {} /\ UNCHANGED down
      BY <2>1
    <3>2. CASE UNCHANGED held
      BY <2>2, <3>1, <3>2 DEF KeysTracked
    <3>3. CASE held' # held
      <4>1. job'.pc = "send" /\ held' = CASE job'.op = "down" -> held \cup {job'.key}
                                           [] job'.op = "up" -> held \ {job'.key}
                                           [] OTHER -> held
        BY <2>3, <3>3
      <4>2. QED
        BY <2>2, <3>1, <4>1 DEF KeysTracked, KeysOnTheirWay
    <3>4. QED
      BY <3>2, <3>3
  <2>8. TouchesTracked'
    BY <1>0, <2>1 DEF Tracked, TouchesTracked, IdsOnTheirWay, ContactIds
  <2>9. QED
    BY <2>4, <2>5, <2>6, <2>7, <2>8 DEF Parts, Tracked
<1>2. CASE KeySent
  <2>1. /\ job.pc = "send" /\ job'.pc = "idle" /\ job'.cut = FALSE
        /\ UNCHANGED <<android, conn, reader, held, contacts, wheel, letgo, touching>>
    BY <1>2 DEF KeySent, Idle
  <2>2. \/ /\ Running
           /\ job.op \in {"press", "down", "up"}
           /\ down' = IF job.op = "down" THEN down \cup {job.key} ELSE down \ {job.key}
           /\ tapped' = IF job.op = "press" THEN tapped \cup ({job.key} \cap held) ELSE tapped \ {job.key}
        \/ ~Running /\ UNCHANGED <<down, tapped>>
    BY <1>2 DEF KeySent, KeyEvent, Key, Tap, keyboard, MayFail, Calm, Typed, EventInv
  <2>3. GuestInv' /\ CloseInv' /\ PasteInv'
    BY <1>0, <1>2 DEF KeySent, guest, keyboard, KeyEvent, Key, Tap, Idle, MayFail, GuestInv, Running, CloseInv, ContactIds, PasteInv
  <2>4. TouchInv'
    BY <1>0, <1>2 DEF KeySent, guest, keyboard, KeyEvent, Key, Tap, Idle, MayFail, TouchInv, ContactIds, Running
  <2>5. HeldInv'
    BY <1>0, <2>1, <2>2 DEF HeldInv, ToPress, Running
  <2>6. Tracked'
    <3>1. down \subseteq held \cup letgo.keys \cup (IF job.op = "up" THEN {job.key} ELSE {})
      BY <1>0, <2>1 DEF Tracked, KeysTracked, KeysOnTheirWay
    <3>2. job.op = "down" => job.key \in held \/ ~Running
      BY <1>0, <2>1 DEF HeldInv
    <3>3. KeysOnTheirWay' = letgo.keys
      BY <2>1 DEF KeysOnTheirWay
    <3>4. down' \subseteq held \cup letgo.keys
      <4>1. CASE ~Running
        BY <1>0, <2>2, <4>1 DEF GuestInv
      <4>2. CASE Running
        BY <2>2, <3>1, <3>2, <4>2
      <4>3. QED
        BY <4>1, <4>2
    <3>5. KeysTracked'
      BY <2>1, <3>3, <3>4 DEF KeysTracked
    <3>6. TouchesTracked'
      BY <1>0, <2>1 DEF Tracked, TouchesTracked, IdsOnTheirWay, ContactIds
    <3>7. QED
      BY <3>4, <3>5, <3>6 DEF Tracked
  <2>7. QED
    BY <2>3, <2>4, <2>5, <2>6 DEF Parts
<1>3. CASE BootAwaited
  <2>1. GuestInv' /\ CloseInv' /\ PasteInv'
    BY <1>0, <1>3 DEF BootAwaited, guest, keyboard, GuestInv, Running, CloseInv, ContactIds, PasteInv
  <2>2. TouchInv' /\ Tracked'
    BY <1>0, <1>3 DEF BootAwaited, guest, keyboard, TouchInv, ContactIds, Running, Tracked, KeysTracked, TouchesTracked, KeysOnTheirWay, IdsOnTheirWay
  <2>3. HeldInv'
    BY <1>0, <1>3 DEF BootAwaited, guest, keyboard, Running, ContactIds, GuestInv, CloseInv, PasteInv, HeldInv, ToPress, TouchInv, Tracked, KeysTracked, TouchesTracked, KeysOnTheirWay, IdsOnTheirWay, Calm
  <2>4. QED
    BY <2>1, <2>2, <2>3 DEF Parts
<1>4. CASE LockTaken
  <2>1. GuestInv' /\ CloseInv' /\ PasteInv'
    BY <1>0, <1>4 DEF LockTaken, guest, keyboard, GuestInv, Running, CloseInv, ContactIds, PasteInv
  <2>2. HeldInv' /\ TouchInv' /\ Tracked'
    BY <1>0, <1>4 DEF LockTaken, guest, keyboard, HeldInv, ToPress, Running, TouchInv, ContactIds, Tracked, KeysTracked, TouchesTracked, KeysOnTheirWay, IdsOnTheirWay
  <2>3. QED
    BY <2>1, <2>2 DEF Parts
<1>5. CASE Pasted
  <2>1. GuestInv' /\ CloseInv' /\ PasteInv'
    BY <1>0, <1>5 DEF Pasted, guest, keyboard, Again, Idle, GuestInv, Running, CloseInv, ContactIds, PasteInv
  <2>2. HeldInv' /\ TouchInv' /\ Tracked'
    BY <1>0, <1>5 DEF Pasted, guest, keyboard, Again, Idle, HeldInv, ToPress, Running, TouchInv, ContactIds, Tracked, KeysTracked, TouchesTracked, KeysOnTheirWay, IdsOnTheirWay
  <2>3. QED
    BY <2>1, <2>2 DEF Parts
<1>6. ASSUME NEW k \in Modifiers, ModifierReleased(k)
      PROVE  Parts'
  <2>1. /\ job.pc = "release" /\ k \in job.todo /\ Running
        /\ down' = down \ {k} /\ tapped' = tapped \ {k}
        /\ UNCHANGED <<held, conn, reader, contacts, wheel, letgo, touching>>
    BY <1>0, <1>6 DEF ModifierReleased, PasteInv, Key, MayFail, Calm
  <2>2. /\ UNCHANGED android
        /\ \/ job.todo = {k} /\ job'.pc = "lock" /\ job'.mods = job.mods
           \/ job'.pc = "release" /\ job'.todo = job.todo \ {k} /\ job'.mods = job.mods
    <3>1. [job EXCEPT !.todo = @ \ {k}].pc = job.pc /\ [job EXCEPT !.todo = @ \ {k}].mods = job.mods
          /\ [job EXCEPT !.todo = @ \ {k}].todo = job.todo \ {k}
      BY DEF Typed, TypeOK, JobType
    <3>2. \/ job.todo = {k} /\ Lease(job.mods)
          \/ job' = [job EXCEPT !.todo = @ \ {k}] /\ UNCHANGED android
      BY <1>6 DEF ModifierReleased
    <3>3. QED
      BY <2>1, <3>1, <3>2, LeaseEffect
  <2>3. GuestInv' /\ CloseInv' /\ TouchInv'
    BY <1>0, <1>6 DEF ModifierReleased, guest, keyboard, Lease, Idle, Key, MayFail, GuestInv, Running, CloseInv, ContactIds, TouchInv
  <2>4. Tracked'
    BY <1>0, <1>6 DEF ModifierReleased, guest, keyboard, Lease, Idle, Key, MayFail, Tracked, KeysTracked, TouchesTracked, KeysOnTheirWay, IdsOnTheirWay, ContactIds
  <2>5. PasteInv'
    BY <1>0, <2>1, <2>2 DEF PasteInv, Running
  <2>6. HeldInv'
    BY <1>0, <2>1, <2>2 DEF PasteInv, HeldInv, ToPress, Running
  <2>7. QED
    BY <2>3, <2>4, <2>5, <2>6 DEF Parts
<1>7. ASSUME NEW k \in Modifiers, ModifierPressed(k)
      PROVE  Parts'
  <2>1. GuestInv' /\ CloseInv' /\ PasteInv'
    BY <1>0, <1>7 DEF ModifierPressed, guest, keyboard, Idle, Key, MayFail, GuestInv, Running, CloseInv, ContactIds, PasteInv
  <2>2. TouchInv'
    BY <1>0, <1>7 DEF ModifierPressed, guest, keyboard, Idle, Key, MayFail, TouchInv, ContactIds, Running
  <2>3. HeldInv'
    BY <1>0, <1>7 DEF ModifierPressed, guest, keyboard, Idle, Key, MayFail, Running, ContactIds, GuestInv, CloseInv, PasteInv, HeldInv, ToPress, TouchInv, Tracked, KeysTracked, TouchesTracked, KeysOnTheirWay, IdsOnTheirWay, Calm
  <2>4. Tracked'
    BY <1>0, <1>7 DEF ModifierPressed, guest, keyboard, Idle, Key, MayFail, Running, ContactIds, GuestInv, CloseInv, PasteInv, HeldInv, ToPress, TouchInv, Tracked, KeysTracked, TouchesTracked, KeysOnTheirWay, IdsOnTheirWay, Calm
  <2>5. QED
    BY <2>1, <2>2, <2>3, <2>4 DEF Parts
<1>8. QED
  BY <1>1, <1>2, <1>3, <1>4, <1>5, <1>6, <1>7 DEF LaneStep

(* The steps of _close keep the parts. *)
LEMMA CloseControl ==
  ASSUME Typed, Typed', Calm, Parts, CloseStep
  PROVE  Parts'
<1>0. GuestInv /\ CloseInv /\ PasteInv /\ HeldInv /\ TouchInv /\ Tracked
  BY DEF Parts
<1>1. CASE CloseBegins
  <2>1. GuestInv' /\ CloseInv' /\ PasteInv'
    BY <1>0, <1>1 DEF CloseBegins, guest, keyboard, GuestInv, Running, CloseInv, ContactIds, PasteInv
  <2>2. HeldInv' /\ TouchInv' /\ Tracked'
    BY <1>0, <1>1 DEF CloseBegins, guest, keyboard, HeldInv, ToPress, Running, TouchInv, ContactIds, Tracked, KeysTracked, TouchesTracked, KeysOnTheirWay, IdsOnTheirWay
  <2>3. QED
    BY <2>1, <2>2 DEF Parts
<1>2. CASE TasksEnded
  <2>1. GuestInv' /\ CloseInv' /\ PasteInv'
    BY <1>0, <1>2 DEF TasksEnded, guest, keyboard, GuestInv, Running, CloseInv, ContactIds, PasteInv
  <2>2. HeldInv' /\ TouchInv' /\ Tracked'
    BY <1>0, <1>2 DEF TasksEnded, guest, keyboard, HeldInv, ToPress, Running, TouchInv, ContactIds, Tracked, KeysTracked, TouchesTracked, KeysOnTheirWay, IdsOnTheirWay
  <2>3. QED
    BY <2>1, <2>2 DEF Parts
<1>3. CASE LaneCancelled
  <2>1. /\ UNCHANGED <<android, conn, reader, held, contacts, wheel, letgo, touching>>
        /\ job'.pc \in {"gone", "again"}
    BY <1>3 DEF LaneCancelled, Again, Idle
  <2>2. \/ down' \subseteq down /\ ~(job.pc = "send" /\ job.op = "up")
        \/ job.pc = "send" /\ job.op = "up" /\ (down' = down \ {job.key} \/ (~Running /\ UNCHANGED down))
        \/ job.pc = "send" /\ job.op = "down" /\ Running /\ down' = down \cup {job.key}
        \/ job.pc = "again" /\ Running /\ \E k \in job.todo : down' = down \cup {k}
    BY <1>3 DEF LaneCancelled, KeyEvent, Key, Tap, keyboard, Calm, Typed, EventInv
  <2>3. GuestInv' /\ CloseInv' /\ PasteInv'
    BY <1>0, <1>3 DEF LaneCancelled, guest, keyboard, KeyEvent, Key, Tap, Again, Idle, GuestInv, Running, CloseInv, ContactIds, PasteInv
  <2>4. TouchInv'
    BY <1>0, <1>3 DEF LaneCancelled, guest, keyboard, KeyEvent, Key, Tap, Again, Idle, TouchInv, ContactIds, Running
  <2>5. HeldInv'
    BY <1>0, <1>3 DEF LaneCancelled, guest, keyboard, KeyEvent, Key, Tap, Again, Idle, Running, ContactIds, GuestInv, CloseInv, PasteInv, HeldInv, ToPress, TouchInv, Tracked, KeysTracked, TouchesTracked, KeysOnTheirWay, IdsOnTheirWay, Calm
  <2>6. Tracked'
    <3>1. KeysOnTheirWay' = letgo.keys
      BY <2>1 DEF KeysOnTheirWay
    <3>2. down \subseteq held \cup letgo.keys \cup (IF job.pc = "send" /\ job.op = "up" THEN {job.key} ELSE {})
      BY <1>0 DEF Tracked, KeysTracked, KeysOnTheirWay
    <3>3. job.pc = "again" /\ Running => job.todo \subseteq held
      BY <1>0 DEF PasteInv
    <3>4. job.pc = "send" /\ job.op = "down" /\ Running => job.key \in held
      BY <1>0 DEF HeldInv
    <3>5. KeysTracked'
      BY <1>0, <2>1, <2>2, <3>1, <3>2, <3>3, <3>4 DEF KeysTracked, GuestInv
    <3>6. TouchesTracked'
      BY <1>0, <2>1 DEF Tracked, TouchesTracked, IdsOnTheirWay, ContactIds
    <3>7. QED
      BY <3>5, <3>6 DEF Tracked
  <2>7. QED
    BY <2>3, <2>4, <2>5, <2>6 DEF Parts
<1>4. CASE LetGo
  <2>1. GuestInv' /\ CloseInv' /\ PasteInv'
    BY <1>0, <1>4 DEF LetGo, guest, keyboard, NoContacts, GuestInv, Running, CloseInv, ContactIds, PasteInv
  <2>2. HeldInv'
    BY <1>0, <1>4 DEF LetGo, guest, keyboard, NoContacts, HeldInv, ToPress, Running
  <2>3. TouchInv'
    BY <1>0, <1>4 DEF LetGo, guest, keyboard, NoContacts, Running, ContactIds, GuestInv, CloseInv, PasteInv, HeldInv, ToPress, TouchInv, Tracked, KeysTracked, TouchesTracked, KeysOnTheirWay, IdsOnTheirWay, Calm
  <2>4. Tracked'
    <3>1. reader.pc = "gone" /\ wheel.pc = "none" /\ job.pc = "gone" /\ letgo.ids = {} /\ letgo.keys = {}
      BY <1>0, <1>4 DEF LetGo, CloseInv, Nothing
    <3>2. down \subseteq held /\ touching \subseteq ContactIds
      BY <1>0, <3>1 DEF Tracked, KeysTracked, TouchesTracked, KeysOnTheirWay, IdsOnTheirWay
    <3>3. CASE Running
      <4>1. letgo'.ids = ContactIds /\ letgo'.keys = held
        BY <1>4, <3>3 DEF LetGo
      <4>2. QED
        BY <1>4, <3>1, <3>2, <4>1 DEF LetGo, guest, keyboard, Tracked, KeysTracked, TouchesTracked, KeysOnTheirWay, IdsOnTheirWay
    <3>4. CASE ~Running
      BY <1>0, <1>4, <3>4 DEF LetGo, guest, keyboard, GuestInv, Tracked, KeysTracked, TouchesTracked
    <3>5. QED
      BY <3>3, <3>4
  <2>5. QED
    BY <2>1, <2>2, <2>3, <2>4 DEF Parts
<1>5. CASE TouchesLifted
  <2>1. /\ reader.pc = "gone" /\ wheel.pc = "none" /\ job.pc = "gone" /\ held = {} /\ ContactIds = {}
        /\ UNCHANGED <<reader, wheel, job, held, contacts, down>>
    BY <1>0, <1>5 DEF TouchesLifted, keyboard, CloseInv
  <2>2. \/ conn' = "keys" /\ letgo'.ids = {} /\ letgo'.keys = letgo.keys /\ touching' = touching \ letgo.ids
        \/ conn' = "closed" /\ letgo' = Nothing /\ ~Running /\ UNCHANGED touching
    BY <1>5 DEF TouchesLifted, MayFail, Calm, Typed, TypeOK
  <2>3. GuestInv' /\ PasteInv' /\ HeldInv'
    BY <1>0, <1>5 DEF TouchesLifted, guest, keyboard, MayFail, GuestInv, Running, PasteInv, HeldInv, ToPress
  <2>4. TouchInv'
    BY <1>0, <1>5 DEF TouchesLifted, guest, keyboard, MayFail, TouchInv, ContactIds, Running
  <2>5. CloseInv'
    BY <2>1, <2>2 DEF CloseInv, ContactIds
  <2>6. Tracked'
    BY <1>0, <2>1, <2>2 DEF Tracked, KeysTracked, TouchesTracked, KeysOnTheirWay, IdsOnTheirWay, ContactIds, GuestInv
  <2>7. QED
    BY <2>3, <2>4, <2>5, <2>6 DEF Parts
<1>6. CASE KeysReleased
  <2>1. /\ reader.pc = "gone" /\ wheel.pc = "none" /\ job.pc = "gone" /\ held = {} /\ ContactIds = {}
        /\ conn = "keys" /\ letgo.ids = {}
        /\ UNCHANGED <<reader, wheel, job, held, contacts, touching>>
    BY <1>0, <1>6 DEF KeysReleased, CloseInv
  <2>2. \/ \E k : /\ UNCHANGED conn /\ letgo'.ids = letgo.ids /\ letgo'.keys = letgo.keys \ {k}
                   /\ down' = down \ {k}
        \/ /\ conn' = "closed" /\ letgo' = Nothing /\ UNCHANGED down
           /\ letgo.keys = {} \/ ~Running
    BY <1>6 DEF KeysReleased, Key, keyboard, MayFail, Calm, Typed, TypeOK
  <2>3. GuestInv' /\ PasteInv' /\ TouchInv'
    BY <1>0, <1>6 DEF KeysReleased, guest, keyboard, Key, MayFail, GuestInv, Running, PasteInv, TouchInv, ContactIds
  <2>4. CloseInv'
    BY <2>1, <2>2 DEF CloseInv, ContactIds
  <2>5. HeldInv'
    BY <2>1 DEF HeldInv
  <2>6. Tracked'
    BY <1>0, <2>1, <2>2 DEF Tracked, KeysTracked, TouchesTracked, KeysOnTheirWay, IdsOnTheirWay, ContactIds, GuestInv
  <2>7. QED
    BY <2>3, <2>4, <2>5, <2>6 DEF Parts
<1>7. QED
  BY <1>1, <1>2, <1>3, <1>4, <1>5, <1>6 DEF CloseStep

(* At the start nothing is pressed and no session is open. *)
LEMMA InitControl == Init => Control
<1> SUFFICES ASSUME Init, Calm PROVE Parts /\ BootInv /\ ContactInv
  BY DEF Control
<1>1. /\ down = {} /\ touching = {} /\ held = {} /\ letgo = Nothing
      /\ conn = "closed" /\ job.pc = "gone" /\ job.op = "none" /\ reader.pc = "gone" /\ wheel.pc = "none"
      /\ contacts = NoContacts
  BY DEF Init, Idle, NoWheel
<1>2. ContactIds = {}
  BY <1>1 DEF ContactIds, NoContacts
<1>3. GuestInv /\ CloseInv /\ PasteInv
  BY <1>1, <1>2 DEF GuestInv, CloseInv, PasteInv
<1>4. HeldInv /\ TouchInv /\ Tracked
  BY <1>1 DEF HeldInv, TouchInv, Tracked, KeysTracked, TouchesTracked
<1>5. BootInv /\ ContactInv
  BY <1>1, <1>2 DEF Init, BootInv, ContactInv, NoContacts
<1>6. QED
  BY <1>3, <1>4, <1>5 DEF Parts

(* The events of a behaviour do not change. *)
LEMMA EnvironmentStays == [Next]_vars => env' = env
<1> SUFFICES ASSUME [Next]_vars PROVE env' = env
  OBVIOUS
<1>1. CASE AndroidStep \/ OtherText
  BY <1>1 DEF AndroidStep, AndroidStops, AndroidStarts, PhaseChanges, BootEnds, StatusChanged, OtherText
<1>2. CASE ReaderStep
  BY <1>2 DEF ReaderStep, Connect, TouchSent, WheelMessage, ReaderEnds, TouchMessage, KeyMessage
<1>3. CASE WheelStep
  BY <1>3 DEF WheelStep, Scroll, Drag, DragLifted, WheelCancelled
<1>4. CASE LaneStep
  BY <1>4 DEF LaneStep, NextJob, KeySent, BootAwaited, LockTaken, Pasted, ModifierReleased, ModifierPressed
<1>5. CASE CloseStep
  BY <1>5 DEF CloseStep, CloseBegins, TasksEnded, LaneCancelled, LetGo, TouchesLifted, KeysReleased
<1>6. CASE UNCHANGED vars
  BY <1>6 DEF vars
<1>7. QED
  BY <1>1, <1>2, <1>3, <1>4, <1>5, <1>6 DEF Next

(* A step in which no boot comes to its last phases, or goes on with them. *)
LEMMA NotBooting == ASSUME android' # "booting" PROVE BootInv'
BY DEF BootInv

(* Every step keeps what is said of the last phases of a boot. *)
LEMMA NextBoot ==
  ASSUME Typed, Calm, Parts, BootInv, [Next]_vars
  PROVE  BootInv'
<1> USE DEF BootInv, ContactIds
<1>0. PasteInv
  BY DEF Parts
<1>1. CASE AndroidStep \/ OtherText
  <2>1. CASE AndroidStops \/ AndroidStarts \/ BootEnds
    BY <2>1, NotBooting DEF AndroidStops, AndroidStarts, BootEnds
  <2>2. CASE PhaseChanges
    BY <1>0, <2>2 DEF PhaseChanges, Drained, PasteInv
  <2>3. CASE StatusChanged
    BY <2>3 DEF StatusChanged, Running, NoContacts
  <2>4. CASE OtherText
    BY <2>4 DEF OtherText
  <2>5. QED
    BY <1>1, <2>1, <2>2, <2>3, <2>4 DEF AndroidStep
<1>2. CASE ReaderStep
  <2>1. CASE Connect
    BY <2>1 DEF Connect, NoContacts, Idle
  <2>2. CASE TouchSent \/ ReaderEnds
    BY <2>2 DEF TouchSent, ReaderEnds
  <2>3. CASE WheelMessage \/ (\E j \in Jobs : KeyMessage(j))
             \/ \E f \in Fingers, pressed \in BOOLEAN : TouchMessage(f, pressed)
    BY <2>3, NotBooting DEF WheelMessage, KeyMessage, TouchMessage, Ready, Running
  <2>4. QED
    BY <1>2, <2>1, <2>2, <2>3 DEF ReaderStep
<1>3. CASE WheelStep
  <2>1. UNCHANGED <<android, news, conn, reader, lane, job, held, contacts>>
    BY <1>3 DEF WheelStep, Scroll, Drag, DragLifted, WheelCancelled
  <2>2. QED
    BY <2>1
<1>4. CASE LaneStep
  <2>1. CASE android = "booting"
    BY <1>4, <2>1 DEF LaneStep, NextJob, KeySent, BootAwaited, LockTaken, Pasted, ModifierReleased,
                      ModifierPressed
  <2>2. CASE android # "booting"
    BY <1>4, <2>2, NotBooting DEF LaneStep, NextJob, KeySent, BootAwaited, LockTaken, Pasted,
                                  ModifierReleased, ModifierPressed, Lease
  <2>3. QED
    BY <2>1, <2>2
<1>5. CASE CloseStep
  <2>1. CASE CloseBegins \/ TasksEnded \/ LetGo \/ TouchesLifted \/ KeysReleased
    BY <2>1 DEF CloseBegins, TasksEnded, LetGo, TouchesLifted, KeysReleased
  <2>2. CASE LaneCancelled
    BY <2>2 DEF LaneCancelled, Idle
  <2>3. QED
    BY <1>5, <2>1, <2>2 DEF CloseStep
<1>6. CASE UNCHANGED vars
  BY <1>6 DEF vars
<1>7. QED
  BY <1>1, <1>2, <1>3, <1>4, <1>5, <1>6 DEF Next

(* Where nothing of the reader, the contacts and the wheel changes, and no new
   guest comes. *)
LEMMA SameContacts ==
  ASSUME ContactInv, UNCHANGED <<reader, contacts, wheel, touching>>,
         Running' => Running, conn' = "open" => conn = "open"
  PROVE  ContactInv'
BY DEF ContactInv, ContactIds

(* Without contacts there is nothing to be said. *)
LEMMA NoContactsLeft ==
  ASSUME contacts' = NoContacts
  PROVE  ContactInv'
BY DEF ContactInv, ContactIds, NoContacts

(* Every step keeps the identifiers apart and the contacts on the screen. *)
LEMMA NextContacts ==
  ASSUME Typed, Calm, Parts, BootInv, ContactInv, [Next]_vars
  PROVE  ContactInv'
<1>1. CASE AndroidStep \/ OtherText
  <2>1. CASE AndroidStops
    BY <2>1 DEF AndroidStops, ContactInv, ContactIds, Running
  <2>2. CASE AndroidStarts \/ PhaseChanges \/ OtherText
    BY <2>2, SameContacts DEF AndroidStarts, PhaseChanges, OtherText, guest, Running
  <2>3. CASE BootEnds
    BY <2>3 DEF BootEnds, guest, Running, BootInv, ContactInv, ContactIds
  <2>4. CASE StatusChanged
    BY <2>4, SameContacts, NoContactsLeft DEF StatusChanged, guest, Running
  <2>5. QED
    BY <1>1, <2>1, <2>2, <2>3, <2>4 DEF AndroidStep
<1>2. CASE ReaderStep
  <2>1. CASE Connect
    BY <2>1, NoContactsLeft DEF Connect
  <2>2. CASE TouchSent
    BY <2>2 DEF TouchSent, Touch, NoTouch, MayFail, Calm, Typed, TypeOK, ContactInv, ContactIds, Running
  <2>3. CASE WheelMessage
    BY <2>3 DEF WheelMessage, guest, Typed, TypeOK, WheelType, ContactInv, ContactIds, Running
  <2>4. CASE ReaderEnds
    BY <2>4 DEF ReaderEnds, NoTouch, ContactInv, ContactIds
  <2>5. CASE \E j \in Jobs : KeyMessage(j)
    BY <2>5 DEF KeyMessage, guest, NoTouch, ContactInv, ContactIds, Running
  <2>6. ASSUME NEW f \in Fingers, NEW pressed \in BOOLEAN, TouchMessage(f, pressed)
        PROVE  ContactInv'
    <3> DEFINE id == reader'.event.id
    <3>1. /\ reader'.pc = "send" /\ reader'.event.pressed = pressed
          /\ id = IF pressed THEN contacts'[f] ELSE contacts[f]
          /\ reader.pc = "read" /\ contacts' \in [Fingers -> Ids \cup {None}]
          /\ UNCHANGED <<android, conn, wheel, touching>>
      BY <2>6 DEF TouchMessage, Ready, Free, guest, Typed, TypeOK
    <3>2. \A g \in Fingers \ {f} : contacts'[g] = contacts[g]
      BY <2>6 DEF TouchMessage, Typed, TypeOK
    <3>3. \/ contacts'[f] = contacts[f]
          \/ contacts'[f] = None
          \/ contacts'[f] \in Free
      BY <2>6 DEF TouchMessage, Typed, TypeOK
    <3>4. contacts[f] # None \/ pressed
      BY <2>6 DEF TouchMessage
    <3>5. ~pressed => contacts'[f] = None
      BY <2>6, <3>4 DEF TouchMessage, Typed, TypeOK
    <3>6. \A i \in Free : i \notin ContactIds /\ i # wheel.id
      BY DEF Free
    <3>7. \A g, h \in Fingers : contacts'[g] = contacts'[h] /\ contacts'[g] # None => g = h
      BY <3>2, <3>3, <3>6 DEF ContactInv, ContactIds
    <3>8. wheel'.pc \in {"drag", "lift"} => wheel'.id \notin ContactIds'
      BY <3>1, <3>2, <3>3, <3>6 DEF ContactInv, ContactIds
    <3>9. ~pressed => id \notin ContactIds'
      BY <3>1, <3>2, <3>4, <3>5 DEF ContactInv, ContactIds
    <3>10. ContactIds' \subseteq ContactIds \cup (IF pressed THEN {id} ELSE {})
      BY <3>1, <3>2, <3>5 DEF ContactIds
    <3>11. QED
      BY <3>1, <3>7, <3>8, <3>9, <3>10 DEF ContactInv, Running
  <2>7. QED
    BY <1>2, <2>1, <2>2, <2>3, <2>4, <2>5, <2>6 DEF ReaderStep
<1>3. CASE WheelStep
  <2>1. CASE Scroll
    BY <2>1 DEF Scroll, guest, NoWheel, Free, Typed, TypeOK, WheelType, ContactInv, ContactIds, Running
  <2>2. CASE Drag
    <3>1. /\ wheel.pc = "drag" /\ UNCHANGED <<android, conn, reader, contacts>>
          /\ wheel'.pc \in {"drag", "lift"} => wheel'.id = wheel.id
      BY <2>2 DEF Drag, Typed, TypeOK, WheelType
    <3>2. touching \ {wheel.id} \subseteq touching'
      BY <2>2 DEF Drag, Touch
    <3>3. QED
      BY <3>1, <3>2 DEF ContactInv, ContactIds, Running
  <2>3. CASE DragLifted
    BY <2>3 DEF DragLifted, Touch, Typed, TypeOK, WheelType, ContactInv, ContactIds, Running
  <2>4. CASE WheelCancelled
    BY <2>4 DEF WheelCancelled, guest, NoWheel, ContactInv, ContactIds, Running
  <2>5. QED
    BY <1>3, <2>1, <2>2, <2>3, <2>4 DEF WheelStep
<1>4. CASE LaneStep
  BY <1>4, SameContacts DEF LaneStep, NextJob, KeySent, BootAwaited, LockTaken, Pasted,
                            ModifierReleased, ModifierPressed, Lease, guest, Running
<1>5. CASE CloseStep
  <2>1. CASE CloseBegins \/ TasksEnded \/ LaneCancelled \/ KeysReleased
    BY <2>1, SameContacts DEF CloseBegins, TasksEnded, LaneCancelled, KeysReleased, guest, Running
  <2>2. CASE LetGo
    BY <2>2, NoContactsLeft DEF LetGo
  <2>3. CASE TouchesLifted
    BY <2>3 DEF TouchesLifted, ContactInv, ContactIds
  <2>4. QED
    BY <1>5, <2>1, <2>2, <2>3 DEF CloseStep
<1>6. CASE UNCHANGED vars
  BY <1>6, SameContacts DEF vars, guest, Running
<1>7. QED
  BY <1>1, <1>2, <1>3, <1>4, <1>5, <1>6 DEF Next

(* Every step keeps the parts. *)
LEMMA NextControl == Typed /\ Typed' /\ Control /\ [Next]_vars => Control'
<1> SUFFICES ASSUME Typed, Typed', Control, [Next]_vars, Calm'
             PROVE  Parts' /\ BootInv' /\ ContactInv'
  BY DEF Control
<1>1. Calm
  BY EnvironmentStays DEF Calm
<1>2. Parts /\ BootInv /\ ContactInv
  BY <1>1 DEF Control
<1>3. CASE AndroidStep \/ OtherText
  BY <1>1, <1>2, <1>3, AndroidControl, NextBoot, NextContacts
<1>4. CASE ReaderStep
  BY <1>1, <1>2, <1>4, ReaderControl, NextBoot, NextContacts
<1>5. CASE WheelStep
  BY <1>1, <1>2, <1>5, WheelControl, NextBoot, NextContacts
<1>6. CASE LaneStep
  BY <1>1, <1>2, <1>6, LaneControl, NextBoot, NextContacts
<1>7. CASE CloseStep
  BY <1>1, <1>2, <1>7, CloseControl, NextBoot, NextContacts
<1>8. CASE UNCHANGED vars
  <2>1. Parts <=> Parts'
    BY <1>8 DEF vars, guest, keyboard, Parts, GuestInv, CloseInv, PasteInv, HeldInv, ToPress, TouchInv,
                Tracked, KeysTracked, TouchesTracked, KeysOnTheirWay, IdsOnTheirWay, ContactIds, Running
  <2>2. QED
    BY <1>1, <1>2, <2>1, NextBoot, NextContacts
<1>9. QED
  BY <1>3, <1>4, <1>5, <1>6, <1>7, <1>8 DEF Next

(* The inductive invariant holds throughout. *)
LEMMA SessionControl == Safety => []Control
<1>1. Init => Typed /\ Control
  BY InitTyped, InitControl
<1>2. Typed /\ Control /\ [Next]_vars => (Typed /\ Control)'
  BY NextTyped, NextControl
<1>3. QED
  BY <1>1, <1>2, PTL DEF Safety

(* What is pressed in the guest is known to the session or on its way up:
   _held, the Pointers and the tasks of session.py lose no key and no touch
   while nothing but a stop of Android disturbs them. *)
THEOREM InputIsTracked == Safety => []NothingForgotten
<1>1. Control => NothingForgotten
  BY DEF Control, Parts, Tracked, KeysTracked, TouchesTracked, NothingForgotten
<1>2. QED
  BY <1>1, SessionControl, PTL

(* A closed session leaves nothing pressed in the guest: _close ends the
   tasks before _let_go takes what is down. *)
THEOREM InputIsReleased == Safety => []ClosedLetsGo
<1>1. Control => ClosedLetsGo
  <2> SUFFICES ASSUME Control, Calm, conn = "closed" PROVE down = {} /\ touching = {}
    BY DEF ClosedLetsGo, AllLetGo
  <2>1. CloseInv /\ KeysTracked /\ TouchesTracked
    BY DEF Control, Parts, Tracked
  <2>2. /\ letgo.ids = {} /\ letgo.keys = {} /\ held = {} /\ ContactIds = {}
        /\ job.pc = "gone" /\ reader.pc = "gone" /\ wheel.pc = "none"
    BY <2>1 DEF CloseInv, Nothing
  <2>3. QED
    BY <2>1, <2>2 DEF KeysTracked, TouchesTracked, KeysOnTheirWay, IdsOnTheirWay
<1>2. QED
  BY <1>1, SessionControl, PTL

(* What _held and the Pointers of an open session count as held is down in a
   running guest once no event is on its way, but for keys that a keypress let
   go: also after a paste, and after Android stopped and started again, because
   status_changed() makes the session forget what the old guest had. *)
THEOREM HeldStaysDown == Safety => []HeldIsDown
<1>1. Control => HeldIsDown
  BY DEF Control, Parts, HeldInv, ContactInv, ToPress, HeldIsDown
<1>2. QED
  BY <1>1, SessionControl, PTL

(* backend.text() sends the paste key when _paste has all modifiers up. *)
THEOREM ModifiersAreUp == Safety => []PasteHasNoModifiers
<1>1. Control => PasteHasNoModifiers
  BY DEF Control, Parts, PasteInv, PasteHasNoModifiers
<1>2. QED
  BY <1>1, SessionControl, PTL

===============================================================================
