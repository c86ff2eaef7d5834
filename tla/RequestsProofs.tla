--------------------------- MODULE RequestsProofs ---------------------------
(***************************************************************************)
(* Proofs about Requests, for any number of requests and of calls: the     *)
(* types, what a request leaves when it is over, the clipboard, and that   *)
(* the requests use Android as Lifecycle lets them, and wait for it only   *)
(* while it has an answer to give.                                         *)
(***************************************************************************)
EXTENDS Requests, TLAPS

(* Between taking the text lock and releasing it. *)
Section == {"get", "set", "settle", "restore"}

(* Where a request is decides what it holds, and its kind where it can be. *)
Held(r) ==
  /\ r \in adb => At(r, "adb")
  /\ r \in waiting => At(r, "joined")
  /\ lock = r <=> req[r].pc \in Section
  /\ req[r].pc \in Section \cup {"queue"} => req[r].kind = "paste"
  /\ At(r, "answer") => req[r].kind = "pull"
  /\ req[r].pc \in {"ask", "wait", "look"} => req[r].kind = "boot"
  /\ r \in files => req[r].kind \in {"upload", "pull"}
  /\ r \in files /\ req[r].kind = "upload" => ~At(r, "idle")

PlacesInv == \A r \in Requests : Held(r)

(* In a guest where no call was cut off, the clipboard has the text of a
   request from the time it sets it until it restores the user's, and no
   other request sees it. *)
Clean(r) ==
  /\ ~cut /\ At(r, "settle") /\ req[r].stub => clip = r
  /\ ~cut /\ clip = r => lock = r
  /\ ~cut /\ req[r].pc \in {"get", "set"} => clip = User
  /\ ~cut /\ req[r].pc \in Section /\ ~req[r].stub => clip = User
  /\ ~cut /\ req[r].pc \in {"set", "settle", "restore"} /\ req[r].stub => req[r].saved = User

ClipInv == \A r \in Requests : Clean(r)

-----------------------------------------------------------------------------
(* Types *)

ReqTypeOK ==
  req \in [Requests -> [kind : Kinds, pc : Places, calls : 0..MaxCalls,
                        saved : Requests \cup {User}, stub : BOOLEAN]]

(* What an action does to the requests keeps their type. *)
LEMMA ReqTypes ==
  ASSUME TypeOK, NEW r \in Requests, NEW place \in Places, NEW kind \in Kinds,
         \/ Go(r, place) \/ Over(r) \/ Wake(place) \/ ToolWaits(r) \/ ToolGoesOn(r)
         \/ (At(r, "lease") \/ At(r, "woken")) /\ Lease(r)
         \/ req' = [req EXCEPT ![r] = [NoRequest EXCEPT !.kind = kind, !.pc = FirstPlace(kind)]]
         \/ req' = [req EXCEPT ![r].pc = "set", ![r].saved = clip]
         \/ req[r].calls > 1 /\ req' = [req EXCEPT ![r].pc = place, ![r].calls = @ - 1]
         \/ req' = [q \in Requests |-> [req[q] EXCEPT !.stub = FALSE]]
         \/ req' = [q \in Requests |-> NoRequest]
         \/ UNCHANGED req
  PROVE  ReqTypeOK'
<1> USE DEF ReqTypeOK
<1>1. ReqTypeOK /\ clip \in Requests \cup {User} /\ MaxCalls \in Nat \ {0}
  BY RequestsAssumption DEF TypeOK, RequestsAssumption
<1>2. CASE Go(r, place)
  BY <1>1, <1>2 DEF Go
<1>3. NoRequest \in [kind : Kinds, pc : Places, calls : 0..MaxCalls, saved : Requests \cup {User}, stub : BOOLEAN]
  BY <1>1 DEF NoRequest, Kinds, Places
<1>4. CASE Over(r)
  BY <1>1, <1>3, <1>4 DEF Over
<1>5. CASE Wake(place)
  BY <1>1, <1>5 DEF Wake
<1>6. CASE ToolWaits(r)
  <2>1. PICK n \in 1..MaxCalls : req' = [req EXCEPT ![r].pc = "wait", ![r].calls = n]
    BY <1>6 DEF ToolWaits
  <2>2. n \in 0..MaxCalls /\ "wait" \in Places
    BY <1>1 DEF Places
  <2>3. QED
    BY <1>1, <2>1, <2>2
<1>7. ASSUME req[r].calls > 1, NEW p \in Places, req' = [req EXCEPT ![r].pc = p, ![r].calls = @ - 1]
      PROVE  ReqTypeOK'
  <2>1. req[r].calls - 1 \in 0..MaxCalls
    BY <1>1, <1>7
  <2>2. QED
    BY <1>1, <1>7, <2>1
<1>8. CASE ToolGoesOn(r)
  BY <1>1, <1>3, <1>4, <1>7, <1>8 DEF ToolGoesOn, Places
<1>9. CASE Lease(r)
  <2>1. CASE conn
    <3>1. PICK n \in 0..MaxCalls, p \in Places :
            req' = [req EXCEPT ![r].pc = p, ![r].calls = n, ![r].stub = TRUE]
      <4>1. "queue" \in Places /\ "call" \in Places /\ 0 \in 0..MaxCalls /\ 1..MaxCalls \subseteq 0..MaxCalls
        BY <1>1 DEF Places
      <4>2. CASE req[r].kind = "paste"
        BY <1>9, <2>1, <4>1, <4>2 DEF Lease
      <4>3. CASE req[r].kind # "paste"
        BY <1>9, <2>1, <4>1, <4>3 DEF Lease
      <4>4. QED
        BY <4>2, <4>3
    <3>2. QED
      BY <1>1, <3>1
  <2>2. CASE ~conn
    BY <1>4, <1>9, <2>2 DEF Lease, Ends
  <2>3. QED
    BY <2>1, <2>2
<1>10. CASE req' = [req EXCEPT ![r] = [NoRequest EXCEPT !.kind = kind, !.pc = FirstPlace(kind)]]
  <2>1. FirstPlace(kind) \in Places
    BY DEF FirstPlace, Places
  <2>2. QED
    BY <1>1, <1>3, <1>10, <2>1
<1>11. CASE req' = [req EXCEPT ![r].pc = "set", ![r].saved = clip]
  BY <1>1, <1>11 DEF Places
<1>12. CASE req' = [q \in Requests |-> [req[q] EXCEPT !.stub = FALSE]]
  BY <1>1, <1>12
<1>13. CASE req' = [q \in Requests |-> NoRequest]
  BY <1>3, <1>13
<1>14. QED
  BY <1>1, <1>2, <1>4, <1>5, <1>6, <1>7, <1>8, <1>9, <1>10, <1>11, <1>12, <1>13

(* A step of Android keeps the types of Lifecycle. *)
LEMMA AndroidTypes ==
  ASSUME Android!TypeOK, NEW r,
         \/ Android!Boot \/ Android!Ready \/ Android!Retry \/ Android!Halt \/ Android!Halted
         \/ Android!Close \/ (r \in Requests /\ Android!Join(r)) \/ Android!Leave(r) \/ UNCHANGED androidVars
  PROVE  Android!TypeOK'
BY DEF Android!TypeOK, Android!Boot, Android!Ready, Android!Retry, Android!Halt, Android!Halted,
       Android!Close, Android!Join, Android!Leave, androidVars

LEMMA TypeInit ==
  Init => TypeOK
<1> SUFFICES ASSUME Init PROVE TypeOK
  OBVIOUS
<1>1. NoRequest \in [kind : Kinds, pc : Places, calls : 0..MaxCalls, saved : Requests \cup {User}, stub : BOOLEAN]
  BY RequestsAssumption DEF NoRequest, Kinds, Places, RequestsAssumption
<1>2. Android!TypeOK
  BY DEF Init, Android!Init, Android!TypeOK
<1>3. QED
  BY <1>1, <1>2 DEF Init, TypeOK

(* The types of what is neither in Lifecycle nor in the requests. *)
RestTypeOK ==
  /\ conn \in BOOLEAN
  /\ lock \in Requests \cup {Nobody}
  /\ clip \in Requests \cup {User}
  /\ cut \in BOOLEAN
  /\ adb \subseteq Requests /\ files \subseteq Requests

(* A step of Android that no request asked for. *)
LEMMA AndroidStepTypes ==
  ASSUME TypeOK, Boot \/ Ready \/ Retry \/ Halt \/ Disconnect \/ Halted \/ Close \/ DaemonRestarts
  PROVE  TypeOK'
<1> USE DEF TypeOK, RestTypeOK
<1>1. "woken" \in Places /\ "refused" \in Places /\ "calls" \in Kinds
  BY DEF Places, Kinds
<1>2. ReqTypeOK'
  <2>1. ASSUME NEW r \in Requests PROVE ReqTypeOK'
    BY <1>1, ReqTypes DEF Boot, Ready, Retry, Halt, Disconnect, Halted, Close, DaemonRestarts
  <2>2. CASE Requests = {}
    BY <2>2 DEF ReqTypeOK, Boot, Ready, Retry, Halt, Disconnect, Halted, Close, DaemonRestarts, Wake
  <2>3. QED
    BY <2>1, <2>2
<1>3. Android!TypeOK'
  <2>1. CASE DaemonRestarts
    BY <2>1 DEF DaemonRestarts, Android!TypeOK
  <2>2. CASE Boot \/ Ready \/ Retry \/ Halt \/ Disconnect \/ Halted \/ Close
    <3>1. Android!Boot \/ Android!Ready \/ Android!Retry \/ Android!Halt \/ Android!Halted
          \/ Android!Close \/ UNCHANGED androidVars
      BY <2>2 DEF Boot, Ready, Retry, Halt, Disconnect, Halted, Close
    <3>2. QED
      BY <3>1, AndroidTypes
  <2>3. QED
    BY <2>1, <2>2
<1>4. RestTypeOK'
  BY DEF Boot, Ready, Retry, Halt, Disconnect, Halted, Close, DaemonRestarts, guestVars
<1>5. QED
  BY <1>2, <1>3, <1>4 DEF ReqTypeOK

(* A step of a request. *)
LEMMA RequestStepTypes ==
  ASSUME TypeOK, NEW r \in Requests,
         \/ \E kind \in Kinds : Begin(r, kind)
         \/ BodySaved(r) \/ BodyRefused(r)
         \/ Enter(r) \/ Acts(r) \/ PasteLocks(r)
         \/ Answered(r) \/ AnswerDropped(r) \/ Cancel(r)
  PROVE  TypeOK'
<1> USE DEF TypeOK, RestTypeOK
<1>1. Places = {"idle", "body", "lease", "joined", "woken", "refused", "call", "adb", "answer",
                "queue", "get", "set", "settle", "restore", "ask", "wait", "look"}
      /\ "calls" \in Kinds
  BY DEF Places, Kinds
<1>2. \A place \in Places : Go(r, place) => ReqTypeOK'
  BY <1>1, ReqTypes
<1>3. Over(r) \/ ToolWaits(r) \/ ToolGoesOn(r) \/ UNCHANGED req => ReqTypeOK'
  BY <1>1, ReqTypes
<1>4. Ends(r) => ReqTypeOK' /\ files' \subseteq Requests
  BY <1>3 DEF Ends
<1>5. (At(r, "lease") \/ At(r, "woken")) /\ Lease(r) => ReqTypeOK' /\ files' \subseteq Requests
  <2>1. (At(r, "lease") \/ At(r, "woken")) /\ Lease(r) => ReqTypeOK'
    BY <1>1, ReqTypes
  <2>2. Lease(r) => files' \subseteq Requests
    BY DEF Lease, Ends
  <2>3. QED
    BY <2>1, <2>2
<1>6. UNCHANGED <<conn, guestVars, adb, files>> => RestTypeOK'
  BY DEF guestVars
<1>7. UNCHANGED <<conn, guestVars, adb>> /\ files' \subseteq Requests => RestTypeOK'
  BY DEF guestVars
<1>8. UNCHANGED androidVars => Android!TypeOK'
  BY AndroidTypes
<1>9. ASSUME NEW kind \in Kinds, Begin(r, kind) PROVE TypeOK'
  <2>1. ReqTypeOK'
    BY <1>1, <1>9, ReqTypes DEF Begin
  <2>2. RestTypeOK'
    BY <1>9 DEF Begin, guestVars
  <2>3. QED
    BY <1>8, <1>9, <2>1, <2>2 DEF Begin, ReqTypeOK
<1>10. CASE BodySaved(r) \/ BodyRefused(r)
  <2>1. ReqTypeOK'
    BY <1>10, <1>1, <1>2, <1>4 DEF BodySaved, BodyRefused
  <2>2. RestTypeOK'
    BY <1>10, <1>4, <1>6, <1>7 DEF BodySaved, BodyRefused
  <2>3. Android!TypeOK'
    BY <1>10, <1>8 DEF BodySaved, BodyRefused
  <2>4. QED
    BY <2>1, <2>2, <2>3 DEF ReqTypeOK
<1>11. CASE Enter(r)
  <2>1. ReqTypeOK'
    BY <1>11, <1>1, <1>2, <1>4, <1>5 DEF Enter
  <2>2. RestTypeOK'
    BY <1>11, <1>4, <1>5, <1>7 DEF Enter
  <2>3. Android!TypeOK'
    BY <1>11, <1>8, AndroidTypes DEF Enter
  <2>4. QED
    BY <2>1, <2>2, <2>3 DEF ReqTypeOK
<1>12. CASE Woken(r)
  <2>1. ReqTypeOK'
    BY <1>12, <1>4, <1>5 DEF Woken
  <2>2. RestTypeOK'
    BY <1>12, <1>4, <1>5, <1>7 DEF Woken
  <2>3. Android!TypeOK'
    BY <1>12, <1>8 DEF Woken
  <2>4. QED
    BY <2>1, <2>2, <2>3 DEF ReqTypeOK
<1>13. CASE AdbStarts(r) \/ AdbDone(r)
  <2>1. ReqTypeOK'
    BY <1>13, <1>1, <1>2, <1>4, ReqTypes DEF AdbStarts, AdbDone, Ends, guestVars
  <2>2. RestTypeOK'
    BY <1>13 DEF AdbStarts, AdbDone, Ends, guestVars
  <2>3. Android!TypeOK'
    BY <1>13, <1>8 DEF AdbStarts, AdbDone, Ends, guestVars
  <2>4. QED
    BY <2>1, <2>2, <2>3 DEF ReqTypeOK
<1>14. CASE AdbFails(r) \/ AdbCut(r) \/ AdbMissing(r)
  <2>1. ReqTypeOK'
    BY <1>14, <1>3 DEF AdbFails, AdbCut, AdbMissing, Ends, guestVars
  <2>2. RestTypeOK'
    BY <1>14 DEF AdbFails, AdbCut, AdbMissing, Ends, guestVars
  <2>3. Android!TypeOK'
    BY <1>14, <1>8 DEF AdbFails, AdbCut, AdbMissing, Ends, guestVars
  <2>4. QED
    BY <2>1, <2>2, <2>3 DEF ReqTypeOK
<1>15. CASE Answered(r) \/ AnswerDropped(r)
  <2>1. ReqTypeOK'
    BY <1>15, <1>3 DEF Answered, AnswerDropped, guestVars
  <2>2. RestTypeOK'
    BY <1>15 DEF Answered, AnswerDropped, guestVars
  <2>3. Android!TypeOK'
    BY <1>15, <1>8 DEF Answered, AnswerDropped, guestVars
  <2>4. QED
    BY <2>1, <2>2, <2>3 DEF ReqTypeOK
<1>16. CASE PasteLocks(r) \/ PasteGets(r) \/ PasteSets(r) \/ PasteKey(r) \/ PasteRestores(r) \/ PasteFails(r)
  <2>1. ReqTypeOK'
    BY <1>16, <1>1, <1>2, <1>3, ReqTypes DEF PasteLocks, PasteGets, PasteSets, PasteKey, PasteRestores, PasteFails, guestVars
  <2>2. RestTypeOK'
    BY <1>16 DEF PasteLocks, PasteGets, PasteSets, PasteKey, PasteRestores, PasteFails, guestVars
  <2>3. Android!TypeOK'
    BY <1>16, <1>8 DEF PasteLocks, PasteGets, PasteSets, PasteKey, PasteRestores, PasteFails, guestVars
  <2>4. QED
    BY <2>1, <2>2, <2>3 DEF ReqTypeOK
<1>17. CASE ToolAsks(r) \/ ToolJoins(r) \/ ToolTimesOut(r) \/ ToolWoken(r) \/ ToolLooks(r)
  <2>1. ReqTypeOK'
    BY <1>17, <1>1, <1>2, <1>3 DEF ToolAsks, ToolJoins, ToolTimesOut, ToolWoken, ToolLooks
  <2>2. RestTypeOK'
    BY <1>17, <1>6 DEF ToolAsks, ToolJoins, ToolTimesOut, ToolWoken, ToolLooks
  <2>3. Android!TypeOK'
    BY <1>17, <1>8, AndroidTypes DEF ToolAsks, ToolJoins, ToolTimesOut, ToolWoken, ToolLooks
  <2>4. QED
    BY <2>1, <2>2, <2>3 DEF ReqTypeOK
<1>18. CASE Cancel(r)
  <2>1. ReqTypeOK'
    BY <1>18, <1>4 DEF Cancel
  <2>2. RestTypeOK'
    BY <1>18, <1>4, <1>7 DEF Cancel
  <2>3. Android!TypeOK'
    BY <1>18, AndroidTypes DEF Cancel
  <2>4. QED
    BY <2>1, <2>2, <2>3 DEF ReqTypeOK
<1>19. QED
  BY <1>9, <1>10, <1>11, <1>12, <1>13, <1>14, <1>15, <1>16, <1>17, <1>18 DEF Acts

(* Every step of any request keeps the types. *)
LEMMA TypeStep ==
  TypeOK /\ [Next]_vars => TypeOK'
<1> SUFFICES ASSUME TypeOK, [Next]_vars PROVE TypeOK'
  OBVIOUS
<1>1. CASE UNCHANGED vars
  BY <1>1 DEF vars, androidVars, guestVars, TypeOK, Android!TypeOK
<1>2. ASSUME NEW r \in Requests,
             \/ \E kind \in Kinds : Begin(r, kind)
             \/ BodySaved(r) \/ BodyRefused(r)
             \/ Enter(r) \/ Acts(r) \/ PasteLocks(r)
             \/ Answered(r) \/ AnswerDropped(r) \/ Cancel(r)
      PROVE  TypeOK'
  BY <1>2, RequestStepTypes
<1>3. CASE Boot \/ Ready \/ Retry \/ Halt \/ Disconnect \/ Halted \/ Close \/ DaemonRestarts
  BY <1>3, AndroidStepTypes
<1>4. CASE ClipboardSetLate
  BY <1>4 DEF ClipboardSetLate, androidVars, TypeOK, Android!TypeOK
<1>5. QED
  BY <1>1, <1>2, <1>3, <1>4 DEF Next

(* TypeOK, for every value of the constants. *)
THEOREM RequestTypes == Safety => []TypeOK
<1>1. TypeOK /\ [Next]_vars => TypeOK'
  BY TypeStep
<1>2. QED
  BY <1>1, TypeInit, PTL DEF Safety

-----------------------------------------------------------------------------
(* Where a request is, and what it holds *)

(* Only r moves. *)
Alone(r) == \A q \in Requests \ {r} : req'[q] = req[q]

(* What each kind of move does to the record of the request. *)
LEMMA Moves ==
  ASSUME TypeOK, NEW r \in Requests
  PROVE  /\ \A place : Go(r, place) =>
              /\ Alone(r) /\ req'[r].pc = place /\ req'[r].kind = req[r].kind
              /\ req'[r].stub = req[r].stub /\ req'[r].saved = req[r].saved
         /\ Over(r) =>
              /\ Alone(r) /\ req'[r].pc = "idle" /\ req'[r].kind = req[r].kind
              /\ ~req'[r].stub /\ req'[r].saved = User
         /\ ToolWaits(r) => Alone(r) /\ req'[r].pc = "wait" /\ req'[r].kind = req[r].kind
         /\ ToolGoesOn(r) =>
              Alone(r) /\ req'[r].pc \in {"wait", "idle"} /\ req'[r].kind = req[r].kind
         /\ Lease(r) /\ conn =>
              /\ Alone(r) /\ req'[r].kind = req[r].kind /\ files' = files
              /\ req'[r].pc = IF req[r].kind = "paste" THEN "queue" ELSE "call"
         /\ Lease(r) /\ ~conn => Ends(r)
         /\ AdbDone(r) =>
              /\ Alone(r) /\ req'[r].kind = req[r].kind
              /\ req'[r].pc \in {"call", "idle"} \/ (req[r].kind = "pull" /\ req'[r].pc = "answer")
         /\ PasteGets(r) =>
              /\ Alone(r) /\ req'[r].pc = "set" /\ req'[r].kind = req[r].kind
              /\ req'[r].stub = req[r].stub /\ req'[r].saved = clip
<1>1. ReqTypeOK
  BY DEF TypeOK, ReqTypeOK
<1>2. Over(r) => /\ Alone(r) /\ req'[r].pc = "idle" /\ req'[r].kind = req[r].kind
                 /\ ~req'[r].stub /\ req'[r].saved = User
  BY <1>1 DEF ReqTypeOK, Over, NoRequest, Alone
<1>3. \A place : Go(r, place) =>
        /\ Alone(r) /\ req'[r].pc = place /\ req'[r].kind = req[r].kind
        /\ req'[r].stub = req[r].stub /\ req'[r].saved = req[r].saved
  BY <1>1 DEF ReqTypeOK, Go, Alone
<1>4. ToolWaits(r) => Alone(r) /\ req'[r].pc = "wait" /\ req'[r].kind = req[r].kind
  BY <1>1 DEF ReqTypeOK, ToolWaits, Alone
<1>5. ToolGoesOn(r) =>
        Alone(r) /\ req'[r].pc \in {"wait", "idle"} /\ req'[r].kind = req[r].kind
  BY <1>1, <1>2 DEF ReqTypeOK, ToolGoesOn, Alone
<1>6. Lease(r) /\ conn =>
        /\ Alone(r) /\ req'[r].kind = req[r].kind /\ files' = files
        /\ req'[r].pc = IF req[r].kind = "paste" THEN "queue" ELSE "call"
  <2>1. SUFFICES ASSUME Lease(r), conn
                 PROVE  /\ Alone(r) /\ req'[r].kind = req[r].kind /\ files' = files
                        /\ req'[r].pc = IF req[r].kind = "paste" THEN "queue" ELSE "call"
    OBVIOUS
  <2>2. PICK n : req' = [req EXCEPT ![r].pc = IF req[r].kind = "paste" THEN "queue" ELSE "call",
                                    ![r].calls = IF req[r].kind = "paste" THEN 0 ELSE n,
                                    ![r].stub = TRUE]
    BY <2>1 DEF Lease
  <2>3. CASE req[r].kind = "paste"
    BY <1>1, <2>1, <2>2, <2>3 DEF ReqTypeOK, Alone, Lease
  <2>4. CASE req[r].kind # "paste"
    <3>1. req' = [req EXCEPT ![r].pc = "call", ![r].calls = n, ![r].stub = TRUE]
      BY <2>2, <2>4
    <3>2. req'[r].pc = "call" /\ req'[r].kind = req[r].kind
      BY <1>1, <3>1 DEF ReqTypeOK
    <3>3. Alone(r)
      BY <1>1, <3>1 DEF ReqTypeOK, Alone
    <3>4. QED
      BY <2>1, <2>4, <3>2, <3>3 DEF Lease
  <2>5. QED
    BY <2>3, <2>4
<1>7. Lease(r) /\ ~conn => Ends(r)
  BY DEF Lease
<1>8. AdbDone(r) =>
        /\ Alone(r) /\ req'[r].kind = req[r].kind
        /\ req'[r].pc \in {"call", "idle"} \/ (req[r].kind = "pull" /\ req'[r].pc = "answer")
  <2>1. CASE req[r].calls > 1 /\ req' = [req EXCEPT ![r].pc = "call", ![r].calls = @ - 1]
    BY <1>1, <2>1 DEF ReqTypeOK, Alone
  <2>2. CASE Over(r) \/ (req[r].kind = "pull" /\ Go(r, "answer"))
    BY <1>2, <1>3, <2>2
  <2>3. QED
    BY <2>1, <2>2 DEF AdbDone, Ends
<1>9. PasteGets(r) => /\ Alone(r) /\ req'[r].pc = "set" /\ req'[r].kind = req[r].kind
                      /\ req'[r].stub = req[r].stub /\ req'[r].saved = clip
  <2>1. SUFFICES ASSUME req' = [req EXCEPT ![r].pc = "set", ![r].saved = clip]
                 PROVE  /\ Alone(r) /\ req'[r].pc = "set" /\ req'[r].kind = req[r].kind
                        /\ req'[r].stub = req[r].stub /\ req'[r].saved = clip
    BY DEF PasteGets
  <2>2. QED
    BY <1>1, <2>1 DEF ReqTypeOK, Alone
<1>10. QED
  BY <1>2, <1>3, <1>4, <1>5, <1>6, <1>7, <1>8, <1>9

(* A request keeps what it has while another one acts. *)
LEMMA OthersHold ==
  ASSUME NEW q \in Requests, Held(q), req'[q] = req[q],
         q \in adb' => q \in adb, q \in waiting' => q \in waiting,
         lock' = q <=> lock = q, q \in files' => q \in files
  PROVE  Held(q)'
BY DEF Held, At, Section

(* A step of Android keeps PlacesInv. *)
LEMMA AndroidStepPlaces ==
  ASSUME TypeOK, PlacesInv,
         Boot \/ Ready \/ Retry \/ Halt \/ Disconnect \/ Halted \/ Close \/ DaemonRestarts
  PROVE  PlacesInv'
<1> SUFFICES ASSUME NEW q \in Requests PROVE Held(q)'
  BY DEF PlacesInv
<1>1. ReqTypeOK /\ Held(q)
  BY DEF PlacesInv, TypeOK, ReqTypeOK
<1>2. CASE Boot \/ Retry \/ Halt \/ Close
  BY <1>1, <1>2, OthersHold
     DEF Boot, Retry, Halt, Close, Android!Boot, Android!Retry, Android!Halt, Android!Close, guestVars
<1>3. CASE Ready \/ Halted
  <2>1. /\ waiting' = {} /\ UNCHANGED <<lock, adb, files>>
        /\ Wake("woken") \/ Wake("refused")
    BY <1>3 DEF Ready, Halted, Android!Ready, Android!Halted, guestVars
  <2>2. CASE q \in waiting
    <3>1. req'[q].pc \in {"woken", "refused"} /\ req'[q].kind = req[q].kind
      BY <1>1, <2>1, <2>2 DEF Wake, ReqTypeOK
    <3>2. QED
      BY <1>1, <2>1, <2>2, <3>1 DEF Held, At, Section
  <2>3. CASE q \notin waiting
    BY <1>1, <2>1, <2>3, OthersHold DEF Wake
  <2>4. QED
    BY <2>2, <2>3
<1>4. CASE Disconnect
  <2>1. req'[q].pc = req[q].pc /\ req'[q].kind = req[q].kind
    BY <1>1, <1>4 DEF Disconnect, ReqTypeOK
  <2>2. QED
    BY <1>1, <1>4, <2>1 DEF Disconnect, androidVars, Held, At
<1>5. CASE DaemonRestarts
  BY <1>5, RequestsAssumption DEF DaemonRestarts, Held, At, Section, NoRequest, RequestsAssumption
<1>6. QED
  BY <1>2, <1>3, <1>4, <1>5

(* A step of a request keeps PlacesInv. *)
LEMMA RequestStepPlaces ==
  ASSUME TypeOK, PlacesInv, NEW r \in Requests,
         \/ \E kind \in Kinds : Begin(r, kind)
         \/ BodySaved(r) \/ BodyRefused(r)
         \/ Enter(r) \/ Acts(r) \/ PasteLocks(r)
         \/ Answered(r) \/ AnswerDropped(r) \/ Cancel(r)
  PROVE  PlacesInv'
<1> SUFFICES ASSUME NEW q \in Requests PROVE Held(q)'
  BY DEF PlacesInv
<1> USE RequestsAssumption DEF RequestsAssumption
<1>1. ReqTypeOK /\ Held(q) /\ Held(r)
  BY DEF PlacesInv, TypeOK, ReqTypeOK
<1>2. ASSUME NEW kind \in Kinds, Begin(r, kind) PROVE Held(q)'
  <2>1. Alone(r) /\ req'[r].pc = FirstPlace(kind) /\ req'[r].kind = kind
    BY <1>1, <1>2 DEF Begin, ReqTypeOK, Alone, NoRequest
  <2>2. CASE q # r
    BY <1>1, <1>2, <2>1, <2>2, OthersHold DEF Begin, Alone, androidVars, guestVars
  <2>3. CASE q = r
    <3>1. r \notin adb' /\ r \notin waiting' /\ lock' # r
      BY <1>1, <1>2 DEF Begin, Held, At, Section, androidVars, guestVars
    <3>2. r \in files' <=> kind = "upload"
      BY <1>1, <1>2 DEF Begin
    <3>3. FirstPlace(kind) \in {"body", "ask", "lease"}
          /\ (FirstPlace(kind) = "ask" => kind = "boot")
      BY DEF FirstPlace
    <3>4. QED
      BY <2>1, <2>3, <3>1, <3>2, <3>3 DEF Held, At, Section
  <2>4. QED
    BY <2>2, <2>3
<1>3. CASE BodySaved(r) \/ BodyRefused(r)
  <2>1. CASE q # r
    BY <1>1, <1>3, <2>1, Moves, OthersHold DEF BodySaved, BodyRefused, Ends, androidVars, guestVars, Alone
  <2>2. CASE q = r
    BY <1>1, <1>3, <2>2, Moves DEF BodySaved, BodyRefused, Ends, androidVars, guestVars, Held, At, Section
  <2>3. QED
    BY <2>1, <2>2
<1>4. CASE Enter(r)
  <2>1. CASE q # r
    BY <1>1, <1>4, <2>1, Moves, OthersHold DEF Enter, Ends, androidVars, guestVars, Android!Join, Android!Boot, Alone
  <2>2. CASE q = r
    BY <1>1, <1>4, <2>2, Moves DEF Enter, Ends, androidVars, guestVars, Android!Join, Android!Boot, Held, At, Section
  <2>3. QED
    BY <2>1, <2>2
<1>5. CASE Woken(r)
  <2>1. CASE q # r
    BY <1>1, <1>5, <2>1, Moves, OthersHold DEF Woken, Ends, androidVars, guestVars, Alone
  <2>2. CASE q = r
    BY <1>1, <1>5, <2>2, Moves DEF Woken, Ends, androidVars, guestVars, Held, At, Section
  <2>3. QED
    BY <2>1, <2>2
<1>6. CASE AdbStarts(r)
  <2>1. CASE q # r
    BY <1>1, <1>6, <2>1, Moves, OthersHold DEF AdbStarts, androidVars, guestVars, Alone
  <2>2. CASE q = r
    BY <1>1, <1>6, <2>2, Moves DEF AdbStarts, androidVars, guestVars, Held, At, Section
  <2>3. QED
    BY <2>1, <2>2
<1>7. CASE AdbDone(r)
  <2>1. CASE q # r
    BY <1>1, <1>7, <2>1, Moves, OthersHold DEF AdbDone, Ends, androidVars, guestVars, Alone
  <2>2. CASE q = r
    <3>1. /\ req'[r].kind = req[r].kind
          /\ req'[r].pc \in {"call", "idle"} \/ (req[r].kind = "pull" /\ req'[r].pc = "answer")
      BY <1>7, Moves
    <3>2. /\ At(r, "adb") /\ r \notin adb' /\ waiting' = waiting /\ lock' = lock
          /\ r \in files' => (r \in files /\ (req[r].kind = "upload" => req[r].calls > 1 /\ req'[r].pc = "call"))
                             \/ req[r].kind = "pull"
      BY <1>1, <1>7 DEF AdbDone, Ends, androidVars, guestVars, ReqTypeOK
    <3>3. QED
      BY <1>1, <2>2, <3>1, <3>2 DEF Held, At, Section
  <2>3. QED
    BY <2>1, <2>2
<1>8. CASE AdbFails(r) \/ AdbCut(r) \/ AdbMissing(r)
  <2>1. CASE q # r
    BY <1>1, <1>8, <2>1, Moves, OthersHold DEF AdbFails, AdbCut, AdbMissing, Ends, androidVars, guestVars, Alone
  <2>2. CASE q = r
    BY <1>1, <1>8, <2>2, Moves DEF AdbFails, AdbCut, AdbMissing, Ends, androidVars, guestVars, Held, At, Section
  <2>3. QED
    BY <2>1, <2>2
<1>9. CASE Answered(r) \/ AnswerDropped(r)
  <2>1. CASE q # r
    BY <1>1, <1>9, <2>1, Moves, OthersHold DEF Answered, AnswerDropped, androidVars, guestVars, Alone
  <2>2. CASE q = r
    BY <1>1, <1>9, <2>2, Moves DEF Answered, AnswerDropped, androidVars, guestVars, Held, At, Section
  <2>3. QED
    BY <2>1, <2>2
<1>10. CASE PasteLocks(r)
  <2>1. CASE q # r
    BY <1>1, <1>10, <2>1, Moves, OthersHold DEF PasteLocks, androidVars, Alone
  <2>2. CASE q = r
    BY <1>1, <1>10, <2>2, Moves DEF PasteLocks, androidVars, Held, At, Section
  <2>3. QED
    BY <2>1, <2>2
<1>11. CASE PasteGets(r)
  <2>1. CASE q # r
    BY <1>1, <1>11, <2>1, Moves, OthersHold DEF PasteGets, androidVars, guestVars, Alone
  <2>2. CASE q = r
    BY <1>1, <1>11, <2>2, Moves DEF PasteGets, androidVars, guestVars, Held, At, Section
  <2>3. QED
    BY <2>1, <2>2
<1>12. CASE PasteSets(r) \/ PasteKey(r)
  <2>1. CASE q # r
    BY <1>1, <1>12, <2>1, Moves, OthersHold DEF PasteSets, PasteKey, androidVars, guestVars, Alone
  <2>2. CASE q = r
    BY <1>1, <1>12, <2>2, Moves DEF PasteSets, PasteKey, androidVars, guestVars, Held, At, Section
  <2>3. QED
    BY <2>1, <2>2
<1>13. CASE PasteRestores(r) \/ PasteFails(r)
  <2>1. CASE q # r
    <3>1. lock = r /\ lock' = Nobody /\ Alone(r) /\ UNCHANGED <<adb, waiting, files>>
      BY <1>1, <1>13, Moves DEF PasteRestores, PasteFails, androidVars, Held, At, Section
    <3>2. QED
      BY <1>1, <2>1, <3>1, OthersHold DEF Alone
  <2>2. CASE q = r
    BY <1>1, <1>13, <2>2, Moves DEF PasteRestores, PasteFails, androidVars, Held, At, Section
  <2>3. QED
    BY <2>1, <2>2
<1>14. CASE ToolAsks(r)
  <2>1. CASE q # r
    BY <1>1, <1>14, <2>1, Moves, OthersHold DEF ToolAsks, androidVars, guestVars, Android!Boot, Android!Halt, Alone
  <2>2. CASE q = r
    BY <1>1, <1>14, <2>2, Moves DEF ToolAsks, androidVars, guestVars, Android!Boot, Android!Halt, Held, At, Section
  <2>3. QED
    BY <2>1, <2>2
<1>15. CASE ToolJoins(r) \/ ToolTimesOut(r)
  <2>1. CASE q # r
    BY <1>1, <1>15, <2>1, Moves, OthersHold DEF ToolJoins, ToolTimesOut, androidVars, guestVars, Android!Join, Android!Leave, Alone
  <2>2. CASE q = r
    BY <1>1, <1>15, <2>2, Moves DEF ToolJoins, ToolTimesOut, androidVars, guestVars, Android!Join, Android!Leave, Held, At, Section
  <2>3. QED
    BY <2>1, <2>2
<1>16. CASE ToolWoken(r) \/ ToolLooks(r)
  <2>1. CASE q # r
    BY <1>1, <1>16, <2>1, Moves, OthersHold DEF ToolWoken, ToolLooks, androidVars, guestVars, Alone
  <2>2. CASE q = r
    BY <1>1, <1>16, <2>2, Moves DEF ToolWoken, ToolLooks, androidVars, guestVars, Held, At, Section
  <2>3. QED
    BY <2>1, <2>2
<1>17. CASE Cancel(r)
  <2>1. CASE q # r
    BY <1>1, <1>17, <2>1, Moves, OthersHold DEF Cancel, Ends, guestVars, Android!Leave, Alone
  <2>2. CASE q = r
    BY <1>1, <1>17, <2>2, Moves DEF Cancel, Ends, guestVars, Android!Leave, Held, At, Section
  <2>3. QED
    BY <2>1, <2>2
<1>18. QED
  BY <1>2, <1>3, <1>4, <1>5, <1>6, <1>7, <1>8, <1>9, <1>10, <1>11, <1>12, <1>13, <1>14, <1>15, <1>16, <1>17 DEF Acts

LEMMA PlacesInit ==
  Init => PlacesInv
<1> SUFFICES ASSUME Init, NEW r \in Requests PROVE Held(r)
  BY DEF PlacesInv
<1>1. req[r].pc = "idle" /\ ~req[r].stub
  BY DEF Init, NoRequest
<1>2. lock # r /\ clip # r /\ adb = {} /\ waiting = {} /\ files = {}
  BY RequestsAssumption DEF Init, Android!Init, RequestsAssumption
<1>3. QED
  BY <1>1, <1>2 DEF Held, At, Section

LEMMA PlacesStep ==
  TypeOK /\ PlacesInv /\ [Next]_vars => PlacesInv'
<1> SUFFICES ASSUME TypeOK, PlacesInv, [Next]_vars PROVE PlacesInv'
  OBVIOUS
<1>1. CASE UNCHANGED vars
  BY <1>1 DEF vars, androidVars, guestVars, PlacesInv, Held, At
<1>2. ASSUME NEW r \in Requests,
             \/ \E kind \in Kinds : Begin(r, kind)
             \/ BodySaved(r) \/ BodyRefused(r)
             \/ Enter(r) \/ Acts(r) \/ PasteLocks(r)
             \/ Answered(r) \/ AnswerDropped(r) \/ Cancel(r)
      PROVE  PlacesInv'
  BY <1>2, RequestStepPlaces
<1>3. CASE Boot \/ Ready \/ Retry \/ Halt \/ Disconnect \/ Halted \/ Close \/ DaemonRestarts
  BY <1>3, AndroidStepPlaces
<1>4. CASE ClipboardSetLate
  BY <1>4 DEF ClipboardSetLate, androidVars, PlacesInv, Held, At
<1>5. QED
  BY <1>1, <1>2, <1>3, <1>4 DEF Next

(* A request that is over, whatever cut it off, has left no adb process, no
   place among those who wait for Android, no lock and no uploaded file
   (FinishedLeavesNothing). *)
THEOREM RequestsLeaveNothing == Safety => []FinishedLeavesNothing
<1>1. TypeOK /\ PlacesInv /\ [Next]_vars => (TypeOK /\ PlacesInv)'
  BY TypeStep, PlacesStep
<1>2. PlacesInv => FinishedLeavesNothing
  BY DEF PlacesInv, Held, At, Section, FinishedLeavesNothing
<1>3. QED
  BY <1>1, <1>2, TypeInit, PlacesInit, PTL DEF Safety

-----------------------------------------------------------------------------
(* The clipboard *)

(* A step that does not touch the guest, of a request that neither holds the
   lock nor takes it. *)
LEMMA OutsideClean ==
  ASSUME TypeOK, PlacesInv, ClipInv, NEW r \in Requests, Alone(r), UNCHANGED guestVars,
         req[r].pc \notin Section, req'[r].pc \notin Section
  PROVE  ClipInv'
<1> SUFFICES ASSUME NEW q \in Requests PROVE Clean(q)'
  BY DEF ClipInv
<1>1. Clean(q) /\ Held(r) /\ lock # r
  BY DEF ClipInv, PlacesInv, Held
<1>2. CASE q # r
  BY <1>1, <1>2 DEF Clean, Alone, At, guestVars
<1>3. CASE q = r
  BY <1>1, <1>3 DEF Clean, At, Section, guestVars
<1>4. QED
  BY <1>2, <1>3

(* The holder of the lock leaves nothing of another request in a guest where
   no call was cut off. *)
LEMMA HolderClean ==
  ASSUME TypeOK, PlacesInv, ClipInv, NEW r \in Requests, Alone(r), lock = r,
         NEW q \in Requests, q # r, clip' = q => cut'
  PROVE  Clean(q)'
<1>1. Held(q)
  BY DEF PlacesInv
<1>2. req'[q] = req[q] /\ req[q].pc \notin Section
  BY <1>1 DEF Alone, Held
<1>3. QED
  BY <1>2 DEF Clean, At, Section

LEMMA AndroidStepClip ==
  ASSUME TypeOK, PlacesInv, ClipInv,
         Boot \/ Ready \/ Retry \/ Halt \/ Disconnect \/ Halted \/ Close \/ DaemonRestarts
  PROVE  ClipInv'
<1> SUFFICES ASSUME NEW q \in Requests PROVE Clean(q)'
  BY DEF ClipInv
<1>1. ReqTypeOK /\ Clean(q) /\ Held(q) /\ User # q
  BY RequestsAssumption DEF RequestsAssumption, PlacesInv, ClipInv, TypeOK, ReqTypeOK
<1>2. CASE Boot \/ Retry \/ Halt \/ Close
  BY <1>1, <1>2 DEF Boot, Retry, Halt, Close, guestVars, Clean, At
<1>3. CASE Ready \/ Halted
  <2>1. UNCHANGED guestVars /\ (Wake("woken") \/ Wake("refused"))
    BY <1>3 DEF Ready, Halted
  <2>2. CASE q \in waiting
    <3>1. req'[q].pc \in {"woken", "refused"}
      BY <1>1, <2>1, <2>2 DEF Wake, ReqTypeOK
    <3>2. At(q, "joined") /\ lock # q
      BY <1>1, <2>2 DEF Held, At, Section
    <3>3. QED
      BY <1>1, <2>1, <3>1, <3>2 DEF Clean, At, Section, guestVars
  <2>3. CASE q \notin waiting
    BY <1>1, <2>1, <2>3 DEF Wake, Clean, At, guestVars
  <2>4. QED
    BY <2>2, <2>3
<1>4. CASE Disconnect
  <2>1. ~req'[q].stub /\ clip' = User
    BY <1>1, <1>4 DEF Disconnect, ReqTypeOK
  <2>2. QED
    BY <1>1, <2>1 DEF Clean
<1>5. CASE DaemonRestarts
  BY <1>1, <1>5 DEF DaemonRestarts, Clean, At, Section, NoRequest
<1>6. QED
  BY <1>2, <1>3, <1>4, <1>5

LEMMA RequestStepClip ==
  ASSUME TypeOK, PlacesInv, ClipInv, NEW r \in Requests,
         \/ \E kind \in Kinds : Begin(r, kind)
         \/ BodySaved(r) \/ BodyRefused(r)
         \/ Enter(r) \/ Acts(r) \/ PasteLocks(r)
         \/ Answered(r) \/ AnswerDropped(r) \/ Cancel(r)
  PROVE  ClipInv'
<1>1. /\ ReqTypeOK /\ Clean(r) /\ Held(r)
      /\ User # r /\ Nobody # r /\ clip \in Requests \cup {User}
  BY RequestsAssumption DEF RequestsAssumption, PlacesInv, ClipInv, TypeOK, ReqTypeOK
<1> DEFINE Outside == /\ Alone(r) /\ UNCHANGED guestVars
                      /\ req[r].pc \notin Section /\ req'[r].pc \notin Section
<1>2. Outside => ClipInv'
  BY OutsideClean
<1>3. ASSUME NEW kind \in Kinds, Begin(r, kind) PROVE Outside
  <2>1. Alone(r) /\ req'[r].pc = FirstPlace(kind)
    BY <1>1, <1>3 DEF Begin, ReqTypeOK, Alone, NoRequest
  <2>2. FirstPlace(kind) \in {"body", "ask", "lease"}
    BY DEF FirstPlace
  <2>3. QED
    BY <1>3, <2>1, <2>2 DEF Begin, At, Section
<1>4. CASE BodySaved(r) \/ BodyRefused(r) \/ Enter(r) \/ Woken(r)
  <2>1. Outside
    BY <1>4, Moves DEF BodySaved, BodyRefused, Enter, Woken, Ends, At, Section
  <2>2. QED
    BY <1>2, <2>1
<1>5. CASE AdbStarts(r) \/ AdbDone(r) \/ AdbFails(r) \/ AdbCut(r) \/ AdbMissing(r)
  <2>1. UNCHANGED guestVars /\ req[r].pc \notin Section
    BY <1>5 DEF AdbStarts, AdbDone, AdbFails, AdbCut, AdbMissing, At, Section
  <2>2. Alone(r) /\ req'[r].pc \notin Section
    BY <1>5, Moves DEF AdbStarts, AdbFails, AdbCut, AdbMissing, Ends, Section
  <2>3. QED
    BY <1>2, <2>1, <2>2
<1>6. CASE Answered(r) \/ AnswerDropped(r) \/ Cancel(r)
  <2>1. Outside
    BY <1>6, Moves DEF Answered, AnswerDropped, Cancel, Ends, At, Section
  <2>2. QED
    BY <1>2, <2>1
<1>7. CASE ToolAsks(r) \/ ToolJoins(r) \/ ToolTimesOut(r) \/ ToolWoken(r) \/ ToolLooks(r)
  <2>1. Outside
    BY <1>7, Moves DEF ToolAsks, ToolJoins, ToolTimesOut, ToolWoken, ToolLooks, At, Section
  <2>2. QED
    BY <1>2, <2>1
<1>8. CASE PasteLocks(r)
  <2>1. /\ Alone(r) /\ req'[r].pc = "get" /\ UNCHANGED <<clip, cut>>
        /\ lock = Nobody /\ lock' = r
    BY <1>8, Moves DEF PasteLocks
  <2>2. ASSUME NEW q \in Requests PROVE ~cut => clip # q
    <3>1. Clean(q) /\ Nobody # q
      BY RequestsAssumption DEF RequestsAssumption, ClipInv
    <3>2. QED
      BY <2>1, <3>1 DEF Clean
  <2>3. ASSUME NEW q \in Requests PROVE Clean(q)'
    <3>1. Clean(q)
      BY DEF ClipInv
    <3>2. CASE q # r
      BY <2>1, <2>2, <3>1, <3>2 DEF Clean, At, Alone
    <3>3. CASE q = r
      BY <1>1, <2>1, <2>2, <3>3 DEF Clean, At, Section
    <3>4. QED
      BY <3>2, <3>3
  <2>4. QED
    BY <2>3 DEF ClipInv
<1>9. CASE PasteGets(r) \/ PasteSets(r) \/ PasteKey(r) \/ PasteRestores(r) \/ PasteFails(r)
  <2>1. lock = r /\ Alone(r)
    BY <1>1, <1>9, Moves
       DEF PasteGets, PasteSets, PasteKey, PasteRestores, PasteFails, Held, At, Section
  <2>2. ASSUME NEW q \in Requests, q # r PROVE Clean(q)'
    <3>1. Clean(q) /\ (~cut => clip # q)
      BY <2>1, <2>2 DEF ClipInv, Clean
    <3>2. clip' = q => cut'
      BY <1>1, <1>9, <2>2, <3>1, RequestsAssumption
         DEF PasteGets, PasteSets, PasteKey, PasteRestores, PasteFails, guestVars, Clean, At,
             RequestsAssumption
    <3>3. QED
      BY <2>1, <2>2, <3>2, HolderClean
  <2>3. Clean(r)'
    <3>1. CASE PasteGets(r)
      BY <1>1, <2>1, <3>1, Moves DEF PasteGets, Clean, At, Section, guestVars
    <3>2. CASE PasteSets(r)
      BY <1>1, <2>1, <3>2, Moves DEF PasteSets, Clean, At, Section
    <3>3. CASE PasteKey(r)
      BY <1>1, <2>1, <3>3, Moves DEF PasteKey, Clean, At, Section, guestVars
    <3>4. CASE PasteRestores(r)
      BY <1>1, <2>1, <3>4, Moves DEF PasteRestores, Clean, At, Section
    <3>5. CASE PasteFails(r)
      <4>1. req'[r].pc = "idle" /\ UNCHANGED clip
        BY <1>1, <3>5, Moves DEF PasteFails
      <4>2. ~cut' => ~cut /\ (At(r, "get") \/ At(r, "set") \/ ~req[r].stub)
        BY <3>5 DEF PasteFails
      <4>3. req[r].pc \in Section
        BY <3>5 DEF PasteFails, At, Section
      <4>4. ~cut' => clip' # r
        BY <1>1, <4>1, <4>2, <4>3 DEF Clean, At
      <4>5. QED
        BY <4>1, <4>4 DEF Clean, At, Section
    <3>6. QED
      BY <1>9, <3>1, <3>2, <3>3, <3>4, <3>5
  <2>4. QED
    BY <2>2, <2>3 DEF ClipInv
<1>10. QED
  BY <1>2, <1>3, <1>4, <1>5, <1>6, <1>7, <1>8, <1>9 DEF Acts

LEMMA ClipInit ==
  Init => ClipInv
<1> SUFFICES ASSUME Init, NEW r \in Requests PROVE Clean(r)
  BY DEF ClipInv
<1>1. req[r].pc = "idle" /\ ~req[r].stub
  BY DEF Init, NoRequest
<1>2. lock # r /\ clip # r /\ adb = {} /\ waiting = {} /\ files = {}
  BY RequestsAssumption DEF Init, Android!Init, RequestsAssumption
<1>3. QED
  BY <1>1, <1>2 DEF Clean, At, Section

LEMMA ClipStep ==
  TypeOK /\ PlacesInv /\ ClipInv /\ [Next]_vars => ClipInv'
<1> SUFFICES ASSUME TypeOK, PlacesInv, ClipInv, [Next]_vars PROVE ClipInv'
  OBVIOUS
<1>1. CASE UNCHANGED vars
  BY <1>1 DEF vars, guestVars, ClipInv, Clean, At
<1>2. ASSUME NEW r \in Requests,
             \/ \E kind \in Kinds : Begin(r, kind)
             \/ BodySaved(r) \/ BodyRefused(r)
             \/ Enter(r) \/ Acts(r) \/ PasteLocks(r)
             \/ Answered(r) \/ AnswerDropped(r) \/ Cancel(r)
      PROVE  ClipInv'
  BY <1>2, RequestStepClip
<1>3. CASE Boot \/ Ready \/ Retry \/ Halt \/ Disconnect \/ Halted \/ Close \/ DaemonRestarts
  BY <1>3, AndroidStepClip
<1>4. CASE ClipboardSetLate
  BY <1>4 DEF ClipboardSetLate, ClipInv, Clean
<1>5. QED
  BY <1>1, <1>2, <1>3, <1>4 DEF Next

(* A pasted text reaches the guest whole, and the clipboard has the text of
   the request that holds the lock, or the user's, as long as no call was cut
   off (PastesDoNotMix). *)
THEOREM PastesAlone == Safety => []PastesDoNotMix
<1>1. TypeOK /\ PlacesInv /\ ClipInv /\ [Next]_vars => (TypeOK /\ PlacesInv /\ ClipInv)'
  BY TypeStep, PlacesStep, ClipStep
<1>2. TypeOK /\ ClipInv => PastesDoNotMix
  BY DEF TypeOK, ClipInv, Clean, At, PastesDoNotMix
<1>3. QED
  BY <1>1, <1>2, TypeInit, PlacesInit, ClipInit, PTL DEF Safety

-----------------------------------------------------------------------------
(* Android, and those who wait for it *)

RequestStep(r) ==
  \/ \E kind \in Kinds : Begin(r, kind)
  \/ BodySaved(r) \/ BodyRefused(r)
  \/ Enter(r) \/ Acts(r) \/ PasteLocks(r)
  \/ Answered(r) \/ AnswerDropped(r) \/ Cancel(r)

(* What a step of a request does to Android. *)
LEMMA RequestUses ==
  ASSUME NEW r \in Requests, RequestStep(r)
  PROVE  /\ conn' = conn
         /\ \/ Android!Boot \/ Android!Halt \/ Android!Join(r) \/ Android!Leave(r)
            \/ UNCHANGED androidVars
<1> USE DEF guestVars
<1>1. CASE (\E kind \in Kinds : Begin(r, kind)) \/ BodySaved(r) \/ BodyRefused(r)
  BY <1>1 DEF Begin, BodySaved, BodyRefused
<1>2. CASE Enter(r)
  BY <1>2 DEF Enter, androidVars
<1>3. CASE Woken(r) \/ AdbStarts(r) \/ AdbDone(r) \/ AdbFails(r) \/ AdbCut(r) \/ AdbMissing(r)
  BY <1>3 DEF Woken, AdbStarts, AdbDone, AdbFails, AdbCut, AdbMissing
<1>4. CASE \/ PasteGets(r) \/ PasteSets(r) \/ PasteKey(r) \/ PasteRestores(r) \/ PasteFails(r)
           \/ PasteLocks(r)
  BY <1>4 DEF PasteGets, PasteSets, PasteKey, PasteRestores, PasteFails, PasteLocks
<1>5. CASE ToolAsks(r) \/ ToolJoins(r) \/ ToolTimesOut(r) \/ ToolWoken(r) \/ ToolLooks(r)
  BY <1>5 DEF ToolAsks, ToolJoins, ToolTimesOut, ToolWoken, ToolLooks
<1>6. CASE Answered(r) \/ AnswerDropped(r) \/ Cancel(r)
  BY <1>6 DEF Answered, AnswerDropped, Cancel
<1>7. QED
  BY <1>1, <1>2, <1>3, <1>4, <1>5, <1>6 DEF RequestStep, Acts

(* What the requests, and all that happens around them, ask of Android is
   what Lifecycle allows, whose steps are those of the supervisor; only a
   restart of the daemon is none of them. *)
THEOREM RequestsUseLifecycle == Safety => [][Android!Next \/ DaemonRestarts]_androidVars
<1>1. ASSUME [Next]_vars PROVE [Android!Next \/ DaemonRestarts]_androidVars
  <2>1. ASSUME NEW r \in Requests, RequestStep(r)
        PROVE  [Android!Next \/ DaemonRestarts]_androidVars
    BY <2>1, RequestUses DEF Android!Next
  <2>2. CASE Boot \/ Ready \/ Retry \/ Halt \/ Disconnect \/ Halted \/ Close \/ DaemonRestarts
    BY <2>2 DEF Boot, Ready, Retry, Halt, Disconnect, Halted, Close, Android!Next
  <2>3. CASE ClipboardSetLate \/ UNCHANGED vars
    BY <2>3 DEF ClipboardSetLate, vars
  <2>4. QED
    BY <1>1, <2>1, <2>2, <2>3 DEF Next, RequestStep
<1>2. QED
  BY <1>1, PTL DEF Safety

(* A place among those who wait is kept until the answer, and Android has a
   channel whenever it runs, and none once it is stopped. *)
Awaited ==
  /\ \A r \in Requests : At(r, "joined") => r \in waiting
  /\ waiting # {} => state \in {"starting", "stopping"}
  /\ state = "running" => conn
  /\ state = "stopped" => ~conn

(* Where a request that moves comes to. *)
LEMMA JoinsAwaited ==
  ASSUME TypeOK, NEW r \in Requests, RequestStep(r)
  PROVE  /\ Alone(r)
         /\ At(r, "joined")' => r \in waiting'
<1>1. ReqTypeOK
  BY DEF TypeOK, ReqTypeOK
<1> USE Moves DEF At, Ends
<1>2. CASE (\E kind \in Kinds : Begin(r, kind)) \/ BodySaved(r) \/ BodyRefused(r)
  <2>1. ASSUME NEW kind \in Kinds, Begin(r, kind)
        PROVE  Alone(r) /\ req'[r].pc \in {"body", "ask", "lease"}
    BY <1>1, <2>1 DEF Begin, ReqTypeOK, Alone, NoRequest, FirstPlace
  <2>2. QED
    BY <1>2, <2>1 DEF BodySaved, BodyRefused
<1>3. CASE Enter(r)
  <2>1. CASE open /\ Android!Join(r) /\ Go(r, "joined")
    BY <2>1 DEF Android!Join
  <2>2. CASE Android!Boot /\ waiting' = {r} /\ Go(r, "joined")
    BY <2>2
  <2>3. CASE Lease(r)
    BY <2>3
  <2>4. CASE Ends(r)
    BY <2>4
  <2>5. QED
    BY <1>3, <2>1, <2>2, <2>3, <2>4 DEF Enter
<1>4. CASE Woken(r)
  BY <1>4 DEF Woken
<1>5. CASE AdbStarts(r) \/ AdbDone(r) \/ AdbFails(r) \/ AdbCut(r) \/ AdbMissing(r)
  BY <1>5 DEF AdbStarts, AdbFails, AdbCut, AdbMissing
<1>6. CASE \/ PasteGets(r) \/ PasteSets(r) \/ PasteKey(r) \/ PasteRestores(r) \/ PasteFails(r)
           \/ PasteLocks(r)
  BY <1>6 DEF PasteSets, PasteKey, PasteRestores, PasteFails, PasteLocks
<1>7. CASE ToolAsks(r) \/ ToolTimesOut(r) \/ ToolWoken(r) \/ ToolLooks(r)
  BY <1>7 DEF ToolAsks, ToolTimesOut, ToolWoken, ToolLooks
<1>8. CASE ToolJoins(r)
  BY <1>8 DEF ToolJoins, Android!Join
<1>9. CASE Answered(r) \/ AnswerDropped(r) \/ Cancel(r)
  BY <1>9 DEF Answered, AnswerDropped, Cancel
<1>10. QED
  BY <1>2, <1>3, <1>4, <1>5, <1>6, <1>7, <1>8, <1>9 DEF RequestStep, Acts

LEMMA AwaitedStep ==
  TypeOK /\ Awaited /\ [Next]_vars => Awaited'
<1> SUFFICES ASSUME TypeOK, Awaited, [Next]_vars PROVE Awaited'
  OBVIOUS
<1>1. ReqTypeOK /\ waiting \subseteq Requests
  BY DEF TypeOK, ReqTypeOK, Android!TypeOK
<1>2. ASSUME NEW r \in Requests, RequestStep(r) PROVE Awaited'
  <2>1. /\ conn' = conn
        /\ \/ Android!Boot \/ Android!Halt \/ Android!Join(r) \/ Android!Leave(r)
           \/ UNCHANGED androidVars
    BY <1>2, RequestUses
  <2>2. \A q \in Requests \ {r} : q \in waiting => q \in waiting'
    BY <2>1 DEF Android!Boot, Android!Halt, Android!Join, Android!Leave, androidVars
  <2>3. \A q \in Requests : At(q, "joined")' => q \in waiting'
    BY <1>2, <2>2, JoinsAwaited DEF Awaited, Alone, At
  <2>4. /\ waiting' # {} => state' \in {"starting", "stopping"}
        /\ state' = "running" => conn'
        /\ state' = "stopped" => ~conn'
    BY <2>1 DEF Awaited, Android!Boot, Android!Halt, Android!Join, Android!Leave, androidVars
  <2>5. QED
    BY <2>3, <2>4 DEF Awaited
<1>3. CASE Boot \/ Retry \/ Halt \/ Close
  BY <1>3 DEF Awaited, At, Boot, Retry, Halt, Close, Android!Boot, Android!Retry, Android!Halt,
              Android!Close
<1>4. CASE Ready \/ Halted
  <2>1. /\ waiting' = {}
        /\ Wake("woken") \/ Wake("refused")
        /\ \/ state' = "running" /\ conn'
           \/ state' = "stopped" /\ ~conn'
    BY <1>4 DEF Ready, Halted, Android!Ready, Android!Halted
  <2>2. ASSUME NEW q \in Requests PROVE ~At(q, "joined")'
    BY <1>1, <2>1 DEF Wake, Awaited, At, ReqTypeOK
  <2>3. QED
    BY <2>1, <2>2 DEF Awaited
<1>5. CASE Disconnect
  <2>1. \A q \in Requests : req'[q].pc = req[q].pc
    BY <1>1, <1>5 DEF Disconnect, ReqTypeOK
  <2>2. QED
    BY <1>5, <2>1 DEF Disconnect, androidVars, Awaited, At
<1>6. CASE DaemonRestarts
  BY <1>6 DEF DaemonRestarts, Awaited, At, NoRequest
<1>7. CASE ClipboardSetLate \/ UNCHANGED vars
  BY <1>7 DEF ClipboardSetLate, vars, androidVars, Awaited, At
<1>8. QED
  BY <1>2, <1>3, <1>4, <1>5, <1>6, <1>7 DEF Next, RequestStep

(* Nobody waits in vain (the part of RequestsEnd that is no matter of time):
   a request that joined a start is among those whom the next Ready or Halted
   wakes, as long as it waits, and Android is in a start or a stop that ends
   in one of them: it never runs or stands still meanwhile. The text lock,
   if taken, is held by a paste that is between its calls. *)
THEOREM RequestsWaitForAnswers ==
  Safety => []( /\ \A r \in Requests :
                     At(r, "joined") => r \in waiting /\ state \in {"starting", "stopping"}
                /\ state = "running" => conn
                /\ lock # Nobody => req[lock].pc \in Section )
<1>1. Init => Awaited
  BY DEF Init, Android!Init, Awaited, At, NoRequest
<1>2. TypeOK /\ PlacesInv /\ Awaited =>
        /\ \A r \in Requests :
             At(r, "joined") => r \in waiting /\ state \in {"starting", "stopping"}
        /\ state = "running" => conn
        /\ lock # Nobody => req[lock].pc \in Section
  BY DEF Awaited, PlacesInv, Held, TypeOK
<1>3. QED
  BY <1>1, <1>2, AwaitedStep, TypeInit, TypeStep, PlacesInit, PlacesStep, PTL DEF Safety
=============================================================================
