---------------------------- MODULE AccessProofs ----------------------------
(***************************************************************************)
(* Proofs about Access, for any number of rotations at once, of rotations, *)
(* of sessions and of faults: the types, one turnserver, somebody who keeps *)
(* it alive, and what a rotation puts an end to.                           *)
(***************************************************************************)
EXTENDS Access, TLAPS

(* One call at a time stops and starts the relay, and the task is away
   meanwhile: the call that took it, or the start of the daemon. *)
CallsInv ==
  /\ \A s \in Starters : call[s].pc # "none" => ~task
  /\ \A s, t \in Starters : call[s].pc # "none" /\ call[t].pc # "none" => s = t
  /\ \A s \in Starters : call[s].pc \in {"none", "gather"} => call[s].key = Nobody
  /\ \A s \in Starters : call[s].pc \in {"stop", "exec"} => watch = NotWatching /\ ~proc.alive
  /\ \A s \in Starters : call[s].pc = "exec" => call[s].key # Nobody
  /\ call[Daemon].pc # "gather"

(* A process that is being made by the task is the only one. *)
WatchInv ==
  /\ watch.pc \in {"sleep", "exec"} => ~proc.alive
  /\ watch.key # Nobody <=> watch.pc = "exec"
  /\ proc.alive => proc.key # Nobody

DaemonInv ==
  /\ daemon = "down" => TurnOff
  /\ daemon = "up" => call[Daemon].pc = "none"
  /\ daemon # "up" => /\ \A s \in Sessions : session[s] = NoSession
                      /\ \A r \in Rotators : call[r].pc = "none" /\ serving[r] = 0

(* A rotation that finds the task waits for its own start. *)
ServingInv == \A r \in Rotators : serving[r] = 0 => call[r].pc = "none"

Bounded ==
  /\ restarted <= answered /\ answered <= tried
  /\ \A r \in Rotators : serving[r] <= tried

RelayInv == CallsInv /\ WatchInv /\ DaemonInv /\ ServingInv /\ Bounded

(* No secret of Auth lets anybody in that is older than rotation n. *)
AuthSince(n) ==
  /\ token >= n /\ sessionKey >= n
  /\ tokenFile >= n /\ keyFile >= n
  /\ \A l \in links : l >= n
  /\ \A s \in Sessions : session[s].pc = "open" => session[s].by >= n

(* What holds of a rotation once it is answered holds of it from the moment
   that it replaced the secrets. *)
AuthInv == AuthSince(answered) /\ \A r \in Rotators : AuthSince(serving[r])

(* A secret that a restarted relay no longer takes does not come back, from
   the memory or from the file, and a process that a rotation makes has one
   that is not older than the rotation. *)
TurnInv ==
  /\ secret >= restarted /\ secretFile >= restarted
  /\ AcceptsSince(restarted)
  /\ \A r \in Rotators : /\ secret >= serving[r] /\ secretFile >= serving[r]
                         /\ call[r].pc = "exec" => call[r].key >= serving[r]

-----------------------------------------------------------------------------
(* Types *)

(* The secrets of Auth and of Turn are the numbers of the same rotations. *)
LEMMA SameSecrets ==
  /\ Secrets = Keys /\ Secrets \subseteq Nat /\ 0 \in Secrets
  /\ Nobody \notin Secrets /\ Daemon \notin Rotators
  /\ \A n \in Secrets : n < MaxRotations => n + 1 \in Secrets
BY RotationsAssumption, TurnAssumption, AccessAssumption
   DEF RotationsAssumption, TurnAssumption, AccessAssumption, Secrets, Keys

(* The actions of Auth keep its types. *)
LEMMA AuthTypes ==
  ASSUME AuthTypeOK, NEW n \in Secrets,
         \/ AuthStarts \/ AuthRotates(n) \/ AuthRotateFails(n) \/ AuthRotateKilled(n)
         \/ LoginLink \/ UseLink(n) \/ Login(n) \/ UNCHANGED authVars
  PROVE  AuthTypeOK'
<1> USE SameSecrets DEF AuthTypeOK, authVars, authMemory, authFiles
<1>1. CASE AuthStarts
  BY <1>1 DEF AuthStarts
<1>2. CASE AuthRotates(n)
  BY <1>2 DEF AuthRotates
<1>3. CASE AuthRotateFails(n)
  BY <1>3 DEF AuthRotateFails
<1>4. CASE AuthRotateKilled(n)
  BY <1>4 DEF AuthRotateKilled
<1>5. CASE LoginLink
  BY <1>5 DEF LoginLink
<1>6. CASE UseLink(n)
  BY <1>6 DEF UseLink, NewSession
<1>7. CASE Login(n)
  BY <1>7 DEF Login, NewSession
<1>8. QED
  BY <1>1, <1>2, <1>3, <1>4, <1>5, <1>6, <1>7

(* The actions of Turn keep its types. *)
LEMMA TurnTypes ==
  ASSUME TurnTypeOK, NEW n \in Keys, NEW r \in Starters, NEW s \in Starters,
         \/ TurnStarts \/ (TurnEnds /\ UNCHANGED <<secret, secretFile>>)
         \/ TurnRotates(r, n) \/ TurnRotateFails(n)
         \/ TurnserverExits \/ WatchSeesExit \/ WatchSpawns \/ WatchHasProcess
         \/ Terminate(r) \/ Terminated(r) \/ Spawn(s) \/ SpawnFails(s) \/ Spawned(s)
         \/ UNCHANGED turnVars
  PROVE  TurnTypeOK'
<1> USE DEF TurnTypeOK, TurnStarts, TurnEnds, TurnRotates, TurnRotateFails, TurnserverExits,
            WatchSeesExit, WatchSpawns, WatchHasProcess, Terminate, Terminated, Spawn, SpawnFails,
            Spawned, turnVars
<1>1. secret' \in Keys /\ secretFile' \in Keys /\ task' \in BOOLEAN
  OBVIOUS
<1>2. watch' \in [pc : {"none", "wait", "sleep", "exec"}, key : Process]
  BY DEF NotWatching, Process
<1>3. proc' \in [key : Process, alive : BOOLEAN]
  <2>1. proc.key \in Process /\ watch.key \in Process /\ call[s].key \in Process /\ Nobody \in Process
    BY DEF Process
  <2>2. CASE WatchHasProcess
    BY <2>1, <2>2
  <2>3. CASE Spawned(s)
    BY <2>1, <2>3
  <2>4. CASE TurnserverExits
    BY <2>4
  <2>5. CASE proc' = NoProc
    BY <2>1, <2>5 DEF NoProc
  <2>6. CASE UNCHANGED proc
    BY <2>6
  <2>7. QED
    BY <2>2, <2>3, <2>4, <2>5, <2>6
<1>4. call' \in [Starters -> [pc : {"none", "gather", "stop", "exec"}, key : Process]]
  <2>1. NoCall \in [pc : {"none", "gather", "stop", "exec"}, key : Process]
    BY DEF NoCall, Process
  <2>2. CASE TurnStarts
    BY <2>2
  <2>3. CASE TurnEnds
    BY <2>1, <2>3
  <2>4. CASE TurnRotates(r, n)
    BY <2>4
  <2>5. CASE Terminate(r)
    BY <2>5, <2>1 DEF Process
  <2>6. CASE Terminated(r)
    BY <2>6 DEF Process
  <2>7. CASE Spawn(s)
    BY <2>7 DEF Process
  <2>8. CASE SpawnFails(s) \/ Spawned(s)
    BY <2>8, <2>1
  <2>9. QED
    BY <2>2, <2>3, <2>4, <2>5, <2>6, <2>7, <2>8
<1>5. QED
  BY <1>1, <1>2, <1>3, <1>4

(* The variables of Access itself. *)
RestTypeOK ==
  /\ daemon \in {"down", "starting", "up"}
  /\ session \in [Sessions -> [pc : {"none", "open", "ended"}, by : Secrets, cred : Process]]
  /\ serving \in [Rotators -> Secrets]
  /\ tried \in Secrets /\ answered \in Secrets /\ restarted \in Secrets /\ faults \in 0..MaxFaults

(* A rotation has the next number, and that is one of the secrets. *)
LEMMA NewNumber ==
  ASSUME TypeOK, NEW r \in Rotators, NewRotation(r)
  PROVE  tried' \in Secrets /\ tried' \in Keys /\ tried' = tried + 1 /\ tried \in Nat
BY SameSecrets DEF NewRotation, TypeOK

LEMMA Counted ==
  ASSUME faults \in 0..MaxFaults, Fault PROVE faults' \in 0..MaxFaults
BY AccessAssumption DEF AccessAssumption, Fault

(* What the daemon's death leaves. *)
LEMMA DownTypes ==
  ASSUME TypeOK, Down
  PROVE  /\ daemon' \in {"down", "starting", "up"}
         /\ session' \in [Sessions -> [pc : {"none", "open", "ended"}, by : Secrets, cred : Process]]
         /\ serving' \in [Rotators -> Secrets]
BY SameSecrets DEF Down, NoSession, Process

(* What the actions of a session write keeps the type. *)
LEMMA SessionTypes ==
  ASSUME TypeOK,
         \/ EndSessions \/ UNCHANGED session
         \/ \E s \in Sessions, n \in Secrets : Connect(s, n)
         \/ \E s \in Sessions : StartStream(s) \/ Close(s)
  PROVE  session' \in [Sessions -> [pc : {"none", "open", "ended"}, by : Secrets, cred : Process]]
<1> USE DEF TypeOK
<1>1. secret \in Process /\ Nobody \in Process
  BY DEF TurnTypeOK, Process
<1>2. NoSession \in [pc : {"none", "open", "ended"}, by : Secrets, cred : Process]
  BY <1>1, SameSecrets DEF NoSession
<1>3. CASE EndSessions \/ UNCHANGED session
  BY <1>3 DEF EndSessions
<1>4. CASE \E s \in Sessions, n \in Secrets : Connect(s, n)
  BY <1>1, <1>4 DEF Connect
<1>5. ASSUME NEW s \in Sessions, StartStream(s) PROVE session' \in [Sessions -> [pc : {"none", "open", "ended"}, by : Secrets, cred : Process]]
  BY <1>1, <1>5 DEF StartStream
<1>6. CASE \E s \in Sessions : Close(s)
  BY <1>2, <1>6 DEF Close
<1>7. QED
  BY <1>3, <1>4, <1>5, <1>6

(* What the return of start() writes. *)
LEMMA ReturnTypes ==
  ASSUME TypeOK, NEW s \in Starters, StartReturns(s)
  PROVE  /\ daemon' \in {"down", "starting", "up"} /\ serving' \in [Rotators -> Secrets]
         /\ answered' \in Secrets /\ restarted' \in Secrets
BY SameSecrets DEF TypeOK, StartReturns, Later, Starters

(* Every step of the specification keeps the types. *)
LEMMA TypeStep == TypeOK /\ [Next]_vars => TypeOK'
<1> SUFFICES ASSUME TypeOK, [Next]_vars PROVE TypeOK'
  OBVIOUS
<1>1. AuthTypeOK /\ TurnTypeOK /\ RestTypeOK /\ Secrets = Keys /\ 0 \in Secrets /\ Daemon \in Starters /\ Rotators \subseteq Starters
  BY SameSecrets DEF TypeOK, RestTypeOK, Starters
<1>2. SUFFICES AuthTypeOK' /\ TurnTypeOK' /\ RestTypeOK'
  BY DEF TypeOK, RestTypeOK
<1>3. CASE DaemonStarts
  <2>1. AuthTypeOK' /\ TurnTypeOK'
    BY <1>1, <1>3, AuthTypes, TurnTypes DEF DaemonStarts
  <2>2. QED
    BY <1>1, <1>3, <2>1 DEF DaemonStarts, RestTypeOK
<1>4. CASE Killed
  <2>1. AuthTypeOK'
    BY <1>1, <1>4, AuthTypes DEF Killed
  <2>2. TurnTypeOK'
    BY <1>1, <1>4, TurnTypes DEF Killed, Down
  <2>3. RestTypeOK'
    BY <1>1, <1>4, DownTypes, Counted DEF Killed, RestTypeOK
  <2>4. QED
    BY <2>1, <2>2, <2>3
<1>5. ASSUME NEW r \in Rotators, RotateToken(r) PROVE AuthTypeOK' /\ TurnTypeOK' /\ RestTypeOK'
  <2>1. tried' \in Secrets /\ tried' \in Keys
    BY <1>5, NewNumber DEF RotateToken
  <2>2. AuthTypeOK' /\ TurnTypeOK'
    BY <1>1, <1>5, <2>1, AuthTypes, TurnTypes DEF RotateToken
  <2>3. session' \in [Sessions -> [pc : {"none", "open", "ended"}, by : Secrets, cred : Process]]
    BY <1>5, SessionTypes DEF RotateToken
  <2>4. QED
    BY <1>1, <1>5, <2>1, <2>2, <2>3 DEF RotateToken, RestTypeOK, Later
<1>6. ASSUME NEW r \in Rotators, RotateTokenFails(r) PROVE AuthTypeOK' /\ TurnTypeOK' /\ RestTypeOK'
  <2>1. tried' \in Secrets /\ tried' \in Keys
    BY <1>6, NewNumber DEF RotateTokenFails
  <2>2. AuthTypeOK'
    BY <1>1, <1>6, <2>1, AuthTypes DEF RotateTokenFails
  <2>3. TurnTypeOK'
    BY <1>1, <1>6, <2>1, TurnTypes DEF RotateTokenFails
  <2>4. session' \in [Sessions -> [pc : {"none", "open", "ended"}, by : Secrets, cred : Process]]
    BY <1>6, SessionTypes DEF RotateTokenFails
  <2>5. QED
    BY <1>1, <1>6, <2>1, <2>2, <2>3, <2>4, Counted DEF RotateTokenFails, RestTypeOK
<1>7. ASSUME NEW r \in Rotators, KilledWhileRotating(r) PROVE AuthTypeOK' /\ TurnTypeOK' /\ RestTypeOK'
  <2>1. tried' \in Secrets
    BY <1>7, NewNumber DEF KilledWhileRotating
  <2>2. AuthTypeOK'
    BY <1>1, <1>7, <2>1, AuthTypes DEF KilledWhileRotating
  <2>3. TurnTypeOK'
    BY <1>1, <1>7, TurnTypes DEF KilledWhileRotating, Down
  <2>4. QED
    BY <1>1, <1>7, <2>1, <2>2, <2>3, DownTypes, Counted DEF KilledWhileRotating, RestTypeOK
<1>8. ASSUME NEW s \in Starters, RelayStarted(s) \/ RelayFails(s) PROVE AuthTypeOK' /\ TurnTypeOK' /\ RestTypeOK'
  <2>1. AuthTypeOK'
    BY <1>1, <1>8, AuthTypes DEF RelayStarted, RelayFails
  <2>2. TurnTypeOK'
    BY <1>1, <1>8, TurnTypes DEF RelayStarted, RelayFails
  <2>3. QED
    BY <1>1, <1>8, <2>1, <2>2, ReturnTypes, Counted DEF RelayStarted, RelayFails, RestTypeOK
<1>9. CASE Relay \/ RelayExits
  <2>1. AuthTypeOK'
    BY <1>1, <1>9, AuthTypes DEF Relay, RelayExits
  <2>2. TurnTypeOK'
    BY <1>1, <1>9, TurnTypes DEF Relay, RelayExits
  <2>3. QED
    BY <1>1, <1>9, <2>1, <2>2, Counted DEF Relay, RelayExits, RestTypeOK
<1>10. CASE LogIn
  <2>1. AuthTypeOK'
    BY <1>1, <1>10, AuthTypes DEF LogIn
  <2>2. TurnTypeOK'
    BY <1>1, <1>10, TurnTypes DEF LogIn
  <2>3. QED
    BY <1>1, <1>10, <2>1, <2>2 DEF LogIn, RestTypeOK
<1>11. CASE \E s \in Sessions : (\E n \in Secrets : Connect(s, n)) \/ StartStream(s) \/ Close(s)
  <2>1. UNCHANGED <<authVars, turnVars, daemon, serving, tried, answered, restarted, faults>>
    BY <1>11 DEF Connect, StartStream, Close
  <2>2. AuthTypeOK'
    BY <1>1, <2>1, AuthTypes
  <2>3. TurnTypeOK'
    BY <1>1, <2>1, TurnTypes
  <2>4. QED
    BY <1>1, <1>11, <2>1, <2>2, <2>3, SessionTypes DEF RestTypeOK
<1>12. CASE UNCHANGED vars
  <2>1. AuthTypeOK' /\ TurnTypeOK'
    BY <1>1, <1>12, AuthTypes, TurnTypes DEF vars
  <2>2. QED
    BY <1>1, <1>12, <2>1 DEF vars, RestTypeOK
<1>13. QED
  BY <1>3, <1>4, <1>5, <1>6, <1>7, <1>8, <1>9, <1>10, <1>11, <1>12 DEF Next

LEMMA TypeInit == Init => TypeOK
<1> SUFFICES ASSUME Init PROVE TypeOK
  OBVIOUS
<1>1. AuthTypeOK
  BY SameSecrets DEF Init, AuthInit, AuthTypeOK
<1>2. TurnTypeOK
  BY SameSecrets DEF Init, TurnInit, TurnOff, TurnTypeOK, Process, NotWatching, NoProc, NoCall
<1>3. RestTypeOK
  BY SameSecrets, AccessAssumption DEF Init, RestTypeOK, Process, NoSession, AccessAssumption
<1>4. QED
  BY <1>1, <1>2, <1>3 DEF TypeOK, RestTypeOK

(* The variables of Auth, Turn and the requests keep their types, whatever is
   written, lost, killed or restarted. *)
THEOREM AccessTypes == Safety => []TypeOK
<1>1. QED
  BY TypeInit, TypeStep, PTL DEF Safety

-----------------------------------------------------------------------------
(* Who may make a process *)

(* The calls and the task after each action of Turn. *)
LEMMA CallsStep ==
  ASSUME TypeOK, CallsInv, WatchInv,
         \/ TurnOff /\ TurnStarts
         \/ TurnEnds
         \/ \E r \in Rotators, n \in Keys : TurnRotates(r, n) /\ call[r].pc = "none"
         \/ TurnserverExits \/ WatchSeesExit \/ WatchSpawns \/ WatchHasProcess
         \/ \E r \in Rotators : Terminate(r) \/ Terminated(r)
         \/ \E s \in Starters : Spawn(s) \/ SpawnFails(s) \/ Spawned(s)
         \/ UNCHANGED <<task, watch, proc, call>>
  PROVE  CallsInv' /\ WatchInv'
<1> USE SameSecrets DEF CallsInv, WatchInv
<1>1. TurnTypeOK /\ Daemon \in Starters /\ Rotators \subseteq Starters /\ secret # Nobody /\ secret \in Keys
  BY DEF TypeOK, TurnTypeOK, Starters
<1>2. CASE TurnOff /\ TurnStarts
  BY <1>1, <1>2 DEF TurnOff, TurnStarts, NotWatching, NoProc, NoCall
<1>3. CASE TurnEnds
  BY <1>1, <1>3 DEF TurnEnds, NotWatching, NoProc, NoCall
<1>4. ASSUME NEW r \in Rotators, NEW n \in Keys, TurnRotates(r, n), call[r].pc = "none"
      PROVE  CallsInv' /\ WatchInv'
  <2>1. CASE task
    BY <1>1, <1>4, <2>1 DEF TurnRotates, TurnTypeOK
  <2>2. CASE ~task
    BY <1>1, <1>4, <2>2 DEF TurnRotates, TurnTypeOK
  <2>3. QED
    BY <2>1, <2>2
<1>5. CASE TurnserverExits \/ WatchSeesExit
  BY <1>1, <1>5 DEF TurnserverExits, WatchSeesExit, TurnTypeOK, NotWatching
<1>6. CASE WatchSpawns \/ WatchHasProcess
  BY <1>1, <1>6 DEF WatchSpawns, WatchHasProcess, TurnTypeOK
<1>7. ASSUME NEW r \in Rotators, Terminate(r) PROVE CallsInv' /\ WatchInv'
  BY <1>1, <1>7 DEF Terminate, TurnTypeOK, NotWatching, NoProc
<1>8. ASSUME NEW r \in Rotators, Terminated(r) PROVE CallsInv' /\ WatchInv'
  BY <1>1, <1>8 DEF Terminated, TurnTypeOK
<1>9. ASSUME NEW s \in Starters, Spawn(s) PROVE CallsInv' /\ WatchInv'
  BY <1>1, <1>9 DEF Spawn, TurnTypeOK
<1>10. ASSUME NEW s \in Starters, SpawnFails(s) PROVE CallsInv' /\ WatchInv'
  BY <1>1, <1>10 DEF SpawnFails, TurnTypeOK, NoCall
<1>11. ASSUME NEW s \in Starters, Spawned(s) PROVE CallsInv' /\ WatchInv'
  BY <1>1, <1>11 DEF Spawned, TurnTypeOK, NoCall
<1>12. CASE UNCHANGED <<task, watch, proc, call>>
  BY <1>12
<1>13. QED
  BY <1>2, <1>3, <1>4, <1>5, <1>6, <1>7, <1>8, <1>9, <1>10, <1>11, <1>12

(* Steps of the requests, as far as the calls of start() go. *)
LEMMA CallsNext == TypeOK /\ RelayInv /\ [Next]_vars => CallsInv' /\ WatchInv'
<1> SUFFICES ASSUME TypeOK, RelayInv, [Next]_vars PROVE CallsInv' /\ WatchInv'
  OBVIOUS
<1>1. CASE DaemonStarts
  BY <1>1, CallsStep DEF RelayInv, DaemonInv, DaemonStarts
<1>2. CASE Killed
  BY <1>2, CallsStep DEF RelayInv, Killed, Down
<1>3. ASSUME NEW r \in Rotators, RotateToken(r) PROVE CallsInv' /\ WatchInv'
  <2>1. tried' \in Keys /\ call[r].pc = "none"
    BY <1>3, NewNumber DEF RotateToken, NewRotation, RelayInv, ServingInv
  <2>2. QED
    BY <1>3, <2>1, CallsStep DEF RelayInv, RotateToken
<1>4. ASSUME NEW r \in Rotators, RotateTokenFails(r) PROVE CallsInv' /\ WatchInv'
  <2>1. UNCHANGED <<task, watch, proc, call>>
    BY <1>4 DEF RotateTokenFails, TurnRotateFails, turnVars
  <2>2. QED
    BY <2>1, CallsStep DEF RelayInv
<1>5. ASSUME NEW r \in Rotators, KilledWhileRotating(r) PROVE CallsInv' /\ WatchInv'
  BY <1>5, CallsStep DEF RelayInv, KilledWhileRotating, Down
<1>6. ASSUME NEW s \in Starters, RelayStarted(s) \/ RelayFails(s) PROVE CallsInv' /\ WatchInv'
  BY <1>6, CallsStep DEF RelayInv, RelayStarted, RelayFails
<1>7. CASE Relay \/ RelayExits
  BY <1>7, CallsStep DEF RelayInv, Relay, RelayExits
<1>8. CASE \/ LogIn \/ UNCHANGED vars
           \/ \E s \in Sessions : (\E n \in Secrets : Connect(s, n)) \/ StartStream(s) \/ Close(s)
  <2>1. UNCHANGED <<task, watch, proc, call>>
    BY <1>8 DEF LogIn, vars, Connect, StartStream, Close, turnVars
  <2>2. QED
    BY <2>1, CallsStep DEF RelayInv
<1>9. QED
  BY <1>1, <1>2, <1>3, <1>4, <1>5, <1>6, <1>7, <1>8 DEF Next

(* Steps of the requests, as far as the daemon and the numbers go. *)
LEMMA ServingNext ==
  TypeOK /\ RelayInv /\ [Next]_vars => DaemonInv' /\ ServingInv' /\ Bounded'
<1> SUFFICES ASSUME TypeOK, RelayInv, [Next]_vars PROVE DaemonInv' /\ ServingInv' /\ Bounded'
  OBVIOUS
<1> USE DEF DaemonInv, ServingInv, Bounded
<1>1. /\ TurnTypeOK /\ RestTypeOK /\ Daemon \in Starters /\ Rotators \subseteq Starters
      /\ Daemon \notin Rotators /\ Secrets \subseteq Nat
      /\ DaemonInv /\ ServingInv /\ Bounded
  BY SameSecrets DEF TypeOK, RestTypeOK, Starters, RelayInv
<1>2. CASE DaemonStarts
  BY <1>1, <1>2 DEF DaemonStarts, TurnStarts, TurnOff, NoCall, TurnTypeOK
<1>3. ASSUME Down, UNCHANGED <<answered, restarted>>, tried' \in Nat, tried' >= tried
      PROVE  DaemonInv' /\ ServingInv' /\ Bounded'
  BY <1>1, <1>3 DEF Down, TurnEnds, TurnOff, NoCall, RestTypeOK
<1>4. CASE Killed
  BY <1>1, <1>3, <1>4 DEF Killed, RestTypeOK
<1>5. ASSUME NEW r \in Rotators, RotateToken(r) PROVE DaemonInv' /\ ServingInv' /\ Bounded'
  <2>1. tried' = tried + 1 /\ tried \in Nat /\ tried' \in Secrets
    BY <1>5, NewNumber DEF RotateToken
  <2>2. DaemonInv'
    BY <1>1, <1>5 DEF RotateToken, NewRotation, Up, TurnRotates, TurnTypeOK
  <2>3. ServingInv'
    BY <1>1, <1>5, <2>1 DEF RotateToken, TurnRotates, TurnTypeOK, RestTypeOK
  <2>4. Bounded'
    <3>1. /\ answered' \in {answered, tried'} /\ restarted' = restarted
          /\ serving' = serving \/ serving' = [serving EXCEPT ![r] = tried']
      BY <1>5 DEF RotateToken, Later
    <3>2. answered \in Nat /\ restarted \in Nat /\ \A q \in Rotators : serving[q] \in Nat
      BY <1>1 DEF RestTypeOK
    <3>3. QED
      BY <1>1, <2>1, <3>1, <3>2 DEF RestTypeOK
  <2>5. QED
    BY <2>2, <2>3, <2>4
<1>6. ASSUME NEW r \in Rotators, RotateTokenFails(r) PROVE DaemonInv' /\ ServingInv' /\ Bounded'
  <2>1. tried' = tried + 1 /\ tried \in Nat /\ daemon = "up"
    BY <1>6, NewNumber DEF RotateTokenFails, NewRotation, Up
  <2>2. UNCHANGED <<daemon, serving, answered, restarted, call>>
    BY <1>6 DEF RotateTokenFails, TurnRotateFails, turnVars
  <2>3. answered \in Nat /\ restarted \in Nat /\ \A q \in Rotators : serving[q] \in Nat
    BY <1>1 DEF RestTypeOK
  <2>4. Bounded'
    BY <1>1, <2>1, <2>2, <2>3
  <2>5. DaemonInv' /\ ServingInv'
    BY <1>1, <2>1, <2>2
  <2>6. QED
    BY <2>4, <2>5
<1>7. ASSUME NEW r \in Rotators, KilledWhileRotating(r) PROVE DaemonInv' /\ ServingInv' /\ Bounded'
  BY <1>1, <1>3, <1>7, NewNumber DEF KilledWhileRotating
<1>8. ASSUME NEW s \in Starters, RelayStarted(s) \/ RelayFails(s)
      PROVE  DaemonInv' /\ ServingInv' /\ Bounded'
  <2>1. call' = [call EXCEPT ![s] = NoCall] /\ call[s].pc # "none"
    BY <1>8 DEF RelayStarted, RelayFails, Spawned, SpawnFails
  <2>2. UNCHANGED <<session, tried>> /\ StartReturns(s)
    BY <1>8 DEF RelayStarted, RelayFails
  <2>3. CASE s = Daemon
    BY <1>1, <2>1, <2>2, <2>3 DEF StartReturns, NoCall, TurnTypeOK, TurnOff
  <2>4. CASE s # Daemon
    <3>1. s \in Rotators /\ daemon = "up"
      BY <1>1, <2>1, <2>4 DEF Starters, RestTypeOK
    <3>2. /\ UNCHANGED daemon /\ serving' = [serving EXCEPT ![s] = 0]
          /\ answered' = Later(serving[s], answered) /\ restarted' = Later(serving[s], restarted)
      BY <2>2, <2>4 DEF StartReturns
    <3>3. DaemonInv' /\ ServingInv'
      BY <1>1, <2>1, <3>1, <3>2 DEF NoCall, TurnTypeOK, RestTypeOK
    <3>4. Bounded'
      BY <1>1, <2>2, <3>1, <3>2 DEF Later, RestTypeOK
    <3>5. QED
      BY <3>3, <3>4
  <2>5. QED
    BY <2>3, <2>4
<1>9. CASE Relay \/ RelayExits
  <2>1. UNCHANGED <<daemon, session, serving, tried, answered, restarted>>
    BY <1>9 DEF Relay, RelayExits
  <2>2. daemon # "down"
    BY <1>1, <1>9 DEF Relay, RelayExits, TurnOff, NoCall, NoProc, WatchSeesExit, WatchSpawns,
       WatchHasProcess, Terminate, Terminated, Spawn, TurnserverExits
  <2>3. \A s \in Starters : call'[s].pc = "none" <=> call[s].pc = "none"
    BY <1>1, <1>9 DEF Relay, RelayExits, WatchSeesExit, WatchSpawns, WatchHasProcess, Terminate,
       Terminated, Spawn, TurnserverExits, TurnTypeOK
  <2>4. QED
    BY <1>1, <2>1, <2>2, <2>3
<1>10. CASE LogIn \/ UNCHANGED vars
  BY <1>1, <1>10 DEF LogIn, vars, turnVars, TurnOff
<1>11. CASE \E s \in Sessions : (\E n \in Secrets : Connect(s, n)) \/ StartStream(s) \/ Close(s)
  <2>1. UNCHANGED <<turnVars, daemon, serving, tried, answered, restarted>>
    BY <1>11 DEF Connect, StartStream, Close
  <2>2. daemon # "up" => \A s \in Sessions : session'[s] = NoSession
    BY <1>1, <1>11 DEF Connect, StartStream, Close, Up, NoSession, RestTypeOK
  <2>3. QED
    BY <1>1, <2>1, <2>2 DEF turnVars, TurnOff
<1>12. QED
  BY <1>2, <1>4, <1>5, <1>6, <1>7, <1>8, <1>9, <1>10, <1>11 DEF Next

(* The relay, the calls and the numbers, before the first step and after any. *)
LEMMA RelayInitial == Init => RelayInv
BY SameSecrets
   DEF Init, TurnInit, TurnOff, RelayInv, CallsInv, WatchInv, DaemonInv, ServingInv, Bounded,
       NotWatching, NoProc, NoCall, Starters

LEMMA RelayNext == TypeOK /\ RelayInv /\ [Next]_vars => RelayInv'
BY CallsNext, ServingNext DEF RelayInv

LEMMA RelayAlways == Safety => [](TypeOK /\ RelayInv)
<1>1. QED
  BY TypeInit, TypeStep, RelayInitial, RelayNext, PTL DEF Safety

(* Only one turnserver can have the ports: whoever makes one, the task after
   a delay or a rotation, has seen the end of the one before. *)
THEOREM AccessOneTurnserver == Safety => []OneTurnserver
<1>1. TypeOK /\ RelayInv => OneTurnserver
  BY DEF RelayInv, CallsInv, WatchInv, OneTurnserver, Live, NotWatching, TypeOK, TurnTypeOK
<1>2. QED
  BY <1>1, RelayAlways, PTL

-----------------------------------------------------------------------------
(* Who brings the relay back *)

(* While the daemon runs, either the task is there and watches, or some call
   of start() is on its way to leave one. *)
Kept ==
  daemon # "down" => \/ task /\ watch.pc # "none"
                     \/ ~task /\ \E s \in Starters : call[s].pc # "none"

LEMMA KeptNext == TypeOK /\ RelayInv /\ Kept /\ [Next]_vars => Kept'
<1> SUFFICES ASSUME TypeOK, RelayInv, Kept, [Next]_vars PROVE Kept'
  OBVIOUS
<1> USE DEF Kept
<1>1. /\ TurnTypeOK /\ Daemon \in Starters /\ Rotators \subseteq Starters
  BY DEF TypeOK, Starters
<1>2. CASE DaemonStarts
  BY <1>1, <1>2, CallsNext
     DEF DaemonStarts, TurnStarts, RelayInv, DaemonInv, TurnOff, TurnTypeOK
<1>3. CASE Killed \/ \E r \in Rotators : KilledWhileRotating(r)
  BY <1>3 DEF Killed, KilledWhileRotating, Down
(* A rotation takes the task and goes on with it, or another call has it. *)
<1>4. ASSUME NEW r \in Rotators, RotateToken(r) PROVE Kept'
  <2>1. /\ UNCHANGED daemon /\ daemon = "up" /\ ~task'
        /\ call' = IF task THEN [call EXCEPT ![r].pc = "gather"] ELSE call
    BY <1>4 DEF RotateToken, NewRotation, Up, TurnRotates
  <2>2. CASE task
    BY <1>1, <2>1, <2>2 DEF TurnTypeOK
  <2>3. CASE ~task
    BY <2>1, <2>3
  <2>4. QED
    BY <2>2, <2>3
<1>5. ASSUME NEW s \in Starters, RelayStarted(s) \/ RelayFails(s) PROVE Kept'
  BY <1>5 DEF RelayStarted, RelayFails, Spawned, SpawnFails
<1>6. CASE Relay \/ RelayExits
  <2>1. UNCHANGED <<daemon, task>>
    BY <1>6 DEF Relay, RelayExits, WatchSeesExit, WatchSpawns, WatchHasProcess, Terminate,
       Terminated, Spawn, TurnserverExits
  <2>2. \A s \in Starters : call'[s].pc = "none" <=> call[s].pc = "none"
    BY <1>1, <1>6 DEF Relay, RelayExits, WatchSeesExit, WatchSpawns, WatchHasProcess, Terminate,
       Terminated, Spawn, TurnserverExits, TurnTypeOK
  <2>3. task /\ watch.pc # "none" => watch'.pc # "none"
    <3>1. ASSUME task, NEW r \in Rotators, Terminate(r) PROVE FALSE
      BY <1>1, <3>1 DEF Terminate, RelayInv, CallsInv
    <3>2. CASE WatchSeesExit \/ WatchSpawns \/ WatchHasProcess
      <4>1. watch \in [pc : {"none", "wait", "sleep", "exec"}, key : Process]
        BY <1>1 DEF TurnTypeOK
      <4>2. CASE WatchSeesExit
        BY <4>1, <4>2 DEF WatchSeesExit
      <4>3. CASE WatchSpawns
        BY <4>3 DEF WatchSpawns
      <4>4. CASE WatchHasProcess
        BY <4>4 DEF WatchHasProcess
      <4>5. QED
        BY <3>2, <4>2, <4>3, <4>4
    <3>3. CASE \/ TurnserverExits \/ \E r \in Rotators : Terminated(r)
               \/ \E s \in Starters : Spawn(s)
      BY <3>3 DEF TurnserverExits, Terminated, Spawn
    <3>4. QED
      BY <1>6, <3>1, <3>2, <3>3 DEF Relay, RelayExits
  <2>4. QED
    BY <2>1, <2>2, <2>3
<1>7. CASE UNCHANGED <<daemon, task, watch, call>>
  BY <1>7
<1>8. QED
  BY <1>2, <1>3, <1>4, <1>5, <1>6, <1>7
     DEF Next, RotateTokenFails, TurnRotateFails, LogIn, Connect, StartStream, Close, turnVars, vars

(* The relay is kept alive (the part of RelayReturns that is no matter of
   time): a daemon whose turnserver does not run has a task that makes one,
   or exactly one call of start() that is on its way, however rotations,
   failures and exits of turnserver interleave. *)
THEOREM AccessRelayIsKept ==
  Safety => [](daemon # "down" /\ ~Running =>
                 \/ task /\ watch.pc # "none" /\ \A s \in Starters : call[s].pc = "none"
                 \/ ~task /\ \E s \in Starters :
                       call[s].pc # "none" /\ \A t \in Starters \ {s} : call[t].pc = "none")
<1>1. Init => Kept
  BY DEF Init, Kept
<1>2. RelayInv /\ Kept /\ daemon # "down" =>
        \/ task /\ watch.pc # "none" /\ \A s \in Starters : call[s].pc = "none"
        \/ ~task /\ \E s \in Starters :
              call[s].pc # "none" /\ \A t \in Starters \ {s} : call[t].pc = "none"
  BY DEF RelayInv, CallsInv, Kept
<1>3. QED
  BY <1>1, <1>2, KeptNext, TypeInit, TypeStep, RelayInitial, RelayNext, PTL DEF Safety

-----------------------------------------------------------------------------
(* What a rotation replaced in Auth *)

(* What was older than rotation n, once it is gone, stays away. *)
LEMMA AuthSinceStays ==
  ASSUME TypeOK, RelayInv, [Next]_vars, NEW n \in Nat, n <= tried, AuthSince(n)
  PROVE  AuthSince(n)'
<1> USE SameSecrets DEF AuthSince
<1>1. /\ AuthTypeOK /\ RestTypeOK /\ tried \in Nat /\ NoSession.pc # "open"
  BY DEF TypeOK, RestTypeOK, NoSession
<1>2. CASE DaemonStarts
  BY <1>1, <1>2 DEF DaemonStarts, AuthStarts, authFiles
<1>3. ASSUME Down PROVE \A s \in Sessions : session'[s].pc # "open"
  BY <1>1, <1>3 DEF Down
<1>4. ASSUME EndSessions PROVE \A s \in Sessions : session'[s].pc # "open"
  BY <1>1, <1>4 DEF EndSessions, RestTypeOK
<1>5. CASE Killed
  BY <1>3, <1>5 DEF Killed, authVars, authMemory, authFiles
<1>6. ASSUME NEW r \in Rotators, NewRotation(r) PROVE tried' \in Nat /\ tried' > n
  BY <1>6, NewNumber
<1>7. ASSUME NEW r \in Rotators, RotateToken(r) PROVE AuthSince(n)'
  BY <1>4, <1>6, <1>7 DEF RotateToken, AuthRotates
<1>8. ASSUME NEW r \in Rotators, RotateTokenFails(r) PROVE AuthSince(n)'
  <2>1. tried' \in Nat /\ tried' > n
    BY <1>6, <1>8 DEF RotateTokenFails
  <2>2. CASE AuthRotateFails(tried') /\ UNCHANGED session
    BY <2>1, <2>2 DEF AuthRotateFails
  <2>3. CASE AuthRotates(tried') /\ EndSessions
    BY <1>4, <2>1, <2>3 DEF AuthRotates
  <2>4. QED
    BY <1>8, <2>2, <2>3 DEF RotateTokenFails
<1>9. ASSUME NEW r \in Rotators, KilledWhileRotating(r) PROVE AuthSince(n)'
  BY <1>1, <1>3, <1>6, <1>9 DEF KilledWhileRotating, AuthRotateKilled, AuthTypeOK, authMemory
<1>10. CASE \/ Relay \/ RelayExits \/ UNCHANGED vars
            \/ \E s \in Starters : RelayStarted(s) \/ RelayFails(s)
  BY <1>10 DEF Relay, RelayExits, RelayStarted, RelayFails, vars, authVars, authMemory, authFiles
<1>11. CASE LogIn
  BY <1>11 DEF LogIn, LoginLink, UseLink, Login, authMemory, authFiles
<1>12. ASSUME NEW s \in Sessions, NEW m \in Secrets, Connect(s, m) PROVE AuthSince(n)'
  BY <1>1, <1>12 DEF Connect, CheckToken, CheckSession, RestTypeOK, authVars, authMemory, authFiles
<1>13. ASSUME NEW s \in Sessions, StartStream(s) \/ Close(s) PROVE AuthSince(n)'
  BY <1>1, <1>13 DEF StartStream, Close, RestTypeOK, authVars, authMemory, authFiles
<1>14. QED
  BY <1>2, <1>5, <1>7, <1>8, <1>9, <1>10, <1>11, <1>12, <1>13 DEF Next

(* A rotation that is answered, or that waits for the relay, has replaced
   everything of before. *)
LEMMA AuthRotated ==
  ASSUME TypeOK, NEW r \in Rotators, RotateToken(r), NEW n \in Secrets, n = tried'
  PROVE  AuthSince(n)'
<1>1. \A s \in Sessions : session'[s].pc # "open"
  BY DEF RotateToken, EndSessions, TypeOK
<1>2. QED
  BY <1>1, SameSecrets DEF RotateToken, AuthRotates, AuthSince

LEMMA AuthNext == TypeOK /\ RelayInv /\ AuthInv /\ [Next]_vars => AuthInv'
<1> SUFFICES ASSUME TypeOK, RelayInv, AuthInv, [Next]_vars PROVE AuthInv'
  OBVIOUS
<1>1. TypeOK' /\ Secrets \subseteq Nat /\ RestTypeOK /\ RestTypeOK' /\ AuthTypeOK'
  BY TypeStep, SameSecrets DEF TypeOK, RestTypeOK
(* The rotations that a step speaks of: those of before, none, and the new one. *)
<1> DEFINE Known == {answered, 0} \cup {serving[r] : r \in Rotators}
<1>2. ASSUME NEW n \in Known PROVE AuthSince(n)'
  <2>1. CASE n = 0
    <3>1. \A x \in Secrets : x >= 0
      BY <1>1
    <3>2. \A s \in Sessions : session'[s].by \in Secrets
      BY <1>1 DEF RestTypeOK
    <3>3. QED
      BY <1>1, <2>1, <3>1, <3>2 DEF AuthSince, AuthTypeOK
  <2>2. CASE n # 0
    <3>1. n \in Nat /\ n <= tried /\ AuthSince(n)
      BY <1>1, <2>2 DEF AuthInv, RelayInv, Bounded, RestTypeOK
    <3>2. QED
      BY <3>1, AuthSinceStays
  <2>3. QED
    BY <2>1, <2>2
<1>3. CASE answered' \in Known /\ \A r \in Rotators : serving'[r] \in Known
  BY <1>2, <1>3 DEF AuthInv, AuthSince
<1>4. ASSUME NEW r \in Rotators, RotateToken(r) PROVE AuthInv'
  <2>1. tried' \in Secrets
    BY <1>4, NewNumber DEF RotateToken
  <2>2. PICK n \in Secrets : n = tried'
    BY <2>1
  <2>3. AuthSince(n)'
    BY <1>4, <2>2, AuthRotated
  <2>4. answered' \in Known \cup {n} /\ \A q \in Rotators : serving'[q] \in Known \cup {n}
    BY <1>1, <1>4, <2>2 DEF RotateToken, Later, RestTypeOK
  <2>5. QED
    BY <1>2, <2>3, <2>4 DEF AuthInv, AuthSince
<1>5. ASSUME NEW s \in Starters, RelayStarted(s) \/ RelayFails(s) PROVE AuthInv'
  <2>1. answered' \in Known /\ \A r \in Rotators : serving'[r] \in Known
    BY <1>1, <1>5 DEF RelayStarted, RelayFails, StartReturns, Later, RestTypeOK, Starters
  <2>2. QED
    BY <1>3, <2>1
<1>6. CASE Killed \/ \E r \in Rotators : KilledWhileRotating(r)
  <2>1. answered' \in Known /\ \A r \in Rotators : serving'[r] \in Known
    BY <1>6 DEF Killed, KilledWhileRotating, Down
  <2>2. QED
    BY <1>3, <2>1
<1>7. CASE UNCHANGED <<answered, serving>>
  BY <1>3, <1>7
<1>8. QED
  BY <1>4, <1>5, <1>6, <1>7 DEF Next, DaemonStarts, RotateTokenFails, Relay, RelayExits, LogIn,
     Connect, StartStream, Close, vars

LEMMA AuthInitial == Init => AuthInv
BY DEF Init, AuthInit, AuthInv, AuthSince, NoSession

LEMMA AuthAlways == Safety => [](TypeOK /\ RelayInv /\ AuthInv)
<1>1. QED
  BY TypeInit, TypeStep, RelayInitial, RelayNext, AuthInitial, AuthNext, PTL DEF Safety

(* A rotation that was answered is the end of every token, cookie, login link
   and open session of before, whatever fails, is killed or starts again. *)
THEOREM AccessReplaced == Safety => []ReplacedSecretsAreDead
<1>1. AuthInv => ReplacedSecretsAreDead
  BY DEF AuthInv, AuthSince, ReplacedSecretsAreDead
<1>2. QED
  BY <1>1, AuthAlways, PTL

-----------------------------------------------------------------------------
(* What a rotation replaced in Turn *)

(* What a restarted relay no longer takes, no turnserver takes again. *)
LEMMA TurnSinceStays ==
  ASSUME TypeOK, RelayInv, [Next]_vars, NEW n \in Nat, n <= tried,
         secret >= n, secretFile >= n, AcceptsSince(n)
  PROVE  secret' >= n /\ secretFile' >= n /\ AcceptsSince(n)'
<1> USE DEF AcceptsSince, Live
<1>1. /\ TurnTypeOK /\ Rotators \subseteq Starters /\ Keys \subseteq Nat /\ Nobody \notin Keys
      /\ Daemon \in Starters
  BY SameSecrets DEF TypeOK, Starters
<1>2. CASE DaemonStarts
  BY <1>1, <1>2 DEF DaemonStarts, TurnStarts, TurnTypeOK
<1>3. CASE Killed \/ \E r \in Rotators : KilledWhileRotating(r)
  BY <1>1, <1>3 DEF Killed, KilledWhileRotating, Down, TurnEnds, NoProc, NotWatching, NoCall
<1>4. ASSUME NEW r \in Rotators, RotateToken(r) \/ RotateTokenFails(r)
      PROVE  secret' >= n /\ secretFile' >= n /\ AcceptsSince(n)'
  <2>1. tried' > n /\ tried' \in Keys
    BY <1>4, NewNumber DEF RotateToken, RotateTokenFails
  <2>2. secret' >= n /\ secretFile' >= n
    BY <1>1, <1>4, <2>1 DEF RotateToken, RotateTokenFails, TurnRotates, TurnRotateFails, turnVars
  <2>3. UNCHANGED <<proc, watch>> /\ \A s \in Starters : call'[s].key = call[s].key
    BY <1>1, <1>4 DEF RotateToken, RotateTokenFails, TurnRotates, TurnRotateFails, turnVars, TurnTypeOK
  <2>4. QED
    BY <2>2, <2>3
<1>5. ASSUME NEW s \in Starters, Spawned(s) \/ SpawnFails(s)
      PROVE  secret' >= n /\ secretFile' >= n /\ AcceptsSince(n)'
  BY <1>1, <1>5 DEF Spawned, SpawnFails, NoCall, TurnTypeOK, RelayInv, CallsInv
<1>6. ASSUME TurnserverExits \/ WatchSeesExit \/ WatchSpawns \/ WatchHasProcess
      PROVE  secret' >= n /\ secretFile' >= n /\ AcceptsSince(n)'
  BY <1>1, <1>6 DEF TurnserverExits, WatchSeesExit, WatchSpawns, WatchHasProcess, TurnTypeOK,
     RelayInv, WatchInv
<1>7. ASSUME NEW r \in Rotators, Terminate(r) \/ Terminated(r)
      PROVE  secret' >= n /\ secretFile' >= n /\ AcceptsSince(n)'
  BY <1>1, <1>7 DEF Terminate, Terminated, TurnTypeOK, NotWatching, NoProc
<1>8. ASSUME NEW s \in Starters, Spawn(s)
      PROVE  secret' >= n /\ secretFile' >= n /\ AcceptsSince(n)'
  BY <1>1, <1>8 DEF Spawn, TurnTypeOK
<1>9. CASE UNCHANGED turnVars
  BY <1>9 DEF turnVars
<1>10. QED
  BY <1>2, <1>3, <1>4, <1>5, <1>6, <1>7, <1>8, <1>9
     DEF Next, Relay, RelayExits, RelayStarted, RelayFails, LogIn, Connect, StartStream, Close, vars

(* A rotation in progress restarts the relay with a secret of its own. *)
ServesSince(r, n) ==
  /\ secret >= n /\ secretFile >= n
  /\ call[r].pc = "exec" => call[r].key >= n

LEMMA ServesSinceStays ==
  ASSUME TypeOK, RelayInv, [Next]_vars, NEW n \in Nat, n <= tried,
         NEW r \in Rotators, ServesSince(r, n)
  PROVE  ServesSince(r, n)'
<1> USE DEF ServesSince
<1>1. /\ TurnTypeOK /\ Rotators \subseteq Starters /\ Keys \subseteq Nat /\ Daemon \in Starters
  BY SameSecrets DEF TypeOK, Starters
<1>2. CASE DaemonStarts
  BY <1>1, <1>2 DEF DaemonStarts, TurnStarts, TurnTypeOK, RelayInv, DaemonInv, TurnOff, NoCall
<1>3. CASE Killed \/ \E q \in Rotators : KilledWhileRotating(q)
  BY <1>1, <1>3 DEF Killed, KilledWhileRotating, Down, TurnEnds, NoCall
<1>4. ASSUME NEW q \in Rotators, RotateToken(q) \/ RotateTokenFails(q)
      PROVE  ServesSince(r, n)'
  <2>1. tried' > n /\ tried' \in Keys
    BY <1>4, NewNumber DEF RotateToken, RotateTokenFails
  <2>2. secret' >= n /\ secretFile' >= n
    BY <1>1, <1>4, <2>1 DEF RotateToken, RotateTokenFails, TurnRotates, TurnRotateFails, turnVars
  <2>3. call'[r].pc = "exec" => call'[r] = call[r]
    BY <1>1, <1>4 DEF RotateToken, RotateTokenFails, TurnRotates, TurnRotateFails, turnVars, TurnTypeOK
  <2>4. QED
    BY <2>2, <2>3
<1>5. ASSUME NEW s \in Starters, Spawned(s) \/ SpawnFails(s) \/ Spawn(s)
      PROVE  ServesSince(r, n)'
  BY <1>1, <1>5 DEF Spawned, SpawnFails, Spawn, NoCall, TurnTypeOK
<1>6. ASSUME NEW q \in Rotators, Terminate(q) \/ Terminated(q)
      PROVE  ServesSince(r, n)'
  BY <1>1, <1>6 DEF Terminate, Terminated, TurnTypeOK
<1>7. CASE UNCHANGED <<secret, secretFile, call>>
  BY <1>7
<1>8. QED
  BY <1>2, <1>3, <1>4, <1>5, <1>6, <1>7
     DEF Next, Relay, RelayExits, RelayStarted, RelayFails, LogIn, Connect, StartStream, Close, vars,
         TurnserverExits, WatchSeesExit, WatchSpawns, WatchHasProcess, turnVars

LEMMA TurnNext == TypeOK /\ RelayInv /\ TurnInv /\ [Next]_vars => TurnInv'
<1> SUFFICES ASSUME TypeOK, RelayInv, TurnInv, [Next]_vars PROVE TurnInv'
  OBVIOUS
<1>1. /\ TypeOK' /\ RestTypeOK /\ TurnTypeOK /\ TurnTypeOK' /\ Keys \subseteq Nat /\ Secrets \subseteq Nat
      /\ Rotators \subseteq Starters /\ Daemon \notin Rotators
  BY TypeStep, SameSecrets DEF TypeOK, RestTypeOK, Starters
<1>2. PICK n \in Nat : n = restarted
  BY <1>1 DEF RestTypeOK
<1>3. n <= tried /\ secret' >= n /\ secretFile' >= n /\ AcceptsSince(n)'
  <2>1. n <= tried /\ secret >= n /\ secretFile >= n /\ AcceptsSince(n)
    BY <1>1, <1>2 DEF TurnInv, RelayInv, Bounded, RestTypeOK
  <2>2. QED
    BY <2>1, TurnSinceStays
<1>4. ASSUME NEW r \in Rotators, NEW m \in Nat, m = serving[r]
      PROVE  m <= tried /\ ServesSince(r, m)'
  <2>1. m <= tried /\ ServesSince(r, m)
    BY <1>4 DEF TurnInv, RelayInv, Bounded, ServesSince
  <2>2. QED
    BY <2>1, ServesSinceStays
<1>5. ASSUME NEW r \in Rotators PROVE ServesSince(r, 0)'
  <2>1. secret' >= 0 /\ secretFile' >= 0
    BY <1>1 DEF TurnTypeOK
  <2>2. call'[r].pc = "exec" => call'[r].key \in Nat
    BY <1>1, RelayNext DEF RelayInv, CallsInv, TurnTypeOK, Process
  <2>3. QED
    BY <1>1, <2>1, <2>2 DEF ServesSince
<1>6. ASSUME NEW s \in Starters, RelayStarted(s) \/ RelayFails(s) PROVE TurnInv'
  <2>1. Spawned(s) \/ SpawnFails(s)
    BY <1>6 DEF RelayStarted, RelayFails
  <2>2. CASE s = Daemon
    BY <1>2, <1>3, <1>4, <1>6, <2>2, <1>1
       DEF RelayStarted, RelayFails, StartReturns, TurnInv, ServesSince, RestTypeOK
  <2>3. CASE s # Daemon
    <3>1. s \in Rotators
      BY <2>3 DEF Starters
    <3>2. PICK m \in Nat : m = serving[s]
      BY <1>1, <3>1 DEF RestTypeOK
    <3>3. secret' >= m /\ secretFile' >= m
      BY <1>4, <3>1, <3>2 DEF ServesSince
    <3>4. AcceptsSince(m)'
      BY <1>1, <2>1, <3>1, <3>2 DEF AcceptsSince, Live, Spawned, SpawnFails, NoCall, TurnTypeOK,
         RelayInv, CallsInv, TurnInv
    <3>5. restarted' \in {n, m} /\ \A r \in Rotators : serving'[r] \in {serving[r], 0}
      BY <1>1, <1>2, <1>6, <2>3, <3>2 DEF RelayStarted, RelayFails, StartReturns, Later, RestTypeOK
    <3>6. ASSUME NEW r \in Rotators
          PROVE  /\ secret' >= serving'[r] /\ secretFile' >= serving'[r]
                 /\ call'[r].pc = "exec" => call'[r].key >= serving'[r]
      <4>1. CASE serving'[r] = 0
        BY <1>5, <4>1 DEF ServesSince
      <4>2. CASE serving'[r] = serving[r]
        <5>1. serving[r] \in Nat
          BY <1>1 DEF RestTypeOK
        <5>2. QED
          BY <1>4, <4>2, <5>1 DEF ServesSince
      <4>3. QED
        BY <3>5, <4>1, <4>2
    <3>7. AcceptsSince(restarted)' /\ secret' >= restarted' /\ secretFile' >= restarted'
      BY <1>3, <3>3, <3>4, <3>5 DEF AcceptsSince
    <3>8. QED
      BY <3>6, <3>7 DEF TurnInv, AcceptsSince
  <2>4. QED
    BY <2>2, <2>3
<1>7. CASE UNCHANGED <<restarted, serving>>
  BY <1>1, <1>2, <1>3, <1>4, <1>7 DEF TurnInv, ServesSince, RestTypeOK
<1>8. CASE UNCHANGED restarted /\ Down
  <2>1. \A r \in Rotators : serving'[r] = 0
    BY <1>8 DEF Down
  <2>2. QED
    BY <1>2, <1>3, <1>5, <1>8, <2>1 DEF TurnInv, ServesSince
<1>9. ASSUME NEW r \in Rotators, RotateToken(r) PROVE TurnInv'
  <2>1. tried' \in Nat /\ tried' = tried + 1
    BY <1>9, NewNumber, <1>1 DEF RotateToken
  <2>2. secret' = tried' /\ secretFile' = tried' /\ restarted' = restarted
    BY <1>9 DEF RotateToken, TurnRotates
  <2>3. \A q \in Rotators : serving'[q] \in {serving[q], tried'}
    BY <1>1, <1>9 DEF RotateToken, RestTypeOK
  <2>4. \A q \in Rotators : call'[q].pc = "exec" => call'[q].key >= serving'[q]
    <3>1. ASSUME NEW q \in Rotators, call'[q].pc = "exec" PROVE q # r /\ serving'[q] = serving[q]
      BY <1>1, <1>9, <3>1
         DEF RotateToken, NewRotation, TurnRotates, RestTypeOK, TurnTypeOK, RelayInv, ServingInv
    <3>2. QED
      BY <1>1, <1>4, <3>1 DEF ServesSince, RestTypeOK
  <2>5. \A q \in Rotators : serving[q] \in Nat /\ serving[q] <= tried
    BY <1>1 DEF RelayInv, Bounded, RestTypeOK
  <2>6. \A q \in Rotators : secret' >= serving'[q] /\ secretFile' >= serving'[q]
    <3>1. ASSUME NEW q \in Rotators PROVE tried' >= serving'[q]
      <4>1. serving[q] \in Nat /\ serving[q] <= tried /\ tried \in Nat
        BY <1>1, <2>5 DEF RestTypeOK
      <4>2. CASE serving'[q] = serving[q]
        BY <2>1, <4>1, <4>2
      <4>3. CASE serving'[q] = tried'
        BY <2>1, <4>3
      <4>4. QED
        BY <2>3, <4>2, <4>3
    <3>2. QED
      BY <2>2, <3>1
  <2>7. secret' >= restarted' /\ secretFile' >= restarted' /\ AcceptsSince(restarted)'
    BY <1>2, <1>3, <2>2 DEF AcceptsSince
  <2>8. QED
    BY <2>4, <2>6, <2>7 DEF TurnInv
<1>10. QED
  BY <1>6, <1>7, <1>8, <1>9 DEF Next, DaemonStarts, Killed, KilledWhileRotating, RotateTokenFails,
     Relay, RelayExits, LogIn, Connect, StartStream, Close, vars

LEMMA TurnInitial == Init => TurnInv
BY DEF Init, TurnInit, TurnOff, TurnInv, AcceptsSince, Live, NotWatching, NoProc, NoCall, Starters

(* What the rotation that restarts the relay put an end to: no turnserver,
   whoever made it, takes a credential of before, now or after a restart. *)
THEOREM AccessRestart == Safety => []RestartKillsCredentials
<1>1. TurnInv => RestartKillsCredentials
  BY DEF TurnInv, RestartKillsCredentials
<1>2. QED
  BY <1>1, TypeInit, TypeStep, RelayInitial, RelayNext, TurnInitial, TurnNext, PTL DEF Safety

-----------------------------------------------------------------------------
(* The credentials of the open sessions *)

LEMMA CurrentNext ==
  TypeOK /\ RelayInv /\ OpenSessionsHoldCurrent /\ [Next]_vars => OpenSessionsHoldCurrent'
<1> SUFFICES ASSUME TypeOK, RelayInv, OpenSessionsHoldCurrent, [Next]_vars
             PROVE  OpenSessionsHoldCurrent'
  OBVIOUS
<1> USE DEF OpenSessionsHoldCurrent
<1>1. RestTypeOK /\ NoSession.pc # "open"
  BY DEF TypeOK, RestTypeOK, NoSession
<1>2. CASE DaemonStarts
  BY <1>1, <1>2 DEF DaemonStarts, RelayInv, DaemonInv
<1>3. CASE Down
  BY <1>1, <1>3 DEF Down
<1>4. CASE EndSessions
  BY <1>1, <1>4 DEF EndSessions, RestTypeOK
<1>5. ASSUME NEW s \in Sessions, NEW n \in Secrets, Connect(s, n) PROVE OpenSessionsHoldCurrent'
  BY <1>1, <1>5 DEF Connect, RestTypeOK, turnVars
<1>6. ASSUME NEW s \in Sessions, StartStream(s) \/ Close(s) PROVE OpenSessionsHoldCurrent'
  BY <1>1, <1>6 DEF StartStream, Close, RestTypeOK, turnVars
<1>7. CASE UNCHANGED <<session, secret>>
  BY <1>7
<1>8. QED
  BY <1>2, <1>3, <1>4, <1>5, <1>6, <1>7
     DEF Next, Killed, KilledWhileRotating, RotateToken, RotateTokenFails, RelayStarted, RelayFails,
         Spawned, SpawnFails, Relay, RelayExits, WatchSeesExit, WatchSpawns, WatchHasProcess,
         Terminate, Terminated, Spawn, TurnserverExits, LogIn, turnVars, vars

(* A browser whose session is open holds the credential of the secret that
   is in use, although it was made before an await: a rotation in between
   ends the session first. *)
THEOREM AccessCurrent == Safety => []OpenSessionsHoldCurrent
<1>1. Init => OpenSessionsHoldCurrent
  BY DEF Init, OpenSessionsHoldCurrent, NoSession
<1>2. QED
  BY <1>1, CurrentNext, TypeInit, TypeStep, RelayInitial, RelayNext, PTL DEF Safety

-----------------------------------------------------------------------------
(* Rotations that do not overlap *)

(* While the daemon listens, the task is there unless a call has taken it, so
   a rotation that is alone restarts the relay before it is answered. *)
AloneInv ==
  /\ daemon = "up" /\ (\A s \in Starters : call[s].pc = "none") => task
  /\ answered = restarted

LEMMA AloneNext ==
  ASSUME \A r, q \in Rotators : r = q
  PROVE  TypeOK /\ RelayInv /\ AloneInv /\ [Next]_vars => AloneInv'
<1> SUFFICES ASSUME TypeOK, RelayInv, AloneInv, [Next]_vars PROVE AloneInv'
  OBVIOUS
<1> USE DEF AloneInv
<1>1. /\ TurnTypeOK /\ RestTypeOK /\ Starters = Rotators \cup {Daemon} /\ Daemon \notin Rotators
      /\ Daemon \in Starters /\ Rotators \subseteq Starters
  BY SameSecrets DEF TypeOK, RestTypeOK, Starters
<1>2. ASSUME NEW r \in Rotators, RotateToken(r) PROVE AloneInv'
  <2>1. \A s \in Starters : call[s].pc = "none"
    BY <1>1, <1>2 DEF RotateToken, NewRotation, Up, RelayInv, ServingInv, DaemonInv
  <2>2. task
    BY <1>2, <2>1 DEF RotateToken, NewRotation, Up
  <2>3. call'[r].pc = "gather"
    BY <1>1, <1>2, <2>2 DEF RotateToken, TurnRotates, TurnTypeOK
  <2>4. QED
    BY <1>1, <1>2, <2>3 DEF RotateToken
<1>3. ASSUME NEW s \in Starters, RelayStarted(s) \/ RelayFails(s) PROVE AloneInv'
  <2>1. task'
    BY <1>3 DEF RelayStarted, RelayFails, Spawned, SpawnFails
  <2>2. answered' = restarted'
    BY <1>3 DEF RelayStarted, RelayFails, StartReturns
  <2>3. QED
    BY <2>1, <2>2
<1>4. CASE DaemonStarts \/ Killed \/ \E r \in Rotators : KilledWhileRotating(r)
  BY <1>4 DEF DaemonStarts, Killed, KilledWhileRotating, Down
<1>5. CASE Relay \/ RelayExits
  <2>1. UNCHANGED <<daemon, answered, restarted, task>>
    BY <1>5 DEF Relay, RelayExits, WatchSeesExit, WatchSpawns, WatchHasProcess, Terminate,
       Terminated, Spawn, TurnserverExits
  <2>2. \A s \in Starters : call'[s].pc = "none" <=> call[s].pc = "none"
    BY <1>1, <1>5 DEF Relay, RelayExits, WatchSeesExit, WatchSpawns, WatchHasProcess, Terminate,
       Terminated, Spawn, TurnserverExits, TurnTypeOK
  <2>3. QED
    BY <2>1, <2>2
<1>6. CASE UNCHANGED <<daemon, answered, restarted, task, call>>
  BY <1>6
<1>7. QED
  BY <1>2, <1>3, <1>4, <1>5, <1>6
     DEF Next, RotateTokenFails, TurnRotateFails, LogIn, Connect, StartStream, Close, turnVars, vars

(* A rotation kills the TURN credentials that were issued before it, if only
   one is in progress at a time. *)
THEOREM AccessAlone ==
  ASSUME \A r, q \in Rotators : r = q
  PROVE  Safety => []ReplacedCredentialsAreDead
<1>1. Init => AloneInv
  BY DEF Init, AloneInv
<1>2. TypeOK /\ RelayInv /\ AloneInv /\ [Next]_vars => AloneInv'
  BY AloneNext
<1>3. TurnInv /\ AloneInv => ReplacedCredentialsAreDead
  BY DEF TurnInv, AloneInv, ReplacedCredentialsAreDead
<1>4. QED
  BY <1>1, <1>2, <1>3, TypeInit, TypeStep, RelayInitial, RelayNext, TurnInitial, TurnNext, PTL
     DEF Safety
=============================================================================
