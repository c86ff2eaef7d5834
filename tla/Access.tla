------------------------------- MODULE Access -------------------------------
(***************************************************************************)
(* Who gets in, and for how long: the secrets of Auth, the relay of Turn   *)
(* and the sessions of the dashboard, joined by POST /auth/token/rotate    *)
(* (rotate_token in appliance/api.py), by the start of a stream, which     *)
(* hands out a TURN credential, and by the start and death of the daemon.  *)
(*                                                                         *)
(* A session is known by the secret that let it in and by the secret of    *)
(* the credential that its browser holds. Sessions over the unix socket    *)
(* need no secret and are left out.                                        *)
(***************************************************************************)
EXTENDS Auth, Turn

CONSTANTS
  Sessions,     \* dashboard sessions
  MaxFaults     \* bound: failed writes and spawns, exits of turnserver, kills

ASSUME AccessAssumption == MaxSecret = MaxRotations /\ MaxFaults \in Nat

VARIABLES
  daemon,       \* down, starting (it does not listen yet) or up
  session,      \* each dashboard session
  serving,      \* the rotation that each request serves, 0 without one
  \* Only for the bounds and the properties:
  tried,        \* rotations that were tried
  answered,     \* the last rotation that was answered with the new token
  restarted,    \* the last one that was answered after it restarted the relay
  faults        \* faults that happened

vars == <<authVars, turnVars, daemon, session, serving, tried, answered, restarted, faults>>

NoSession == [pc |-> "none", by |-> 0, cred |-> Nobody]

TypeOK ==
  /\ AuthTypeOK /\ TurnTypeOK
  /\ daemon \in {"down", "starting", "up"}
  /\ session \in [Sessions -> [pc : {"none", "open", "ended"}, by : Secrets, cred : Process]]
  /\ serving \in [Rotators -> Secrets]
  /\ tried \in Secrets /\ answered \in Secrets /\ restarted \in Secrets /\ faults \in 0..MaxFaults

Init ==
  /\ AuthInit /\ TurnInit
  /\ daemon = "down"
  /\ session = [s \in Sessions |-> NoSession]
  /\ serving = [r \in Rotators |-> 0]
  /\ tried = 0 /\ answered = 0 /\ restarted = 0 /\ faults = 0

Up == daemon = "up"
Fault == faults < MaxFaults /\ faults' = faults + 1

-----------------------------------------------------------------------------
(* The daemon *)

DaemonStarts ==
  /\ daemon = "down"
  /\ daemon' = "starting"
  /\ AuthStarts /\ TurnStarts
  /\ UNCHANGED <<session, serving, tried, answered, restarted, faults>>

Down ==
  /\ daemon' = "down"
  /\ TurnEnds
  /\ session' = [s \in Sessions |-> NoSession]
  /\ serving' = [r \in Rotators |-> 0]

Killed ==
  /\ daemon # "down"
  /\ Fault /\ Down
  /\ UNCHANGED <<authVars, secret, secretFile, tried, answered, restarted>>

-----------------------------------------------------------------------------
(* POST /auth/token/rotate, on the local socket *)

EndSessions ==
  session' = [s \in Sessions |-> IF session[s].pc = "open"
                                 THEN [session[s] EXCEPT !.pc = "ended"] ELSE session[s]]

NewRotation(r) ==
  /\ Up /\ serving[r] = 0
  /\ tried < MaxRotations
  /\ tried' = tried + 1

Later(n, m) == IF n > m THEN n ELSE m

(* Mutant: the sessions are ended once the relay is back, not before. *)
RotateToken_EndsSessionsLater(r) ==
  /\ NewRotation(r)
  /\ AuthRotates(tried') /\ TurnRotates(r, tried')
  /\ IF call'[r].pc = "none"
     THEN answered' = Later(tried', answered) /\ UNCHANGED serving
     ELSE serving' = [serving EXCEPT ![r] = tried'] /\ UNCHANGED answered
  /\ UNCHANGED <<daemon, session, restarted, faults>>

(* Up to the first await. The request is answered here if the relay was not
   up to be restarted. *)
RotateToken(r) ==
  /\ NewRotation(r)
  /\ AuthRotates(tried') /\ EndSessions /\ TurnRotates(r, tried')
  /\ IF call'[r].pc = "none"
     THEN answered' = Later(tried', answered) /\ UNCHANGED serving
     ELSE serving' = [serving EXCEPT ![r] = tried'] /\ UNCHANGED answered
  /\ UNCHANGED <<daemon, restarted, faults>>

(* A failed write answers with an error, and skips everything after it. *)
RotateTokenFails(r) ==
  /\ NewRotation(r)
  /\ Fault
  /\ \/ AuthRotateFails(tried') /\ UNCHANGED <<session, turnVars>>
     \/ AuthRotates(tried') /\ EndSessions /\ TurnRotateFails(tried')
  /\ UNCHANGED <<daemon, serving, answered, restarted>>

KilledWhileRotating(r) ==
  /\ NewRotation(r)
  /\ Fault
  /\ AuthRotateKilled(tried') /\ Down
  /\ UNCHANGED <<secret, secretFile, answered, restarted>>

(* start() is over: the rotation is answered, or the daemon listens. *)
StartReturns(s) ==
  IF s = Daemon
  THEN /\ daemon' = "up"
       /\ UNCHANGED <<serving, answered, restarted>>
  ELSE /\ answered' = Later(serving[s], answered)
       /\ restarted' = Later(serving[s], restarted)
       /\ serving' = [serving EXCEPT ![s] = 0]
       /\ UNCHANGED daemon

RelayStarted(s) ==
  /\ Spawned(s) /\ StartReturns(s)
  /\ UNCHANGED <<authVars, session, tried, faults>>

RelayFails(s) ==
  /\ SpawnFails(s) /\ StartReturns(s) /\ Fault
  /\ UNCHANGED <<authVars, session, tried>>

Relay ==
  /\ \/ WatchSeesExit \/ WatchSpawns \/ WatchHasProcess
     \/ \E r \in Rotators : Terminate(r) \/ Terminated(r)
     \/ \E s \in Starters : Spawn(s)
  /\ UNCHANGED <<authVars, daemon, session, serving, tried, answered, restarted, faults>>

RelayExits ==
  /\ TurnserverExits /\ Fault
  /\ UNCHANGED <<authVars, daemon, session, serving, tried, answered, restarted>>

-----------------------------------------------------------------------------
(* Logins and sessions *)

LogIn ==
  /\ Up
  /\ LoginLink \/ (\E n \in Secrets : UseLink(n)) \/ (\E n \in Secrets : Login(n))
  /\ UNCHANGED <<turnVars, daemon, session, serving, tried, answered, restarted, faults>>

(* Nothing suspends between the check of the token or cookie and the entry in
   hub.sessions: accept() finds its message there. *)
Connect(s, n) ==
  /\ Up /\ session[s].pc = "none"
  /\ CheckToken(n) \/ (n \in cookies /\ CheckSession(n))
  /\ session' = [session EXCEPT ![s] = [pc |-> "open", by |-> n, cred |-> Nobody]]
  /\ UNCHANGED <<authVars, turnVars, daemon, serving, tried, answered, restarted, faults>>

(* _start_stream: the credential is made here, and sent once the emulator
   has answered. The control lane of an ended session may still run it. *)
StartStream(s) ==
  /\ session[s].pc # "none" /\ Running
  /\ session' = [session EXCEPT ![s].cred = secret]
  /\ UNCHANGED <<authVars, turnVars, daemon, serving, tried, answered, restarted, faults>>

(* _close: the browser left, or the reader was cancelled. *)
Close(s) ==
  /\ session[s].pc # "none"
  /\ session' = [session EXCEPT ![s] = NoSession]
  /\ UNCHANGED <<authVars, turnVars, daemon, serving, tried, answered, restarted, faults>>

-----------------------------------------------------------------------------

Next ==
  \/ DaemonStarts \/ Killed
  \/ \E r \in Rotators : RotateToken(r) \/ RotateTokenFails(r) \/ KilledWhileRotating(r)
  \/ \E s \in Starters : RelayStarted(s) \/ RelayFails(s)
  \/ Relay \/ RelayExits
  \/ LogIn
  \/ \E s \in Sessions : \/ \E n \in Secrets : Connect(s, n)
                         \/ StartStream(s) \/ Close(s)

(* Ready tasks run, and turnserver exits when it is killed. The unit of the
   container starts a daemon that died again. *)
Fairness ==
  /\ WF_vars(DaemonStarts)
  /\ WF_vars(Relay)
  /\ \A s \in Starters : WF_vars(RelayStarted(s))

Safety == Init /\ [][Next]_vars
Spec == Safety /\ Fairness

-----------------------------------------------------------------------------

(* What a rotation replaced lets nobody in once the rotation was answered:
   no token, cookie, login link or open session is older, and after a
   restart, whatever was written or lost, none of them comes back. *)
ReplacedSecretsAreDead ==
  /\ token >= answered /\ sessionKey >= answered
  /\ tokenFile >= answered /\ keyFile >= answered
  /\ \A l \in links : l >= answered
  /\ \A s \in Sessions : session[s].pc = "open" => session[s].by >= answered

(* A rotation kills the TURN credentials that were issued before it: when all
   rotations are answered, no turnserver takes one of an older secret. *)
ReplacedCredentialsAreDead ==
  (\A r \in Rotators : serving[r] = 0) => AcceptsSince(answered)

(* A rotation that restarts the relay, as all do but those that meet another
   one which has stopped it, kills them at once: no task that was making a
   process, and no process that was made meanwhile, keeps an older secret. *)
RestartKillsCredentials == AcceptsSince(restarted)

(* A browser whose session is not being closed holds no credential of an
   older secret, though credentials are made before an await and sent after
   it. *)
OpenSessionsHoldCurrent ==
  \A s \in Sessions :
    session[s].pc = "open" => session[s].cred \in {Nobody, secret}

(* The relay is kept alive: whatever exits or fails, and however rotations
   stop it, a turnserver runs again. *)
RelayReturns == []<>(Running \/ daemon = "down")
=============================================================================
