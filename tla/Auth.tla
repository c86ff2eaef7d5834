-------------------------------- MODULE Auth --------------------------------
(***************************************************************************)
(* The secrets of appliance/auth.py: the API token, the key that signs the *)
(* session cookies, and the one-time login links.                          *)
(*                                                                         *)
(* Every rotation has a number, and a secret is the number of the rotation *)
(* that made it (0: made when the daemon first started). A cookie is the   *)
(* number of the key that signed it, and a login link that of the token at *)
(* the time it was made. The memory of the daemon and its two files are    *)
(* separate: a write can fail, and the daemon can be killed between two.   *)
(***************************************************************************)
EXTENDS Naturals

CONSTANT MaxRotations   \* bound: rotations that are tried

ASSUME RotationsAssumption == MaxRotations \in Nat

VARIABLES
  token,        \* self.token
  sessionKey,   \* self._session_key
  links,        \* self._links
  tokenFile,    \* secrets/api-token
  keyFile,      \* secrets/session-key
  cookies       \* the browsers: what they got from a login, and keep

authMemory == <<token, sessionKey, links>>
authFiles == <<tokenFile, keyFile>>
authVars == <<authMemory, authFiles, cookies>>

Secrets == 0..MaxRotations

AuthTypeOK ==
  /\ token \in Secrets /\ sessionKey \in Secrets
  /\ tokenFile \in Secrets /\ keyFile \in Secrets
  /\ links \subseteq Secrets
  /\ cookies \subseteq Secrets

AuthInit ==
  /\ token = 0 /\ sessionKey = 0
  /\ tokenFile = 0 /\ keyFile = 0
  /\ links = {} /\ cookies = {}

(* The daemon starts: secret() finds both files. *)
AuthStarts ==
  /\ token' = tokenFile
  /\ sessionKey' = keyFile
  /\ links' = {}
  /\ UNCHANGED <<authFiles, cookies>>

(* What the middleware accepts. *)
CheckToken(value) == value = token
CheckSession(cookie) == cookie = sessionKey

(* Mutant: signed with the key that is made next. *)
NewSession_NextKey == cookies' = cookies \cup {sessionKey + 1}

NewSession == cookies' = cookies \cup {sessionKey}

(* login(): the form takes the right token only. *)
Login(value) ==
  /\ CheckToken(value)
  /\ NewSession
  /\ UNCHANGED <<authMemory, authFiles>>

LoginLink ==
  /\ links' = links \cup {token}
  /\ UNCHANGED <<token, sessionKey, authFiles, cookies>>

(* login_page(): the code leaves _links, and logs in unless it is too old. *)
UseLink(link) ==
  /\ link \in links
  /\ links' = links \ {link}
  /\ NewSession \/ UNCHANGED cookies
  /\ UNCHANGED <<token, sessionKey, authFiles>>

(* Mutant: the links that were made before stay. *)
AuthRotates_KeepsLinks(n) ==
  /\ token' = n /\ tokenFile' = n
  /\ sessionKey' = n /\ keyFile' = n
  /\ UNCHANGED <<links, cookies>>

(* rotate(): nothing else runs between its steps, but a write can fail. *)
AuthRotates(n) ==
  /\ token' = n /\ tokenFile' = n
  /\ sessionKey' = n /\ keyFile' = n
  /\ links' = {}
  /\ UNCHANGED cookies

(* The token is replaced in memory before it is written, and the key after. *)
AuthRotateFails(n) ==
  /\ token' = n
  /\ tokenFile' \in {tokenFile, n}
  /\ UNCHANGED <<sessionKey, keyFile, links, cookies>>

(* Killed after one of the writes, or both. *)
AuthRotateKilled(n) ==
  /\ tokenFile' = n
  /\ keyFile' \in {keyFile, n}
  /\ UNCHANGED <<authMemory, cookies>>
=============================================================================
