------------------------------ MODULE Requests ------------------------------
(***************************************************************************)
(* What the requests of the API, of the MCP tools and of the dashboard do  *)
(* with Android (appliance/backend.py): each takes a lease, runs adb or    *)
(* calls the emulator, and may use a temporary file or the clipboard of    *)
(* the guest, which all share. Android is the Lifecycle that the           *)
(* supervisor implements: a stop, a crash or a failed boot may come        *)
(* between any two calls.                                                  *)
(*                                                                         *)
(* A request is of one of these kinds:                                     *)
(*   calls    one adb command after the other: shell, apps, launch, ui ... *)
(*   paste    text(): the clipboard of the guest is set and restored       *)
(*   upload   install() and push(): a file from the client goes to adb     *)
(*   pull     pull(): a file from adb goes to the client                   *)
(*   boot     the tools android_start, _restart and _wait of the MCP       *)
(*            server, which follow a boot with one short wait after the    *)
(*            other                                                        *)
(***************************************************************************)
EXTENDS Naturals

CONSTANTS
  Requests,     \* requests that can be in progress at once
  Nobody,       \* no request
  User,         \* a text that somebody copied in the guest
  MaxCalls      \* bound: adb commands, or waits, of one request

ASSUME RequestsAssumption ==
  MaxCalls \in Nat \ {0} /\ Nobody \notin Requests /\ User \notin Requests

VARIABLES
  state, waiting, retried, open,   \* of Lifecycle
  conn,      \* grpc is not None: the channel to the emulator is open
  req,       \* each request: its kind, where it is, the calls that it still
             \* makes, the text it saved, and whether its channel is still open
  lock,      \* who has _text_lock
  clip,      \* the clipboard of the guest: the user's, or a request's text
  cut,       \* a call that sets the clipboard was cut off, in this guest
  adb,       \* requests whose adb process lives
  files      \* requests whose temporary file is on the disk

androidVars == <<state, waiting, retried, open>>
guestVars == <<lock, clip, cut>>
vars == <<androidVars, conn, req, guestVars, adb, files>>

Android == INSTANCE Lifecycle WITH Clients <- Requests

Kinds == {"calls", "paste", "upload", "pull", "boot"}
Places == {"idle", "body", "lease", "joined", "woken", "refused", "call", "adb", "answer",
           "queue", "get", "set", "settle", "restore", "ask", "wait", "look"}

TypeOK ==
  /\ Android!TypeOK
  /\ conn \in BOOLEAN
  /\ req \in [Requests -> [kind : Kinds, pc : Places, calls : 0..MaxCalls,
                           saved : Requests \cup {User}, stub : BOOLEAN]]
  /\ lock \in Requests \cup {Nobody}
  /\ clip \in Requests \cup {User}
  /\ cut \in BOOLEAN
  /\ adb \subseteq Requests /\ files \subseteq Requests

NoRequest == [kind |-> "calls", pc |-> "idle", calls |-> 0, saved |-> User, stub |-> FALSE]

(* The daemon starts on a stopped Android, and removes upload_dir. *)
Init ==
  /\ Android!Init
  /\ conn = FALSE
  /\ req = [r \in Requests |-> NoRequest]
  /\ lock = Nobody /\ clip = User /\ cut = FALSE
  /\ adb = {} /\ files = {}

At(r, place) == req[r].pc = place
Go(r, place) == req' = [req EXCEPT ![r].pc = place]

(* The request is over: its answer is sent, or an error. *)
Over(r) == req' = [req EXCEPT ![r] = [NoRequest EXCEPT !.kind = req[r].kind]]

(* The endpoints of the uploads remove their file however they end. *)
Ends(r) ==
  /\ Over(r)
  /\ files' = IF req[r].kind = "upload" THEN files \ {r} ELSE files

-----------------------------------------------------------------------------
(* Android, as far as requests see it *)

(* A start by a caller that is not one of the requests. *)
Boot ==
  /\ Android!Boot /\ waiting' = {}
  /\ UNCHANGED <<conn, req, guestVars, adb, files>>

(* Those who wait are woken at once, and look later. *)
Wake(place) ==
  req' = [r \in Requests |-> IF r \in waiting THEN [req[r] EXCEPT !.pc = place] ELSE req[r]]

Ready ==
  /\ ~conn /\ conn' = TRUE
  /\ Android!Ready /\ Wake("woken")
  /\ UNCHANGED <<guestVars, adb, files>>

Retry ==
  /\ Android!Retry
  /\ UNCHANGED <<conn, req, guestVars, adb, files>>

Halt ==
  /\ Android!Halt
  /\ UNCHANGED <<conn, req, guestVars, adb, files>>

(* The teardown, of a stop or before a second boot: every call on the channel
   fails from now on, and the guest goes. *)
Disconnect ==
  /\ conn /\ state # "running"
  /\ conn' = FALSE
  /\ req' = [r \in Requests |-> [req[r] EXCEPT !.stub = FALSE]]
  /\ clip' = User /\ cut' = FALSE
  /\ UNCHANGED <<androidVars, lock, adb, files>>

Halted ==
  /\ ~conn
  /\ Android!Halted /\ Wake("refused")
  /\ UNCHANGED <<conn, guestVars, adb, files>>

Close ==
  /\ Android!Close
  /\ UNCHANGED <<conn, req, guestVars, adb, files>>

(* The daemon exits or is killed, and with it everything in its container. *)
DaemonRestarts ==
  /\ state' = "stopped" /\ waiting' = {} /\ retried' = FALSE /\ open' = TRUE
  /\ conn' = FALSE
  /\ req' = [r \in Requests |-> NoRequest]
  /\ lock' = Nobody /\ clip' = User /\ cut' = FALSE
  /\ adb' = {} /\ files' = {}

-----------------------------------------------------------------------------
(* Up to the lease *)

FirstPlace(kind) ==
  IF kind = "upload" THEN "body" ELSE IF kind = "boot" THEN "ask" ELSE "lease"

(* The name of a temporary file is new: what an earlier request left behind
   is not found again. *)
Begin(r, kind) ==
  /\ At(r, "idle") /\ r \notin files
  /\ req' = [req EXCEPT ![r] = [NoRequest EXCEPT !.kind = kind,
                                !.pc = FirstPlace(kind)]]
  /\ files' = IF kind = "upload" THEN files \cup {r} ELSE files
  /\ UNCHANGED <<androidVars, conn, guestVars, adb>>

(* _save: the client sends as slowly as it likes. *)
BodySaved(r) ==
  /\ At(r, "body") /\ Go(r, "lease")
  /\ UNCHANGED <<androidVars, conn, guestVars, adb, files>>

(* Too large, empty, a path that is refused, or a client that went away. *)
BodyRefused(r) ==
  /\ At(r, "body") /\ Ends(r)
  /\ UNCHANGED <<androidVars, conn, guestVars, adb>>

(* The lease is there if the channel is. *)
Lease(r) ==
  IF conn
  THEN /\ \E n \in 1..MaxCalls :
            req' = [req EXCEPT ![r].pc = IF req[r].kind = "paste" THEN "queue" ELSE "call",
                               ![r].calls = IF req[r].kind = "paste" THEN 0 ELSE n,
                               ![r].stub = TRUE]
       /\ UNCHANGED files
  ELSE Ends(r)

(* lease(): a request of its own starts Android, joins a start, or finds it
   running. During a stop it waits. A passive screenshot does none of these. *)
Enter(r) ==
  /\ At(r, "lease")
  /\ \/ ~open /\ Ends(r) /\ UNCHANGED androidVars
     \/ state # "running" /\ req[r].kind = "calls" /\ Ends(r) /\ UNCHANGED androidVars
     \/ open /\ state = "running" /\ Lease(r) /\ UNCHANGED androidVars
     \/ open /\ Android!Join(r) /\ Go(r, "joined") /\ UNCHANGED files
     \/ Android!Boot /\ waiting' = {r} /\ Go(r, "joined") /\ UNCHANGED files
  /\ UNCHANGED <<conn, guestVars, adb>>

Woken(r) ==
  /\ req[r].kind # "boot"
  /\ \/ At(r, "woken") /\ Lease(r)
     \/ At(r, "refused") /\ Ends(r)
  /\ UNCHANGED <<androidVars, conn, guestVars, adb>>

-----------------------------------------------------------------------------
(* adb.run *)

(* The last call of a pull makes the file, sooner or later. *)
AdbStarts(r) ==
  /\ At(r, "call") /\ Go(r, "adb")
  /\ adb' = adb \cup {r}
  /\ \/ UNCHANGED files
     \/ req[r].kind = "pull" /\ req[r].calls = 1 /\ files' = files \cup {r}
  /\ UNCHANGED <<androidVars, conn, guestVars>>

(* Mutant: the number of calls is not looked at. *)
AdbDone_CallsAgain(r) ==
  /\ At(r, "adb")
  /\ adb' = adb \ {r}
  /\ req' = [req EXCEPT ![r].pc = "call", ![r].calls = @ - 1]
  /\ UNCHANGED <<androidVars, conn, guestVars, files>>

(* It ends by itself, and the next call follows, or the answer. The rm that
   ends ui(), however its other calls ended, is such a next call. *)
AdbDone(r) ==
  /\ At(r, "adb")
  /\ adb' = adb \ {r}
  /\ \/ /\ req[r].calls > 1
        /\ req' = [req EXCEPT ![r].pc = "call", ![r].calls = @ - 1]
        /\ UNCHANGED files
     \/ /\ req[r].calls = 1 /\ req[r].kind = "pull"
        /\ Go(r, "answer")
        /\ files' = files \cup {r}
     \/ req[r].calls = 1 /\ req[r].kind # "pull" /\ Ends(r)
  /\ UNCHANGED <<androidVars, conn, guestVars>>

(* It reports a failure, as it does when the device is gone. *)
AdbFails(r) ==
  /\ At(r, "adb")
  /\ adb' = adb \ {r}
  /\ Over(r)
  /\ files' = files \ {r}
  /\ UNCHANGED <<androidVars, conn, guestVars>>

(* Mutant: an adb that takes too long is left to itself. *)
AdbCut_LeavesProcess(r) ==
  /\ At(r, "adb") /\ Ends(r)
  /\ UNCHANGED <<androidVars, conn, guestVars, adb>>

(* A timeout, too much output, or a cancelled request: the process is killed,
   and the exception passes through pull(). *)
AdbCut(r) ==
  /\ At(r, "adb") /\ Ends(r)
  /\ adb' = adb \ {r}
  /\ UNCHANGED <<androidVars, conn, guestVars>>

(* The process cannot be made. *)
AdbMissing(r) ==
  /\ At(r, "call") /\ Ends(r)
  /\ UNCHANGED <<androidVars, conn, guestVars, adb>>

(* _send_file removes the file when it has sent it or was closed. *)
Answered(r) ==
  /\ At(r, "answer") /\ Over(r)
  /\ files' = files \ {r}
  /\ UNCHANGED <<androidVars, conn, guestVars, adb>>

(* The client went away during the adb command: the answer never begins, and
   neither does the generator that would remove the file. *)
AnswerDropped(r) ==
  /\ At(r, "answer") /\ Over(r)
  /\ UNCHANGED <<androidVars, conn, guestVars, adb, files>>

-----------------------------------------------------------------------------
(* text() and input.paste *)

(* Mutant: the lock is not taken. *)
PasteLocks_Never(r) ==
  /\ At(r, "queue") /\ Go(r, "get")
  /\ lock' = r
  /\ UNCHANGED <<androidVars, conn, clip, cut, adb, files>>

PasteLocks(r) ==
  /\ At(r, "queue") /\ lock = Nobody
  /\ Go(r, "get")
  /\ lock' = r
  /\ UNCHANGED <<androidVars, conn, clip, cut, adb, files>>

PasteGets(r) ==
  /\ At(r, "get") /\ req[r].stub
  /\ req' = [req EXCEPT ![r].pc = "set", ![r].saved = clip]
  /\ UNCHANGED <<androidVars, conn, guestVars, adb, files>>

PasteSets(r) ==
  /\ At(r, "set") /\ req[r].stub
  /\ Go(r, "settle")
  /\ clip' = r
  /\ UNCHANGED <<androidVars, conn, lock, cut, adb, files>>

(* The key, between two delays. An error or a cancel goes to the same place. *)
PasteKey(r) ==
  /\ At(r, "settle") /\ Go(r, "restore")
  /\ UNCHANGED <<androidVars, conn, guestVars, adb, files>>

PasteRestores(r) ==
  /\ At(r, "restore") /\ req[r].stub
  /\ Over(r)
  /\ lock' = Nobody /\ clip' = req[r].saved
  /\ UNCHANGED <<androidVars, conn, cut, adb, files>>

(* Mutant: the lock is not released when the emulator does not answer. *)
PasteFails_KeepsLock(r) ==
  /\ \/ At(r, "get") /\ UNCHANGED <<clip, cut>>
     \/ /\ At(r, "set") \/ At(r, "restore")
        /\ cut' = (cut \/ req[r].stub) /\ UNCHANGED clip
  /\ Over(r)
  /\ UNCHANGED <<androidVars, conn, lock, adb, files>>

(* A call fails, is late or is cancelled: the emulator may still do what was
   asked, and nothing restores the clipboard if it was to be set. *)
PasteFails(r) ==
  /\ \/ At(r, "get") /\ UNCHANGED <<clip, cut>>
     \/ /\ At(r, "set") \/ At(r, "restore")
        /\ cut' = (cut \/ req[r].stub) /\ UNCHANGED clip
  /\ Over(r)
  /\ lock' = Nobody
  /\ UNCHANGED <<androidVars, conn, adb, files>>

(* A call that was cut off takes effect, at any time while the guest lives.
   Whose text it carried is not remembered: any may come. *)
ClipboardSetLate ==
  /\ cut
  /\ clip' \in Requests \cup {User}
  /\ UNCHANGED <<androidVars, conn, req, lock, cut, adb, files>>

(* A request that waits is cancelled: an MCP call, or the paste of a session
   that closes. What waits for adb or the emulator is cancelled above. *)
Cancel(r) ==
  /\ req[r].pc \in {"lease", "joined", "woken", "refused", "call", "queue",
                    "ask", "wait", "look"}
  /\ Android!Leave(r)
  /\ Ends(r)
  /\ UNCHANGED <<conn, guestVars, adb>>

-----------------------------------------------------------------------------
(* The MCP tools: start or restart without waiting, then _wait_boot *)

ToolWaits(r) ==
  \E n \in 1..MaxCalls : req' = [req EXCEPT ![r].pc = "wait", ![r].calls = n]

(* What is asked first: nothing, a start, or a restart, whose stop comes at
   once. A start during a stop follows it as a task of the supervisor. *)
ToolAsks(r) ==
  /\ At(r, "ask")
  /\ \/ ToolWaits(r) /\ UNCHANGED androidVars
     \/ (~open \/ state = "running") /\ Over(r) /\ UNCHANGED androidVars
     \/ ToolWaits(r) /\ Android!Boot /\ waiting' = {}
     \/ ToolWaits(r) /\ Android!Halt
  /\ UNCHANGED <<conn, guestVars, adb, files>>

(* POST /wait: an answer while Android runs, a place among those who wait for
   a boot, or a conflict. *)
ToolJoins(r) ==
  /\ At(r, "wait")
  /\ \/ state = "running" /\ Over(r) /\ UNCHANGED androidVars
     \/ Android!Join(r) /\ Go(r, "joined")
     \/ state \in {"stopped", "stopping"} /\ Go(r, "look") /\ UNCHANGED androidVars
  /\ UNCHANGED <<conn, guestVars, adb, files>>

(* PROGRESS_INTERVAL is over: the next wait, or the state when there is no
   time left. *)
ToolGoesOn(r) ==
  IF req[r].calls > 1
  THEN req' = [req EXCEPT ![r].pc = "wait", ![r].calls = @ - 1]
  ELSE Over(r)

ToolTimesOut(r) ==
  /\ At(r, "joined") /\ req[r].kind = "boot" /\ r \in waiting
  /\ Android!Leave(r) /\ ToolGoesOn(r)
  /\ UNCHANGED <<conn, guestVars, adb, files>>

(* The boot it joined is over. One that was stopped is a conflict again. *)
ToolWoken(r) ==
  /\ req[r].kind = "boot"
  /\ \/ req[r].pc \in {"woken", "refused"} /\ Over(r)
     \/ At(r, "refused") /\ Go(r, "look")
  /\ UNCHANGED <<androidVars, conn, guestVars, adb, files>>

(* GET /status after a conflict: the tool goes on during a stop only. *)
ToolLooks(r) ==
  /\ At(r, "look")
  /\ IF state = "stopping" THEN ToolGoesOn(r) ELSE Over(r)
  /\ UNCHANGED <<androidVars, conn, guestVars, adb, files>>

-----------------------------------------------------------------------------

(* What a request does by itself. *)
Acts(r) ==
  \/ Woken(r)
  \/ AdbStarts(r) \/ AdbDone(r) \/ AdbFails(r) \/ AdbCut(r) \/ AdbMissing(r)
  \/ PasteGets(r) \/ PasteSets(r) \/ PasteKey(r) \/ PasteRestores(r) \/ PasteFails(r)
  \/ ToolAsks(r) \/ ToolJoins(r) \/ ToolTimesOut(r) \/ ToolWoken(r) \/ ToolLooks(r)

Next ==
  \/ Boot \/ Ready \/ Retry \/ Halt \/ Disconnect \/ Halted \/ Close \/ DaemonRestarts
  \/ ClipboardSetLate
  \/ \E r \in Requests :
       \/ \E kind \in Kinds : Begin(r, kind)
       \/ BodySaved(r) \/ BodyRefused(r)
       \/ Enter(r) \/ Acts(r) \/ PasteLocks(r)
       \/ Answered(r) \/ AnswerDropped(r) \/ Cancel(r)

Safety == Init /\ [][Next]_vars

(* Those of Lifecycle, where only a start must end and a running Android may
   run for ever; every call has a timeout. A caller that waits for a
   stop is woken by its end, before anything can start Android and stop it
   again, and the lock goes to the one that has waited longest: both need
   strong fairness here. Clients owe nothing. *)
Fairness ==
  /\ WF_vars(state = "starting" /\ (Ready \/ Halt))
  /\ WF_vars(Disconnect) /\ WF_vars(Halted)
  /\ \A r \in Requests : WF_vars(Acts(r)) /\ SF_vars(Enter(r)) /\ SF_vars(PasteLocks(r))

Spec == Safety /\ Fairness

-----------------------------------------------------------------------------

(* A request that is over, whatever cut it off, has left no adb process, no
   place among those who wait for Android, no lock, and no file that it
   uploaded. *)
FinishedLeavesNothing ==
  \A r \in Requests : At(r, "idle") =>
    /\ r \notin adb \cup waiting /\ lock # r
    /\ r \in files => req[r].kind = "pull"

(* A pasted text reaches the guest whole, and no other request's clipboard is
   restored over it or kept as the user's: a request's text is in the
   clipboard of a guest only while that request holds the lock. A call that
   sets the clipboard and was cut off may break both, as it may come late. *)
PastesDoNotMix ==
  ~cut => /\ \A r \in Requests : At(r, "settle") /\ req[r].stub => clip = r
          /\ clip # User => lock = clip

(* The temporary file of a transfer is removed by the time the request is
   over: the caller of pull() removes what it made. *)
TransfersLeaveNothing == \A r \in Requests : At(r, "idle") => r \notin files

(* A request that waits for no client ends: no stop or crash between two
   calls, no lock and no boot holds it for ever. *)
RequestsEnd ==
  \A r \in Requests :
    ~(req[r].pc \in {"idle", "body", "answer"}) ~> req[r].pc \in {"idle", "answer"}
=============================================================================
