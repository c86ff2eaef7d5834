-------------------------------- MODULE Bridge --------------------------------
(***************************************************************************)
(* The WebRTC streams of the viewers: Bridge and Stream of                 *)
(* appliance/webrtc.py, and the part of a Session of appliance/session.py  *)
(* that starts, replaces and drops a stream.                               *)
(*                                                                         *)
(* The control lane of a session runs its jobs one after another, so a     *)
(* session waits in at most one of them. The receiver of a stream, the     *)
(* task that lets it go and the sessions interleave at their awaits.       *)
(***************************************************************************)
EXTENDS Integers, FiniteSets

CONSTANTS
  Viewers,       \* the sessions, each connecting again after it closed
  Streams,       \* bound: the Stream objects that exist at the same time
  None,          \* no stream, no session
  MaxStreams,    \* MAX_STREAMS
  MaxReleasing   \* MAX_RELEASING

ASSUME ViewersAssumption == IsFiniteSet(Viewers)
ASSUME StreamsAssumption == IsFiniteSet(Streams) /\ None \notin Streams \cup Viewers
ASSUME LimitsAssumption == MaxStreams \in Nat \ {0} /\ MaxReleasing \in Nat \ {0}

VARIABLES
  st,         \* where each stream is; "none": not in bridge._streams
  owner,      \* the session that on_end of a stream tells
  answered,   \* stream._answered
  cur,        \* session._stream
  joined,     \* hub.sessions
  lane,       \* what the control lane of a session does
  viewers,    \* sup.viewers
  exiting     \* the daemon is closing the bridge

vars == <<st, owner, answered, cur, joined, lane, viewers, exiting>>

(* A stream with a viewer: open() waits for the emulator's id, or the
   receiver runs. A stream whose viewer left: _let_go_late waits for the id;
   _let_go sends an answer for nobody, waits STUCK_AFTER for the end, and
   after the dead candidate RELEASE_TIMEOUT more. *)
LiveStates == {"request", "open"}
ReleasingStates == {"late", "answer", "wait", "stuck"}
StreamStates == {"none"} \cup LiveStates \cup ReleasingStates

(* The lane of a connection is idle, in open() or in send(); it runs on after
   the session left hub.sessions until it is cancelled. *)
Running == {"idle", "opening", "sending"}
Lanes == {"closed", "cancelled"} \cup Running

LiveIn(f) == {s \in Streams : f[s] \in LiveStates}
ReleasingIn(f) == {s \in Streams : f[s] \in ReleasingStates}

TypeOK ==
  /\ st \in [Streams -> StreamStates]
  /\ owner \in [Streams -> Viewers \cup {None}]
  /\ answered \in [Streams -> BOOLEAN]
  /\ cur \in [Viewers -> Streams \cup {None}]
  /\ joined \subseteq Viewers
  /\ lane \in [Viewers -> Lanes]
  /\ viewers \in Nat
  /\ exiting \in BOOLEAN

Init ==
  /\ st = [s \in Streams |-> "none"]
  /\ owner = [s \in Streams |-> None]
  /\ answered = [s \in Streams |-> FALSE]
  /\ cur = [v \in Viewers |-> None]
  /\ joined = {}
  /\ lane = [v \in Viewers |-> "closed"]
  /\ viewers = 0
  /\ exiting = FALSE

-----------------------------------------------------------------------------
(* Shared steps *)

(* hub.count_viewers() *)
Count(c) == viewers' = Cardinality({v \in joined : c[v] # None})

(* close() of an open stream starts _let_go. *)
LetGo(s) == IF answered[s] THEN "wait" ELSE "answer"

(* bridge.forget() *)
Forget(s) ==
  /\ st' = [st EXCEPT ![s] = "none"]
  /\ owner' = [owner EXCEPT ![s] = None]
  /\ answered' = [answered EXCEPT ![s] = FALSE]

(* _drop_stream(): close() does nothing to a stream that is not live. *)
Dropped(v) ==
  [s \in Streams |-> IF s = cur[v] /\ st[s] = "open" THEN LetGo(s) ELSE st[s]]

-----------------------------------------------------------------------------
(* A session *)

Connect(v) ==
  /\ lane[v] = "closed"
  /\ ~exiting
  /\ lane' = [lane EXCEPT ![v] = "idle"]
  /\ joined' = joined \cup {v}
  /\ UNCHANGED <<st, owner, answered, cur, viewers, exiting>>

\* Mutant: the limit of closed streams is not checked.
MayCreate_LiveOnly(f) == Cardinality(LiveIn(f)) < MaxStreams

(* bridge.create() *)
MayCreate(f) ==
  /\ Cardinality(LiveIn(f)) < MaxStreams
  /\ Cardinality(ReleasingIn(f)) < MaxReleasing

(* _start_stream: the stream that runs is dropped first, and counts as a
   closed one already. *)
Start(v) ==
  /\ lane[v] = "idle"
  /\ MayCreate(Dropped(v))
  /\ \E s \in Streams :
       /\ st[s] = "none"
       /\ \A w \in Viewers : cur[w] # s
       /\ st' = [Dropped(v) EXCEPT ![s] = "request"]
       /\ owner' = [owner EXCEPT ![s] = v]
       /\ answered' = [answered EXCEPT ![s] = FALSE]
       /\ cur' = [cur EXCEPT ![v] = s]
  /\ lane' = [lane EXCEPT ![v] = "opening"]
  /\ Count(cur')
  /\ UNCHANGED <<joined, exiting>>

(* A stop, a stopped Android, or a start that is refused: by a limit, or
   because Android or the TURN server does not run. *)
Drop(v) ==
  /\ lane[v] = "idle"
  /\ cur[v] # None
  /\ st' = Dropped(v)
  /\ cur' = [cur EXCEPT ![v] = None]
  /\ Count(cur')
  /\ UNCHANGED <<owner, answered, joined, lane, exiting>>

(* The viewer's answer, passed on by send(): the flag follows the call. *)
AnswerBegins(v) ==
  /\ lane[v] = "idle"
  /\ cur[v] # None
  /\ lane' = [lane EXCEPT ![v] = "sending"]
  /\ UNCHANGED <<st, owner, answered, cur, joined, viewers, exiting>>

AnswerEnds(v) ==
  /\ lane[v] = "sending"
  /\ lane' = [lane EXCEPT ![v] = "idle"]
  /\ \/ UNCHANGED answered
     \/ /\ cur[v] # None
        /\ answered' = [answered EXCEPT ![cur[v]] = TRUE]
  /\ UNCHANGED <<st, owner, cur, joined, viewers, exiting>>

(* The connection ends. The session leaves the hub; its lane runs on while
   _close waits for the reader and the writer. *)
SessionEnds(v) ==
  /\ v \in joined
  /\ joined' = joined \ {v}
  /\ UNCHANGED <<st, owner, answered, cur, lane, viewers, exiting>>

(* The lane is cancelled in whatever it waits for. *)
LaneCancelled(v) ==
  /\ lane[v] \in Running
  /\ v \notin joined
  /\ lane' = [lane EXCEPT ![v] = "cancelled"]
  /\ st' = IF lane[v] = "opening" THEN [st EXCEPT ![cur[v]] = "late"] ELSE st
  /\ UNCHANGED <<owner, answered, cur, joined, viewers, exiting>>

\* Mutant: the viewers are not counted when a session is over.
SessionOver_Uncounted(v) ==
  /\ lane[v] = "cancelled"
  /\ lane' = [lane EXCEPT ![v] = "closed"]
  /\ st' = Dropped(v)
  /\ cur' = [cur EXCEPT ![v] = None]
  /\ UNCHANGED <<owner, answered, joined, viewers, exiting>>

SessionOver(v) ==
  /\ lane[v] = "cancelled"
  /\ lane' = [lane EXCEPT ![v] = "closed"]
  /\ st' = Dropped(v)
  /\ cur' = [cur EXCEPT ![v] = None]
  /\ Count(cur')
  /\ UNCHANGED <<owner, answered, joined, exiting>>

-----------------------------------------------------------------------------
(* A stream and the emulator *)

(* The emulator answers the request with the id of the stream. *)
RequestOk(s) ==
  /\ \/ /\ st[s] = "request"
        /\ st' = [st EXCEPT ![s] = "open"]
        /\ lane' = [lane EXCEPT ![owner[s]] = "idle"]
     \/ /\ st[s] = "late"
        /\ st' = [st EXCEPT ![s] = "answer"]
        /\ UNCHANGED lane
  /\ UNCHANGED <<owner, answered, cur, joined, viewers, exiting>>

(* It refuses, or the call times out. *)
RequestFails(s) ==
  /\ \/ /\ st[s] = "request"
        /\ cur' = [cur EXCEPT ![owner[s]] = None]
        /\ lane' = [lane EXCEPT ![owner[s]] = "idle"]
        /\ Count(cur')
     \/ /\ st[s] = "late"
        /\ UNCHANGED <<cur, lane, viewers>>
  /\ Forget(s)
  /\ UNCHANGED <<joined, exiting>>

\* Mutant: on_end is called for a stream that was closed before.
PumpEnds_AlwaysTells(s) ==
  /\ st[s] \in {"open", "answer", "wait", "stuck"}
  /\ Forget(s)
  /\ cur' = [cur EXCEPT ![owner[s]] = None]
  /\ Count(cur')
  /\ UNCHANGED <<joined, lane, exiting>>

\* Mutant: the number of viewers counts down when a stream ends.
PumpEnds_CountsDown(s) ==
  /\ st[s] \in {"open", "answer", "wait", "stuck"}
  /\ Forget(s)
  /\ IF st[s] = "open"
     THEN cur' = [cur EXCEPT ![owner[s]] = None] /\ viewers' = viewers - 1
     ELSE UNCHANGED <<cur, viewers>>
  /\ UNCHANGED <<joined, lane, exiting>>

(* _receive ends: a bye, the end of the gRPC stream or an error. Only a
   stream that is still live tells its session. *)
PumpEnds(s) ==
  /\ st[s] \in {"open", "answer", "wait", "stuck"}
  /\ Forget(s)
  /\ IF st[s] = "open"
     THEN cur' = [cur EXCEPT ![owner[s]] = None] /\ Count(cur')
     ELSE UNCHANGED <<cur, viewers>>
  /\ UNCHANGED <<joined, lane, exiting>>

\* Mutant: a stream that the emulator never ends is kept.
LetGoStep_Waits(s) ==
  /\ \/ st[s] = "answer" /\ st' = [st EXCEPT ![s] = "wait"]
     \/ st[s] = "wait" /\ st' = [st EXCEPT ![s] = "stuck"]
  /\ UNCHANGED <<owner, answered, cur, joined, lane, viewers, exiting>>

(* _let_go: the throwaway answer is sent or there is no offer; STUCK_AFTER
   passes and the dead candidate is sent; RELEASE_TIMEOUT passes. A gRPC
   error on the way forgets the stream at once. *)
LetGoStep(s) ==
  /\ \/ /\ \/ st[s] = "answer" /\ st' = [st EXCEPT ![s] = "wait"]
           \/ st[s] = "wait" /\ st' = [st EXCEPT ![s] = "stuck"]
        /\ UNCHANGED <<owner, answered>>
     \/ st[s] \in {"answer", "wait", "stuck"} /\ Forget(s)
  /\ UNCHANGED <<cur, joined, lane, viewers, exiting>>

-----------------------------------------------------------------------------
(* The end of the daemon: the sessions are over, bridge.aclose() follows. *)

Exit ==
  /\ ~exiting
  /\ \A v \in Viewers : lane[v] = "closed"
  /\ exiting' = TRUE
  /\ UNCHANGED <<st, owner, answered, cur, joined, lane, viewers>>

AClose(s) ==
  /\ exiting
  /\ st[s] # "none"
  /\ Forget(s)
  /\ UNCHANGED <<cur, joined, lane, viewers, exiting>>

Exited ==
  /\ exiting
  /\ \A s \in Streams : st[s] = "none"
  /\ UNCHANGED vars

Next ==
  \/ \E v \in Viewers :
       \/ Connect(v) \/ Start(v) \/ Drop(v) \/ AnswerBegins(v) \/ AnswerEnds(v)
       \/ SessionEnds(v) \/ LaneCancelled(v) \/ SessionOver(v)
  \/ \E s \in Streams :
       RequestOk(s) \/ RequestFails(s) \/ PumpEnds(s) \/ LetGoStep(s) \/ AClose(s)
  \/ Exit \/ Exited

Safety == Init /\ [][Next]_vars

(* Every call to the emulator has a deadline (CALL_TIMEOUT), every wait of
   _let_go a timeout, and a closing session waits for cancelled tasks only.
   Nothing is assumed of the emulator's bye. *)
Fairness ==
  /\ \A s \in Streams : /\ WF_vars(RequestOk(s) \/ RequestFails(s))
                        /\ WF_vars(LetGoStep(s))
  /\ \A v \in Viewers : WF_vars(LaneCancelled(v)) /\ WF_vars(SessionOver(v))

Spec == Safety /\ Fairness

-----------------------------------------------------------------------------
(* Properties *)

Live == LiveIn(st)
Releasing == ReleasingIn(st)

(* At most MAX_STREAMS viewers have a stream, and the emulator never serves
   more streams of the bridge than both limits allow together, however
   viewers come, replace their streams and go. *)
StreamLimits ==
  /\ Cardinality(Live) <= MaxStreams
  /\ Cardinality(Live \cup Releasing) <= MaxStreams + MaxReleasing - 1

(* A session and its stream agree: a live stream is the one its session
   holds, and a session holds a live one, except after its lane was cancelled. So a
   message or the end of an old stream never reaches a viewer that has a
   new one, and nobody holds a stream that is over. *)
OwnStreamOnly ==
  /\ \A s \in Live : cur[owner[s]] = s
  /\ \A v \in Viewers :
       cur[v] # None /\ lane[v] # "cancelled" => cur[v] \in Live /\ owner[cur[v]] = v

(* The number of viewers in the status is right, whichever way streams and
   sessions end, once no session is in the middle of closing. *)
ViewersCounted ==
  (\A v \in Viewers : lane[v] # "closed" => v \in joined)
    => viewers = Cardinality({v \in Viewers : cur[v] # None})

(* Every stream that its viewer left is let go, even if the emulator never
   ends it or the viewer left before the emulator had created it. *)
LeftStreamsGo ==
  \A s \in Streams : st[s] \in ReleasingStates ~> st[s] = "none"
===============================================================================
