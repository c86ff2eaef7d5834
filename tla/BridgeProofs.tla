----------------------------- MODULE BridgeProofs -----------------------------
(***************************************************************************)
(* Proofs about Bridge, for every number of viewers and streams and every  *)
(* value of the limits.                                                    *)
(*                                                                         *)
(* Inv is inductive. Besides TypeOK and the properties it says which lane  *)
(* waits for which stream, and what a session that is over left behind.    *)
(***************************************************************************)
EXTENDS Bridge, FiniteSetTheorems, TLAPS

(* A stream is requested by the lane that waits for it, and a lane waits
   for the stream that its session holds. *)
OpeningInv ==
  /\ \A s \in Streams : st[s] \in LiveStates => owner[s] \in Viewers
  /\ \A s \in Streams : st[s] = "request" => lane[owner[s]] = "opening"
  /\ \A v \in Viewers :
       lane[v] = "opening" => cur[v] \in Streams /\ st[cur[v]] = "request" /\ owner[cur[v]] = v

(* A session in the hub has a lane; one that is over has no stream; no two
   hold the same one. *)
ClosedInv ==
  /\ \A v \in joined : lane[v] \in Running
  /\ \A v \in Viewers : lane[v] = "closed" => cur[v] = None
  /\ \A v, w \in Viewers : cur[v] = cur[w] /\ cur[v] # None => v = w

Inv == TypeOK /\ StreamLimits /\ OwnStreamOnly /\ ViewersCounted /\ OpeningInv /\ ClosedInv

-----------------------------------------------------------------------------
(* The limits *)

Active(f) == LiveIn(f) \cup ReleasingIn(f)

(* The two limits bound a set of streams that only shrinks. *)
LEMMA ShrinkingKeepsLimits ==
  ASSUME StreamLimits, LiveIn(st') \subseteq LiveIn(st), Active(st') \subseteq Active(st)
  PROVE  StreamLimits'
<1>1. IsFiniteSet(LiveIn(st)) /\ IsFiniteSet(Active(st))
  BY StreamsAssumption, FS_Subset DEF LiveIn, ReleasingIn, Active
<1>2. /\ Cardinality(LiveIn(st')) <= Cardinality(LiveIn(st))
      /\ Cardinality(Active(st')) <= Cardinality(Active(st))
      /\ Cardinality(LiveIn(st)) \in Nat /\ Cardinality(Active(st)) \in Nat
      /\ Cardinality(LiveIn(st')) \in Nat /\ Cardinality(Active(st')) \in Nat
  BY <1>1, FS_Subset, FS_CardinalityType
<1> QED
  BY <1>2, LimitsAssumption DEF StreamLimits, Live, Releasing, Active

(* A stream that create() may add to f, adds one to both. *)
LEMMA CreateKeepsLimits ==
  ASSUME NEW f \in [Streams -> StreamStates], MayCreate(f),
         NEW s \in Streams, st' = [f EXCEPT ![s] = "request"]
  PROVE  StreamLimits'
<1> DEFINE A == LiveIn(f)  R == ReleasingIn(f)
<1>1. IsFiniteSet(A) /\ IsFiniteSet(R) /\ IsFiniteSet(A \cup {s}) /\ IsFiniteSet(R \cup (A \cup {s}))
  <2>1. A \cup {s} \subseteq Streams /\ R \cup (A \cup {s}) \subseteq Streams
    BY DEF LiveIn, ReleasingIn
  <2> QED BY <2>1, StreamsAssumption, FS_Subset
<1>2. LiveIn(st') \subseteq A \cup {s} /\ Active(st') \subseteq R \cup (A \cup {s})
  BY DEF LiveIn, ReleasingIn, Active, LiveStates, ReleasingStates
<1>3. Cardinality(A) \in Nat /\ Cardinality(R) \in Nat /\ Cardinality(A) < MaxStreams /\ Cardinality(R) < MaxReleasing
  BY <1>1, FS_CardinalityType DEF MayCreate
<1>4. Cardinality(A \cup {s}) \in Nat /\ Cardinality(A \cup {s}) <= Cardinality(A) + 1
  BY <1>1, <1>3, FS_AddElement, FS_CardinalityType
<1>5. /\ Cardinality(R \cup (A \cup {s})) \in Nat
      /\ Cardinality(R \cup (A \cup {s})) <= Cardinality(R) + Cardinality(A \cup {s})
  <2>1. Cardinality(R \cap (A \cup {s})) \in Nat
    BY <1>1, FS_Intersection, FS_CardinalityType
  <2>2. Cardinality(R \cup (A \cup {s})) \in Nat
    BY <1>1, FS_CardinalityType
  <2>3. Cardinality(R \cup (A \cup {s}))
          = Cardinality(R) + Cardinality(A \cup {s}) - Cardinality(R \cap (A \cup {s}))
    BY <1>1, FS_Union
  <2> QED BY <1>3, <1>4, <2>1, <2>2, <2>3
<1>6. /\ Cardinality(LiveIn(st')) \in Nat /\ Cardinality(Active(st')) \in Nat
      /\ Cardinality(LiveIn(st')) <= Cardinality(A \cup {s})
      /\ Cardinality(Active(st')) <= Cardinality(R \cup (A \cup {s}))
  BY <1>1, <1>2, FS_Subset, FS_CardinalityType
<1> HIDE DEF A, R
<1> QED
  BY <1>3, <1>4, <1>5, <1>6, LimitsAssumption DEF StreamLimits, Live, Releasing, Active

-----------------------------------------------------------------------------
(* The number of viewers *)

(* A count is right when every session that is not closed is in the hub. *)
LEMMA CountIsRight ==
  ASSUME TypeOK', ClosedInv', joined' = joined, Count(cur')
  PROVE  ViewersCounted'
<1> SUFFICES ASSUME \A v \in Viewers : lane'[v] # "closed" => v \in joined'
             PROVE  viewers' = Cardinality({v \in Viewers : cur'[v] # None})
  BY DEF ViewersCounted
<1>1. {v \in joined : cur'[v] # None} = {v \in Viewers : cur'[v] # None}
  BY DEF TypeOK, ClosedInv
<1> QED BY <1>1 DEF Count

(* Nothing to count: no session takes or loses a stream. *)
LEMMA NothingToCount ==
  ASSUME ViewersCounted, cur' = cur, viewers' = viewers,
         (\A v \in Viewers : lane'[v] # "closed" => v \in joined')
           => (\A v \in Viewers : lane[v] # "closed" => v \in joined)
  PROVE  ViewersCounted'
BY DEF ViewersCounted

-----------------------------------------------------------------------------
(* Dropping the stream of a session *)

(* close() makes a stream that is open a closed one, and leaves the rest. *)
LEMMA DroppedShrinks ==
  ASSUME TypeOK, NEW v \in Viewers
  PROVE  /\ Dropped(v) \in [Streams -> StreamStates]
         /\ LiveIn(Dropped(v)) \subseteq LiveIn(st)
         /\ Active(Dropped(v)) \subseteq Active(st)
         /\ \A s \in Streams : s # cur[v] => Dropped(v)[s] = st[s]
         /\ cur[v] \in Streams /\ st[cur[v]] # "request" => Dropped(v)[cur[v]] \notin LiveStates
         /\ \A s \in Streams : st[s] = "none" => Dropped(v)[s] = "none"
         /\ \A s \in Streams : Dropped(v)[s] = "request" => st[s] = "request"
         /\ \A s \in Streams : st[s] = "request" => Dropped(v)[s] = "request"
BY DEF TypeOK, Dropped, LetGo, Active, LiveIn, ReleasingIn, StreamStates, LiveStates, ReleasingStates

-----------------------------------------------------------------------------
(* The actions of a session *)

(* A new session holds nothing. *)
LEMMA ConnectInv ==
  ASSUME Inv, NEW v \in Viewers, Connect(v)
  PROVE  Inv'
<1> USE DEF Connect, Running
<1>1. TypeOK'
  BY DEF Inv, TypeOK, Lanes
<1>2. StreamLimits'
  BY DEF Inv, StreamLimits, Live, Releasing, LiveIn, ReleasingIn
<1>3. OwnStreamOnly' /\ OpeningInv' /\ ClosedInv'
  BY DEF Inv, TypeOK, OwnStreamOnly, Live, LiveIn, LiveStates, OpeningInv, ClosedInv
<1>4. ViewersCounted'
  BY NothingToCount DEF Inv, TypeOK
<1> QED BY <1>1, <1>2, <1>3, <1>4 DEF Inv

(* A start drops the old stream first and stays within the limits. *)
LEMMA StartInv ==
  ASSUME Inv, NEW v \in Viewers, Start(v)
  PROVE  Inv'
<1>1. PICK s \in Streams :
        /\ st[s] = "none"
        /\ \A w \in Viewers : cur[w] # s
        /\ st' = [Dropped(v) EXCEPT ![s] = "request"]
        /\ owner' = [owner EXCEPT ![s] = v]
        /\ answered' = [answered EXCEPT ![s] = FALSE]
        /\ cur' = [cur EXCEPT ![v] = s]
  BY DEF Start
<1>2. /\ lane[v] = "idle" /\ lane' = [lane EXCEPT ![v] = "opening"]
      /\ MayCreate(Dropped(v)) /\ Count(cur') /\ joined' = joined /\ exiting' = exiting
  BY DEF Start
<1>3. TypeOK /\ OwnStreamOnly /\ OpeningInv /\ ClosedInv
  BY DEF Inv
<1>4. /\ Dropped(v) \in [Streams -> StreamStates]
      /\ \A t \in Streams : t # cur[v] => Dropped(v)[t] = st[t]
      /\ cur[v] \in Streams => Dropped(v)[cur[v]] \notin LiveStates
  BY <1>2, <1>3, StreamsAssumption, DroppedShrinks DEF OpeningInv, OwnStreamOnly, Live, LiveIn, LiveStates, TypeOK
<1>5. Cardinality({w \in joined : cur'[w] # None}) \in Nat
  <2>1. {w \in joined : cur'[w] # None} \subseteq Viewers
    BY <1>3 DEF TypeOK
  <2> QED BY <2>1, ViewersAssumption, FS_Subset, FS_CardinalityType
<1>6. TypeOK'
  BY <1>1, <1>2, <1>3, <1>4, <1>5 DEF TypeOK, Count, Lanes, Running, StreamStates, LiveStates
<1>7. StreamLimits'
  BY <1>1, <1>2, <1>4, CreateKeepsLimits
<1>8. OpeningInv' /\ ClosedInv'
  <2>1. ClosedInv'
    BY <1>1, <1>2, <1>3 DEF TypeOK, ClosedInv, Running
  <2>2. \A t \in Streams : t # s => st'[t] = Dropped(v)[t] /\ owner'[t] = owner[t]
    BY <1>1, <1>3, <1>4 DEF TypeOK
  <2>3. st'[s] = "request" /\ owner'[s] = v /\ lane'[v] = "opening" /\ cur'[v] = s
    BY <1>1, <1>2, <1>3, <1>4 DEF TypeOK
  <2>4. \A w \in Viewers : w # v => lane'[w] = lane[w] /\ cur'[w] = cur[w]
    BY <1>1, <1>2, <1>3 DEF TypeOK
  <2>5. \A t \in Streams : t # s /\ st'[t] \in LiveStates => owner'[t] \in Viewers /\ owner'[t] # v /\ st'[t] = st[t]
    BY <1>2, <1>3, <1>4, <2>2 DEF TypeOK, OpeningInv, OwnStreamOnly, Live, LiveIn, LiveStates
  <2>6. \A w \in Viewers : w # v /\ lane[w] = "opening" => cur[w] # s /\ cur[w] # cur[v]
    BY <1>1, <1>2, <1>3, StreamsAssumption DEF OpeningInv, OwnStreamOnly, Live, LiveIn, LiveStates
  <2>7. OpeningInv'
    BY <1>3, <1>4, <2>2, <2>3, <2>4, <2>5, <2>6 DEF OpeningInv, LiveStates
  <2> QED BY <2>1, <2>7
<1>9. OwnStreamOnly'
  BY <1>1, <1>2, <1>3, <1>4, <1>6
  DEF TypeOK, OpeningInv, OwnStreamOnly, Live, LiveIn, LiveStates
<1> QED BY <1>2, <1>6, <1>7, <1>8, <1>9, CountIsRight DEF Inv

(* A dropped stream is live no more, and its session is counted out. *)
LEMMA DropInv ==
  ASSUME Inv, NEW v \in Viewers, Drop(v)
  PROVE  Inv'
<1> USE DEF Drop
<1>3. TypeOK /\ StreamLimits /\ OwnStreamOnly /\ OpeningInv /\ ClosedInv
  BY DEF Inv
<1>4. /\ Dropped(v) \in [Streams -> StreamStates]
      /\ \A t \in Streams : t # cur[v] => Dropped(v)[t] = st[t]
      /\ cur[v] \in Streams => Dropped(v)[cur[v]] \notin LiveStates
      /\ LiveIn(st') \subseteq LiveIn(st) /\ Active(st') \subseteq Active(st)
  BY <1>3, DroppedShrinks DEF OpeningInv, OwnStreamOnly, Live, LiveIn, LiveStates, TypeOK
<1>5. Cardinality({w \in joined : cur'[w] # None}) \in Nat
  <2>1. {w \in joined : cur'[w] # None} \subseteq Viewers
    BY <1>3 DEF TypeOK
  <2> QED BY <2>1, ViewersAssumption, FS_Subset, FS_CardinalityType
<1>6. TypeOK'
  BY <1>3, <1>4, <1>5 DEF TypeOK, Count
<1>7. StreamLimits'
  BY <1>3, <1>4, ShrinkingKeepsLimits
<1>8. OpeningInv' /\ ClosedInv'
  BY <1>3, <1>4, <1>6
  DEF TypeOK, OpeningInv, ClosedInv, OwnStreamOnly, Live, LiveIn, LiveStates, Running
<1>9. OwnStreamOnly'
  BY <1>3, <1>4, <1>6
  DEF TypeOK, OpeningInv, OwnStreamOnly, Live, LiveIn, LiveStates
<1> QED BY <1>6, <1>7, <1>8, <1>9, CountIsRight DEF Inv

(* Passing an answer on changes the lane and the flag only. *)
LEMMA AnswerInv ==
  ASSUME Inv, NEW v \in Viewers, AnswerBegins(v) \/ AnswerEnds(v)
  PROVE  Inv'
<1>1. /\ UNCHANGED <<st, owner, cur, joined, viewers, exiting>>
      /\ lane[v] \in {"idle", "sending"}
      /\ \/ lane' = [lane EXCEPT ![v] = "sending"]
         \/ lane' = [lane EXCEPT ![v] = "idle"]
      /\ \/ answered' = answered
         \/ cur[v] # None /\ answered' = [answered EXCEPT ![cur[v]] = TRUE]
  BY DEF AnswerBegins, AnswerEnds
<1>2. TypeOK'
  BY <1>1 DEF Inv, TypeOK, Lanes, Running
<1>3. StreamLimits'
  BY <1>1 DEF Inv, StreamLimits, Live, Releasing, LiveIn, ReleasingIn
<1>4. lane' \in [Viewers -> Lanes] /\ \A w \in Viewers : w # v => lane'[w] = lane[w]
  BY <1>1, <1>2 DEF Inv, TypeOK
<1>5. lane'[v] \in {"idle", "sending"}
  BY <1>1 DEF Inv, TypeOK
<1>6. OwnStreamOnly' /\ ClosedInv'
  BY <1>1, <1>4, <1>5 DEF Inv, OwnStreamOnly, Live, LiveIn, ClosedInv, Running, TypeOK
<1>7. OpeningInv'
  BY <1>1, <1>4, <1>5 DEF Inv, OpeningInv, LiveStates
<1>8. ViewersCounted'
  BY <1>1, <1>4, <1>5, NothingToCount DEF Inv
<1> QED BY <1>2, <1>3, <1>6, <1>7, <1>8 DEF Inv

(* A session that leaves the hub makes the count stale until it is over. *)
LEMMA SessionEndsInv ==
  ASSUME Inv, NEW v \in Viewers, SessionEnds(v)
  PROVE  Inv'
<1> USE DEF SessionEnds
<1>1. TypeOK' /\ OwnStreamOnly' /\ OpeningInv' /\ ClosedInv'
  BY DEF Inv, TypeOK, OwnStreamOnly, Live, LiveIn, OpeningInv, ClosedInv
<1>2. StreamLimits'
  BY DEF Inv, StreamLimits, Live, Releasing, LiveIn, ReleasingIn
<1>3. lane'[v] # "closed" /\ v \notin joined'
  BY DEF Inv, ClosedInv, Running
<1>4. ViewersCounted'
  BY <1>3 DEF ViewersCounted
<1> QED BY <1>1, <1>2, <1>4 DEF Inv

(* A cancelled open() turns the requested stream into a late one. *)
LEMMA LaneCancelledInv ==
  ASSUME Inv, NEW v \in Viewers, LaneCancelled(v)
  PROVE  Inv'
<1> USE DEF LaneCancelled
<1>1. TypeOK /\ StreamLimits /\ OwnStreamOnly /\ OpeningInv /\ ClosedInv
  BY DEF Inv
<1>2. /\ \A w \in Viewers : w # v => lane'[w] = lane[w]
      /\ lane'[v] = "cancelled" /\ lane' \in [Viewers -> Lanes]
  BY <1>1 DEF TypeOK, Lanes
<1>3. TypeOK'
  BY <1>1, <1>2 DEF TypeOK, StreamStates, ReleasingStates
<1>4. LiveIn(st') \subseteq LiveIn(st) /\ Active(st') \subseteq Active(st)
  BY <1>1 DEF TypeOK, OpeningInv, Active, LiveIn, ReleasingIn, LiveStates, ReleasingStates
<1>5. StreamLimits'
  BY <1>1, <1>4, ShrinkingKeepsLimits
<1>6. \A s \in Streams : st'[s] \in LiveStates => st'[s] = st[s]
  BY <1>1 DEF TypeOK, LiveStates
<1>7. \A s \in Streams : st'[s] # st[s] => s = cur[v] /\ lane[v] = "opening"
  BY <1>1 DEF TypeOK
<1>8. \A s \in Streams : st'[s] = "request" => owner[s] # v
  <2> SUFFICES ASSUME NEW s \in Streams, st'[s] = "request", owner[s] = v PROVE FALSE
    OBVIOUS
  <2>1. st[s] = "request" /\ lane[v] = "opening" /\ cur[v] = s
    BY <1>1, <1>6 DEF OpeningInv, OwnStreamOnly, Live, LiveIn, LiveStates
  <2> QED BY <1>1, <2>1 DEF TypeOK
<1>9. \A w \in Viewers : w # v /\ cur[w] \in Streams /\ lane[w] # "cancelled" => st'[cur[w]] = st[cur[w]]
  BY <1>1, <1>7, StreamsAssumption DEF OwnStreamOnly, OpeningInv
<1>10. OpeningInv'
  BY <1>1, <1>2, <1>6, <1>8, <1>9 DEF OpeningInv, LiveStates
<1>11. OwnStreamOnly'
  BY <1>1, <1>2, <1>6, <1>9 DEF OwnStreamOnly, Live, LiveIn
<1>12. ClosedInv' /\ ViewersCounted'
  BY <1>1, <1>2, NothingToCount DEF Inv, ClosedInv, Running, TypeOK
<1> QED BY <1>3, <1>5, <1>10, <1>11, <1>12 DEF Inv

(* The end of a session drops its stream and counts. *)
LEMMA SessionOverInv ==
  ASSUME Inv, NEW v \in Viewers, SessionOver(v)
  PROVE  Inv'
<1> USE DEF SessionOver
<1>1. TypeOK /\ StreamLimits /\ OwnStreamOnly /\ OpeningInv /\ ClosedInv
  BY DEF Inv
<1>2. /\ \A w \in Viewers : w # v => lane'[w] = lane[w] /\ cur'[w] = cur[w]
      /\ lane'[v] = "closed" /\ cur'[v] = None /\ lane' \in [Viewers -> Lanes]
      /\ cur' \in [Viewers -> Streams \cup {None}]
  BY <1>1 DEF TypeOK, Lanes
<1>3. /\ Dropped(v) \in [Streams -> StreamStates]
      /\ LiveIn(st') \subseteq LiveIn(st) /\ Active(st') \subseteq Active(st)
      /\ \A t \in Streams : t # cur[v] => st'[t] = st[t]
      /\ \A t \in Streams : st'[t] \in LiveStates => st[t] \in LiveStates
  BY <1>1, DroppedShrinks DEF LiveIn
<1>4. cur[v] \in Streams => st'[cur[v]] \notin LiveStates
  <2> SUFFICES ASSUME cur[v] \in Streams PROVE st'[cur[v]] \notin LiveStates
    OBVIOUS
  <2>1. st[cur[v]] # "request"
    BY <1>1, StreamsAssumption DEF OpeningInv, OwnStreamOnly, ClosedInv, Live, LiveIn, LiveStates
  <2> QED BY <1>1, <2>1, DroppedShrinks
<1>5. Cardinality({w \in joined : cur'[w] # None}) \in Nat
  <2>1. {w \in joined : cur'[w] # None} \subseteq Viewers
    BY <1>1 DEF TypeOK
  <2> QED BY <2>1, ViewersAssumption, FS_Subset, FS_CardinalityType
<1>6. TypeOK'
  BY <1>1, <1>2, <1>3, <1>5 DEF TypeOK, Count
<1>7. StreamLimits'
  BY <1>1, <1>3, ShrinkingKeepsLimits
<1>8. ClosedInv'
  BY <1>1, <1>2 DEF ClosedInv, Running, TypeOK
<1>9. \A w \in Viewers : w # v /\ cur[w] \in Streams /\ lane[w] # "cancelled" => st'[cur[w]] = st[cur[w]]
  BY <1>1, <1>3, StreamsAssumption DEF ClosedInv
<1>10. OpeningInv'
  BY <1>1, <1>2, <1>3, <1>4, <1>9 DEF OpeningInv, LiveStates, OwnStreamOnly, Live, LiveIn
<1>11. OwnStreamOnly'
  BY <1>1, <1>2, <1>3, <1>4, <1>9 DEF OwnStreamOnly, OpeningInv, Live, LiveIn
<1> QED BY <1>6, <1>7, <1>8, <1>10, <1>11, CountIsRight DEF Inv

-----------------------------------------------------------------------------
(* The actions of a stream *)

(* forget() takes one stream away. *)
LEMMA ForgetShrinks ==
  ASSUME TypeOK, NEW s \in Streams, Forget(s)
  PROVE  /\ st' \in [Streams -> StreamStates] /\ owner' \in [Streams -> Viewers \cup {None}]
         /\ answered' \in [Streams -> BOOLEAN]
         /\ LiveIn(st') \subseteq LiveIn(st) /\ Active(st') \subseteq Active(st)
         /\ st'[s] = "none"
         /\ \A t \in Streams : t # s => st'[t] = st[t] /\ owner'[t] = owner[t]
<1> USE DEF TypeOK, Forget
<1>1. /\ st' \in [Streams -> StreamStates] /\ owner' \in [Streams -> Viewers \cup {None}]
      /\ answered' \in [Streams -> BOOLEAN]
  BY DEF StreamStates
<1>2. st'[s] = "none" /\ \A t \in Streams : t # s => st'[t] = st[t] /\ owner'[t] = owner[t]
  OBVIOUS
<1>3. LiveIn(st') \subseteq LiveIn(st) /\ Active(st') \subseteq Active(st)
  BY <1>2 DEF LiveIn, ReleasingIn, Active, LiveStates, ReleasingStates
<1> QED BY <1>1, <1>2, <1>3

(* The id of a stream arrives for a lane that waits, or for nobody. *)
LEMMA RequestOkInv ==
  ASSUME Inv, NEW s \in Streams, RequestOk(s)
  PROVE  Inv'
<1>1. TypeOK /\ StreamLimits /\ OwnStreamOnly /\ OpeningInv /\ ClosedInv /\ ViewersCounted
  BY DEF Inv
<1>2. UNCHANGED <<owner, answered, cur, joined, viewers, exiting>>
  BY DEF RequestOk
<1>3. CASE st[s] = "request" /\ st' = [st EXCEPT ![s] = "open"] /\ lane' = [lane EXCEPT ![owner[s]] = "idle"]
  <2> DEFINE v == owner[s]
  <2>1. v \in Viewers /\ lane[v] = "opening" /\ cur[v] = s
    BY <1>1, <1>3 DEF OpeningInv, OwnStreamOnly, Live, LiveIn, LiveStates
  <2>2. st'[s] = "open" /\ \A t \in Streams : t # s => st'[t] = st[t]
    BY <1>1, <1>3 DEF TypeOK
  <2>3. lane'[v] = "idle" /\ \A w \in Viewers : w # v => lane'[w] = lane[w]
    BY <1>1, <1>3, <2>1 DEF TypeOK
  <2>4. TypeOK'
    BY <1>1, <1>2, <1>3, <2>1 DEF TypeOK, StreamStates, LiveStates, Lanes, Running
  <2>5. LiveIn(st') \subseteq LiveIn(st) /\ Active(st') \subseteq Active(st)
    BY <1>3, <2>2 DEF LiveIn, ReleasingIn, Active, LiveStates, ReleasingStates
  <2> HIDE DEF v
  <2>6. OpeningInv'
    BY <1>1, <1>2, <1>3, <2>1, <2>2, <2>3 DEF OpeningInv, OwnStreamOnly, Live, LiveIn, LiveStates
  <2>7. OwnStreamOnly'
    BY <1>1, <1>2, <1>3, <2>1, <2>2, <2>3 DEF OwnStreamOnly, Live, LiveIn, LiveStates
  <2>8. ClosedInv'
    BY <1>1, <1>2, <2>1, <2>3 DEF ClosedInv, Running, TypeOK
  <2>9. ViewersCounted'
    BY <1>1, <1>2, <2>1, <2>3, NothingToCount
  <2> QED BY <1>1, <2>4, <2>5, <2>6, <2>7, <2>8, <2>9, ShrinkingKeepsLimits DEF Inv
<1>4. CASE st[s] = "late" /\ st' = [st EXCEPT ![s] = "answer"] /\ lane' = lane
  <2>1. st'[s] = "answer" /\ \A t \in Streams : t # s => st'[t] = st[t]
    BY <1>1, <1>4 DEF TypeOK
  <2>2. TypeOK'
    BY <1>1, <1>2, <1>4 DEF TypeOK, StreamStates, ReleasingStates
  <2>3. LiveIn(st') \subseteq LiveIn(st) /\ Active(st') \subseteq Active(st)
    BY <1>4, <2>1 DEF LiveIn, ReleasingIn, Active, LiveStates, ReleasingStates
  <2>4. OpeningInv' /\ OwnStreamOnly' /\ ClosedInv'
    BY <1>1, <1>2, <1>4, <2>1 DEF OpeningInv, OwnStreamOnly, ClosedInv, Live, LiveIn, LiveStates
  <2>5. ViewersCounted'
    BY <1>1, <1>2, <1>4, NothingToCount
  <2> QED BY <1>1, <2>2, <2>3, <2>4, <2>5, ShrinkingKeepsLimits DEF Inv
<1> QED BY <1>3, <1>4 DEF RequestOk

(* A live stream that ends: its session forgets it, in open() or idle. *)
LEMMA LiveEnds ==
  ASSUME Inv, NEW s \in Streams, st[s] \in LiveStates, Forget(s),
         cur' = [cur EXCEPT ![owner[s]] = None], Count(cur'), joined' = joined, exiting' = exiting,
         \/ lane' = lane /\ st[s] = "open"
         \/ lane' = [lane EXCEPT ![owner[s]] = "idle"] /\ st[s] = "request"
  PROVE  Inv'
<1>1. TypeOK /\ StreamLimits /\ OwnStreamOnly /\ OpeningInv /\ ClosedInv
  BY DEF Inv
<1> DEFINE o == owner[s]
<1>2. o \in Viewers /\ cur[o] = s /\ (st[s] = "request" => lane[o] = "opening")
  BY <1>1 DEF OpeningInv, OwnStreamOnly, Live, LiveIn
<1>3. cur'[o] = None /\ \A w \in Viewers : w # o => cur'[w] = cur[w] /\ cur[w] # s /\ lane'[w] = lane[w]
  BY <1>1, <1>2, StreamsAssumption DEF TypeOK, ClosedInv
<1>4. \/ lane'[o] = lane[o] /\ st[s] = "open" /\ lane[o] # "opening"
      \/ lane'[o] = "idle" /\ lane[o] = "opening"
  BY <1>1, <1>2 DEF TypeOK, OpeningInv
<1>5. lane' \in [Viewers -> Lanes] /\ cur' \in [Viewers -> Streams \cup {None}]
  BY <1>1, <1>2 DEF TypeOK, Lanes, Running
<1> HIDE DEF o
<1>6. /\ st' \in [Streams -> StreamStates] /\ owner' \in [Streams -> Viewers \cup {None}]
      /\ answered' \in [Streams -> BOOLEAN]
      /\ LiveIn(st') \subseteq LiveIn(st) /\ Active(st') \subseteq Active(st)
      /\ st'[s] = "none"
      /\ \A t \in Streams : t # s => st'[t] = st[t] /\ owner'[t] = owner[t]
  BY <1>1, ForgetShrinks
<1>7. Cardinality({w \in joined : cur'[w] # None}) \in Nat
  <2>1. {w \in joined : cur'[w] # None} \subseteq Viewers
    BY <1>1 DEF TypeOK
  <2> QED BY <2>1, ViewersAssumption, FS_Subset, FS_CardinalityType
<1>8. TypeOK'
  BY <1>1, <1>5, <1>6, <1>7 DEF TypeOK, Count
<1>9. StreamLimits'
  BY <1>1, <1>6, ShrinkingKeepsLimits
<1>10. \A t \in Streams : t # s /\ st[t] \in LiveStates => owner[t] # o
  BY <1>1, <1>2 DEF OwnStreamOnly, Live, LiveIn
<1>11. OpeningInv'
  BY <1>1, <1>2, <1>3, <1>4, <1>6, <1>10 DEF OpeningInv, LiveStates
<1>12. OwnStreamOnly'
  BY <1>1, <1>2, <1>3, <1>4, <1>6, <1>10 DEF OpeningInv, OwnStreamOnly, Live, LiveIn, LiveStates
<1>13. ClosedInv'
  BY <1>1, <1>2, <1>3, <1>4 DEF ClosedInv, Running, TypeOK
<1> QED BY <1>8, <1>9, <1>11, <1>12, <1>13, CountIsRight DEF Inv

(* A stream without a viewer that ends, or takes a step towards its end. *)
LEMMA LeftEnds ==
  ASSUME Inv, NEW s \in Streams, UNCHANGED <<cur, joined, lane, viewers>>, exiting' = exiting,
         st[s] \in ReleasingStates,
         \/ Forget(s)
         \/ /\ st' = [st EXCEPT ![s] = "wait"] \/ st' = [st EXCEPT ![s] = "stuck"]
            /\ UNCHANGED <<owner, answered>>
  PROVE  Inv'
<1>1. TypeOK /\ StreamLimits /\ OwnStreamOnly /\ OpeningInv /\ ClosedInv /\ ViewersCounted
  BY DEF Inv
<1>2. /\ st' \in [Streams -> StreamStates] /\ owner' \in [Streams -> Viewers \cup {None}]
      /\ answered' \in [Streams -> BOOLEAN]
      /\ LiveIn(st') \subseteq LiveIn(st) /\ Active(st') \subseteq Active(st)
      /\ st'[s] \notin LiveStates
      /\ \A t \in Streams : t # s => st'[t] = st[t] /\ owner'[t] = owner[t]
  <2>1. CASE Forget(s)
    BY <1>1, <2>1, ForgetShrinks DEF LiveStates
  <2>2. CASE /\ st' = [st EXCEPT ![s] = "wait"] \/ st' = [st EXCEPT ![s] = "stuck"]
             /\ UNCHANGED <<owner, answered>>
    BY <1>1, <2>2 DEF TypeOK, StreamStates, LiveIn, ReleasingIn, Active, LiveStates, ReleasingStates
  <2> QED BY <2>1, <2>2
<1>3. st[s] \notin LiveStates
  BY DEF LiveStates, ReleasingStates
<1>4. TypeOK'
  BY <1>1, <1>2 DEF TypeOK
<1>5. OwnStreamOnly'
  BY <1>1, <1>2, <1>3 DEF OwnStreamOnly, Live, LiveIn
<1>6. OpeningInv' /\ ClosedInv'
  BY <1>1, <1>2, <1>3 DEF OpeningInv, ClosedInv, LiveStates
<1> QED BY <1>1, <1>2, <1>4, <1>5, <1>6, ShrinkingKeepsLimits, NothingToCount DEF Inv

-----------------------------------------------------------------------------
(* The theorems *)

(* The bridge closes after the last session. *)
ExitInv == exiting => \A v \in Viewers : lane[v] = "closed"

(* Inv with ExitInv holds initially. *)
LEMMA InitInv ==
  Init => Inv /\ ExitInv
<1> SUFFICES ASSUME Init PROVE Inv /\ ExitInv
  OBVIOUS
<1> USE DEF Init
<1>1. TypeOK /\ OpeningInv /\ ClosedInv /\ ExitInv
  BY DEF TypeOK, OpeningInv, ClosedInv, ExitInv, StreamStates, LiveStates, Lanes
<1>2. Live = {} /\ Releasing = {} /\ {v \in Viewers : cur[v] # None} = {}
  BY DEF Live, Releasing, LiveIn, ReleasingIn, LiveStates, ReleasingStates
<1>3. StreamLimits /\ ViewersCounted
  BY <1>2, FS_EmptySet, LimitsAssumption DEF StreamLimits, ViewersCounted
<1>4. OwnStreamOnly
  BY <1>2 DEF OwnStreamOnly
<1> QED BY <1>1, <1>3, <1>4 DEF Inv

(* Every step keeps Inv and ExitInv. *)
LEMMA StepInv ==
  Inv /\ ExitInv /\ [Next]_vars => Inv' /\ ExitInv'
<1> SUFFICES ASSUME Inv, ExitInv, [Next]_vars PROVE Inv' /\ ExitInv'
  OBVIOUS
<1>1. ASSUME NEW v \in Viewers, Connect(v) PROVE Inv' /\ ExitInv'
  BY <1>1, ConnectInv DEF Connect, ExitInv
<1>2. ASSUME NEW v \in Viewers, Start(v) PROVE Inv' /\ ExitInv'
  BY <1>2, StartInv DEF Start, ExitInv
<1>3. ASSUME NEW v \in Viewers, Drop(v) PROVE Inv' /\ ExitInv'
  BY <1>3, DropInv DEF Drop, ExitInv
<1>4. ASSUME NEW v \in Viewers, AnswerBegins(v) \/ AnswerEnds(v) PROVE Inv' /\ ExitInv'
  BY <1>4, AnswerInv DEF AnswerBegins, AnswerEnds, ExitInv
<1>5. ASSUME NEW v \in Viewers, SessionEnds(v) PROVE Inv' /\ ExitInv'
  BY <1>5, SessionEndsInv DEF SessionEnds, ExitInv
<1>6. ASSUME NEW v \in Viewers, LaneCancelled(v) PROVE Inv' /\ ExitInv'
  BY <1>6, LaneCancelledInv DEF LaneCancelled, ExitInv, Running
<1>7. ASSUME NEW v \in Viewers, SessionOver(v) PROVE Inv' /\ ExitInv'
  BY <1>7, SessionOverInv DEF SessionOver, ExitInv
<1>8. ASSUME NEW s \in Streams, RequestOk(s) PROVE Inv' /\ ExitInv'
  <2>1. ExitInv'
    BY <1>8 DEF RequestOk, ExitInv, Inv, TypeOK, OpeningInv, LiveStates
  <2> QED BY <1>8, <2>1, RequestOkInv
<1>9. ASSUME NEW s \in Streams, RequestFails(s) PROVE Inv' /\ ExitInv'
  <2>1. ExitInv'
    BY <1>9 DEF RequestFails, ExitInv, Inv, TypeOK, OpeningInv, LiveStates
  <2>2. Inv'
    BY <1>9, LiveEnds, LeftEnds DEF RequestFails, LiveStates, ReleasingStates
  <2> QED BY <2>1, <2>2
<1>10. ASSUME NEW s \in Streams, PumpEnds(s) PROVE Inv' /\ ExitInv'
  <2>1. CASE st[s] = "open"
    BY <1>10, <2>1, LiveEnds DEF PumpEnds, LiveStates, ExitInv
  <2>2. CASE st[s] # "open"
    BY <1>10, <2>2, LeftEnds DEF PumpEnds, ReleasingStates, ExitInv
  <2> QED BY <2>1, <2>2
<1>11. ASSUME NEW s \in Streams, LetGoStep(s) PROVE Inv' /\ ExitInv'
  BY <1>11, LeftEnds DEF LetGoStep, ReleasingStates, ExitInv
<1>12. ASSUME NEW s \in Streams, AClose(s) PROVE Inv' /\ ExitInv'
  <2>1. st[s] \notin LiveStates
    BY <1>12, StreamsAssumption DEF AClose, ExitInv, Inv, OpeningInv, OwnStreamOnly, ClosedInv, Live, LiveIn
  <2>2. st[s] \in ReleasingStates
    BY <1>12, <2>1 DEF AClose, Inv, TypeOK, StreamStates
  <2> QED BY <1>12, <2>2, LeftEnds DEF AClose, ExitInv
<1>13. ASSUME Exit PROVE Inv' /\ ExitInv'
  <2>1. TypeOK' /\ OwnStreamOnly' /\ OpeningInv' /\ ClosedInv' /\ ExitInv'
    BY <1>13 DEF Exit, Inv, TypeOK, OwnStreamOnly, Live, LiveIn, OpeningInv, ClosedInv, ExitInv
  <2>2. StreamLimits' /\ ViewersCounted'
    BY <1>13 DEF Exit, Inv, StreamLimits, Live, Releasing, LiveIn, ReleasingIn, ViewersCounted
  <2> QED BY <2>1, <2>2 DEF Inv
<1>14. ASSUME UNCHANGED vars PROVE Inv' /\ ExitInv'
  <2>1. TypeOK' /\ OwnStreamOnly' /\ OpeningInv' /\ ClosedInv' /\ ExitInv'
    BY <1>14 DEF vars, Inv, TypeOK, OwnStreamOnly, Live, LiveIn, OpeningInv, ClosedInv, ExitInv
  <2>2. StreamLimits' /\ ViewersCounted'
    BY <1>14 DEF vars, Inv, StreamLimits, Live, Releasing, LiveIn, ReleasingIn, ViewersCounted
  <2> QED BY <2>1, <2>2 DEF Inv
<1> QED
  BY <1>1, <1>2, <1>3, <1>4, <1>5, <1>6, <1>7, <1>8, <1>9, <1>10, <1>11, <1>12, <1>13, <1>14
  DEF Next, Exited

(* Inv is an invariant. *)
LEMMA InvAlways == Safety => []Inv
<1>1. Safety => [](Inv /\ ExitInv)
  BY InitInv, StepInv, PTL DEF Safety
<1> QED BY <1>1, PTL

(* However viewers come, go and replace their streams, at most MAX_STREAMS
   have one, and the emulator serves at most MAX_STREAMS + MAX_RELEASING - 1. *)
THEOREM LimitsHold == Safety => []StreamLimits
<1>1. Inv => StreamLimits
  BY DEF Inv
<1> QED BY <1>1, InvAlways, PTL

(* The end of a stream reaches only the session that holds this stream, and
   no session that is served holds a stream that is over. *)
THEOREM SessionsOwnStreams == Safety => []OwnStreamOnly
<1>1. Inv => OwnStreamOnly
  BY DEF Inv
<1> QED BY <1>1, InvAlways, PTL

(* The number of viewers in the status is the number of sessions that hold
   a stream, whenever no session is closing. *)
THEOREM ViewersAreCounted == Safety => []ViewersCounted
<1>1. Inv => ViewersCounted
  BY DEF Inv
<1> QED BY <1>1, InvAlways, PTL

(* Every variable of the bridge and its sessions keeps its type. *)
THEOREM BridgeTypes == Safety => []TypeOK
<1>1. Inv => TypeOK
  BY DEF Inv
<1> QED BY <1>1, InvAlways, PTL
=============================================================================
