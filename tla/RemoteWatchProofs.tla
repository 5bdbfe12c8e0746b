-------------------------- MODULE RemoteWatchProofs --------------------------
(***************************************************************************)
(* Theorems about RemoteWatch, for all sets of targets and all bounds:      *)
(* types, the assertions of the watch half, what ties the online state and  *)
(* its timer to the stream, and, when no target is rejected, that client    *)
(* and backend agree on the targets and on the answers still to come.       *)
(***************************************************************************)
EXTENDS RemoteWatch, FiniteSetTheorems, SequenceTheorems, TLAPS

\* The inductive invariant, besides the types: what ties the tracker, the stream, its
\* timers and callbacks, the aggregator and the call to each other.
WatchInv ==
    /\ asserted
    /\ tracker.state = "Online" =>
         stream.state = "Open" /\ tracker.failures = 0 /\ ~tracker.timer
    /\ tracker.timer => tracker.state = "Unknown" /\ Started(stream)
    /\ stream.idle => stream.state = "Open" /\ listenTargets = {}
    /\ stream.backoff <=> stream.state = "Backoff"
    /\ Started(stream) => networkEnabled /\ aggregator.live
    /\ networkEnabled /\ listenTargets # {} => Started(stream)
    /\ rpc.status = "none" => rpc.responses = <<>>
    /\ rpc.status # "none" => stream.state = "Open"
    /\ \A c \in tokens : /\ c <= stream.closeCount
                         /\ c = stream.closeCount => stream.state = "Starting"

IInv == TypeOK /\ WatchInv

-----------------------------------------------------------------------------
(* Lemmas about the operators                                              *)

\* Stopping, failing, starting, restarting and opening a stream leaves a stream.
LEMMA StreamTypes ==
    ASSUME NEW s \in WatchStreamType
    PROVE  /\ Stopped(s) \in WatchStreamType
           /\ Failed(s) \in WatchStreamType
           /\ StartStream(s) \in WatchStreamType
           /\ Restarted(s) \in WatchStreamType
           /\ Opened(s) \in WatchStreamType
PROOF
<1>1. s.closeCount + 1 \in Nat
  <2>1. s.closeCount \in Nat
    BY DEF WatchStreamType
  <2> QED
    BY <2>1
<1>2. Stopped(s) \in WatchStreamType
  BY <1>1 DEF WatchStreamType, StreamStates, Stopped
<1>3. Failed(s) \in WatchStreamType
  BY <1>1 DEF WatchStreamType, StreamStates, Failed
<1>4. StartStream(s) \in WatchStreamType
  BY DEF WatchStreamType, StreamStates, StartStream
<1>5. Restarted(s) \in WatchStreamType /\ Opened(s) \in WatchStreamType
  BY DEF WatchStreamType, StreamStates, Restarted, Opened
<1> QED
  BY <1>2, <1>3, <1>4, <1>5

\* So do the tracker's operations with a tracker.
LEMMA TrackerTypes ==
    ASSUME NEW k \in TrackerType
    PROVE  /\ \A new \in OnlineStates : UpdateState(k, new) \in TrackerType
           /\ HandleWatchStreamStart(k) \in TrackerType
           /\ HandleWatchStreamFailure(k) \in TrackerType
PROOF
<1>1. \A new \in OnlineStates : UpdateState(k, new) \in TrackerType
  BY DEF UpdateState, TrackerType
<1>2. HandleWatchStreamStart(k) \in TrackerType
  BY DEF HandleWatchStreamStart, TrackerType, OnlineStates
<1>3. HandleWatchStreamFailure(k) \in TrackerType
  <2>1. k.failures + 1 \in Nat
    <3>1. k.failures \in Nat
      BY DEF TrackerType
    <3> QED
      BY <3>1
  <2> QED
    BY <2>1 DEF HandleWatchStreamFailure, TrackerType, OnlineStates
<1> QED
  BY <1>1, <1>2, <1>3

\* A new target state is one.
LEMMA NewTargetType == NewTarget \in [outstanding : Int, current : BOOLEAN]
PROOF
  BY DEF NewTarget

\* And the operations on one target's state with an aggregator.
LEMMA TargetStateTypes ==
    ASSUME NEW a \in AggregatorType, NEW t \in Targets
    PROVE  /\ RecordPendingTargetRequest(a, t) \in AggregatorType
           /\ RecordTargetResponse(a, t) \in AggregatorType
           /\ RemoveTarget(a, t) \in AggregatorType
           /\ RecordPendingTargetRequest(a, t).live = a.live
           /\ RecordTargetResponse(a, t).live = a.live
           /\ RemoveTarget(a, t).live = a.live
PROOF
<1>1. /\ a.states[t].outstanding + 1 \in Int
      /\ a.states[t].outstanding - 1 \in Int
  <2>1. a.states[t].outstanding \in Int
    BY DEF AggregatorType
  <2> QED
    BY <2>1
<1>2. /\ RecordPendingTargetRequest(a, t) \in AggregatorType
      /\ RecordPendingTargetRequest(a, t).live = a.live
  BY <1>1 DEF AggregatorType, RecordPendingTargetRequest
<1>3. /\ RecordTargetResponse(a, t) \in AggregatorType
      /\ RecordTargetResponse(a, t).live = a.live
  BY <1>1 DEF AggregatorType, RecordTargetResponse
<1>4. RemoveTarget(a, t) \in AggregatorType /\ RemoveTarget(a, t).live = a.live
  BY NewTargetType DEF AggregatorType, RemoveTarget
<1> QED
  BY <1>2, <1>3, <1>4

\* A new aggregator is one, and so is what stands for the null pointer.
LEMMA NewAggregatorType ==
    /\ NewAggregator \in AggregatorType /\ NewAggregator.live
    /\ NoAggregator \in AggregatorType
PROOF
<1>1. [t \in Targets |-> NewTarget] \in
        [Targets -> [outstanding : Int, current : BOOLEAN]]
  BY NewTargetType
<1>2. NewAggregator \in AggregatorType /\ NewAggregator.live
  BY <1>1 DEF AggregatorType, NewAggregator
<1>3. NoAggregator \in AggregatorType
  BY <1>2 DEF AggregatorType, NoAggregator
<1> QED
  BY <1>2, <1>3

\* Handling a change of a target keeps the aggregator.
LEMMA ChangeTypes ==
    ASSUME NEW a \in AggregatorType, NEW m \in ChangeType, m.target \in Targets
    PROVE  /\ m.kind \in {"added", "removed", "current", "reset"} =>
                /\ HandleTargetChange(a, m) \in AggregatorType
                /\ HandleTargetChange(a, m).live = a.live
           /\ HandleExistenceFilter(a, m) \in AggregatorType
           /\ HandleExistenceFilter(a, m).live = a.live
PROOF
<1>1. /\ RecordTargetResponse(a, m.target) \in AggregatorType
      /\ RecordTargetResponse(a, m.target).live = a.live
      /\ RemoveTarget(a, m.target) \in AggregatorType
      /\ RemoveTarget(a, m.target).live = a.live
  BY TargetStateTypes
<1>2. /\ RemoveTarget(RecordTargetResponse(a, m.target), m.target)
           \in AggregatorType
      /\ RemoveTarget(RecordTargetResponse(a, m.target), m.target).live = a.live
  BY <1>1, TargetStateTypes
<1>3. /\ [a EXCEPT !.states[m.target].current = TRUE] \in AggregatorType
      /\ [a EXCEPT !.states[m.target].current = TRUE].live = a.live
  BY ZenonT(40) DEF AggregatorType
<1>4. ASSUME m.kind \in {"added", "removed", "current", "reset"}
      PROVE  /\ HandleTargetChange(a, m) \in AggregatorType
             /\ HandleTargetChange(a, m).live = a.live
  <2>1. CASE m.kind = "added"
    BY <2>1, <1>1 DEF HandleTargetChange
  <2>2. CASE m.kind = "removed"
    BY <2>2, <1>1, <1>2 DEF HandleTargetChange
  <2>3. CASE m.kind = "current"
    BY <2>3, <1>3 DEF HandleTargetChange
  <2>4. CASE m.kind = "reset"
    BY <2>4, <1>1 DEF HandleTargetChange
  <2> QED
    BY <1>4, <2>1, <2>2, <2>3, <2>4
<1>5. /\ HandleExistenceFilter(a, m) \in AggregatorType
      /\ HandleExistenceFilter(a, m).live = a.live
  <2> DEFINE r == RemoveTarget(a, m.target)
  <2>1. r \in AggregatorType /\ r.live = a.live
    BY <1>1
  <2> HIDE DEF r
  <2>2. /\ [r EXCEPT !.resets = @ \cup {m.target}] \in AggregatorType
        /\ [r EXCEPT !.resets = @ \cup {m.target}].live = a.live
    BY <2>1 DEF AggregatorType
  <2> QED
    BY <2>1, <2>2 DEF HandleExistenceFilter, r
<1> QED
  BY <1>4, <1>5

\* Counting one more answer for some targets, or two.
LEMMA RecordTypes ==
    ASSUME NEW a \in AggregatorType, NEW R \in SUBSET Targets
    PROVE  /\ RecordAllPending(a) \in AggregatorType
           /\ RecordAllPending(a).live = a.live
           /\ RecordRestart(a, R) \in AggregatorType
           /\ RecordRestart(a, R).live = a.live
PROOF
<1>1. \A t \in Targets : /\ a.states[t].outstanding + 1 \in Int
                         /\ a.states[t].outstanding + 2 \in Int
  <2>1. \A t \in Targets : a.states[t].outstanding \in Int
    BY DEF AggregatorType
  <2> QED
    BY <2>1
<1>2. /\ RecordAllPending(a) \in AggregatorType
      /\ RecordAllPending(a).live = a.live
  BY <1>1 DEF AggregatorType, RecordAllPending
<1>3. /\ RecordRestart(a, R) \in AggregatorType
      /\ RecordRestart(a, R).live = a.live
  BY <1>1 DEF AggregatorType, RecordRestart
<1> QED
  BY <1>2, <1>3

-----------------------------------------------------------------------------
(* Lemmas about the call                                                   *)

\* No call is a call.
LEMMA NoCallType ==
    NoCall \in CallType /\ NoCall.status = "none" /\ NoCall.responses = <<>>
PROOF
<1>1. <<>> \in Seq(Request) /\ <<>> \in Seq(ChangeType)
  BY EmptySeq
<1>2. [t \in Targets |-> "no"] \in [Targets -> {"no", "added", "current"}]
  OBVIOUS
<1> QED
  BY <1>1, <1>2 DEF NoCall, CallType

\* Requests for the targets of a set, in some order.
LEMMA RequestTypes ==
    ASSUME NEW R \in SUBSET Targets, NEW order \in SetToSeqs(R)
    PROVE  /\ WatchAll(order) \in Seq(Request)
           /\ RestartRequests(order) \in Seq(Request)
PROOF
<1>1. Cardinality(R) \in Nat
  BY TargetsAssumption, FS_Subset, FS_CardinalityType
<1> DEFINE n == Cardinality(R)
<1>2. order \in [1..n -> R]
  BY DEF SetToSeqs
<1> HIDE DEF n
<1>3. order \in Seq(R) /\ Len(order) = n
  BY <1>1, <1>2 DEF n
<1>4. \A i \in 1..n : /\ Watch(order[i]) \in Request
                      /\ Unwatch(order[i]) \in Request
  <2>1. \A i \in 1..n : order[i] \in Targets
    BY <1>2
  <2> QED
    BY <2>1 DEF Watch, Unwatch, Request
<1>5. WatchAll(order) \in Seq(Request)
  <2>1. DOMAIN order = 1..n
    BY <1>2
  <2>2. WatchAll(order) \in [1..n -> Request]
    BY <2>1, <1>4 DEF WatchAll
  <2> QED
    BY <2>2, <1>1 DEF n
<1>6. RestartRequests(order) \in Seq(Request)
  <2>1. n \in Nat /\ 2 * n \in Nat
    BY <1>1 DEF n
  <2>2. \A i \in 1..(2 * n) : /\ i % 2 = 1 => (i + 1) \div 2 \in 1..n
                              /\ i % 2 # 1 => i \div 2 \in 1..n
    BY <2>1
  <2>3. RestartRequests(order) \in [1..(2 * n) -> Request]
    BY <2>2, <1>3, <1>4 DEF RestartRequests
  <2> QED
    BY <2>3, <2>1
<1> QED
  BY <1>5, <1>6

\* Sending, receiving and losing messages keeps the type of the call.
LEMMA CallTypes ==
    ASSUME NEW r \in CallType
    PROVE  /\ \A m \in Request :
                [r EXCEPT !.requests = Append(@, m)] \in CallType
           /\ \A q \in Seq(Request) : r.requests \o q \in Seq(Request)
           /\ r.responses # <<>> =>
                /\ Head(r.responses) \in ChangeType
                /\ Tail(r.responses) \in Seq(ChangeType)
                /\ [r EXCEPT !.responses = Tail(@)] \in CallType
           /\ r.requests # <<>> =>
                /\ Head(r.requests) \in Request
                /\ Tail(r.requests) \in Seq(Request)
           /\ \A m \in ChangeType : Append(r.responses, m) \in Seq(ChangeType)
           /\ \A n \in 0..Len(r.responses) :
                SubSeq(r.responses, 1, n) \in Seq(ChangeType)
PROOF
<1>1. r.requests \in Seq(Request) /\ r.responses \in Seq(ChangeType)
  BY DEF CallType
<1>2. \A m \in Request : Append(r.requests, m) \in Seq(Request)
  BY <1>1, AppendProperties
<1>3. \A m \in Request : [r EXCEPT !.requests = Append(@, m)] \in CallType
  BY <1>2 DEF CallType
<1>4. r.responses # <<>> => /\ Head(r.responses) \in ChangeType
                            /\ Tail(r.responses) \in Seq(ChangeType)
  BY <1>1, HeadTailProperties
<1>5. r.responses # <<>> => [r EXCEPT !.responses = Tail(@)] \in CallType
  BY <1>4 DEF CallType
<1>6. r.requests # <<>> => /\ Head(r.requests) \in Request
                           /\ Tail(r.requests) \in Seq(Request)
  BY <1>1, HeadTailProperties
<1>7. \A q \in Seq(Request) : r.requests \o q \in Seq(Request)
  BY <1>1, ConcatProperties
<1>8. \A m \in ChangeType : Append(r.responses, m) \in Seq(ChangeType)
  BY <1>1, AppendProperties
<1>9. \A n \in 0..Len(r.responses) :
        SubSeq(r.responses, 1, n) \in Seq(ChangeType)
  BY <1>1, SubSeqProperties
<1> QED
  BY <1>3, <1>4, <1>5, <1>6, <1>7, <1>8, <1>9

-----------------------------------------------------------------------------
(* Starting and closing the stream                                         *)

\* Starting the stream keeps the types.
LEMMA StartType ==
    ASSUME NEW s \in WatchStreamType, NEW k \in TrackerType, NEW T \in SUBSET Nat,
           StartWatchStream(s, k, T)
    PROVE  /\ aggregator' \in AggregatorType
           /\ stream' \in WatchStreamType
           /\ tokens' \subseteq Nat
           /\ tracker' \in TrackerType
PROOF
<1>1. s.closeCount \in Nat
  BY DEF WatchStreamType
<1> QED
  BY <1>1, StreamTypes, TrackerTypes, NewAggregatorType DEF StartWatchStream

\* So does closing it.
LEMMA CloseType ==
    ASSUME TypeOK, NEW s \in WatchStreamType, NEW T \in SUBSET Nat,
           NEW graceful \in BOOLEAN, OnWatchStreamClose(s, T, graceful)
    PROVE  /\ aggregator' \in AggregatorType
           /\ stream' \in WatchStreamType
           /\ tokens' \subseteq Nat
           /\ tracker' \in TrackerType
           /\ asserted' \in BOOLEAN
PROOF
<1>1. tracker \in TrackerType /\ asserted \in BOOLEAN
  BY DEF TypeOK
<1>2. CASE /\ Holds(/\ ~graceful /\ MayHandleFailure(tracker)
                    /\ MayStartTimer(HandleWatchStreamFailure(tracker)))
           /\ StartWatchStream(s, HandleWatchStreamFailure(tracker), T)
  <2>1. HandleWatchStreamFailure(tracker) \in TrackerType
    BY <1>1, TrackerTypes
  <2>2. asserted' \in BOOLEAN
    BY <1>2, <1>1 DEF Holds
  <2> QED
    BY <1>2, <2>1, <2>2, StartType
<1>3. CASE /\ aggregator' = NoAggregator
           /\ stream' = s
           /\ tokens' = T
           /\ tracker' = UpdateState(tracker, "Unknown")
           /\ UNCHANGED asserted
  BY <1>3, <1>1, TrackerTypes, NewAggregatorType DEF OnlineStates
<1> QED
  BY <1>2, <1>3 DEF OnWatchStreamClose

-----------------------------------------------------------------------------
(* Types                                                                   *)

\* One more of a bound is used up.
LEMMA UsedTypes ==
    ASSUME TypeOK
    PROVE  /\ [used EXCEPT !.listens = @ + 1]
                \in [listens : Nat, toggles : Nat, faults : Nat]
           /\ [used EXCEPT !.toggles = @ + 1]
                \in [listens : Nat, toggles : Nat, faults : Nat]
           /\ [used EXCEPT !.faults = @ + 1]
                \in [listens : Nat, toggles : Nat, faults : Nat]
PROOF
<1>1. /\ used.listens + 1 \in Nat
      /\ used.toggles + 1 \in Nat
      /\ used.faults + 1 \in Nat
  <2>1. used.listens \in Nat /\ used.toggles \in Nat /\ used.faults \in Nat
    BY DEF TypeOK
  <2> QED
    BY <2>1
<1> QED
  BY <1>1 DEF TypeOK

\* Calls of SyncEngine and the application keep the types.
LEMMA CallerKeepsTypes ==
    ASSUME TypeOK, Caller
    PROVE  TypeOK'
PROOF
<1>1. /\ aggregator \in AggregatorType /\ stream \in WatchStreamType
      /\ tracker \in TrackerType /\ rpc \in CallType /\ tokens \in SUBSET Nat
      /\ Stopped(stream) \in WatchStreamType
      /\ UpdateState(tracker, "Unknown") \in TrackerType
      /\ UpdateState(tracker, "Offline") \in TrackerType
  BY StreamTypes, TrackerTypes DEF TypeOK, OnlineStates
<1>2. ASSUME NEW t \in Targets, Listen(t)
      PROVE  TypeOK'
  <2>1. /\ used' \in [listens : Nat, toggles : Nat, faults : Nat]
        /\ listenTargets' \subseteq Targets
        /\ networkEnabled' \in BOOLEAN
    BY <1>2, UsedTypes DEF Listen, TypeOK
  <2>2. CASE /\ Holds(MayStartTimer(tracker))
             /\ StartWatchStream(stream, tracker, tokens)
             /\ UNCHANGED rpc
    <3>1. asserted' \in BOOLEAN
      BY <2>2 DEF Holds, TypeOK
    <3>2. rpc' \in CallType
      BY <2>2, <1>1
    <3>3. /\ aggregator' \in AggregatorType /\ stream' \in WatchStreamType
          /\ tokens' \subseteq Nat /\ tracker' \in TrackerType
      BY <2>2, <1>1, StartType
    <3> QED
      BY <2>1, <3>1, <3>2, <3>3 DEF TypeOK
  <2>3. CASE /\ Holds(aggregator.live)
             /\ aggregator' = RecordPendingTargetRequest(aggregator, t)
             /\ rpc' = [rpc EXCEPT !.requests = Append(@, Watch(t))]
             /\ stream' = [stream EXCEPT !.idle = FALSE]
             /\ UNCHANGED <<tokens, tracker>>
    <3>1. asserted' \in BOOLEAN
      BY <2>3 DEF Holds, TypeOK
    <3>2. Watch(t) \in Request
      BY DEF Watch, Request
    <3>3. rpc' \in CallType
      BY <2>3, <3>2, <1>1, CallTypes
    <3>4. stream' \in WatchStreamType
      BY <2>3, <1>1 DEF WatchStreamType
    <3>5. aggregator' \in AggregatorType
      BY <2>3, <1>1, TargetStateTypes
    <3> QED
      BY <2>1, <2>3, <1>1, <3>1, <3>3, <3>4, <3>5 DEF TypeOK
  <2>4. CASE UNCHANGED <<aggregator, stream, tokens, tracker, rpc, asserted>>
    BY <2>1, <2>4 DEF TypeOK
  <2> QED
    BY <1>2, <2>2, <2>3, <2>4 DEF Listen
<1>3. ASSUME NEW t \in Targets, StopListening(t)
      PROVE  TypeOK'
  <2>1. /\ listenTargets' \subseteq Targets /\ networkEnabled' \in BOOLEAN
        /\ tokens' \subseteq Nat
        /\ used' \in [listens : Nat, toggles : Nat, faults : Nat]
    BY <1>3 DEF StopListening, TypeOK
  <2>2. CASE /\ Holds(aggregator.live)
             /\ aggregator' = RecordPendingTargetRequest(aggregator, t)
             /\ rpc' = [rpc EXCEPT !.requests = Append(@, Unwatch(t))]
             /\ stream' = [stream EXCEPT !.idle = (listenTargets' = {})]
             /\ UNCHANGED tracker
    <3>1. asserted' \in BOOLEAN
      BY <2>2 DEF Holds, TypeOK
    <3>2. Unwatch(t) \in Request
      BY DEF Unwatch, Request
    <3>3. rpc' \in CallType
      BY <2>2, <3>2, <1>1, CallTypes
    <3>4. stream' \in WatchStreamType
      BY <2>2, <1>1 DEF WatchStreamType
    <3>5. aggregator' \in AggregatorType
      BY <2>2, <1>1, TargetStateTypes
    <3> QED
      BY <2>1, <2>2, <1>1, <3>1, <3>3, <3>4, <3>5 DEF TypeOK
  <2>3. CASE /\ tracker' = IF listenTargets' = {} /\ networkEnabled
                           THEN UpdateState(tracker, "Unknown") ELSE tracker
             /\ UNCHANGED <<aggregator, stream, rpc, asserted>>
    BY <2>1, <2>3, <1>1 DEF TypeOK
  <2> QED
    BY <1>3, <2>2, <2>3 DEF StopListening
<1>4. CASE EnableNetwork
  <2>1. /\ used' \in [listens : Nat, toggles : Nat, faults : Nat]
        /\ networkEnabled' \in BOOLEAN /\ listenTargets' \subseteq Targets
        /\ rpc' \in CallType
    BY <1>4, UsedTypes DEF EnableNetwork, Toggle, TypeOK
  <2>2. CASE /\ Holds(MayStartTimer(tracker))
             /\ StartWatchStream(stream, tracker, tokens)
    <3>1. asserted' \in BOOLEAN
      BY <2>2 DEF Holds, TypeOK
    <3> QED
      BY <2>1, <2>2, <3>1, <1>1, StartType DEF TypeOK
  <2>3. CASE /\ tracker' = UpdateState(tracker, "Unknown")
             /\ UNCHANGED <<aggregator, stream, tokens, asserted>>
    BY <2>1, <2>3, <1>1 DEF TypeOK
  <2> QED
    BY <1>4, <2>2, <2>3 DEF EnableNetwork
<1>5. CASE DisableNetwork
  BY <1>5, <1>1, UsedTypes, NoCallType, NewAggregatorType
     DEF DisableNetwork, Toggle, TypeOK
<1>6. CASE HandleCredentialChange
  <2>1. /\ used' \in [listens : Nat, toggles : Nat, faults : Nat]
        /\ networkEnabled' \in BOOLEAN /\ listenTargets' \subseteq Targets
        /\ asserted' \in BOOLEAN
    BY <1>6, UsedTypes DEF HandleCredentialChange, Toggle, TypeOK
  <2>2. rpc' \in CallType
    BY <1>6, NoCallType DEF HandleCredentialChange
  <2>3. CASE StartWatchStream(Stopped(stream), UpdateState(tracker, "Unknown"),
                              tokens)
    BY <2>1, <2>2, <2>3, <1>1, StartType DEF TypeOK
  <2>4. CASE /\ aggregator' = NoAggregator
             /\ stream' = Stopped(stream)
             /\ tracker' = UpdateState(tracker, "Unknown")
             /\ UNCHANGED tokens
    BY <2>1, <2>2, <2>4, <1>1, NewAggregatorType DEF TypeOK
  <2> QED
    BY <1>6, <2>3, <2>4 DEF HandleCredentialChange
<1> QED
  BY <1>2, <1>3, <1>4, <1>5, <1>6 DEF Caller

\* Callbacks of the stream and timers keep the types.
LEMMA CallbacksKeepTypes ==
    ASSUME TypeOK, StreamOpen \/ TokenFailed \/ Timer \/ StreamFinish
                     \/ CorruptResponse
    PROVE  TypeOK'
PROOF
<1>1. /\ aggregator \in AggregatorType /\ stream \in WatchStreamType
      /\ tracker \in TrackerType /\ rpc \in CallType /\ tokens \in SUBSET Nat
      /\ Stopped(stream) \in WatchStreamType /\ Failed(stream) \in WatchStreamType
      /\ Restarted(stream) \in WatchStreamType /\ Opened(stream) \in WatchStreamType
  BY StreamTypes DEF TypeOK
<1>2. CASE StreamOpen
  <2>1. PICK c \in tokens :
          /\ tokens' = tokens \ {c}
          /\ \/ /\ c = stream.closeCount
                /\ Holds(stream.state = "Starting" /\ aggregator.live)
                /\ stream' = Opened(stream)
                /\ \E order \in SetToSeqs(listenTargets) :
                     rpc' = [NoCall EXCEPT !.status = "running",
                                           !.requests = WatchAll(order)]
                /\ aggregator' = RecordAllPending(aggregator)
             \/ /\ c # stream.closeCount
                /\ UNCHANGED <<stream, rpc, aggregator, asserted>>
          /\ UNCHANGED <<networkEnabled, listenTargets, tracker, used>>
    BY <1>2 DEF StreamOpen
  <2>2. CASE c = stream.closeCount
    <3>1. PICK order \in SetToSeqs(listenTargets) :
            rpc' = [NoCall EXCEPT !.status = "running",
                                  !.requests = WatchAll(order)]
      BY <2>1, <2>2
    <3>2. WatchAll(order) \in Seq(Request)
      BY RequestTypes DEF TypeOK
    <3>3. rpc' \in CallType
      BY <3>1, <3>2, NoCallType DEF CallType
    <3>4. aggregator' \in AggregatorType
      BY <2>1, <2>2, <1>1, RecordTypes DEF TypeOK
    <3>5. asserted' \in BOOLEAN
      BY <2>1, <2>2 DEF Holds, TypeOK
    <3> QED
      BY <2>1, <2>2, <3>3, <3>4, <3>5, <1>1 DEF TypeOK
  <2>3. CASE c # stream.closeCount
    BY <2>1, <2>3 DEF TypeOK
  <2> QED
    BY <2>2, <2>3
<1>3. CASE TokenFailed
  <2>1. PICK c \in tokens :
          /\ Fault("token")
          /\ \/ /\ c = stream.closeCount
                /\ OnWatchStreamClose(Failed(stream), tokens \ {c}, FALSE)
             \/ /\ c # stream.closeCount
                /\ tokens' = tokens \ {c}
                /\ UNCHANGED <<aggregator, stream, tracker, asserted>>
          /\ UNCHANGED <<networkEnabled, listenTargets, rpc>>
    BY <1>3 DEF TokenFailed
  <2>2. /\ used' \in [listens : Nat, toggles : Nat, faults : Nat]
        /\ networkEnabled' \in BOOLEAN /\ listenTargets' \subseteq Targets
        /\ rpc' \in CallType
    BY <2>1, UsedTypes DEF Fault, TypeOK
  <2>3. tokens \ {c} \in SUBSET Nat
    BY <1>1
  <2>4. CASE c = stream.closeCount
    BY <2>1, <2>2, <2>3, <2>4, <1>1, CloseType DEF TypeOK
  <2>5. CASE c # stream.closeCount
    BY <2>1, <2>2, <2>3, <2>5, <1>1 DEF TypeOK
  <2> QED
    BY <2>4, <2>5
<1>4. CASE IdleTimeout
  <2>1. OnWatchStreamClose(Stopped(stream), tokens, TRUE)
    BY <1>4 DEF IdleTimeout
  <2>2. /\ used' \in [listens : Nat, toggles : Nat, faults : Nat]
        /\ networkEnabled' \in BOOLEAN /\ listenTargets' \subseteq Targets
        /\ rpc' \in CallType
    BY <1>4, NoCallType DEF IdleTimeout, TypeOK
  <2> QED
    BY <2>1, <2>2, <1>1, CloseType DEF TypeOK
<1>5. CASE BackoffElapsed
  <2>1. tokens' \subseteq Nat /\ asserted' \in BOOLEAN
    BY <1>5 DEF BackoffElapsed, Holds, TypeOK, WatchStreamType
  <2> QED
    BY <2>1, <1>5, <1>1 DEF BackoffElapsed, TypeOK
<1>6. CASE OnlineStateTimeout
  <2>1. tracker' \in TrackerType /\ asserted' \in BOOLEAN
    BY <1>6, <1>1
       DEF OnlineStateTimeout, Holds, TypeOK, TrackerType, OnlineStates
  <2> QED
    BY <2>1, <1>6, <1>1 DEF OnlineStateTimeout, TypeOK
<1>7. CASE StreamFinish \/ CorruptResponse
  <2>1. OnWatchStreamClose(Failed(stream), tokens, FALSE)
    BY <1>7 DEF StreamFinish, CorruptResponse
  <2>2. used' \in [listens : Nat, toggles : Nat, faults : Nat]
    BY <1>7, UsedTypes DEF StreamFinish, CorruptResponse, Fault, TypeOK
  <2>3. /\ networkEnabled' \in BOOLEAN /\ listenTargets' \subseteq Targets
        /\ rpc' \in CallType
    BY <1>7, NoCallType DEF StreamFinish, CorruptResponse, TypeOK
  <2> QED
    BY <2>1, <2>2, <2>3, <1>1, CloseType DEF TypeOK
<1> QED
  BY <1>2, <1>3, <1>4, <1>5, <1>6, <1>7 DEF Timer

\* Messages of the backend keep the types.
LEMMA MessagesKeepTypes ==
    ASSUME TypeOK, Message
    PROVE  TypeOK'
PROOF
<1>1. /\ aggregator \in AggregatorType /\ stream \in WatchStreamType
      /\ tracker \in TrackerType /\ rpc \in CallType
      /\ UpdateState(tracker, "Online") \in TrackerType
  BY TrackerTypes DEF TypeOK, OnlineStates
<1>2. /\ networkEnabled' \in BOOLEAN /\ tokens' \subseteq Nat
      /\ used' \in [listens : Nat, toggles : Nat, faults : Nat]
      /\ tracker' \in TrackerType /\ asserted' \in BOOLEAN
      /\ rpc.responses # <<>>
  BY <1>1
     DEF Message, TargetChange, ExistenceFilterMismatch, ProcessTargetError,
         RaiseWatchSnapshot, IgnoreOldSnapshot, Receive, Holds, TypeOK
<1> DEFINE m == Head(rpc.responses)
<1>3. m \in ChangeType /\ (m.kind \notin {"snapshot", "old"} => m.target \in Targets)
  BY <1>1, <1>2, CallTypes DEF ChangeType
<1>4. Received => rpc' \in CallType
  BY <1>1, <1>2, CallTypes DEF Received
<1>5. CASE TargetChange
  <2>1. m.kind \in {"added", "removed", "current", "reset"}
    BY <1>5 DEF TargetChange, Receive
  <2>2. aggregator' = HandleTargetChange(aggregator, m)
    BY <1>5 DEF TargetChange
  <2>3. aggregator' \in AggregatorType
    BY <2>1, <2>2, <1>1, <1>3, ChangeTypes
  <2> QED
    BY <2>3, <1>1, <1>2, <1>4, <1>5 DEF TargetChange, TypeOK
<1>6. CASE ExistenceFilterMismatch
  <2>1. m.kind = "filter"
    BY <1>6 DEF ExistenceFilterMismatch, Receive
  <2>2. aggregator' = HandleExistenceFilter(aggregator, m)
    BY <1>6 DEF ExistenceFilterMismatch
  <2>3. aggregator' \in AggregatorType
    BY <2>1, <2>2, <1>1, <1>3, ChangeTypes
  <2> QED
    BY <2>3, <1>1, <1>2, <1>4, <1>6 DEF ExistenceFilterMismatch, TypeOK
<1>7. CASE ProcessTargetError
  <2>1. m.target \in Targets
    BY <1>7, <1>3 DEF ProcessTargetError, Receive
  <2>2. aggregator' \in AggregatorType /\ listenTargets' \subseteq Targets
    BY <2>1, <1>1, <1>7, TargetStateTypes DEF ProcessTargetError, TypeOK
  <2> QED
    BY <2>2, <1>1, <1>2, <1>4, <1>7 DEF ProcessTargetError, TypeOK
<1>8. CASE RaiseWatchSnapshot
  <2> DEFINE R == aggregator.resets \cap listenTargets
  <2>1. PICK order \in SetToSeqs(R) :
          rpc' = [rpc EXCEPT !.responses = Tail(@),
                             !.requests = @ \o RestartRequests(order)]
    BY <1>8 DEF RaiseWatchSnapshot
  <2>2. R \in SUBSET Targets
    BY DEF TypeOK
  <2>3. /\ aggregator' = RecordRestart(aggregator, R)
        /\ stream' = [stream EXCEPT !.idle = @ /\ R = {}]
        /\ listenTargets' \subseteq Targets
    BY <1>8 DEF RaiseWatchSnapshot, TypeOK
  <2> HIDE DEF R
  <2>4. rpc.requests \o RestartRequests(order) \in Seq(Request)
    BY <2>2, <1>1, RequestTypes, CallTypes
  <2>5. Tail(rpc.responses) \in Seq(ChangeType)
    BY <1>1, <1>2, CallTypes
  <2>6. rpc' \in CallType
    BY <2>1, <2>4, <2>5, <1>1 DEF CallType
  <2>7. stream' \in WatchStreamType
    BY <2>3, <1>1 DEF WatchStreamType
  <2>8. aggregator' \in AggregatorType
    BY <2>2, <2>3, <1>1, RecordTypes
  <2> QED
    BY <2>3, <2>6, <2>7, <2>8, <1>2 DEF TypeOK
<1>9. CASE IgnoreOldSnapshot
  BY <1>1, <1>2, <1>4, <1>9 DEF IgnoreOldSnapshot, TypeOK
<1> QED
  BY <1>5, <1>6, <1>7, <1>8, <1>9 DEF Message

\* The backend keeps the types.
LEMMA BackendKeepsTypes ==
    ASSUME TypeOK, Backend \/ BackendDisturbs \/ CallLost
    PROVE  TypeOK'
PROOF
<1>1. rpc \in CallType
  BY DEF TypeOK
<1>2. \A kind \in Kinds, t \in Targets, ack \in BOOLEAN :
        Change(kind, t, ack) \in ChangeType
  BY DEF Change, ChangeType
<1>3. \A kind \in {"snapshot", "old"} : Change(kind, NoTarget, FALSE) \in ChangeType
  BY DEF Change, ChangeType
<1>4. used' \in [listens : Nat, toggles : Nat, faults : Nat]
  BY UsedTypes
     DEF Backend, BackendWatch, BackendUnwatch, BackendCurrent, BackendSnapshot,
         BackendDisturbs, CallLost, Fault, TypeOK
<1>5. UNCHANGED client
  BY DEF Backend, BackendWatch, BackendUnwatch, BackendCurrent, BackendSnapshot,
         BackendDisturbs, CallLost
<1>6. ASSUME NEW m \in ChangeType, NEW t \in Targets,
             NEW w \in {"no", "added", "current"}, Answer(m, t, w)
      PROVE  rpc' \in CallType
  <2>1. Append(rpc.responses, m) \in Seq(ChangeType)
    BY <1>1, CallTypes
  <2> QED
    BY <2>1, <1>1, <1>6 DEF Answer, CallType
<1>7. ASSUME NEW m \in ChangeType, NEW t \in Targets,
             NEW w \in {"no", "added", "current"}, AnswerNext(m, t, w),
             rpc.requests # <<>>
      PROVE  rpc' \in CallType
  <2>1. /\ Append(rpc.responses, m) \in Seq(ChangeType)
        /\ Tail(rpc.requests) \in Seq(Request)
    BY <1>1, <1>7, CallTypes
  <2> QED
    BY <2>1, <1>1, <1>7 DEF AnswerNext, CallType
<1>8. rpc.requests # <<>> => Head(rpc.requests).target \in Targets
  <2>1. rpc.requests # <<>> => Head(rpc.requests) \in Request
    BY <1>1, CallTypes
  <2> QED
    BY <2>1 DEF Request
<1>9. CASE BackendWatch
  <2>1. /\ Change("added", Head(rpc.requests).target, TRUE) \in ChangeType
        /\ Change("rejected", Head(rpc.requests).target, TRUE) \in ChangeType
    BY <1>9, <1>2, <1>8 DEF BackendWatch, Kinds
  <2>2. rpc' \in CallType
    BY <1>9, <2>1, <1>7, <1>8 DEF BackendWatch
  <2> QED
    BY <2>2, <1>4, <1>5 DEF TypeOK, client
<1>10. CASE BackendUnwatch
  <2>1. Change("removed", Head(rpc.requests).target, TRUE) \in ChangeType
    BY <1>10, <1>2, <1>8 DEF BackendUnwatch, Kinds
  <2>2. rpc' \in CallType
    BY <1>10, <2>1, <1>7, <1>8 DEF BackendUnwatch
  <2> QED
    BY <2>2, <1>4, <1>5 DEF TypeOK, client
<1>11. CASE BackendCurrent
  <2>1. PICK t \in Targets : Answer(Change("current", t, FALSE), t, "current")
    BY <1>11 DEF BackendCurrent
  <2>2. rpc' \in CallType
    BY <2>1, <1>2, <1>6 DEF Kinds
  <2> QED
    BY <2>2, <1>4, <1>5 DEF TypeOK, client
<1>12. CASE BackendSnapshot
  <2>1. \A m \in ChangeType : Append(rpc.responses, m) \in Seq(ChangeType)
    BY <1>1, CallTypes
  <2>2. /\ Append(rpc.responses, Change("snapshot", NoTarget, FALSE))
             \in Seq(ChangeType)
        /\ Append(rpc.responses, Change("old", NoTarget, FALSE))
             \in Seq(ChangeType)
    BY <2>1, <1>3
  <2>3. rpc' \in CallType
    BY <1>12, <2>2, <1>1 DEF BackendSnapshot, CallType
  <2> QED
    BY <2>3, <1>4, <1>5 DEF TypeOK, client
<1>13. CASE BackendDisturbs
  <2>1. PICK t \in Targets :
          \/ Answer(Change("reset", t, FALSE), t, "added")
          \/ Answer(Change("filter", t, FALSE), t, rpc.watching[t])
          \/ Answer(Change("rejected", t, FALSE), t, "no")
    BY <1>13 DEF BackendDisturbs
  <2>2. rpc.watching[t] \in {"no", "added", "current"}
    BY <1>1 DEF CallType
  <2>3. rpc' \in CallType
    BY <2>1, <2>2, <1>2, <1>6 DEF Kinds
  <2> QED
    BY <2>3, <1>4, <1>5 DEF TypeOK, client
<1>14. CASE CallLost
  <2>1. PICK n \in 0..Len(rpc.responses) :
          rpc' = [rpc EXCEPT !.status = "lost",
                             !.responses = SubSeq(@, 1, n),
                             !.watching = [t \in Targets |-> "no"]]
    BY <1>14 DEF CallLost
  <2>2. SubSeq(rpc.responses, 1, n) \in Seq(ChangeType)
    BY <1>1, CallTypes
  <2>3. rpc' \in CallType
    BY <2>1, <2>2, <1>1 DEF CallType
  <2> QED
    BY <2>3, <1>4, <1>5 DEF TypeOK, client
<1> QED
  BY <1>9, <1>10, <1>11, <1>12, <1>13, <1>14 DEF Backend

\* Every step keeps the types.
LEMMA NextKeepsTypes ==
    ASSUME TypeOK, [Next]_vars
    PROVE  TypeOK'
PROOF
<1>1. CASE UNCHANGED vars
  BY <1>1 DEF vars, TypeOK
<1> QED
  BY <1>1, CallerKeepsTypes, CallbacksKeepTypes, MessagesKeepTypes,
     BackendKeepsTypes
     DEF Next, Disturbance

\* The initial state has the right types.
LEMMA InitTypes == Init => TypeOK
PROOF
<1> SUFFICES ASSUME Init PROVE TypeOK
  OBVIOUS
<1>1. stream \in WatchStreamType /\ tracker \in TrackerType
  BY DEF Init, WatchStreamType, StreamStates, TrackerType, OnlineStates
<1> QED
  BY <1>1, NewAggregatorType, NoCallType DEF Init, TypeOK

\* Every variable of the watch half keeps its type, in any order of handlers,
\* timers and messages.
THEOREM WatchTypeCorrect == Spec => []TypeOK
PROOF
  BY InitTypes, NextKeepsTypes, PTL DEF Spec
-----------------------------------------------------------------------------
(* The inductive invariant                                                 *)

\* A closed stream that is started again, from a tracker that is consistent.
LEMMA StartHolds ==
    ASSUME NEW s \in WatchStreamType, NEW k \in TrackerType, NEW T \in SUBSET Nat,
           s.state \in {"Initial", "Error"}, ~s.idle, ~s.backoff,
           \A c \in T : c <= s.closeCount /\ c # s.closeCount,
           k.state = "Online" => k.failures = 0,
           k.timer => k.state = "Unknown",
           StartWatchStream(s, k, T),
           networkEnabled', asserted',
           rpc'.status = "none", rpc'.responses = <<>>
    PROVE  WatchInv'
PROOF
<1>1. s.closeCount \in Nat /\ k.failures \in Nat
  BY DEF WatchStreamType, TrackerType
<1>2. /\ tracker'.state # "Online"
      /\ tracker'.timer => tracker'.state = "Unknown"
  BY DEF StartWatchStream, HandleWatchStreamStart, TrackerType
<1>3. /\ stream'.state = IF s.state = "Error" THEN "Backoff" ELSE "Starting"
      /\ ~stream'.idle
      /\ stream'.backoff <=> s.state = "Error"
      /\ stream'.closeCount = s.closeCount
  BY DEF StartWatchStream, StartStream, WatchStreamType
<1>4. aggregator'.live
  BY NewAggregatorType DEF StartWatchStream
<1>5. \A c \in tokens' :
        c <= stream'.closeCount
          /\ (c = stream'.closeCount => stream'.state = "Starting")
  <2>1. tokens' = IF s.state = "Initial" THEN T \cup {s.closeCount} ELSE T
    BY DEF StartWatchStream
  <2>2. s.closeCount <= s.closeCount
    BY <1>1
  <2> QED
    BY <1>3, <2>1, <2>2
<1>6. /\ Started(stream')
      /\ stream'.backoff <=> stream'.state = "Backoff"
  BY <1>3 DEF Started
<1> QED
  BY <1>2, <1>3, <1>4, <1>5, <1>6 DEF WatchInv

\* Stopping or failing a started stream: none of its callbacks counts any more.
LEMMA ClosedStream ==
    ASSUME TypeOK, WatchInv, NEW T \in SUBSET tokens,
           NEW s \in {Stopped(stream), Failed(stream)},
           s = Stopped(stream) \/ Started(stream)
    PROVE  /\ s \in WatchStreamType
           /\ s.state \in {"Initial", "Error"} /\ ~Started(s)
           /\ ~s.idle /\ ~s.backoff
           /\ T \in SUBSET Nat
           /\ \A c \in T : c <= s.closeCount /\ c # s.closeCount
PROOF
<1>1. stream \in WatchStreamType /\ tokens \in SUBSET Nat
  BY DEF TypeOK
<1>2. s \in WatchStreamType
  BY <1>1, StreamTypes
<1>3. /\ s.state \in {"Initial", "Error"} /\ ~s.idle /\ ~s.backoff
      /\ s.closeCount = IF Started(stream) THEN stream.closeCount + 1
                                          ELSE stream.closeCount
  <2>1. ~Started(stream) => /\ stream.state \in {"Initial", "Error"}
                            /\ ~stream.idle /\ ~stream.backoff
    BY <1>1 DEF Started, WatchStreamType, StreamStates, WatchInv
  <2>2. CASE Started(stream) /\ s = Stopped(stream)
    BY <1>1, <2>2 DEF Stopped, WatchStreamType
  <2>3. CASE Started(stream) /\ s = Failed(stream)
    BY <1>1, <2>3 DEF Failed, WatchStreamType
  <2>4. CASE ~Started(stream) /\ s = Stopped(stream)
    BY <2>1, <2>4 DEF Stopped
  <2> QED
    BY <2>2, <2>3, <2>4
<1>4. ~Started(s)
  BY <1>3 DEF Started
<1>5. \A c \in T : c <= s.closeCount /\ c # s.closeCount
  <2>1. stream.closeCount \in Nat /\ T \in SUBSET Nat
    BY <1>1 DEF WatchStreamType
  <2>2. \A c \in T :
          c <= stream.closeCount /\ (~Started(stream) => c # stream.closeCount)
    BY DEF WatchInv, Started
  <2>3. CASE Started(stream)
    <3>1. s.closeCount = stream.closeCount + 1
      BY <2>3, <1>3
    <3>2. \A c \in T : c <= stream.closeCount
      BY <2>2
    <3> QED
      BY <2>1, <3>1, <3>2
  <2>4. CASE ~Started(stream)
    BY <2>2, <2>4, <1>3
  <2> QED
    BY <2>3, <2>4
<1> QED
  BY <1>1, <1>2, <1>3, <1>4, <1>5

\* What the tracker makes of a failure is consistent, and may be started from.
LEMMA FailureHolds ==
    ASSUME TypeOK, WatchInv
    PROVE  LET k == HandleWatchStreamFailure(tracker)
           IN  /\ k \in TrackerType
               /\ k.state # "Online"
               /\ k.timer => k.state = "Unknown"
               /\ MayHandleFailure(tracker)
               /\ MayStartTimer(k)
PROOF
<1> DEFINE k == HandleWatchStreamFailure(tracker)
<1>1. tracker \in TrackerType
  BY DEF TypeOK
<1>2. k \in TrackerType
  BY <1>1, TrackerTypes
<1>3. MayHandleFailure(tracker)
  BY DEF MayHandleFailure, WatchInv
<1>4. tracker.failures + 1 # 0
  <2>1. tracker.failures \in Nat
    BY <1>1 DEF TrackerType
  <2> QED
    BY <2>1
<1>5. CASE tracker.state = "Online"
  <2>1. k = [tracker EXCEPT !.state = "Unknown"]
    BY <1>5 DEF HandleWatchStreamFailure
  <2>2. k.state = "Unknown" /\ ~k.timer
    BY <2>1, <1>1, <1>5 DEF TrackerType, WatchInv
  <2> QED
    BY <1>2, <1>3, <2>2 DEF MayStartTimer
<1>6. CASE tracker.state # "Online" /\ tracker.failures + 1 >= MaxFailures
  <2>1. k = [state |-> "Offline", failures |-> tracker.failures + 1,
             timer |-> FALSE]
    BY <1>6 DEF HandleWatchStreamFailure
  <2> QED
    BY <1>2, <1>3, <2>1 DEF MayStartTimer
<1>7. CASE tracker.state # "Online" /\ ~(tracker.failures + 1 >= MaxFailures)
  <2>1. k = [tracker EXCEPT !.failures = @ + 1]
    BY <1>7 DEF HandleWatchStreamFailure
  <2>2. /\ k.state = tracker.state /\ k.timer = tracker.timer
        /\ k.failures = tracker.failures + 1
    BY <2>1, <1>1 DEF TrackerType
  <2>3. k.failures # 0
    BY <2>2, <1>4
  <2> QED
    BY <1>2, <1>3, <1>7, <2>2, <2>3 DEF MayStartTimer, WatchInv
<1> QED
  BY <1>5, <1>6, <1>7

\* Closing a started stream keeps the invariant: it starts again if it is needed,
\* and one that is needed is never closed gracefully.
LEMMA CloseHolds ==
    ASSUME TypeOK, WatchInv, NEW T \in SUBSET tokens, NEW graceful \in BOOLEAN,
           NEW s \in {Stopped(stream), Failed(stream)}, Started(stream),
           graceful => listenTargets = {},
           OnWatchStreamClose(s, T, graceful),
           UNCHANGED <<networkEnabled, listenTargets>>,
           rpc'.status = "none", rpc'.responses = <<>>
    PROVE  WatchInv'
PROOF
<1>1. /\ s \in WatchStreamType
      /\ s.state \in {"Initial", "Error"} /\ ~Started(s)
      /\ ~s.idle /\ ~s.backoff
      /\ T \in SUBSET Nat
      /\ \A c \in T : c <= s.closeCount /\ c # s.closeCount
  BY ClosedStream
<1> DEFINE k == HandleWatchStreamFailure(tracker)
<1>2. /\ k \in TrackerType
      /\ k.state # "Online"
      /\ k.timer => k.state = "Unknown"
      /\ MayHandleFailure(tracker)
      /\ MayStartTimer(k)
  BY FailureHolds
<1> HIDE DEF k
<1>3. CASE /\ ShouldStartWatchStream(networkEnabled, listenTargets, s)
           /\ Holds(~graceful /\ MayHandleFailure(tracker) /\ MayStartTimer(k))
           /\ StartWatchStream(s, k, T)
  <2>1. networkEnabled' /\ ~graceful
    BY <1>3 DEF ShouldStartWatchStream
  <2>2. asserted'
    BY <1>2, <1>3, <2>1 DEF Holds, WatchInv
  <2> QED
    BY <1>1, <1>2, <1>3, <2>1, <2>2, StartHolds
<1>4. CASE /\ ~ShouldStartWatchStream(networkEnabled, listenTargets, s)
           /\ aggregator' = NoAggregator
           /\ stream' = s
           /\ tokens' = T
           /\ tracker' = UpdateState(tracker, "Unknown")
           /\ UNCHANGED asserted
  <2>1. /\ tracker'.state = "Unknown" /\ ~tracker'.timer
    BY <1>4 DEF UpdateState
  <2>2. ~(networkEnabled /\ listenTargets # {})'
    BY <1>1, <1>4 DEF ShouldStartWatchStream
  <2>3. ~Started(stream') /\ stream'.state # "Open" /\ stream'.state # "Backoff"
    BY <1>1, <1>4
  <2>4. asserted' /\ ~stream'.idle /\ ~stream'.backoff
    BY <1>1, <1>4 DEF WatchInv
  <2>5. \A c \in tokens' : c <= stream'.closeCount /\ c # stream'.closeCount
    BY <1>1, <1>4
  <2> QED
    BY <2>1, <2>2, <2>3, <2>4, <2>5 DEF WatchInv
<1> QED
  BY <1>3, <1>4 DEF OnWatchStreamClose, k

\* Calls of SyncEngine and the application keep the invariant.
LEMMA CallerKeepsInv ==
    ASSUME TypeOK, WatchInv, Caller
    PROVE  WatchInv'
PROOF
<1>1. /\ stream \in WatchStreamType /\ tracker \in TrackerType /\ rpc \in CallType
      /\ aggregator \in AggregatorType /\ tokens \in SUBSET Nat
      /\ networkEnabled \in BOOLEAN
  BY DEF TypeOK
\* A stream that may be started has no timers, calls or token requests left.
<1>2. ASSUME ~Started(stream)
      PROVE  /\ stream.state \in {"Initial", "Error"} /\ ~stream.idle /\ ~stream.backoff
             /\ \A c \in tokens : c <= stream.closeCount /\ c # stream.closeCount
             /\ rpc.status = "none" /\ rpc.responses = <<>>
             /\ tracker.state # "Online" /\ ~tracker.timer
             /\ MayStartTimer(tracker)
  BY <1>1, <1>2
     DEF WatchInv, Started, WatchStreamType, StreamStates, MayStartTimer
<1>3. ASSUME ~Started(stream), networkEnabled', asserted', UNCHANGED rpc,
             StartWatchStream(stream, tracker, tokens)
      PROVE  WatchInv'
  BY <1>1, <1>2, <1>3, StartHolds
<1>4. ASSUME NEW t \in Targets, Listen(t)
      PROVE  WatchInv'
  <2>1. CASE /\ ShouldStartWatchStream(networkEnabled, {t}, stream)
             /\ Holds(MayStartTimer(tracker))
             /\ StartWatchStream(stream, tracker, tokens)
             /\ UNCHANGED rpc
    <3>1. ~Started(stream) /\ networkEnabled' /\ asserted'
      BY <1>2, <1>4, <2>1 DEF Listen, ShouldStartWatchStream, Holds, WatchInv
    <3> QED
      BY <2>1, <3>1, <1>3
  <2>2. CASE /\ stream.state = "Open"
             /\ Holds(aggregator.live)
             /\ aggregator' = RecordPendingTargetRequest(aggregator, t)
             /\ rpc' = [rpc EXCEPT !.requests = Append(@, Watch(t))]
             /\ stream' = [stream EXCEPT !.idle = FALSE]
             /\ UNCHANGED <<tokens, tracker>>
    <3>1. aggregator'.live = aggregator.live
      BY <2>2, <1>1, TargetStateTypes
    <3>2. rpc'.status = rpc.status /\ rpc'.responses = rpc.responses
      BY <2>2, <1>1 DEF CallType
    <3>3. /\ stream'.state = "Open" /\ ~stream'.idle
          /\ stream'.backoff = stream.backoff
          /\ stream'.closeCount = stream.closeCount
      BY <2>2, <1>1 DEF WatchStreamType
    <3>4. networkEnabled' = networkEnabled /\ Started(stream)
      BY <1>4, <2>2 DEF Listen, Started
    <3> QED
      BY <2>2, <3>1, <3>2, <3>3, <3>4 DEF WatchInv, Started, Holds
  <2>3. CASE /\ ~ShouldStartWatchStream(networkEnabled, {t}, stream)
             /\ stream.state # "Open"
             /\ UNCHANGED <<aggregator, stream, tokens, tracker, rpc, asserted>>
    <3>1. ~networkEnabled \/ Started(stream)
      BY <2>3 DEF ShouldStartWatchStream
    <3>2. networkEnabled' = networkEnabled
      BY <1>4 DEF Listen
    <3> QED
      BY <2>3, <3>1, <3>2 DEF WatchInv, Started
  <2> QED
    BY <1>4, <2>1, <2>2, <2>3 DEF Listen
<1>5. ASSUME NEW t \in Targets, StopListening(t)
      PROVE  WatchInv'
  <2>1. /\ networkEnabled' = networkEnabled /\ tokens' = tokens
        /\ listenTargets' = listenTargets \ {t}
    BY <1>5 DEF StopListening
  <2>2. CASE /\ stream.state = "Open"
             /\ Holds(aggregator.live)
             /\ aggregator' = RecordPendingTargetRequest(aggregator, t)
             /\ rpc' = [rpc EXCEPT !.requests = Append(@, Unwatch(t))]
             /\ stream' = [stream EXCEPT !.idle = (listenTargets' = {})]
             /\ UNCHANGED tracker
    <3>1. aggregator'.live = aggregator.live
      BY <2>2, <1>1, TargetStateTypes
    <3>2. rpc'.status = rpc.status /\ rpc'.responses = rpc.responses
      BY <2>2, <1>1 DEF CallType
    <3>3. /\ stream'.state = "Open" /\ stream'.idle = (listenTargets' = {})
          /\ stream'.backoff = stream.backoff
          /\ stream'.closeCount = stream.closeCount
      BY <2>2, <1>1 DEF WatchStreamType
    <3>4. Started(stream)
      BY <2>2 DEF Started
    <3> QED
      BY <2>1, <2>2, <3>1, <3>2, <3>3, <3>4 DEF WatchInv, Started, Holds
  <2>3. CASE /\ stream.state # "Open"
             /\ tracker' = IF listenTargets' = {} /\ networkEnabled
                           THEN UpdateState(tracker, "Unknown") ELSE tracker
             /\ UNCHANGED <<aggregator, stream, rpc, asserted>>
    <3>1. /\ tracker'.state # "Online"
          /\ tracker'.timer => tracker'.state = "Unknown" /\ Started(stream)
      BY <2>3 DEF WatchInv, UpdateState
    <3> QED
      BY <2>1, <2>3, <3>1 DEF WatchInv, Started
  <2> QED
    BY <1>5, <2>2, <2>3 DEF StopListening
<1>6. CASE EnableNetwork
  <2>1. networkEnabled' /\ listenTargets' = listenTargets /\ rpc' = rpc
    BY <1>6 DEF EnableNetwork
  <2>2. CASE /\ ShouldStartWatchStream(TRUE, listenTargets, stream)
             /\ Holds(MayStartTimer(tracker))
             /\ StartWatchStream(stream, tracker, tokens)
    <3>1. ~Started(stream) /\ asserted'
      BY <1>2, <2>2 DEF ShouldStartWatchStream, Holds, WatchInv
    <3> QED
      BY <2>1, <2>2, <3>1, <1>3
  <2>3. CASE /\ ~ShouldStartWatchStream(TRUE, listenTargets, stream)
             /\ tracker' = UpdateState(tracker, "Unknown")
             /\ UNCHANGED <<aggregator, stream, tokens, asserted>>
    <3>1. tracker'.state = "Unknown" /\ ~tracker'.timer
      BY <2>3 DEF UpdateState
    <3>2. listenTargets # {} => Started(stream)
      BY <2>3 DEF ShouldStartWatchStream
    <3> QED
      BY <2>1, <2>3, <3>1, <3>2 DEF WatchInv, Started
  <2> QED
    BY <1>6, <2>2, <2>3 DEF EnableNetwork
<1>7. /\ Stopped(stream).state \in {"Initial", "Error"} /\ ~Started(Stopped(stream))
      /\ Stopped(stream) \in WatchStreamType
      /\ ~Stopped(stream).idle /\ ~Stopped(stream).backoff
      /\ \A c \in tokens :
           c <= Stopped(stream).closeCount /\ c # Stopped(stream).closeCount
  <2>1. Stopped(stream) \in {Stopped(stream), Failed(stream)}
    OBVIOUS
  <2> QED
    BY <2>1, ClosedStream
<1>8. ASSUME rpc' = NoCall, tokens' = tokens, stream' = Stopped(stream),
             UNCHANGED <<listenTargets, asserted>>,
             tracker'.state # "Online", ~tracker'.timer,
             networkEnabled' => listenTargets = {}
      PROVE  WatchInv'
  <2>1. /\ stream'.state \in {"Initial", "Error"} /\ ~Started(stream')
        /\ ~stream'.idle /\ ~stream'.backoff
        /\ \A c \in tokens' : c <= stream'.closeCount /\ c # stream'.closeCount
    BY <1>7, <1>8
  <2>2. rpc'.status = "none" /\ rpc'.responses = <<>>
    BY <1>8, NoCallType
  <2>3. asserted' /\ (networkEnabled' => listenTargets' = {})
    BY <1>8 DEF WatchInv
  <2> QED
    BY <1>8, <2>1, <2>2, <2>3 DEF WatchInv
<1>9. CASE DisableNetwork
  <2>1. tracker'.state = "Offline" /\ ~tracker'.timer /\ ~networkEnabled'
    BY <1>9 DEF DisableNetwork, UpdateState
  <2> QED
    BY <1>8, <1>9, <2>1 DEF DisableNetwork
<1>10. CASE HandleCredentialChange
  <2> DEFINE k == UpdateState(tracker, "Unknown")
  <2>1. /\ networkEnabled' /\ rpc' = NoCall
        /\ UNCHANGED <<listenTargets, asserted>> /\ asserted'
    BY <1>10 DEF HandleCredentialChange, WatchInv
  <2>2. k \in TrackerType /\ k.state = "Unknown" /\ ~k.timer
    BY <1>1, TrackerTypes DEF UpdateState, OnlineStates
  <2>3. CASE StartWatchStream(Stopped(stream), k, tokens)
    <3>1. rpc'.status = "none" /\ rpc'.responses = <<>>
      BY <2>1, NoCallType
    <3> HIDE DEF k
    <3> QED
      BY <1>1, <1>7, <2>1, <2>2, <2>3, <3>1, StartHolds
  <2>4. CASE /\ ~ShouldStartWatchStream(TRUE, listenTargets, Stopped(stream))
             /\ stream' = Stopped(stream)
             /\ tracker' = k
             /\ UNCHANGED tokens
    <3>1. listenTargets = {}
      BY <2>4, <1>7 DEF ShouldStartWatchStream
    <3> HIDE DEF k
    <3> QED
      BY <1>8, <2>1, <2>2, <2>4, <3>1
  <2> QED
    BY <1>10, <2>3, <2>4 DEF HandleCredentialChange
<1> QED
  BY <1>4, <1>5, <1>6, <1>9, <1>10 DEF Caller

\* Callbacks of the stream and timers keep the invariant.
LEMMA CallbacksKeepInv ==
    ASSUME TypeOK, WatchInv, StreamOpen \/ TokenFailed \/ Timer \/ StreamFinish
                               \/ CorruptResponse
    PROVE  WatchInv'
PROOF
<1>1. /\ stream \in WatchStreamType /\ tracker \in TrackerType /\ rpc \in CallType
      /\ aggregator \in AggregatorType
  BY DEF TypeOK
<1>2. ASSUME NEW T \in SUBSET tokens, Started(stream), rpc' = NoCall \/ UNCHANGED rpc,
             rpc' = NoCall \/ stream.state # "Open",
             UNCHANGED <<networkEnabled, listenTargets>>,
             OnWatchStreamClose(Failed(stream), T, FALSE)
      PROVE  WatchInv'
  <2>1. rpc'.status = "none" /\ rpc'.responses = <<>>
    BY <1>2, NoCallType DEF WatchInv
  <2>2. Failed(stream) \in {Stopped(stream), Failed(stream)} /\ FALSE \in BOOLEAN
    OBVIOUS
  <2> QED
    BY <1>2, <2>1, <2>2, CloseHolds
<1>3. CASE StreamOpen
  <2>1. PICK c \in tokens :
          /\ tokens' = tokens \ {c}
          /\ \/ /\ c = stream.closeCount
                /\ Holds(stream.state = "Starting" /\ aggregator.live)
                /\ stream' = Opened(stream)
                /\ \E order \in SetToSeqs(listenTargets) :
                     rpc' = [NoCall EXCEPT !.status = "running",
                                           !.requests = WatchAll(order)]
                /\ aggregator' = RecordAllPending(aggregator)
             \/ /\ c # stream.closeCount
                /\ UNCHANGED <<stream, rpc, aggregator, asserted>>
          /\ UNCHANGED <<networkEnabled, listenTargets, tracker, used>>
    BY <1>3 DEF StreamOpen
  <2>2. CASE c = stream.closeCount
    <3>1. stream.state = "Starting" /\ Started(stream) /\ aggregator.live
      BY <2>2 DEF WatchInv, Started
    <3>2. /\ stream'.state = "Open" /\ ~stream'.idle /\ ~stream'.backoff
          /\ stream'.closeCount = stream.closeCount
      BY <2>1, <2>2, <3>1, <1>1 DEF Opened, WatchStreamType, WatchInv
    <3>3. aggregator'.live
      BY <2>1, <2>2, <3>1, <1>1, RecordTypes
    <3>4. rpc'.status = "running"
      BY <2>1, <2>2 DEF NoCall
    <3>5. \A d \in tokens' : d <= stream'.closeCount /\ d # stream'.closeCount
      BY <2>1, <2>2, <3>2 DEF WatchInv
    <3>6. asserted' /\ tracker.state # "Online"
      BY <2>1, <2>2, <3>1 DEF Holds, WatchInv
    <3> QED
      BY <2>1, <3>1, <3>2, <3>3, <3>4, <3>5, <3>6 DEF WatchInv, Started
  <2>3. CASE c # stream.closeCount
    BY <2>1, <2>3 DEF WatchInv, Started
  <2> QED
    BY <2>2, <2>3
<1>4. CASE TokenFailed
  <2>1. PICK c \in tokens :
          /\ \/ /\ c = stream.closeCount
                /\ OnWatchStreamClose(Failed(stream), tokens \ {c}, FALSE)
             \/ /\ c # stream.closeCount
                /\ tokens' = tokens \ {c}
                /\ UNCHANGED <<aggregator, stream, tracker, asserted>>
          /\ UNCHANGED <<networkEnabled, listenTargets, rpc>>
    BY <1>4 DEF TokenFailed
  <2>2. CASE c = stream.closeCount
    <3>1. stream.state = "Starting" /\ Started(stream)
      BY <2>2 DEF WatchInv, Started
    <3>2. OnWatchStreamClose(Failed(stream), tokens \ {c}, FALSE)
      BY <2>1, <2>2
    <3> QED
      BY <2>1, <3>1, <3>2, <1>2
  <2>3. CASE c # stream.closeCount
    BY <2>1, <2>3 DEF WatchInv, Started
  <2> QED
    BY <2>2, <2>3
<1>5. CASE IdleTimeout
  <2>1. Started(stream) /\ listenTargets = {}
    BY <1>5 DEF IdleTimeout, WatchInv, Started
  <2>2. rpc'.status = "none" /\ rpc'.responses = <<>>
    BY <1>5, NoCallType DEF IdleTimeout
  <2>3. Stopped(stream) \in {Stopped(stream), Failed(stream)} /\ TRUE \in BOOLEAN
    OBVIOUS
  <2> QED
    BY <1>5, <2>1, <2>2, <2>3, CloseHolds DEF IdleTimeout
<1>6. CASE BackoffElapsed
  <2>1. stream.state = "Backoff" /\ Started(stream)
    BY <1>6 DEF BackoffElapsed, WatchInv, Started
  <2>2. /\ stream'.state = "Starting" /\ ~stream'.idle /\ ~stream'.backoff
        /\ stream'.closeCount = stream.closeCount
    BY <1>1, <1>6, <2>1 DEF BackoffElapsed, Restarted, WatchStreamType, WatchInv
  <2>3. \A c \in tokens' : c <= stream'.closeCount
    <3>1. stream.closeCount \in Nat
      BY <1>1 DEF WatchStreamType
    <3>2. stream.closeCount <= stream.closeCount
      BY <3>1
    <3> QED
      BY <1>6, <2>2, <3>2 DEF BackoffElapsed, WatchInv
  <2>4. asserted'
    BY <1>6, <2>1 DEF BackoffElapsed, Holds, WatchInv
  <2> QED
    BY <1>6, <2>1, <2>2, <2>3, <2>4 DEF BackoffElapsed, WatchInv, Started
<1>7. CASE OnlineStateTimeout
  <2>1. tracker'.state = "Offline" /\ ~tracker'.timer
    BY <1>1, <1>7 DEF OnlineStateTimeout, TrackerType
  <2>2. asserted'
    BY <1>7 DEF OnlineStateTimeout, Holds, WatchInv
  <2> QED
    BY <1>7, <2>1, <2>2 DEF OnlineStateTimeout, WatchInv, Started
<1>8. CASE StreamFinish \/ CorruptResponse
  <2>1. Started(stream)
    BY <1>8 DEF StreamFinish, CorruptResponse, WatchInv, Started
  <2> QED
    BY <1>2, <1>8, <2>1 DEF StreamFinish, CorruptResponse
<1> QED
  BY <1>3, <1>4, <1>5, <1>6, <1>7, <1>8 DEF Timer

\* A message of the backend keeps the invariant: it reaches an open stream.
LEMMA MessagesKeepInv ==
    ASSUME TypeOK, WatchInv, Message
    PROVE  WatchInv'
PROOF
<1>1. /\ stream \in WatchStreamType /\ rpc \in CallType
      /\ aggregator \in AggregatorType
  BY DEF TypeOK
<1> DEFINE m == Head(rpc.responses)
<1>2. /\ rpc.responses # <<>>
      /\ Holds(Started(stream) /\ aggregator.live)
      /\ tracker' = UpdateState(tracker, "Online")
      /\ UNCHANGED <<networkEnabled, tokens>>
  BY DEF Message, TargetChange, ExistenceFilterMismatch, ProcessTargetError,
         RaiseWatchSnapshot, IgnoreOldSnapshot, Receive
<1>3. stream.state = "Open" /\ Started(stream) /\ aggregator.live /\ asserted'
  BY <1>2 DEF WatchInv, Started, Holds
<1>4. tracker'.state = "Online" /\ tracker'.failures = 0 /\ ~tracker'.timer
  BY <1>2 DEF UpdateState
<1>5. m \in ChangeType /\ (m.kind \notin {"snapshot", "old"} => m.target \in Targets)
  BY <1>1, <1>2, CallTypes DEF ChangeType
\* What is left for each message to show.
<1>6. ASSUME stream'.state = "Open", stream'.backoff = stream.backoff,
             stream'.closeCount = stream.closeCount,
             stream'.idle => stream.idle,
             listenTargets' \subseteq listenTargets,
             aggregator'.live = aggregator.live,
             rpc'.status = rpc.status
      PROVE  WatchInv'
  BY <1>2, <1>3, <1>4, <1>6 DEF WatchInv, Started
<1>7. Received => rpc'.status = rpc.status
  BY <1>1 DEF Received, CallType
<1>8. CASE TargetChange
  <2>1. m.kind \in {"added", "removed", "current", "reset"}
    BY <1>8 DEF TargetChange, Receive
  <2>2. aggregator' = HandleTargetChange(aggregator, m)
    BY <1>8 DEF TargetChange
  <2>3. aggregator'.live = aggregator.live
    BY <2>1, <2>2, <1>1, <1>5, ChangeTypes
  <2> QED
    BY <2>3, <1>3, <1>6, <1>7, <1>8 DEF TargetChange
<1>9. CASE ExistenceFilterMismatch
  <2>1. m.kind = "filter"
    BY <1>9 DEF ExistenceFilterMismatch, Receive
  <2>2. aggregator' = HandleExistenceFilter(aggregator, m)
    BY <1>9 DEF ExistenceFilterMismatch
  <2>3. aggregator'.live = aggregator.live
    BY <2>1, <2>2, <1>1, <1>5, ChangeTypes
  <2> QED
    BY <2>3, <1>3, <1>6, <1>7, <1>9 DEF ExistenceFilterMismatch
<1>10. CASE ProcessTargetError
  <2>1. m.target \in Targets
    BY <1>10, <1>5 DEF ProcessTargetError, Receive
  <2>2. /\ aggregator'.live = aggregator.live
        /\ listenTargets' \subseteq listenTargets
    BY <2>1, <1>1, <1>10, TargetStateTypes DEF ProcessTargetError
  <2> QED
    BY <2>2, <1>3, <1>6, <1>7, <1>10 DEF ProcessTargetError
<1>11. CASE RaiseWatchSnapshot
  <2> DEFINE R == aggregator.resets \cap listenTargets
  <2>1. /\ aggregator' = RecordRestart(aggregator, R)
        /\ stream' = [stream EXCEPT !.idle = @ /\ R = {}]
        /\ UNCHANGED listenTargets
    BY <1>11 DEF RaiseWatchSnapshot
  <2>2. rpc'.status = rpc.status
    BY <1>1, <1>11 DEF RaiseWatchSnapshot, CallType
  <2>3. R \in SUBSET Targets
    BY DEF TypeOK
  <2> HIDE DEF R
  <2>4. aggregator'.live = aggregator.live
    BY <2>1, <2>3, <1>1, RecordTypes
  <2>5. /\ stream'.state = stream.state /\ stream'.backoff = stream.backoff
        /\ stream'.closeCount = stream.closeCount /\ (stream'.idle => stream.idle)
    BY <2>1, <1>1 DEF WatchStreamType
  <2> QED
    BY <2>1, <2>2, <2>4, <2>5, <1>3, <1>6
<1>12. CASE IgnoreOldSnapshot
  BY <1>3, <1>6, <1>7, <1>12 DEF IgnoreOldSnapshot
<1> QED
  BY <1>8, <1>9, <1>10, <1>11, <1>12 DEF Message

\* The backend keeps the invariant: it answers only a call that runs.
LEMMA BackendKeepsInv ==
    ASSUME TypeOK, WatchInv, Backend \/ BackendDisturbs \/ CallLost
    PROVE  WatchInv'
PROOF
<1>1. UNCHANGED client
  BY DEF Backend, BackendWatch, BackendUnwatch, BackendCurrent, BackendSnapshot,
         BackendDisturbs, CallLost
<1>2. rpc.status # "none"
  BY DEF Backend, BackendWatch, BackendUnwatch, BackendCurrent, BackendSnapshot,
         BackendDisturbs, CallLost, MaySend, Connected
<1>3. rpc'.status # "none"
  <2>1. rpc \in CallType
    BY DEF TypeOK
  <2>2. CASE CallLost
    <3>1. PICK a, b : rpc' = [rpc EXCEPT !.status = "lost", !.responses = a,
                                         !.watching = b]
      BY <2>2 DEF CallLost
    <3>2. DOMAIN rpc = {"status", "requests", "responses", "watching", "unsnapped"}
      BY <2>1 DEF CallType
    <3> QED
      BY ONLY <3>1, <3>2
  <2>3. CASE Backend \/ BackendDisturbs
    <3>1. rpc'.status = rpc.status
      BY <2>1, <2>3
         DEF Backend, BackendWatch, BackendUnwatch, BackendCurrent,
             BackendSnapshot, BackendDisturbs, Answer, AnswerNext, CallType
    <3> QED
      BY <3>1, <1>2
  <2> QED
    BY <2>2, <2>3
<1> QED
  BY <1>1, <1>2, <1>3 DEF client, WatchInv, Started

-----------------------------------------------------------------------------
(* Theorems                                                                *)

\* The invariant holds in every reachable state.
LEMMA InvariantHolds == Spec => []IInv
PROOF
<1>1. Init => IInv
  BY InitTypes, NoCallType DEF Init, IInv, WatchInv, Started
<1>2. IInv /\ [Next]_vars => IInv'
  <2> SUFFICES ASSUME IInv, [Next]_vars PROVE IInv'
    OBVIOUS
  <2>1. TypeOK /\ WatchInv
    BY DEF IInv
  <2>2. TypeOK'
    BY <2>1, NextKeepsTypes
  <2>3. WatchInv'
    <3>1. CASE UNCHANGED vars
      BY <2>1, <3>1 DEF vars, WatchInv, Started
    <3>2. CASE Next
      BY <2>1, <3>2, CallerKeepsInv, CallbacksKeepInv, MessagesKeepInv,
         BackendKeepsInv
         DEF Next, Disturbance
    <3> QED
      BY <3>1, <3>2
  <2> QED
    BY <2>2, <2>3 DEF IInv
<1> QED
  BY <1>1, <1>2, PTL DEF Spec

\* No assertion of the watch half can fail and no null aggregator is used, whatever
\* the order of network switches, credential changes, callbacks, timers and messages.
THEOREM WatchAssertionsHold == Spec => []NoWatchAssertionFails
PROOF
<1>1. IInv => NoWatchAssertionFails
  BY DEF IInv, WatchInv, NoWatchAssertionFails
<1> QED
  BY <1>1, InvariantHolds, PTL

\* A client that listens with the network enabled always has a stream that is open
\* or on its way: no handler returns without starting the one it should.
THEOREM ListensKeepAStream == Spec => []NoListenIsStranded
PROOF
<1>1. IInv => NoListenIsStranded
  BY DEF IInv, WatchInv, NoListenIsStranded
<1> QED
  BY <1>1, InvariantHolds, PTL

\* The client says Online only while a stream is open.
THEOREM OnlineMeansOpen == Spec => []OnlineOnlyWhileOpen
PROOF
<1>1. IInv => OnlineOnlyWhileOpen
  BY DEF IInv, WatchInv, OnlineOnlyWhileOpen, Started
<1> QED
  BY <1>1, InvariantHolds, PTL

\* The online state timer runs only while a connection attempt is under way.
THEOREM TimerMeansConnecting == Spec => []TimerOnlyWhileConnecting
PROOF
<1>1. IInv => TimerOnlyWhileConnecting
  BY DEF IInv, WatchInv, TimerOnlyWhileConnecting
<1> QED
  BY <1>1, InvariantHolds, PTL

\* A client that was online becomes Offline in one step only when the network is
\* disabled: the timer runs only while Unknown, and a first failure leads there.
THEOREM UnknownBeforeOffline == Spec => OfflineOnlyAfterUnknown
PROOF
<1> DEFINE Step == tracker.state = "Online" /\ tracker'.state = "Offline"
                     => ~networkEnabled'
<1>1. IInv /\ [Next]_vars => [Step]_vars
  <2> SUFFICES ASSUME IInv, Next, tracker.state = "Online",
                      tracker'.state = "Offline"
               PROVE  ~networkEnabled'
    OBVIOUS
  <2>1. TypeOK /\ WatchInv
    BY DEF IInv
  <2>2. /\ tracker \in TrackerType /\ ~tracker.timer
        /\ stream.state = "Open" /\ Started(stream)
        /\ \A c \in tokens : c # stream.closeCount
    BY <2>1 DEF TypeOK, WatchInv, Started
  <2>3. /\ \A new \in {"Unknown", "Online"} : UpdateState(tracker, new).state = new
        /\ HandleWatchStreamFailure(tracker).state = "Unknown"
    BY <2>2 DEF UpdateState, HandleWatchStreamFailure, TrackerType
  <2>4. \A k \in TrackerType : k.state # "Offline" =>
          HandleWatchStreamStart(k).state # "Offline"
    BY DEF HandleWatchStreamStart, TrackerType
  <2>5. /\ UpdateState(tracker, "Unknown") \in TrackerType
        /\ HandleWatchStreamFailure(tracker) \in TrackerType
    BY <2>2, TrackerTypes DEF OnlineStates
  <2>6. \A s, T : \A graceful \in BOOLEAN : ~OnWatchStreamClose(s, T, graceful)
    BY <2>3, <2>4, <2>5 DEF OnWatchStreamClose, StartWatchStream
  <2>7. CASE Caller
    <3>1. ASSUME NEW t \in Targets, Listen(t) PROVE FALSE
      BY <3>1, <2>2 DEF Listen, ShouldStartWatchStream
    <3>2. ASSUME NEW t \in Targets, StopListening(t) PROVE FALSE
      BY <3>2, <2>2 DEF StopListening
    <3>3. ~EnableNetwork
      BY <2>2, <2>3 DEF EnableNetwork, ShouldStartWatchStream
    <3>4. ~HandleCredentialChange
      BY <2>3, <2>4, <2>5 DEF HandleCredentialChange, StartWatchStream
    <3> QED
      BY <2>7, <3>1, <3>2, <3>3, <3>4 DEF Caller, DisableNetwork
  <2>8. CASE StreamOpen \/ TokenFailed
    BY <2>2, <2>8 DEF StreamOpen, TokenFailed
  <2>9. CASE Message
    BY <2>3, <2>9
       DEF Message, TargetChange, ExistenceFilterMismatch, ProcessTargetError,
           RaiseWatchSnapshot, IgnoreOldSnapshot, Receive
  <2>10. CASE StreamFinish \/ CorruptResponse \/ IdleTimeout
    BY <2>6, <2>10 DEF StreamFinish, CorruptResponse, IdleTimeout
  <2>11. CASE BackoffElapsed \/ OnlineStateTimeout
    BY <2>2, <2>11 DEF BackoffElapsed, OnlineStateTimeout
  <2>12. CASE Backend \/ BackendDisturbs \/ CallLost
    BY <2>12
       DEF Backend, BackendWatch, BackendUnwatch, BackendCurrent, BackendSnapshot,
           BackendDisturbs, CallLost, client
  <2> QED
    BY <2>7, <2>8, <2>9, <2>10, <2>11, <2>12 DEF Next, Disturbance, Timer
<1> QED
  BY <1>1, InvariantHolds, PTL DEF Spec, OfflineOnlyAfterUnknown

-----------------------------------------------------------------------------
(* Counting requests and answers                                           *)

\* Where sequence s has elements of P.
Places(s, P) == {i \in 1..Len(s) : s[i] \in P}

\* They are finitely many, and are counted together when sequences are joined.
LEMMA PlacesConcat ==
    ASSUME NEW S, NEW s \in Seq(S), NEW q \in Seq(S), NEW P
    PROVE  /\ Cardinality(Places(s, P)) \in Nat
           /\ Cardinality(Places(s \o q, P)) =
                Cardinality(Places(s, P)) + Cardinality(Places(q, P))
           /\ \A i : i \in Places(s \o q, P) <=>
                \/ i \in Places(s, P)
                \/ i \in Int /\ i - Len(s) \in Places(q, P)
PROOF
<1> DEFINE A == Places(s, P)
           B == Places(q, P)
           C == {Len(s) + i : i \in B}
<1>1. Len(s) \in Nat /\ Len(q) \in Nat
  BY LenProperties
<1>2. /\ Len(s \o q) = Len(s) + Len(q)
      /\ \A i \in 1..Len(s) + Len(q) :
           (s \o q)[i] = IF i <= Len(s) THEN s[i] ELSE q[i - Len(s)]
  BY ConcatProperties
<1>3. A \subseteq 1..Len(s) /\ B \subseteq 1..Len(q)
  BY DEF Places
<1>4. IsFiniteSet(A) /\ IsFiniteSet(B)
  <2>1. \A n \in Nat : IsFiniteSet(1..n)
    <3>1. \A n \in Nat : 1 \in Int /\ n \in Int
      OBVIOUS
    <3> QED
      BY <3>1, FS_Interval
  <2>2. IsFiniteSet(1..Len(s)) /\ IsFiniteSet(1..Len(q))
    BY <1>1, <2>1
  <2> QED
    BY <1>3, <2>2, FS_Subset
<1>5. IsFiniteSet(C) /\ Cardinality(C) = Cardinality(B)
  <2> DEFINE f == [i \in B |-> Len(s) + i]
  <2>1. f \in Bijection(B, C)
    <3>1. f \in [B -> C] /\ \A i, j \in B : f[i] = f[j] => i = j
      BY <1>1, <1>3
    <3>2. \A x \in C : \E i \in B : f[i] = x
      OBVIOUS
    <3> HIDE DEF f, C, B
    <3> QED
      BY <3>1, <3>2 DEF Bijection, Injection, Surjection, IsInjective
  <2>2. ExistsBijection(B, C)
    BY <2>1 DEF ExistsBijection
  <2> HIDE DEF C, B
  <2> QED
    BY <1>4, <2>2, FS_Bijection
<1>6. A \cap C = {}
  BY <1>1, <1>3
<1>7. \A i : i \in Places(s \o q, P) <=> i \in A \/ i \in C
  <2>1. ASSUME NEW i \in Places(s \o q, P) PROVE i \in A \/ i \in C
    <3>1. i \in 1..Len(s) + Len(q) /\ (s \o q)[i] \in P
      BY <1>2 DEF Places
    <3>2. CASE i <= Len(s)
      BY <1>1, <1>2, <3>1, <3>2 DEF Places
    <3>3. CASE ~(i <= Len(s))
      <4>1. i - Len(s) \in 1..Len(q) /\ i = Len(s) + (i - Len(s))
        BY <1>1, <3>1, <3>3
      <4>2. i - Len(s) \in B
        BY <1>2, <3>1, <3>3, <4>1 DEF Places
      <4> QED
        BY <4>1, <4>2
    <3> QED
      BY <3>2, <3>3
  <2>2. ASSUME NEW i \in A PROVE i \in Places(s \o q, P)
    <3>1. i \in 1..Len(s) /\ s[i] \in P
      BY DEF Places
    <3>2. i \in 1..Len(s) + Len(q) /\ i <= Len(s)
      BY <1>1, <3>1
    <3> QED
      BY <1>2, <3>1, <3>2 DEF Places
  <2>3. ASSUME NEW j \in B PROVE Len(s) + j \in Places(s \o q, P)
    <3>1. j \in 1..Len(q) /\ q[j] \in P
      BY DEF Places
    <3>2. /\ Len(s) + j \in 1..Len(s) + Len(q) /\ ~(Len(s) + j <= Len(s))
          /\ (Len(s) + j) - Len(s) = j
      BY <1>1, <3>1
    <3> QED
      BY <1>2, <3>1, <3>2 DEF Places
  <2> QED
    BY <2>1, <2>2, <2>3
<1>8. \A i : i \in C <=> i \in Int /\ i - Len(s) \in B
  BY <1>1, <1>3
<1>9. Places(s \o q, P) = A \cup C
  BY <1>7
<1> HIDE DEF A, B, C
<1>10. Cardinality(A \cup C) = Cardinality(A) + Cardinality(C) - Cardinality(A \cap C)
  BY <1>4, <1>5, FS_Union
<1>11. /\ Cardinality(A) \in Nat /\ Cardinality(C) \in Nat
       /\ Cardinality(A \cap C) = 0
  BY <1>4, <1>5, <1>6, FS_CardinalityType, FS_EmptySet
<1>12. Cardinality(A \cup C) = Cardinality(A) + Cardinality(B)
  BY <1>5, <1>10, <1>11
<1> QED
  BY <1>7, <1>8, <1>9, <1>11, <1>12 DEF A, B

\* A sequence of one element has at most that one.
LEMMA PlacesOfOne ==
    ASSUME NEW m, NEW P
    PROVE  /\ Places(<<m>>, P) = IF m \in P THEN {1} ELSE {}
           /\ Cardinality(Places(<<m>>, P)) = IF m \in P THEN 1 ELSE 0
           /\ Places(<<>>, P) = {} /\ Cardinality(Places(<<>>, P)) = 0
PROOF
<1>1. Len(<<m>>) = 1 /\ <<m>>[1] = m /\ Len(<<>>) = 0
  OBVIOUS
<1>2. /\ Places(<<m>>, P) = IF m \in P THEN {1} ELSE {}
      /\ Places(<<>>, P) = {}
  BY <1>1 DEF Places
<1> QED
  BY <1>2, FS_EmptySet, FS_Singleton

\* The first element and the others.
LEMMA HeadThenTail ==
    ASSUME NEW S, NEW s \in Seq(S), s # <<>>
    PROVE  /\ s = <<Head(s)>> \o Tail(s)
           /\ Head(s) \in S /\ <<Head(s)>> \in Seq(S) /\ Tail(s) \in Seq(S)
PROOF
<1>1. Len(s) \in Nat \ {0}
  BY EmptySeq, LenProperties
<1>2. /\ Head(s) = s[1] /\ Head(s) \in S /\ Tail(s) \in Seq(S)
      /\ Len(Tail(s)) = Len(s) - 1
      /\ \A i \in 1..Len(Tail(s)) : Tail(s)[i] = s[i + 1]
  BY <1>1, HeadTailProperties
<1>3. <<Head(s)>> \in Seq(S) /\ Len(<<Head(s)>>) = 1 /\ <<Head(s)>>[1] = Head(s)
  BY <1>2
<1> DEFINE h == <<Head(s)>>
           t == Tail(s)
<1> HIDE DEF h, t
<1>4. /\ h \o t \in Seq(S) /\ Len(h \o t) = Len(h) + Len(t)
      /\ \A i \in 1..Len(h) + Len(t) :
           (h \o t)[i] = IF i <= Len(h) THEN h[i] ELSE t[i - Len(h)]
  BY <1>2, <1>3, ConcatProperties DEF h, t
<1>5. Len(h) = 1 /\ Len(t) = Len(s) - 1
  BY <1>2, <1>3 DEF h, t
<1>6. Len(h \o t) = Len(s)
  BY <1>1, <1>4, <1>5
<1>7. \A i \in 1..Len(s) : (h \o t)[i] = s[i]
  <2> SUFFICES ASSUME NEW i \in 1..Len(s) PROVE (h \o t)[i] = s[i]
    OBVIOUS
  <2>1. CASE i = 1
    <3>1. 1 \in 1..Len(h) + Len(t) /\ 1 <= Len(h)
      BY <1>1, <1>5
    <3> QED
      BY <1>2, <1>3, <1>4, <2>1, <3>1 DEF h
  <2>2. CASE i # 1
    <3>1. /\ i \in 1..Len(h) + Len(t) /\ ~(i <= Len(h))
          /\ i - Len(h) \in 1..Len(t) /\ (i - Len(h)) + 1 = i
      BY <1>1, <1>5, <2>2
    <3> QED
      BY <1>2, <1>4, <3>1 DEF t
  <2> QED
    BY <2>1, <2>2
<1>8. s = h \o t
  BY <1>4, <1>6, <1>7, SeqEqual
<1> QED
  BY <1>2, <1>3, <1>8 DEF h, t

\* What is left of a sequence was in it before.
LEMMA TailElements ==
    ASSUME NEW S, NEW s \in Seq(S), s # <<>>
    PROVE  \A i \in DOMAIN Tail(s) : i + 1 \in DOMAIN s /\ Tail(s)[i] = s[i + 1]
PROOF
<1>1. Len(s) \in Nat /\ DOMAIN s = 1..Len(s)
  BY LenProperties
<1>2. /\ Tail(s) \in Seq(S) /\ Len(Tail(s)) = Len(s) - 1
      /\ \A i \in 1..Len(Tail(s)) : Tail(s)[i] = s[i + 1]
  BY HeadTailProperties
<1>3. DOMAIN Tail(s) = 1..Len(Tail(s))
  BY <1>2, LenProperties
<1> QED
  BY <1>1, <1>2, <1>3

\* What one element more, or the first one less, makes of the count.
LEMMA CountSteps ==
    ASSUME NEW S, NEW s \in Seq(S), NEW P
    PROVE  /\ Cardinality(Places(s, P)) \in Nat
           /\ \A m \in S : Cardinality(Places(Append(s, m), P)) =
                IF m \in P THEN Cardinality(Places(s, P)) + 1
                           ELSE Cardinality(Places(s, P))
           /\ s # <<>> => Cardinality(Places(Tail(s), P)) =
                IF Head(s) \in P THEN Cardinality(Places(s, P)) - 1
                                 ELSE Cardinality(Places(s, P))
PROOF
<1>1. \A q \in Seq(S) : Cardinality(Places(q, P)) \in Nat
  BY PlacesConcat
<1>2. \A q, r \in Seq(S) : Cardinality(Places(q \o r, P)) =
        Cardinality(Places(q, P)) + Cardinality(Places(r, P))
  BY PlacesConcat
<1> DEFINE N(q) == Cardinality(Places(q, P))
<1>3. /\ \A q \in Seq(S) : N(q) \in Nat
      /\ \A q, r \in Seq(S) : N(q \o r) = N(q) + N(r)
  BY <1>1, <1>2
<1>4. \A m : N(<<m>>) = IF m \in P THEN 1 ELSE 0
  BY PlacesOfOne
<1> HIDE DEF N
<1>5. ASSUME NEW m \in S
      PROVE  N(Append(s, m)) = IF m \in P THEN N(s) + 1 ELSE N(s)
  <2>1. <<m>> \in Seq(S) /\ Append(s, m) = s \o <<m>>
    BY AppendIsConcat
  <2>2. N(Append(s, m)) = N(s) + N(<<m>>) /\ N(s) \in Nat
    BY <1>3, <2>1
  <2>3. CASE m \in P
    <3>1. N(<<m>>) = 1
      BY <1>4, <2>3
    <3> QED
      BY <2>2, <2>3, <3>1
  <2>4. CASE m \notin P
    <3>1. N(<<m>>) = 0
      BY <1>4, <2>4
    <3> QED
      BY <2>2, <2>4, <3>1
  <2> QED
    BY <2>3, <2>4
<1>6. ASSUME s # <<>>
      PROVE  N(Tail(s)) = IF Head(s) \in P THEN N(s) - 1 ELSE N(s)
  <2>1. PICK h \in S : h = Head(s)
    BY <1>6, HeadThenTail
  <2>2. PICK t \in Seq(S) : t = Tail(s)
    BY <1>6, HeadThenTail
  <2>3. s = <<h>> \o t /\ <<h>> \in Seq(S)
    BY <1>6, <2>1, <2>2, HeadThenTail
  <2>4. N(s) = N(<<h>>) + N(t) /\ N(t) \in Nat
    BY <1>3, <2>3
  <2>5. N(t) = IF h \in P THEN N(s) - 1 ELSE N(s)
    <3>1. CASE h \in P
      <4>1. N(<<h>>) = 1
        BY <1>4, <3>1
      <4> QED
        BY <2>4, <3>1, <4>1
    <3>2. CASE h \notin P
      <4>1. N(<<h>>) = 0
        BY <1>4, <3>2
      <4> QED
        BY <2>4, <3>2, <4>1
    <3> QED
      BY <3>1, <3>2
  <2> QED
    BY <2>1, <2>2, <2>5
<1> QED
  BY <1>3, <1>5, <1>6 DEF N
-----------------------------------------------------------------------------
(* What the backend will watch                                             *)

\* The requests for target t, and the answers to them.
ForTarget(t) == {m \in Request : m.target = t}
AnswerTo(t) == {m \in ChangeType : m.target = t /\ m.ack}

\* What the backend makes of t, watched as w, by the requests of s.
WatchedAfter(s, t, w) ==
    LET P == Places(s, ForTarget(t))
    IN  IF P = {} THEN w # "no"
                  ELSE \E i \in P : (\A j \in P : j <= i) /\ s[i].kind = "watch"

\* The inductive invariant of what client and backend know of each other, when no
\* target is rejected: a response is an answer just when it says so, a stream that is
\* not open yet waits for none, and while the call runs the aggregator counts what is
\* on its way and the last request for a target is what the client wants.
TargetsInv ==
    /\ \A i \in DOMAIN rpc.responses :
         /\ rpc.responses[i].kind # "rejected"
         /\ rpc.responses[i].ack <=> rpc.responses[i].kind \in {"added", "removed"}
    /\ stream.state \in {"Starting", "Backoff"} =>
         \A t \in Targets : aggregator.states[t].outstanding = 0
    /\ Connected => \A t \in Targets :
         aggregator.states[t].outstanding =
           Cardinality(Places(rpc.requests, ForTarget(t)))
             + Cardinality(Places(rpc.responses, AnswerTo(t)))
    /\ Connected => \A t \in Targets :
         WatchedAfter(rpc.requests, t, rpc.watching[t]) <=> t \in listenTargets

\* In a sequence of requests, the last one for the target decides.
LEMMA WatchedConcat ==
    ASSUME NEW s \in Seq(Request), NEW q \in Seq(Request), NEW t, NEW w
    PROVE  WatchedAfter(s \o q, t, w) <=>
             IF Places(q, ForTarget(t)) = {} THEN WatchedAfter(s, t, w)
                                             ELSE WatchedAfter(q, t, w)
PROOF
<1> DEFINE A == Places(s, ForTarget(t))
           B == Places(q, ForTarget(t))
           C == Places(s \o q, ForTarget(t))
           n == Len(s)
<1>1. /\ n \in Nat /\ A \subseteq 1..n
      /\ Len(q) \in Nat /\ B \subseteq 1..Len(q)
  <2>1. Len(s) \in Nat /\ Len(q) \in Nat
    BY LenProperties
  <2> QED
    BY <2>1 DEF Places
<1>2. \A i : i \in C <=> i \in A \/ (i \in Int /\ i - n \in B)
  BY PlacesConcat
<1>3. /\ \A i \in A : (s \o q)[i] = s[i]
      /\ \A i \in B : (s \o q)[n + i] = q[i]
  <2>1. /\ Len(s \o q) = Len(s) + Len(q)
        /\ \A i \in 1..Len(s) + Len(q) :
             (s \o q)[i] = IF i <= Len(s) THEN s[i] ELSE q[i - Len(s)]
    BY ConcatProperties
  <2>2. ASSUME NEW i \in A PROVE (s \o q)[i] = s[i]
    <3>1. i \in 1..Len(s) + Len(q) /\ i <= Len(s)
      BY <1>1
    <3> QED
      BY <2>1, <3>1
  <2>3. ASSUME NEW i \in B PROVE (s \o q)[n + i] = q[i]
    <3>1. /\ n + i \in 1..Len(s) + Len(q) /\ ~(n + i <= Len(s))
          /\ (n + i) - Len(s) = i
      BY <1>1
    <3> QED
      BY <2>1, <3>1
  <2> QED
    BY <2>2, <2>3
<1>4. /\ WatchedAfter(s, t, w) =
           IF A = {} THEN w # "no"
           ELSE \E i \in A : (\A j \in A : j <= i) /\ s[i].kind = "watch"
      /\ WatchedAfter(q, t, w) =
           IF B = {} THEN w # "no"
           ELSE \E i \in B : (\A j \in B : j <= i) /\ q[i].kind = "watch"
      /\ WatchedAfter(s \o q, t, w) =
           IF C = {} THEN w # "no"
           ELSE \E i \in C : (\A j \in C : j <= i) /\ (s \o q)[i].kind = "watch"
  BY DEF WatchedAfter
<1> HIDE DEF A, B, C, n
<1>5. CASE B = {}
  <2>1. C = A
    BY <1>2, <1>5
  <2> QED
    BY <1>3, <1>4, <1>5, <2>1 DEF B
<1>6. CASE B # {}
  <2>1. \A j \in B : n + j \in C
    <3> SUFFICES ASSUME NEW j \in B PROVE n + j \in C
      OBVIOUS
    <3>1. n + j \in Int /\ (n + j) - n = j
      BY <1>1
    <3> QED
      BY <1>2, <3>1
  <2>2. ASSUME NEW i \in C, \A j \in C : j <= i, (s \o q)[i].kind = "watch"
        PROVE  \E k \in B : (\A j \in B : j <= k) /\ q[k].kind = "watch"
    <3>1. PICK b \in B : TRUE
      BY <1>6
    <3>2. b \in Int /\ b >= 1 /\ n + b <= i
      BY <1>1, <2>1, <2>2
    <3>3. i \notin A
      <4> SUFFICES ASSUME i \in A PROVE FALSE
        OBVIOUS
      <4>1. i \in Int /\ i <= n
        BY <1>1
      <4> QED
        BY <1>1, <3>2, <4>1
    <3>4. i \in Int /\ i - n \in B
      BY <1>2, <3>3
    <3>5. \A j \in B : j <= i - n
      BY <1>1, <2>1, <2>2, <3>4
    <3>6. n + (i - n) = i
      BY <1>1, <3>4
    <3>7. q[i - n].kind = "watch"
      BY <1>3, <2>2, <3>4, <3>6
    <3> QED
      BY <3>4, <3>5, <3>7
  <2>3. ASSUME NEW k \in B, \A j \in B : j <= k, q[k].kind = "watch"
        PROVE  \E i \in C : (\A j \in C : j <= i) /\ (s \o q)[i].kind = "watch"
    <3>1. n + k \in C /\ (s \o q)[n + k].kind = "watch"
      BY <1>3, <2>1, <2>3
    <3>2. ASSUME NEW j \in C PROVE j <= n + k
      <4>1. CASE j \in A
        BY <1>1, <4>1
      <4>2. CASE j \in Int /\ j - n \in B
        <5>1. j - n <= k
          BY <2>3, <4>2
        <5> QED
          BY <1>1, <4>2, <5>1
      <4> QED
        BY <1>2, <4>1, <4>2
    <3> QED
      BY <3>1, <3>2
  <2>4. C # {}
    BY <1>6, <2>1
  <2> QED
    BY <1>4, <1>6, <2>2, <2>3, <2>4 DEF B
<1> QED
  BY <1>5, <1>6

\* One request, or none.
LEMMA WatchedOne ==
    ASSUME NEW t, NEW w
    PROVE  /\ WatchedAfter(<<>>, t, w) <=> w # "no"
           /\ \A m \in Request :
                WatchedAfter(<<m>>, t, w) <=>
                  IF m.target = t THEN m.kind = "watch" ELSE w # "no"
           /\ \A m \in Request : m \in ForTarget(t) <=> m.target = t
PROOF
<1>1. WatchedAfter(<<>>, t, w) <=> w # "no"
  <2>1. Places(<<>>, ForTarget(t)) = {}
    BY PlacesOfOne
  <2> QED
    BY <2>1 DEF WatchedAfter
<1>2. \A m \in Request : m \in ForTarget(t) <=> m.target = t
  BY DEF ForTarget
<1>3. ASSUME NEW m \in Request
      PROVE  WatchedAfter(<<m>>, t, w) <=>
               IF m.target = t THEN m.kind = "watch" ELSE w # "no"
  <2>1. Places(<<m>>, ForTarget(t)) = IF m \in ForTarget(t) THEN {1} ELSE {}
    BY PlacesOfOne
  <2>2. <<m>>[1] = m /\ 1 <= 1
    OBVIOUS
  <2>3. CASE m.target = t
    <3>1. Places(<<m>>, ForTarget(t)) = {1}
      BY <1>2, <2>1, <2>3
    <3>2. WatchedAfter(<<m>>, t, w) <=>
            \E i \in {1} : (\A j \in {1} : j <= i) /\ <<m>>[i].kind = "watch"
      BY <3>1 DEF WatchedAfter
    <3> QED
      BY <2>2, <2>3, <3>2
  <2>4. CASE m.target # t
    <3>1. Places(<<m>>, ForTarget(t)) = {}
      BY <1>2, <2>1, <2>4
    <3> QED
      BY <2>4, <3>1 DEF WatchedAfter
  <2> QED
    BY <2>3, <2>4
<1> QED
  BY <1>1, <1>2, <1>3

-----------------------------------------------------------------------------
(* Requests for a set of targets, in any order                             *)

\* An order of the targets R has each of them at one place.
LEMMA OrderPlaces ==
    ASSUME NEW R \in SUBSET Targets, NEW order \in SetToSeqs(R)
    PROVE  /\ order \in Seq(Targets) /\ Len(order) \in Nat
           /\ \A i \in 1..Len(order) : order[i] \in R
           /\ \A t \in R : \E k \in 1..Len(order) :
                \A i \in 1..Len(order) : order[i] = t <=> i = k
PROOF
<1> DEFINE n == Cardinality(R)
<1>1. IsFiniteSet(R) /\ n \in Nat
  <2>1. IsFiniteSet(R)
    BY TargetsAssumption, FS_Subset
  <2> QED
    BY <2>1, FS_CardinalityType
<1> HIDE DEF n
<1>2. /\ order \in [1..n -> R]
      /\ \A i, j \in 1..n : i # j => order[i] # order[j]
  BY DEF SetToSeqs, n
<1>3. order \in Seq(R) /\ order \in Seq(Targets) /\ Len(order) = n
  BY <1>1, <1>2
<1>4. order \in Surjection(1..n, R)
  <2>1. order \in Injection(1..n, R)
    BY <1>2 DEF Injection, IsInjective
  <2>2. Cardinality(1..n) = n
    <3>1. 1 \in Int /\ n \in Int
      BY <1>1
    <3>2. Cardinality(1..n) = IF 1 > n THEN 0 ELSE n - 1 + 1
      BY <3>1, FS_Interval
    <3> QED
      BY <1>1, <3>2
  <2> QED
    BY <1>1, <2>1, <2>2, FS_Injection DEF n
<1>5. \A t \in R : \E k \in 1..n : order[k] = t
  BY <1>4 DEF Surjection
<1>6. ASSUME NEW t \in R
      PROVE  \E k \in 1..n : \A i \in 1..n : order[i] = t <=> i = k
  <2>1. PICK k \in 1..n : order[k] = t
    BY <1>5
  <2>2. \A i \in 1..n : order[i] = t <=> i = k
    BY <1>2, <2>1
  <2> QED
    BY <2>2
<1> QED
  BY <1>1, <1>2, <1>3, <1>6

\* One request for each target that is listened to.
LEMMA WatchAllPlaces ==
    ASSUME NEW R \in SUBSET Targets, NEW order \in SetToSeqs(R), NEW t \in Targets
    PROVE  /\ Cardinality(Places(WatchAll(order), ForTarget(t))) =
                IF t \in R THEN 1 ELSE 0
           /\ WatchedAfter(WatchAll(order), t, "no") <=> t \in R
PROOF
<1> DEFINE s == WatchAll(order)
           P == Places(s, ForTarget(t))
<1>1. /\ order \in Seq(Targets) /\ Len(order) \in Nat
      /\ \A i \in 1..Len(order) : order[i] \in R
      /\ t \in R => \E k \in 1..Len(order) :
           \A i \in 1..Len(order) : order[i] = t <=> i = k
  BY OrderPlaces
<1>2. Len(s) = Len(order) /\ \A i \in 1..Len(order) : s[i] = Watch(order[i])
  BY <1>1 DEF WatchAll
<1>3. \A u \in Targets : /\ Watch(u) \in ForTarget(t) <=> u = t
                         /\ Watch(u).kind = "watch"
  BY DEF Watch, ForTarget, Request
<1> HIDE DEF s
<1>4. \A i : i \in P <=> i \in 1..Len(order) /\ order[i] = t
  BY <1>1, <1>2, <1>3 DEF Places
<1>5. CASE t \in R
  <2>1. PICK k \in 1..Len(order) : \A i \in 1..Len(order) : order[i] = t <=> i = k
    BY <1>1, <1>5
  <2>2. P = {k}
    BY <1>4, <2>1
  <2>3. s[k].kind = "watch" /\ k <= k
    BY <1>1, <1>2, <1>3, <2>1
  <2>4. WatchedAfter(s, t, "no")
    BY <2>2, <2>3 DEF WatchedAfter
  <2>5. Cardinality(P) = 1
    BY <2>2, FS_Singleton
  <2> QED
    BY <1>5, <2>4, <2>5 DEF s
<1>6. CASE t \notin R
  <2>1. P = {}
    BY <1>1, <1>4, <1>6
  <2>2. ~WatchedAfter(s, t, "no")
    BY <2>1 DEF WatchedAfter
  <2>3. Cardinality(P) = 0
    BY <2>1, FS_EmptySet
  <2> QED
    BY <1>6, <2>2, <2>3 DEF s
<1> QED
  BY <1>5, <1>6

\* Two for each target that is restarted, of which the second watches it again.
LEMMA RestartPlaces ==
    ASSUME NEW R \in SUBSET Targets, NEW order \in SetToSeqs(R), NEW t \in Targets
    PROVE  /\ t \in R =>
                /\ Cardinality(Places(RestartRequests(order), ForTarget(t))) = 2
                /\ Places(RestartRequests(order), ForTarget(t)) # {}
                /\ \A w : WatchedAfter(RestartRequests(order), t, w)
           /\ t \notin R =>
                /\ Cardinality(Places(RestartRequests(order), ForTarget(t))) = 0
                /\ Places(RestartRequests(order), ForTarget(t)) = {}
PROOF
<1> DEFINE s == RestartRequests(order)
           P == Places(s, ForTarget(t))
           n == Len(order)
<1>1. /\ n \in Nat
      /\ \A i \in 1..n : order[i] \in R
      /\ t \in R => \E k \in 1..n : \A i \in 1..n : order[i] = t <=> i = k
  BY OrderPlaces
<1>2. Len(s) = 2 * n
  BY <1>1 DEF RestartRequests
<1>3. \A i \in 1..(2 * n) :
        s[i] = IF i % 2 = 1 THEN Unwatch(order[(i + 1) \div 2])
                            ELSE Watch(order[i \div 2])
  BY DEF RestartRequests
<1>4. \A u \in Targets : /\ Watch(u) \in ForTarget(t) <=> u = t
                         /\ Unwatch(u) \in ForTarget(t) <=> u = t
                         /\ Watch(u).kind = "watch"
  BY DEF Watch, Unwatch, ForTarget, Request
<1> HIDE DEF s, n
<1>5. ASSUME NEW j \in 1..n
      PROVE  /\ 2 * j - 1 \in 1..(2 * n) /\ 2 * j \in 1..(2 * n)
             /\ s[2 * j - 1] = Unwatch(order[j])
             /\ s[2 * j] = Watch(order[j])
  <2>1. j \in Int /\ 1 <= j /\ j <= n
    BY <1>1
  <2>2. /\ 2 * j - 1 \in 1..(2 * n) /\ 2 * j \in 1..(2 * n)
    BY <1>1, <2>1
  <2>3. /\ (2 * j - 1) % 2 = 1 /\ ((2 * j - 1) + 1) \div 2 = j
        /\ (2 * j) % 2 = 0 /\ (2 * j) \div 2 = j
    BY <2>1
  <2>4. s[2 * j - 1] = Unwatch(order[j])
    BY <1>3, <2>2, <2>3
  <2>5. s[2 * j] = Watch(order[j])
    BY <1>3, <2>2, <2>3
  <2> QED
    BY <2>2, <2>4, <2>5
<1>6. ASSUME NEW i \in 1..(2 * n)
      PROVE  \E j \in 1..n : i = 2 * j - 1 \/ i = 2 * j
  <2>1. i \in Int /\ 1 <= i /\ i <= 2 * n
    BY <1>1
  <2>2. PICK j \in Int : i = 2 * j - 1 \/ i = 2 * j
    <3>1. (i + 1) \div 2 \in Int
      BY <2>1
    <3>2. i = 2 * ((i + 1) \div 2) - 1 \/ i = 2 * ((i + 1) \div 2)
      BY <2>1
    <3> QED
      BY <3>1, <3>2
  <2>3. j \in 1..n
    BY <1>1, <2>1, <2>2
  <2> QED
    BY <2>2, <2>3
<1>7. \A j \in 1..n : /\ 2 * j - 1 \in P <=> order[j] = t
                      /\ 2 * j \in P <=> order[j] = t
  <2> SUFFICES ASSUME NEW j \in 1..n
               PROVE  /\ 2 * j - 1 \in P <=> order[j] = t
                      /\ 2 * j \in P <=> order[j] = t
    OBVIOUS
  <2>1. order[j] \in Targets
    BY <1>1
  <2>2. /\ s[2 * j - 1] \in ForTarget(t) <=> order[j] = t
        /\ s[2 * j] \in ForTarget(t) <=> order[j] = t
    BY <1>4, <1>5, <2>1
  <2> QED
    BY <1>2, <1>5, <2>2 DEF Places
<1>8. P \subseteq 1..(2 * n)
  BY <1>2 DEF Places
<1> HIDE DEF P
<1>9. CASE t \in R
  <2>1. PICK k \in 1..n : \A i \in 1..n : order[i] = t <=> i = k
    BY <1>1, <1>9
  <2>2. 2 * k - 1 \in P /\ 2 * k \in P
    BY <1>7, <2>1
  <2>3. ASSUME NEW i \in P PROVE i \in {2 * k - 1, 2 * k}
    <3>1. PICK j \in 1..n : i = 2 * j - 1 \/ i = 2 * j
      BY <1>6, <1>8
    <3>2. order[j] = t
      BY <1>7, <3>1
    <3>3. j = k
      BY <2>1, <3>2
    <3> QED
      BY <3>1, <3>3
  <2>4. P = {2 * k - 1, 2 * k}
    BY <2>2, <2>3
  <2>5. 2 * k - 1 # 2 * k /\ 2 * k - 1 <= 2 * k /\ 2 * k <= 2 * k
    BY <1>1
  <2>6. Cardinality(P) = 2
    <3>1. /\ IsFiniteSet({2 * k - 1}) /\ Cardinality({2 * k - 1}) = 1
      BY FS_Singleton
    <3>2. P = {2 * k - 1} \cup {2 * k} /\ 2 * k \notin {2 * k - 1}
      BY <2>4, <2>5
    <3>3. Cardinality({2 * k - 1} \cup {2 * k}) = 1 + 1
      BY <3>1, <3>2, FS_AddElement
    <3> QED
      BY <3>2, <3>3
  <2>7. s[2 * k].kind = "watch"
    <3>1. order[k] \in Targets
      BY <1>1
    <3> QED
      BY <1>4, <1>5, <3>1
  <2>8. \A j \in P : j <= 2 * k
    BY <2>4, <2>5
  <2>9. \A w : WatchedAfter(s, t, w)
    BY <2>2, <2>7, <2>8 DEF WatchedAfter, P
  <2> QED
    BY <1>9, <2>2, <2>6, <2>9 DEF s, P
<1>10. CASE t \notin R
  <2>1. ASSUME NEW i \in P PROVE FALSE
    <3>1. PICK j \in 1..n : i = 2 * j - 1 \/ i = 2 * j
      BY <1>6, <1>8
    <3>2. order[j] = t /\ order[j] \in R
      BY <1>1, <1>7, <3>1
    <3> QED
      BY <1>10, <3>2
  <2>2. P = {} /\ Cardinality(P) = 0
    BY <2>1, FS_EmptySet
  <2> QED
    BY <1>10, <2>2 DEF s, P
<1> QED
  BY <1>9, <1>10

\* A request more, or the first one answered.
LEMMA RequestSteps ==
    ASSUME NEW s \in Seq(Request), NEW t, NEW w
    PROVE  /\ \A m \in Request : WatchedAfter(Append(s, m), t, w) <=>
                IF m.target = t THEN m.kind = "watch" ELSE WatchedAfter(s, t, w)
           /\ \A v : (v # "no" <=> w # "no") =>
                (WatchedAfter(s, t, v) <=> WatchedAfter(s, t, w))
           /\ \A v :
                /\ s # <<>>
                /\ v # "no" <=> IF Head(s).target = t THEN Head(s).kind = "watch"
                                                      ELSE w # "no"
                => (WatchedAfter(Tail(s), t, v) <=> WatchedAfter(s, t, w))
PROOF
<1>1. ASSUME NEW m \in Request
      PROVE  WatchedAfter(Append(s, m), t, w) <=>
               IF m.target = t THEN m.kind = "watch" ELSE WatchedAfter(s, t, w)
  <2>1. <<m>> \in Seq(Request) /\ Append(s, m) = s \o <<m>>
    BY AppendIsConcat
  <2>2. WatchedAfter(s \o <<m>>, t, w) <=>
          IF Places(<<m>>, ForTarget(t)) = {} THEN WatchedAfter(s, t, w)
                                              ELSE WatchedAfter(<<m>>, t, w)
    BY <2>1, WatchedConcat
  <2>3. Places(<<m>>, ForTarget(t)) = {} <=> m.target # t
    <3>1. Places(<<m>>, ForTarget(t)) = IF m \in ForTarget(t) THEN {1} ELSE {}
      BY PlacesOfOne
    <3> QED
      BY <3>1, WatchedOne
  <2>4. m.target = t => (WatchedAfter(<<m>>, t, w) <=> m.kind = "watch")
    BY WatchedOne
  <2> QED
    BY <2>1, <2>2, <2>3, <2>4
<1>2. ASSUME NEW v, v # "no" <=> w # "no"
      PROVE  WatchedAfter(s, t, v) <=> WatchedAfter(s, t, w)
  BY <1>2 DEF WatchedAfter
<1>3. ASSUME NEW v, s # <<>>,
             v # "no" <=> IF Head(s).target = t THEN Head(s).kind = "watch"
                                                ELSE w # "no"
      PROVE  WatchedAfter(Tail(s), t, v) <=> WatchedAfter(s, t, w)
  <2>1. PICK h \in Request : h = Head(s)
    BY <1>3, HeadThenTail
  <2>2. PICK r \in Seq(Request) : r = Tail(s)
    BY <1>3, HeadThenTail
  <2>3. s = <<h>> \o r /\ <<h>> \in Seq(Request)
    BY <1>3, <2>1, <2>2, HeadThenTail
  <2>4. WatchedAfter(s, t, w) <=>
          IF Places(r, ForTarget(t)) = {} THEN WatchedAfter(<<h>>, t, w)
                                          ELSE WatchedAfter(r, t, w)
    BY <2>3, WatchedConcat
  <2>5. WatchedAfter(<<h>>, t, w) <=> v # "no"
    BY <1>3, <2>1, WatchedOne, ZenonT(40)
  <2>6. CASE Places(r, ForTarget(t)) = {}
    <3>1. WatchedAfter(r, t, v) <=> v # "no"
      BY <2>6 DEF WatchedAfter
    <3> QED
      BY <2>2, <2>4, <2>5, <2>6, <3>1
  <2>7. CASE Places(r, ForTarget(t)) # {}
    <3>1. WatchedAfter(r, t, v) <=> WatchedAfter(r, t, w)
      BY <2>7 DEF WatchedAfter
    <3> QED
      BY <2>2, <2>4, <2>7, <3>1
  <2> QED
    BY <2>6, <2>7
<1> QED
  BY <1>1, <1>2, <1>3

\* The answers to a target.
LEMMA AnswersMarked ==
    ASSUME NEW t \in Targets
    PROVE  \A m \in ChangeType : m \in AnswerTo(t) <=> m.target = t /\ m.ack
PROOF
  BY DEF AnswerTo

\* What the aggregator's operations do to the counts.
LEMMA CountsChange ==
    ASSUME NEW a \in AggregatorType, NEW t \in Targets
    PROVE  /\ a.states[t].outstanding \in Int
           /\ NewAggregator.states[t].outstanding = 0
           /\ NoAggregator.states[t].outstanding = 0
           /\ \A u \in Targets :
                RecordPendingTargetRequest(a, u).states[t].outstanding =
                  IF t = u THEN a.states[t].outstanding + 1
                           ELSE a.states[t].outstanding
           /\ RecordAllPending(a).states[t].outstanding =
                IF t \in listenTargets THEN a.states[t].outstanding + 1
                                       ELSE a.states[t].outstanding
           /\ \A R \in SUBSET Targets :
                RecordRestart(a, R).states[t].outstanding =
                  IF t \in R THEN a.states[t].outstanding + 2
                             ELSE a.states[t].outstanding
PROOF
<1>1. /\ a.states[t].outstanding \in Int
      /\ a.states \in [Targets -> [outstanding : Int, current : BOOLEAN]]
      /\ a.states[t] \in [outstanding : Int, current : BOOLEAN]
  BY DEF AggregatorType
<1>2. /\ NewAggregator.states[t].outstanding = 0
      /\ NoAggregator.states[t].outstanding = 0
  BY DEF NewAggregator, NoAggregator, NewTarget
<1>3. ASSUME NEW u \in Targets
      PROVE  RecordPendingTargetRequest(a, u).states[t].outstanding =
               IF t = u THEN a.states[t].outstanding + 1
                        ELSE a.states[t].outstanding
  BY DEF RecordPendingTargetRequest, AggregatorType
<1>4. RecordAllPending(a).states[t].outstanding =
        IF t \in listenTargets THEN a.states[t].outstanding + 1
                               ELSE a.states[t].outstanding
  BY <1>1 DEF RecordAllPending, AggregatorType
<1>5. ASSUME NEW R \in SUBSET Targets
      PROVE  RecordRestart(a, R).states[t].outstanding =
               IF t \in R THEN a.states[t].outstanding + 2
                          ELSE a.states[t].outstanding
  BY <1>1 DEF RecordRestart, AggregatorType
<1> QED
  BY <1>1, <1>2, <1>3, <1>4, <1>5

\* A message about a target takes one off the count just when it is an answer:
\* the target state is thrown away only when no answer is outstanding.
LEMMA MessageCounts ==
    ASSUME aggregator \in AggregatorType, NEW t \in Targets,
           NEW m \in ChangeType, m.target \in Targets,
           m.ack <=> m.kind \in {"added", "removed"}
    PROVE  /\ m.kind \in {"added", "removed", "current", "reset"} =>
                HandleTargetChange(aggregator, m).states[t].outstanding =
                  IF m.target = t /\ m.ack
                  THEN aggregator.states[t].outstanding - 1
                  ELSE aggregator.states[t].outstanding
           /\ HandleExistenceFilter(aggregator, m).states[t].outstanding =
                aggregator.states[t].outstanding
PROOF
<1> PICK a \in AggregatorType : a = aggregator
  OBVIOUS
<1>1. /\ a.states[t].outstanding \in Int
      /\ a.states[m.target].outstanding \in Int
      /\ a.states \in [Targets -> [outstanding : Int, current : BOOLEAN]]
  BY DEF AggregatorType
<1> DEFINE b == RecordTargetResponse(a, m.target)
<1>2. /\ b \in AggregatorType
      /\ \A u \in Targets : b.states[u].outstanding =
           IF u = m.target THEN a.states[u].outstanding - 1
                           ELSE a.states[u].outstanding
  <2>1. b \in AggregatorType
    BY TargetStateTypes
  <2>2. \A u \in Targets : b.states[u].outstanding =
           IF u = m.target THEN a.states[u].outstanding - 1
                           ELSE a.states[u].outstanding
    BY DEF RecordTargetResponse, AggregatorType
  <2> QED
    BY <2>1, <2>2
<1>3. \A c \in AggregatorType :
        c.states[m.target].outstanding = 0 =>
          RemoveTarget(c, m.target).states[t].outstanding = c.states[t].outstanding
  <2> SUFFICES ASSUME NEW c \in AggregatorType,
                      c.states[m.target].outstanding = 0
               PROVE  RemoveTarget(c, m.target).states[t].outstanding =
                        c.states[t].outstanding
    OBVIOUS
  <2>1. CASE t = m.target
    BY <2>1 DEF RemoveTarget, NewTarget, AggregatorType
  <2>2. CASE t # m.target
    BY <2>2 DEF RemoveTarget, AggregatorType
  <2> QED
    BY <2>1, <2>2
<1>4. IsActiveTarget(m.target) => a.states[m.target].outstanding = 0
  BY DEF IsActiveTarget
<1>5. HandleExistenceFilter(a, m).states[t].outstanding = a.states[t].outstanding
  <2>1. [RemoveTarget(a, m.target) EXCEPT !.resets = @ \cup {m.target}].states =
          RemoveTarget(a, m.target).states
    BY DEF RemoveTarget, AggregatorType
  <2> QED
    BY <1>3, <1>4, <2>1 DEF HandleExistenceFilter
<1> DEFINE c == HandleTargetChange(a, m)
           once == IF m.target = t /\ m.ack THEN a.states[t].outstanding - 1
                                            ELSE a.states[t].outstanding
<1>6. ASSUME m.kind = "added" PROVE c.states[t].outstanding = once
  <2>1. c = b /\ m.ack
    BY <1>6 DEF HandleTargetChange
  <2> HIDE DEF c
  <2> QED
    BY <1>2, <2>1
<1>7. ASSUME m.kind = "removed" PROVE c.states[t].outstanding = once
  <2>1. /\ c = IF b.states[m.target].outstanding = 0
               THEN RemoveTarget(b, m.target) ELSE b
        /\ m.ack
    BY <1>7 DEF HandleTargetChange
  <2> HIDE DEF c
  <2>2. c.states[t].outstanding = b.states[t].outstanding
    BY <1>2, <1>3, <2>1
  <2> QED
    BY <1>2, <2>1, <2>2
<1>8. ASSUME m.kind = "current" PROVE c.states[t].outstanding = once
  <2>1. ~m.ack
    BY <1>8
  <2>2. c = IF IsActiveTarget(m.target)
            THEN [a EXCEPT !.states[m.target].current = TRUE] ELSE a
    BY <1>8 DEF HandleTargetChange
  <2> HIDE DEF c
  <2>3. [a EXCEPT !.states[m.target].current = TRUE].states[t].outstanding =
          a.states[t].outstanding
    BY <1>1 DEF AggregatorType
  <2> QED
    BY <2>1, <2>2, <2>3
<1>9. ASSUME m.kind = "reset" PROVE c.states[t].outstanding = once
  <2>1. ~m.ack
    BY <1>9
  <2>2. c = IF IsActiveTarget(m.target) THEN RemoveTarget(a, m.target) ELSE a
    BY <1>9 DEF HandleTargetChange
  <2> HIDE DEF c
  <2> QED
    BY <1>3, <1>4, <2>1, <2>2
<1>10. m.kind \in {"added", "removed", "current", "reset"} =>
         c.states[t].outstanding = once
  BY <1>6, <1>7, <1>8, <1>9
<1> QED
  BY <1>5, <1>10

-----------------------------------------------------------------------------
(* Every step keeps what client and backend know of each other             *)

\* A call that has ended, with nothing left to read, promises nothing.
LEMMA TargetsQuiet ==
    ASSUME rpc'.status # "running", rpc'.responses = <<>>,
           stream'.state \in {"Starting", "Backoff"} =>
             \A t \in Targets : aggregator'.states[t].outstanding = 0
    PROVE  TargetsInv'
PROOF
<1>1. DOMAIN rpc'.responses = {}
  OBVIOUS
<1> QED
  BY <1>1 DEF TargetsInv, Connected

\* Steps that leave the targets, the aggregator and the call alone keep it all.
LEMMA TargetsSame ==
    ASSUME TargetsInv, UNCHANGED <<listenTargets, aggregator, rpc>>,
           stream'.state \in {"Starting", "Backoff"} =>
             stream.state \in {"Starting", "Backoff"}
    PROVE  TargetsInv'
PROOF
  BY DEF TargetsInv, Connected

\* Starting the stream with a new aggregator, and closing it, leaves no count.
LEMMA NothingOutstanding ==
    ASSUME NEW s, NEW T, NEW t \in Targets
    PROVE  /\ \A k : StartWatchStream(s, k, T) =>
                aggregator'.states[t].outstanding = 0
           /\ \A graceful : OnWatchStreamClose(s, T, graceful) =>
                aggregator'.states[t].outstanding = 0
PROOF
<1>1. /\ NewAggregator.states[t].outstanding = 0
      /\ NoAggregator.states[t].outstanding = 0
  BY DEF NewAggregator, NoAggregator, NewTarget
<1>2. \A k : StartWatchStream(s, k, T) => aggregator'.states[t].outstanding = 0
  BY <1>1 DEF StartWatchStream
<1> QED
  BY <1>1, <1>2 DEF OnWatchStreamClose

\* A request that is sent is counted, and says what the client now wants.
LEMMA RequestSent ==
    ASSUME TypeOK, TargetsInv, NEW m \in Request,
           stream.state = "Open", stream'.state = "Open",
           aggregator' = RecordPendingTargetRequest(aggregator, m.target),
           rpc' = [rpc EXCEPT !.requests = Append(@, m)],
           \A t \in Targets : t \in listenTargets' <=>
             IF t = m.target THEN m.kind = "watch" ELSE t \in listenTargets
    PROVE  TargetsInv'
PROOF
<1>1. /\ rpc \in CallType /\ aggregator \in AggregatorType
      /\ rpc.requests \in Seq(Request) /\ rpc.responses \in Seq(ChangeType)
      /\ m.target \in Targets
  BY DEF TypeOK, CallType, Request
<1>2. /\ rpc'.requests = Append(rpc.requests, m)
      /\ rpc'.responses = rpc.responses
      /\ rpc'.status = rpc.status
      /\ rpc'.watching = rpc.watching
  BY <1>1 DEF CallType
<1>3. ASSUME NEW t \in Targets, Connected'
      PROVE  /\ aggregator'.states[t].outstanding =
                  Cardinality(Places(rpc'.requests, ForTarget(t)))
                    + Cardinality(Places(rpc'.responses, AnswerTo(t)))
             /\ WatchedAfter(rpc'.requests, t, rpc'.watching[t]) <=>
                  t \in listenTargets'
  <2>1. /\ aggregator.states[t].outstanding =
             Cardinality(Places(rpc.requests, ForTarget(t)))
               + Cardinality(Places(rpc.responses, AnswerTo(t)))
        /\ WatchedAfter(rpc.requests, t, rpc.watching[t]) <=> t \in listenTargets
    BY <1>2, <1>3 DEF TargetsInv, Connected
  <2>2. PICK s \in Seq(Request) : s = rpc.requests
    BY <1>1
  <2>3. /\ Cardinality(Places(s, ForTarget(t))) \in Nat
        /\ Cardinality(Places(Append(s, m), ForTarget(t))) =
             IF m \in ForTarget(t) THEN Cardinality(Places(s, ForTarget(t))) + 1
                                   ELSE Cardinality(Places(s, ForTarget(t)))
    BY CountSteps
  <2>4. Cardinality(Places(rpc.responses, AnswerTo(t))) \in Nat
    BY <1>1, PlacesConcat
  <2>5. m \in ForTarget(t) <=> m.target = t
    BY DEF ForTarget
  <2>6. aggregator'.states[t].outstanding =
          IF t = m.target THEN aggregator.states[t].outstanding + 1
                          ELSE aggregator.states[t].outstanding
    BY <1>1, CountsChange
  <2>7. aggregator'.states[t].outstanding =
          Cardinality(Places(rpc'.requests, ForTarget(t)))
            + Cardinality(Places(rpc'.responses, AnswerTo(t)))
    BY <1>2, <2>1, <2>2, <2>3, <2>4, <2>5, <2>6
  <2>8. \A w : WatchedAfter(Append(s, m), t, w) <=>
          IF m.target = t THEN m.kind = "watch" ELSE WatchedAfter(s, t, w)
    BY RequestSteps
  <2>9. WatchedAfter(rpc'.requests, t, rpc'.watching[t]) <=> t \in listenTargets'
    BY <1>2, <2>1, <2>2, <2>8
  <2> QED
    BY <2>7, <2>9
<1>4. \A i \in DOMAIN rpc'.responses :
        /\ rpc'.responses[i].kind # "rejected"
        /\ rpc'.responses[i].ack <=> rpc'.responses[i].kind \in {"added", "removed"}
  BY <1>2 DEF TargetsInv
<1> QED
  BY <1>3, <1>4 DEF TargetsInv, Connected

\* The caller's steps.
LEMMA CallerKeepsTargets ==
    ASSUME IInv, TargetsInv, Caller
    PROVE  TargetsInv'
PROOF
<1>1. /\ TypeOK
      /\ rpc.status # "none" => stream.state = "Open"
      /\ rpc.status = "none" => rpc.responses = <<>>
      /\ rpc.status \in {"none", "running", "lost"}
  BY DEF IInv, WatchInv, TypeOK, CallType
<1>2. \A n, T : ShouldStartWatchStream(n, T, stream) =>
        stream.state # "Open" /\ rpc.status # "running" /\ rpc.responses = <<>>
  BY <1>1 DEF ShouldStartWatchStream, Started
<1>3. \A u \in Targets : /\ Watch(u) \in Request /\ Unwatch(u) \in Request
                         /\ Watch(u).target = u /\ Unwatch(u).target = u
                         /\ Watch(u).kind = "watch" /\ Unwatch(u).kind # "watch"
  BY DEF Watch, Unwatch, Request
<1>4. ASSUME NEW s, NEW k, NEW T, StartWatchStream(s, k, T), UNCHANGED rpc,
             rpc.status # "running", rpc.responses = <<>>
      PROVE  TargetsInv'
  BY <1>4, NothingOutstanding, TargetsQuiet
<1>5. ASSUME rpc' = NoCall,
             \A t \in Targets : aggregator'.states[t].outstanding = 0
      PROVE  TargetsInv'
  <2>1. rpc'.status # "running" /\ rpc'.responses = <<>>
    BY <1>5 DEF NoCall
  <2> QED
    BY <1>5, <2>1, TargetsQuiet
<1>6. ASSUME stream.state # "Open", UNCHANGED <<aggregator, stream, rpc>>
      PROVE  TargetsInv'
  <2>1. rpc'.status # "running" /\ rpc'.responses = <<>>
    BY <1>1, <1>6
  <2>2. stream'.state \in {"Starting", "Backoff"} =>
          \A t \in Targets : aggregator'.states[t].outstanding = 0
    BY <1>6 DEF TargetsInv
  <2> QED
    BY <2>1, <2>2, TargetsQuiet
<1>7. ASSUME NEW t \in Targets, Listen(t) PROVE TargetsInv'
  <2>1. CASE /\ ShouldStartWatchStream(networkEnabled, {t}, stream)
             /\ StartWatchStream(stream, tracker, tokens)
             /\ UNCHANGED rpc
    BY <1>2, <1>4, <2>1
  <2>2. CASE /\ stream.state = "Open"
             /\ aggregator' = RecordPendingTargetRequest(aggregator, t)
             /\ rpc' = [rpc EXCEPT !.requests = Append(@, Watch(t))]
             /\ stream' = [stream EXCEPT !.idle = FALSE]
    <3>1. stream'.state = "Open"
      BY <1>1, <2>2 DEF TypeOK, WatchStreamType
    <3>2. \A u \in Targets : u \in listenTargets' <=>
            IF u = t THEN Watch(t).kind = "watch" ELSE u \in listenTargets
      BY <1>3, <1>7 DEF Listen
    <3>3. PICK m \in Request : m = Watch(t)
      BY <1>3
    <3> QED
      BY <1>1, <1>3, <2>2, <3>1, <3>2, <3>3, RequestSent
  <2>3. CASE stream.state # "Open" /\ UNCHANGED <<aggregator, stream, rpc>>
    BY <1>6, <2>3
  <2> QED
    BY <1>7, <2>1, <2>2, <2>3 DEF Listen
<1>8. ASSUME NEW t \in Targets, StopListening(t) PROVE TargetsInv'
  <2>1. CASE /\ stream.state = "Open"
             /\ aggregator' = RecordPendingTargetRequest(aggregator, t)
             /\ rpc' = [rpc EXCEPT !.requests = Append(@, Unwatch(t))]
             /\ stream' = [stream EXCEPT !.idle = (listenTargets' = {})]
    <3>1. stream'.state = "Open"
      BY <1>1, <2>1 DEF TypeOK, WatchStreamType
    <3>2. \A u \in Targets : u \in listenTargets' <=>
            IF u = t THEN Unwatch(t).kind = "watch" ELSE u \in listenTargets
      BY <1>3, <1>8 DEF StopListening
    <3>3. PICK m \in Request : m = Unwatch(t)
      BY <1>3
    <3> QED
      BY <1>1, <1>3, <2>1, <3>1, <3>2, <3>3, RequestSent
  <2>2. CASE stream.state # "Open" /\ UNCHANGED <<aggregator, stream, rpc>>
    BY <1>6, <2>2
  <2> QED
    BY <1>8, <2>1, <2>2 DEF StopListening
<1>9. ASSUME EnableNetwork PROVE TargetsInv'
  <2>1. CASE /\ ShouldStartWatchStream(TRUE, listenTargets, stream)
             /\ StartWatchStream(stream, tracker, tokens)
    BY <1>2, <1>4, <1>9, <2>1 DEF EnableNetwork
  <2>2. CASE UNCHANGED <<aggregator, stream>>
    BY <1>9, <2>2, TargetsSame DEF EnableNetwork
  <2> QED
    BY <1>9, <2>1, <2>2 DEF EnableNetwork
<1>10. ASSUME DisableNetwork PROVE TargetsInv'
  <2>1. \A t \in Targets : NoAggregator.states[t].outstanding = 0
    BY DEF NewAggregator, NoAggregator, NewTarget
  <2> QED
    BY <1>5, <1>10, <2>1 DEF DisableNetwork
<1>11. ASSUME HandleCredentialChange PROVE TargetsInv'
  <2>1. CASE StartWatchStream(Stopped(stream), UpdateState(tracker, "Unknown"),
                              tokens)
    BY <1>5, <1>11, <2>1, NothingOutstanding DEF HandleCredentialChange
  <2>2. CASE aggregator' = NoAggregator
    <3>1. \A t \in Targets : NoAggregator.states[t].outstanding = 0
      BY DEF NewAggregator, NoAggregator, NewTarget
    <3> QED
      BY <1>5, <1>11, <2>2, <3>1 DEF HandleCredentialChange
  <2> QED
    BY <1>11, <2>1, <2>2 DEF HandleCredentialChange
<1> QED
  BY <1>7, <1>8, <1>9, <1>10, <1>11 DEF Caller

\* Opening the stream: a request for every target, counted once.
LEMMA OpenKeepsTargets ==
    ASSUME IInv, TargetsInv, StreamOpen
    PROVE  TargetsInv'
PROOF
<1>1. PICK c \in tokens :
        /\ UNCHANGED listenTargets
        /\ \/ /\ c = stream.closeCount
              /\ stream' = Opened(stream)
              /\ \E order \in SetToSeqs(listenTargets) :
                   rpc' = [NoCall EXCEPT !.status = "running",
                                         !.requests = WatchAll(order)]
              /\ aggregator' = RecordAllPending(aggregator)
           \/ UNCHANGED <<stream, rpc, aggregator>>
  BY DEF StreamOpen
<1>2. CASE UNCHANGED <<stream, rpc, aggregator>>
  BY <1>1, <1>2, TargetsSame
<1>3. CASE /\ c = stream.closeCount
           /\ stream' = Opened(stream)
           /\ \E order \in SetToSeqs(listenTargets) :
                rpc' = [NoCall EXCEPT !.status = "running",
                                      !.requests = WatchAll(order)]
           /\ aggregator' = RecordAllPending(aggregator)
  <2>1. /\ stream.state = "Starting" /\ aggregator \in AggregatorType
        /\ listenTargets \in SUBSET Targets
        /\ stream \in WatchStreamType
    BY <1>3 DEF IInv, WatchInv, TypeOK
  <2>2. stream'.state = "Open"
    BY <1>3, <2>1 DEF Opened, WatchStreamType
  <2>3. PICK order \in SetToSeqs(listenTargets) :
          rpc' = [NoCall EXCEPT !.status = "running", !.requests = WatchAll(order)]
    BY <1>3
  <2>4. PICK s : s = WatchAll(order)
    OBVIOUS
  <2>5. /\ rpc'.requests = s /\ rpc'.responses = <<>>
        /\ \A t \in Targets : rpc'.watching[t] = "no"
    BY <2>3, <2>4 DEF NoCall
  <2>6. ASSUME NEW t \in Targets
        PROVE  /\ aggregator'.states[t].outstanding =
                    Cardinality(Places(rpc'.requests, ForTarget(t)))
                      + Cardinality(Places(rpc'.responses, AnswerTo(t)))
               /\ WatchedAfter(rpc'.requests, t, rpc'.watching[t]) <=>
                    t \in listenTargets'
    <3>1. /\ Cardinality(Places(s, ForTarget(t))) =
               IF t \in listenTargets THEN 1 ELSE 0
          /\ WatchedAfter(s, t, "no") <=> t \in listenTargets
      BY <2>1, <2>4, WatchAllPlaces
    <3>2. aggregator.states[t].outstanding = 0
      BY <2>1 DEF TargetsInv
    <3>3. aggregator'.states[t].outstanding = IF t \in listenTargets THEN 1 ELSE 0
      <4>1. aggregator'.states[t].outstanding =
              IF t \in listenTargets THEN aggregator.states[t].outstanding + 1
                                     ELSE aggregator.states[t].outstanding
        BY <1>3, <2>1, CountsChange
      <4> QED
        BY <3>2, <4>1
    <3>4. Cardinality(Places(<<>>, AnswerTo(t))) = 0
      BY PlacesOfOne
    <3>5. Cardinality(Places(s, ForTarget(t))) + 0 =
            Cardinality(Places(s, ForTarget(t)))
      BY <3>1
    <3> QED
      BY <1>1, <2>5, <3>1, <3>3, <3>4, <3>5
  <2>7. DOMAIN rpc'.responses = {}
    BY <2>5
  <2> QED
    BY <2>2, <2>6, <2>7 DEF TargetsInv, Connected
<1> QED
  BY <1>1, <1>2, <1>3

\* Steps that close the stream, and the timers.
LEMMA ClosesKeepTargets ==
    ASSUME IInv, TargetsInv,
           TokenFailed \/ CorruptResponse \/ StreamFinish \/ Timer
    PROVE  TargetsInv'
PROOF
<1>1. /\ rpc.status # "none" => stream.state = "Open"
      /\ rpc.status = "none" => rpc.responses = <<>>
      /\ rpc.status \in {"none", "running", "lost"}
      /\ stream.backoff <=> stream.state = "Backoff"
      /\ \A c \in tokens : c = stream.closeCount => stream.state = "Starting"
      /\ stream \in WatchStreamType
  BY DEF IInv, WatchInv, TypeOK, CallType
<1>2. ASSUME NEW s, NEW T, NEW graceful, OnWatchStreamClose(s, T, graceful),
             rpc' = NoCall
      PROVE  TargetsInv'
  <2>1. rpc'.status # "running" /\ rpc'.responses = <<>>
    BY <1>2 DEF NoCall
  <2> QED
    BY <1>2, <2>1, NothingOutstanding, TargetsQuiet
<1>3. CASE CorruptResponse
  BY <1>2, <1>3 DEF CorruptResponse
<1>4. CASE StreamFinish
  BY <1>2, <1>4 DEF StreamFinish
<1>5. CASE IdleTimeout
  BY <1>2, <1>5 DEF IdleTimeout
<1>6. CASE TokenFailed
  <2>1. PICK c \in tokens :
          /\ UNCHANGED <<listenTargets, rpc>>
          /\ \/ /\ c = stream.closeCount
                /\ OnWatchStreamClose(Failed(stream), tokens \ {c}, FALSE)
             \/ UNCHANGED <<aggregator, stream>>
    BY <1>6 DEF TokenFailed
  <2>2. CASE UNCHANGED <<aggregator, stream>>
    BY <2>1, <2>2, TargetsSame
  <2>3. CASE /\ c = stream.closeCount
             /\ OnWatchStreamClose(Failed(stream), tokens \ {c}, FALSE)
    <3>1. rpc'.status # "running" /\ rpc'.responses = <<>>
      BY <1>1, <2>1, <2>3
    <3> QED
      BY <2>3, <3>1, NothingOutstanding, TargetsQuiet
  <2> QED
    BY <2>1, <2>2, <2>3
<1>7. CASE BackoffElapsed
  BY <1>1, <1>7, TargetsSame DEF BackoffElapsed
<1>8. CASE OnlineStateTimeout
  BY <1>8, TargetsSame DEF OnlineStateTimeout
<1> QED
  BY <1>3, <1>4, <1>5, <1>6, <1>7, <1>8 DEF Timer

\* A message that is taken: the others stay, and an answer is counted no longer.
LEMMA MessageTaken ==
    ASSUME TypeOK, TargetsInv, rpc.responses # <<>>,
           rpc' = [rpc EXCEPT !.responses = Tail(@)],
           UNCHANGED <<listenTargets, stream>>, 
           stream.state = "Open",
           \A t \in Targets :
             aggregator'.states[t].outstanding =
               IF Head(rpc.responses).target = t /\ Head(rpc.responses).ack
               THEN aggregator.states[t].outstanding - 1
               ELSE aggregator.states[t].outstanding
    PROVE  TargetsInv'
PROOF
<1>1. /\ rpc \in CallType /\ aggregator \in AggregatorType
      /\ rpc.responses \in Seq(ChangeType) /\ rpc.requests \in Seq(Request)
  BY DEF TypeOK, CallType
<1>2. /\ rpc'.requests = rpc.requests /\ rpc'.responses = Tail(rpc.responses)
      /\ rpc'.status = rpc.status /\ rpc'.watching = rpc.watching
  BY <1>1 DEF CallType
<1>3. PICK q \in Seq(ChangeType) : q = rpc.responses
  BY <1>1
<1>4. \A i \in DOMAIN Tail(q) : i + 1 \in DOMAIN q /\ Tail(q)[i] = q[i + 1]
  BY <1>3, TailElements
<1>5. \A i \in DOMAIN rpc'.responses :
        /\ rpc'.responses[i].kind # "rejected"
        /\ rpc'.responses[i].ack <=> rpc'.responses[i].kind \in {"added", "removed"}
  BY <1>2, <1>3, <1>4 DEF TargetsInv
<1>6. ASSUME NEW t \in Targets, Connected'
      PROVE  /\ aggregator'.states[t].outstanding =
                  Cardinality(Places(rpc'.requests, ForTarget(t)))
                    + Cardinality(Places(rpc'.responses, AnswerTo(t)))
             /\ WatchedAfter(rpc'.requests, t, rpc'.watching[t]) <=>
                  t \in listenTargets'
  <2>1. /\ aggregator.states[t].outstanding =
             Cardinality(Places(rpc.requests, ForTarget(t)))
               + Cardinality(Places(q, AnswerTo(t)))
        /\ WatchedAfter(rpc.requests, t, rpc.watching[t]) <=> t \in listenTargets
    BY <1>2, <1>3, <1>6 DEF TargetsInv, Connected
  <2>2. /\ Cardinality(Places(q, AnswerTo(t))) \in Nat
        /\ Cardinality(Places(Tail(q), AnswerTo(t))) =
             IF Head(q) \in AnswerTo(t) THEN Cardinality(Places(q, AnswerTo(t))) - 1
                                        ELSE Cardinality(Places(q, AnswerTo(t)))
    BY <1>3, CountSteps
  <2>3. Head(q) \in AnswerTo(t) <=> Head(q).target = t /\ Head(q).ack
    BY <1>3, HeadThenTail, AnswersMarked
  <2>4. Cardinality(Places(rpc.requests, ForTarget(t))) \in Nat
    BY <1>1, PlacesConcat
  <2>5. aggregator'.states[t].outstanding =
          IF Head(q).target = t /\ Head(q).ack
          THEN aggregator.states[t].outstanding - 1
          ELSE aggregator.states[t].outstanding
    BY <1>3
  <2>6. aggregator'.states[t].outstanding =
          Cardinality(Places(rpc.requests, ForTarget(t)))
            + Cardinality(Places(Tail(q), AnswerTo(t)))
    BY <2>1, <2>2, <2>3, <2>4, <2>5
  <2> QED
    BY <1>2, <1>3, <2>1, <2>6
<1> QED
  BY <1>5, <1>6 DEF TargetsInv, Connected

\* Messages of the backend.
LEMMA MessagesKeepTargets ==
    ASSUME IInv, TargetsInv, Message
    PROVE  TargetsInv'
PROOF
<1>1. /\ TypeOK /\ rpc \in CallType /\ aggregator \in AggregatorType
      /\ stream \in WatchStreamType /\ listenTargets \in SUBSET Targets
      /\ rpc.requests \in Seq(Request) /\ rpc.responses \in Seq(ChangeType)
  BY DEF IInv, TypeOK, CallType
<1>2. /\ rpc.responses # <<>>
      /\ \A kinds : Receive(kinds) => Head(rpc.responses).kind \in kinds
  BY DEF Message, TargetChange, ExistenceFilterMismatch, ProcessTargetError,
         RaiseWatchSnapshot, IgnoreOldSnapshot, Receive
<1>3. stream.state = "Open"
  BY <1>2 DEF IInv, WatchInv
<1>4. PICK m \in ChangeType : m = Head(rpc.responses)
  BY <1>1, <1>2, HeadThenTail
<1>5. m.kind # "rejected" /\ (m.ack <=> m.kind \in {"added", "removed"})
  <2>1. /\ 1 \in DOMAIN rpc.responses /\ m = rpc.responses[1]
    <3>1. Len(rpc.responses) \in Nat \ {0} /\ DOMAIN rpc.responses = 1..Len(rpc.responses)
      BY <1>1, <1>2, EmptySeq, LenProperties
    <3>2. Head(rpc.responses) = rpc.responses[1]
      BY <1>1, <1>2, HeadTailProperties
    <3> QED
      BY <1>4, <3>1, <3>2
  <2> QED
    BY <2>1 DEF TargetsInv
<1>6. m.kind \in {"added", "removed", "current", "reset", "filter"} =>
        m.target \in Targets
  BY DEF ChangeType
<1>7. CASE TargetChange
  <2>1. /\ m.kind \in {"added", "removed", "current", "reset"}
        /\ aggregator' = HandleTargetChange(aggregator, m)
        /\ rpc' = [rpc EXCEPT !.responses = Tail(@)]
        /\ UNCHANGED <<listenTargets, stream>>
    BY <1>2, <1>4, <1>7 DEF TargetChange, Received
  <2>2. m.target \in Targets
    BY <1>6, <2>1
  <2>3. \A t \in Targets : aggregator'.states[t].outstanding =
          IF m.target = t /\ m.ack THEN aggregator.states[t].outstanding - 1
                                   ELSE aggregator.states[t].outstanding
    BY <1>1, <1>5, <2>1, <2>2, MessageCounts
  <2> QED
    BY <1>1, <1>2, <1>3, <1>4, <2>1, <2>3, MessageTaken
<1>8. CASE ExistenceFilterMismatch
  <2>1. /\ m.kind = "filter"
        /\ aggregator' = HandleExistenceFilter(aggregator, m)
        /\ rpc' = [rpc EXCEPT !.responses = Tail(@)]
        /\ UNCHANGED <<listenTargets, stream>>
    BY <1>2, <1>4, <1>8 DEF ExistenceFilterMismatch, Received
  <2>2. m.target \in Targets /\ ~m.ack
    BY <1>5, <1>6, <2>1
  <2>3. \A t \in Targets : aggregator'.states[t].outstanding =
          aggregator.states[t].outstanding
    BY <1>1, <1>5, <2>1, <2>2, MessageCounts
  <2> QED
    BY <1>1, <1>2, <1>3, <1>4, <2>1, <2>2, <2>3, MessageTaken
<1>9. CASE ProcessTargetError
  <2>1. m.kind = "rejected"
    BY <1>2, <1>4, <1>9 DEF ProcessTargetError
  <2> QED
    BY <1>5, <2>1
<1>10. CASE IgnoreOldSnapshot
  <2>1. /\ m.kind = "old"
        /\ UNCHANGED <<listenTargets, stream, aggregator>>
        /\ rpc' = [rpc EXCEPT !.responses = Tail(@)]
    BY <1>2, <1>4, <1>10 DEF IgnoreOldSnapshot, Received
  <2>2. ~m.ack
    BY <1>5, <2>1
  <2> QED
    BY <1>1, <1>2, <1>3, <1>4, <2>1, <2>2, MessageTaken
<1>11. CASE RaiseWatchSnapshot
  <2> DEFINE R == aggregator.resets \cap listenTargets
  <2>1. /\ m.kind = "snapshot"
        /\ UNCHANGED listenTargets
        /\ aggregator' = RecordRestart(aggregator, R)
        /\ stream' = [stream EXCEPT !.idle = @ /\ R = {}]
        /\ \E order \in SetToSeqs(R) :
             rpc' = [rpc EXCEPT !.responses = Tail(@),
                                !.requests = @ \o RestartRequests(order)]
    BY <1>2, <1>4, <1>11 DEF RaiseWatchSnapshot
  <2>2. R \in SUBSET Targets /\ R \subseteq listenTargets
    BY <1>1
  <2>3. ~m.ack
    BY <1>5, <2>1
  <2>4. stream'.state = "Open"
    BY <1>1, <1>3, <2>1 DEF WatchStreamType
  <2> HIDE DEF R
  <2>5. PICK order \in SetToSeqs(R) :
          rpc' = [rpc EXCEPT !.responses = Tail(@),
                             !.requests = @ \o RestartRequests(order)]
    BY <2>1
  <2>6. PICK q \in Seq(Request) : q = RestartRequests(order)
    BY <2>2, RequestTypes
  <2>7. /\ rpc'.requests = rpc.requests \o q
        /\ rpc'.responses = Tail(rpc.responses)
        /\ rpc'.status = rpc.status /\ rpc'.watching = rpc.watching
    BY <1>1, <2>5, <2>6 DEF CallType
  <2>8. PICK s \in Seq(ChangeType) : s = rpc.responses
    BY <1>1
  <2>9. \A i \in DOMAIN rpc'.responses :
           /\ rpc'.responses[i].kind # "rejected"
           /\ rpc'.responses[i].ack <=> rpc'.responses[i].kind \in {"added", "removed"}
    <3>1. \A i \in DOMAIN Tail(s) : i + 1 \in DOMAIN s /\ Tail(s)[i] = s[i + 1]
      BY <1>2, <2>8, TailElements
    <3> QED
      BY <2>7, <2>8, <3>1 DEF TargetsInv
  <2>10. ASSUME NEW t \in Targets, Connected'
         PROVE  /\ aggregator'.states[t].outstanding =
                     Cardinality(Places(rpc'.requests, ForTarget(t)))
                       + Cardinality(Places(rpc'.responses, AnswerTo(t)))
                /\ WatchedAfter(rpc'.requests, t, rpc'.watching[t]) <=>
                     t \in listenTargets'
    <3>1. PICK r \in Seq(Request) : r = rpc.requests
      BY <1>1
    <3>0. r \in Seq(Request) /\ q \in Seq(Request)
      OBVIOUS
    <3>2. /\ aggregator.states[t].outstanding =
               Cardinality(Places(r, ForTarget(t)))
                 + Cardinality(Places(s, AnswerTo(t)))
          /\ WatchedAfter(r, t, rpc.watching[t]) <=> t \in listenTargets
      BY <2>7, <2>8, <2>10, <3>1 DEF TargetsInv, Connected
    <3>3. /\ Cardinality(Places(r, ForTarget(t))) \in Nat
          /\ Cardinality(Places(r \o q, ForTarget(t))) =
               Cardinality(Places(r, ForTarget(t)))
                 + Cardinality(Places(q, ForTarget(t)))
      BY PlacesConcat
    <3>4. /\ Cardinality(Places(s, AnswerTo(t))) \in Nat
          /\ Cardinality(Places(Tail(s), AnswerTo(t))) =
               Cardinality(Places(s, AnswerTo(t)))
      <4>1. Head(s) \notin AnswerTo(t)
        BY <1>4, <2>3, <2>8, AnswersMarked
      <4> QED
        BY <1>2, <2>8, <4>1, CountSteps
    <3>5. \A w : WatchedAfter(r \o q, t, w) <=>
            IF Places(q, ForTarget(t)) = {} THEN WatchedAfter(r, t, w)
                                            ELSE WatchedAfter(q, t, w)
      BY ONLY <3>0, WatchedConcat
    <3>6. aggregator'.states[t].outstanding =
            IF t \in R THEN aggregator.states[t].outstanding + 2
                       ELSE aggregator.states[t].outstanding
      BY <1>1, <2>1, <2>2, CountsChange, SMTT(30)
    <3>7. CASE t \in R
      <4>1. /\ Cardinality(Places(q, ForTarget(t))) = 2
            /\ Places(q, ForTarget(t)) # {}
            /\ \A w : WatchedAfter(q, t, w)
        BY <2>2, <2>6, <3>7, RestartPlaces
      <4>2. aggregator'.states[t].outstanding =
              Cardinality(Places(r \o q, ForTarget(t)))
                + Cardinality(Places(Tail(s), AnswerTo(t)))
        BY <3>2, <3>3, <3>4, <3>6, <3>7, <4>1
      <4>3. \A w : WatchedAfter(r \o q, t, w)
        BY <3>5, <4>1
      <4>4. t \in listenTargets'
        BY <2>1, <2>2, <3>7
      <4> QED
        BY <2>7, <2>8, <3>1, <4>2, <4>3, <4>4
    <3>8. CASE t \notin R
      <4>1. /\ Cardinality(Places(q, ForTarget(t))) = 0
            /\ Places(q, ForTarget(t)) = {}
        BY <2>2, <2>6, <3>8, RestartPlaces
      <4>2. aggregator'.states[t].outstanding =
              Cardinality(Places(r \o q, ForTarget(t)))
                + Cardinality(Places(Tail(s), AnswerTo(t)))
        BY <3>2, <3>3, <3>4, <3>6, <3>8, <4>1
      <4>3. WatchedAfter(r \o q, t, rpc.watching[t]) <=> t \in listenTargets'
        BY <2>1, <3>2, <3>5, <4>1
      <4> QED
        BY <2>7, <2>8, <3>1, <4>2, <4>3
    <3> QED
      BY <3>7, <3>8
  <2> QED
    BY <2>4, <2>9, <2>10 DEF TargetsInv, Connected
<1> QED
  BY <1>7, <1>8, <1>9, <1>10, <1>11 DEF Message

\* A message that the backend sends, whose answer is one request less on its way, and
\* which leaves what it will watch.
LEMMA BackendSends ==
    ASSUME TypeOK, TargetsInv, Connected, UNCHANGED client, NEW m \in ChangeType,
           m.kind # "rejected", m.ack <=> m.kind \in {"added", "removed"},
           rpc'.responses = Append(rpc.responses, m),
           \A t \in Targets :
             /\ Cardinality(Places(rpc.requests, ForTarget(t))) =
                  IF m.target = t /\ m.ack
                  THEN Cardinality(Places(rpc'.requests, ForTarget(t))) + 1
                  ELSE Cardinality(Places(rpc'.requests, ForTarget(t)))
             /\ Cardinality(Places(rpc'.requests, ForTarget(t))) \in Nat
             /\ WatchedAfter(rpc'.requests, t, rpc'.watching[t]) <=>
                  WatchedAfter(rpc.requests, t, rpc.watching[t])
    PROVE  TargetsInv'
PROOF
<1>1. /\ UNCHANGED <<listenTargets, aggregator, stream>>
      /\ rpc.responses \in Seq(ChangeType)
  BY DEF client, TypeOK, CallType
<1>2. PICK s \in Seq(ChangeType) : s = rpc.responses
  BY <1>1
<1>3. \A i \in DOMAIN Append(s, m) :
        \/ i \in DOMAIN s /\ Append(s, m)[i] = s[i]
        \/ Append(s, m)[i] = m
  <2>1. /\ Append(s, m) \in Seq(ChangeType) /\ Len(Append(s, m)) = Len(s) + 1
        /\ \A i \in 1..Len(s) : Append(s, m)[i] = s[i]
        /\ Append(s, m)[Len(s) + 1] = m
    BY AppendProperties
  <2>2. /\ DOMAIN s = 1..Len(s) /\ Len(s) \in Nat
        /\ DOMAIN Append(s, m) = 1..Len(Append(s, m))
    BY <2>1, LenProperties
  <2>3. \A i \in 1..(Len(s) + 1) : i \in 1..Len(s) \/ i = Len(s) + 1
    BY <2>2
  <2> QED
    BY <2>1, <2>2, <2>3
<1>4. \A i \in DOMAIN rpc'.responses :
        /\ rpc'.responses[i].kind # "rejected"
        /\ rpc'.responses[i].ack <=> rpc'.responses[i].kind \in {"added", "removed"}
  BY <1>2, <1>3 DEF TargetsInv
<1>5. ASSUME NEW t \in Targets
      PROVE  /\ aggregator'.states[t].outstanding =
                  Cardinality(Places(rpc'.requests, ForTarget(t)))
                    + Cardinality(Places(rpc'.responses, AnswerTo(t)))
             /\ WatchedAfter(rpc'.requests, t, rpc'.watching[t]) <=>
                  t \in listenTargets'
  <2>1. /\ aggregator.states[t].outstanding =
             Cardinality(Places(rpc.requests, ForTarget(t)))
               + Cardinality(Places(s, AnswerTo(t)))
        /\ WatchedAfter(rpc.requests, t, rpc.watching[t]) <=> t \in listenTargets
    BY <1>2 DEF TargetsInv
  <2>2. /\ Cardinality(Places(s, AnswerTo(t))) \in Nat
        /\ Cardinality(Places(Append(s, m), AnswerTo(t))) =
             IF m \in AnswerTo(t) THEN Cardinality(Places(s, AnswerTo(t))) + 1
                                  ELSE Cardinality(Places(s, AnswerTo(t)))
    BY CountSteps
  <2>3. m \in AnswerTo(t) <=> m.target = t /\ m.ack
    BY AnswersMarked
  <2>4. aggregator.states[t].outstanding =
          Cardinality(Places(rpc'.requests, ForTarget(t)))
            + Cardinality(Places(Append(s, m), AnswerTo(t)))
    BY <2>1, <2>2, <2>3
  <2> QED
    BY <1>1, <1>2, <2>1, <2>4
<1> QED
  BY <1>1, <1>4, <1>5 DEF TargetsInv, Connected

\* The next request is answered.
LEMMA AnswerNextKeeps ==
    ASSUME TypeOK, TargetsInv, Connected, UNCHANGED client, NEW m \in ChangeType,
           m.kind # "rejected", m.ack, m.kind \in {"added", "removed"},
           rpc.requests # <<>>, m.target = Head(rpc.requests).target,
           NEW w \in {"no", "added"},
           w # "no" <=> Head(rpc.requests).kind = "watch",
           AnswerNext(m, m.target, w)
    PROVE  TargetsInv'
PROOF
<1>1. /\ rpc \in CallType /\ rpc.requests \in Seq(Request)
      /\ rpc.watching \in [Targets -> {"no", "added", "current"}]
  BY DEF TypeOK, CallType
<1>2. PICK s \in Seq(Request) : s = rpc.requests
  BY <1>1
<1>3. /\ Head(s) \in Request /\ Tail(s) \in Seq(Request)
      /\ m.target \in Targets
  <2>1. s # <<>> /\ m.target = Head(s).target
    BY <1>2
  <2>2. Head(s) \in Request /\ Tail(s) \in Seq(Request)
    BY <2>1, HeadThenTail
  <2> QED
    BY <2>1, <2>2 DEF Request
<1>4. /\ rpc'.requests = Tail(s)
      /\ rpc'.responses = Append(rpc.responses, m)
      /\ rpc'.watching = [rpc.watching EXCEPT ![m.target] = w]
  BY <1>1, <1>2 DEF AnswerNext, CallType
<1>5. ASSUME NEW t \in Targets
      PROVE  /\ Cardinality(Places(rpc.requests, ForTarget(t))) =
                  IF m.target = t /\ m.ack
                  THEN Cardinality(Places(rpc'.requests, ForTarget(t))) + 1
                  ELSE Cardinality(Places(rpc'.requests, ForTarget(t)))
             /\ Cardinality(Places(rpc'.requests, ForTarget(t))) \in Nat
             /\ WatchedAfter(rpc'.requests, t, rpc'.watching[t]) <=>
                  WatchedAfter(rpc.requests, t, rpc.watching[t])
  <2>1. /\ Cardinality(Places(s, ForTarget(t))) \in Nat
        /\ Cardinality(Places(Tail(s), ForTarget(t))) =
             IF Head(s) \in ForTarget(t) THEN Cardinality(Places(s, ForTarget(t))) - 1
                                         ELSE Cardinality(Places(s, ForTarget(t)))
    BY <1>2, CountSteps
  <2>2. Head(s) \in ForTarget(t) <=> m.target = t
    BY <1>2, <1>3 DEF ForTarget
  <2>3. Cardinality(Places(Tail(s), ForTarget(t))) \in Nat
    BY <1>3, CountSteps
  <2>4. PICK v : v = rpc'.watching[t]
    OBVIOUS
  <2>5. PICK u : u = rpc.watching[t]
    OBVIOUS
  <2>6. v # "no" <=> IF Head(s).target = t THEN Head(s).kind = "watch" ELSE u # "no"
    BY <1>1, <1>2, <1>3, <1>4, <2>4, <2>5
  <2>7. WatchedAfter(Tail(s), t, v) <=> WatchedAfter(s, t, u)
    BY <1>2, <2>6, RequestSteps
  <2>8. Cardinality(Places(s, ForTarget(t))) =
          IF m.target = t /\ m.ack
          THEN Cardinality(Places(Tail(s), ForTarget(t))) + 1
          ELSE Cardinality(Places(Tail(s), ForTarget(t)))
    BY <2>1, <2>2, <2>3
  <2> QED
    BY <1>2, <1>4, <2>3, <2>4, <2>5, <2>7, <2>8
<1> QED
  BY <1>4, <1>5, BackendSends

\* A message that answers nothing, about a target that the backend watches, if any.
LEMMA AnswerKeeps ==
    ASSUME TypeOK, TargetsInv, Connected, UNCHANGED client, NEW m \in ChangeType,
           m.kind # "rejected", ~m.ack, m.kind \notin {"added", "removed"},
           rpc'.requests = rpc.requests,
           rpc'.responses = Append(rpc.responses, m),
           \A t \in Targets : rpc'.watching[t] # "no" <=> rpc.watching[t] # "no"
    PROVE  TargetsInv'
PROOF
<1>1. PICK s \in Seq(Request) : s = rpc.requests
  BY DEF TypeOK, CallType
<1>2. ASSUME NEW t \in Targets
      PROVE  /\ Cardinality(Places(s, ForTarget(t))) \in Nat
             /\ WatchedAfter(s, t, rpc'.watching[t]) <=>
                  WatchedAfter(s, t, rpc.watching[t])
  <2>1. PICK v : v = rpc'.watching[t]
    OBVIOUS
  <2>2. PICK u : u = rpc.watching[t]
    OBVIOUS
  <2>3. WatchedAfter(s, t, v) <=> WatchedAfter(s, t, u)
    <3>1. v # "no" <=> u # "no"
      BY <2>1, <2>2
    <3> QED
      BY <3>1, RequestSteps
  <2> QED
    BY <2>1, <2>2, <2>3, CountSteps
<1>3. \A t \in Targets :
        /\ Cardinality(Places(rpc.requests, ForTarget(t))) =
             IF m.target = t /\ m.ack
             THEN Cardinality(Places(rpc'.requests, ForTarget(t))) + 1
             ELSE Cardinality(Places(rpc'.requests, ForTarget(t)))
        /\ Cardinality(Places(rpc'.requests, ForTarget(t))) \in Nat
        /\ WatchedAfter(rpc'.requests, t, rpc'.watching[t]) <=>
             WatchedAfter(rpc.requests, t, rpc.watching[t])
  BY <1>1, <1>2
<1> QED
  BY <1>3, BackendSends

\* The backend and the network, without rejected targets.
LEMMA BackendKeepsTargets ==
    ASSUME "reject" \notin WatchFaultKinds, IInv, TargetsInv,
           Backend \/ BackendDisturbs \/ CallLost
    PROVE  TargetsInv'
PROOF
<1>1. /\ TypeOK /\ rpc \in CallType /\ UNCHANGED client /\ Connected
      /\ rpc.requests \in Seq(Request) /\ rpc.responses \in Seq(ChangeType)
      /\ rpc.watching \in [Targets -> {"no", "added", "current"}]
  BY DEF IInv, TypeOK, CallType, Backend, BackendWatch, BackendUnwatch,
         BackendCurrent, BackendSnapshot, BackendDisturbs, CallLost, MaySend
<1>2. ~Fault("reject")
  BY DEF Fault
<1>3. rpc.requests # <<>> => Head(rpc.requests).target \in Targets
  <2>1. rpc.requests # <<>> => Head(rpc.requests) \in Request
    BY <1>1, CallTypes
  <2> QED
    BY <2>1 DEF Request
<1>4. CASE BackendWatch
  <2>1. PICK t \in Targets : t = Head(rpc.requests).target
    BY <1>3, <1>4 DEF BackendWatch
  <2>2. PICK m \in ChangeType : m = Change("added", t, TRUE)
    BY DEF Change, ChangeType, Kinds
  <2>3. m.kind = "added" /\ m.ack /\ m.target = t
    BY <2>2 DEF Change
  <2>4. /\ rpc.requests # <<>> /\ Head(rpc.requests).kind = "watch"
        /\ AnswerNext(m, m.target, "added")
    BY <1>2, <1>4, <2>1, <2>2, <2>3 DEF BackendWatch
  <2> QED
    BY <1>1, <2>1, <2>3, <2>4, AnswerNextKeeps
<1>5. CASE BackendUnwatch
  <2>1. PICK t \in Targets : t = Head(rpc.requests).target
    BY <1>3, <1>5 DEF BackendUnwatch
  <2>2. PICK m \in ChangeType : m = Change("removed", t, TRUE)
    BY DEF Change, ChangeType, Kinds
  <2>3. m.kind = "removed" /\ m.ack /\ m.target = t
    BY <2>2 DEF Change
  <2>4. /\ rpc.requests # <<>> /\ Head(rpc.requests).kind = "unwatch"
        /\ AnswerNext(m, m.target, "no")
    BY <1>5, <2>1, <2>2, <2>3 DEF BackendUnwatch
  <2> QED
    BY <1>1, <2>1, <2>3, <2>4, AnswerNextKeeps
<1>6. ASSUME NEW kind \in {"current", "reset", "filter"}, NEW t \in Targets,
             NEW w \in {"added", "current"},
             rpc.watching[t] # "no", Answer(Change(kind, t, FALSE), t, w)
      PROVE  TargetsInv'
  <2>1. PICK m \in ChangeType : m = Change(kind, t, FALSE)
    BY DEF Change, ChangeType, Kinds
  <2>2. m.kind = kind /\ ~m.ack
    BY <2>1 DEF Change
  <2>3. /\ rpc'.requests = rpc.requests
        /\ rpc'.responses = Append(rpc.responses, m)
        /\ rpc'.watching = [rpc.watching EXCEPT ![t] = w]
    BY <1>1, <1>6, <2>1 DEF Answer, CallType
  <2>4. \A u \in Targets : rpc'.watching[u] # "no" <=> rpc.watching[u] # "no"
    BY <1>1, <1>6, <2>3
  <2>5. m.kind # "rejected" /\ m.kind \notin {"added", "removed"}
    BY <1>6, <2>2
  <2> QED
    BY <1>1, <2>2, <2>3, <2>4, <2>5, AnswerKeeps
<1>7. CASE BackendCurrent
  <2>1. PICK t \in Targets : /\ rpc.watching[t] = "added"
                             /\ Answer(Change("current", t, FALSE), t, "current")
    BY <1>7 DEF BackendCurrent
  <2> QED
    BY <1>6, <2>1
<1>8. CASE BackendDisturbs
  <2>1. PICK t \in Targets :
          /\ rpc.watching[t] # "no"
          /\ \/ Answer(Change("reset", t, FALSE), t, "added")
             \/ Answer(Change("filter", t, FALSE), t, rpc.watching[t])
    BY <1>2, <1>8 DEF BackendDisturbs
  <2>2. CASE Answer(Change("reset", t, FALSE), t, "added")
    BY <1>6, <2>1, <2>2
  <2>3. CASE Answer(Change("filter", t, FALSE), t, rpc.watching[t])
    <3>1. rpc.watching[t] \in {"added", "current"}
      BY <1>1, <2>1
    <3> QED
      BY <1>6, <2>1, <2>3, <3>1
  <2> QED
    BY <2>1, <2>2, <2>3
<1>9. CASE BackendSnapshot
  <2>1. PICK kind \in {"snapshot", "old"} :
          /\ rpc'.responses = Append(rpc.responses, Change(kind, NoTarget, FALSE))
          /\ rpc'.requests = rpc.requests
          /\ rpc'.watching = rpc.watching
    BY <1>1, <1>9 DEF BackendSnapshot, CallType
  <2>2. PICK m \in ChangeType : m = Change(kind, NoTarget, FALSE)
    BY DEF Change, ChangeType
  <2>3. m.kind \in {"snapshot", "old"} /\ ~m.ack
    BY <2>1, <2>2 DEF Change
  <2> QED
    BY <1>1, <2>1, <2>2, <2>3, AnswerKeeps
<1>10. CASE CallLost
  <2>1. PICK n \in 0..Len(rpc.responses) :
          rpc' = [rpc EXCEPT !.status = "lost",
                             !.responses = SubSeq(@, 1, n),
                             !.watching = [t \in Targets |-> "no"]]
    BY <1>10 DEF CallLost
  <2>2. rpc'.status = "lost" /\ rpc'.responses = SubSeq(rpc.responses, 1, n)
    BY <1>1, <2>1 DEF CallType
  <2>3. PICK s \in Seq(ChangeType) : s = rpc.responses
    BY <1>1
  <2>4. \A i \in DOMAIN SubSeq(s, 1, n) :
          i \in DOMAIN s /\ SubSeq(s, 1, n)[i] = s[i]
    BY <2>1, <2>3
  <2>5. \A i \in DOMAIN rpc'.responses :
          /\ rpc'.responses[i].kind # "rejected"
          /\ rpc'.responses[i].ack <=> rpc'.responses[i].kind \in {"added", "removed"}
    BY <2>2, <2>3, <2>4 DEF TargetsInv
  <2>6. stream'.state \in {"Starting", "Backoff"} =>
          \A t \in Targets : aggregator'.states[t].outstanding = 0
    BY <1>1 DEF TargetsInv, client
  <2> QED
    BY <2>2, <2>5, <2>6 DEF TargetsInv, Connected
<1> QED
  BY <1>4, <1>5, <1>7, <1>8, <1>9, <1>10 DEF Backend

\* Without rejected targets, the invariant holds in every reachable state.
LEMMA TargetsInvariantHolds ==
    ASSUME "reject" \notin WatchFaultKinds
    PROVE  Spec => [](IInv /\ TargetsInv)
PROOF
<1>1. Init => TargetsInv
  <2> SUFFICES ASSUME Init PROVE TargetsInv
    OBVIOUS
  <2>1. rpc.responses = <<>> /\ rpc.status = "none" /\ stream.state = "Initial"
    BY DEF Init, NoCall
  <2>2. DOMAIN rpc.responses = {}
    BY <2>1
  <2> QED
    BY <2>1, <2>2 DEF TargetsInv, Connected
<1>2. IInv /\ TargetsInv /\ [Next]_vars => TargetsInv'
  <2> SUFFICES ASSUME IInv, TargetsInv, [Next]_vars PROVE TargetsInv'
    OBVIOUS
  <2>1. CASE UNCHANGED vars
    BY <2>1, TargetsSame DEF vars
  <2>2. CASE Next
    <3>1. CASE Caller
      BY <3>1, CallerKeepsTargets
    <3>2. CASE StreamOpen
      BY <3>2, OpenKeepsTargets
    <3>3. CASE Message
      BY <3>3, MessagesKeepTargets
    <3>4. CASE StreamFinish \/ Timer \/ TokenFailed \/ CorruptResponse
      BY <3>4, ClosesKeepTargets
    <3>5. CASE Backend \/ BackendDisturbs \/ CallLost
      BY <3>5, BackendKeepsTargets
    <3> QED
      BY <2>2, <3>1, <3>2, <3>3, <3>4, <3>5 DEF Next, Disturbance
  <2> QED
    BY <2>1, <2>2
<1> QED
  BY <1>1, <1>2, InvariantHolds, PTL DEF Spec

\* The places that the properties speak of are those that are counted here.
LEMMA PlacesOfProperties ==
    ASSUME TypeOK, NEW t \in Targets
    PROVE  /\ RequestsFor(t) = Places(rpc.requests, ForTarget(t))
           /\ AnswersFor(t) = Places(rpc.responses, AnswerTo(t))
           /\ WillWatch(t) <=> WatchedAfter(rpc.requests, t, rpc.watching[t])
PROOF
<1>1. rpc.requests \in Seq(Request) /\ rpc.responses \in Seq(ChangeType)
  BY DEF TypeOK, CallType
<1>2. PICK s \in Seq(Request) : s = rpc.requests
  BY <1>1
<1>3. PICK q \in Seq(ChangeType) : q = rpc.responses
  BY <1>1
<1>4. /\ DOMAIN s = 1..Len(s) /\ \A i \in 1..Len(s) : s[i] \in Request
      /\ DOMAIN q = 1..Len(q) /\ \A i \in 1..Len(q) : q[i] \in ChangeType
  BY LenProperties, ElementOfSeq
<1>5. RequestsFor(t) = Places(rpc.requests, ForTarget(t))
  <2>1. RequestsFor(t) = {i \in 1..Len(s) : s[i].target = t}
    BY <1>2, <1>4 DEF RequestsFor
  <2>2. Places(s, ForTarget(t)) = {i \in 1..Len(s) : s[i].target = t}
    BY <1>4 DEF Places, ForTarget
  <2> QED
    BY <1>2, <2>1, <2>2
<1>6. AnswersFor(t) = Places(rpc.responses, AnswerTo(t))
  <2>1. AnswersFor(t) = {i \in 1..Len(q) : q[i].target = t /\ q[i].ack}
    BY <1>3, <1>4 DEF AnswersFor
  <2>2. Places(q, AnswerTo(t)) = {i \in 1..Len(q) : q[i].target = t /\ q[i].ack}
    BY <1>4 DEF Places, AnswerTo
  <2> QED
    BY <1>3, <2>1, <2>2
<1>7. WillWatch(t) <=> WatchedAfter(rpc.requests, t, rpc.watching[t])
  BY <1>5 DEF WillWatch, WatchedAfter
<1> QED
  BY <1>5, <1>6, <1>7

\* Without rejected targets, and whatever the order of listens, restarts of the
\* stream, existence filters and lost calls: once the requests on their way have been
\* handled, the backend watches exactly the targets that the client listens to.
THEOREM BackendAgrees ==
    ASSUME "reject" \notin WatchFaultKinds
    PROVE  Spec => []BackendWatchesTargets
PROOF
<1>1. IInv /\ TargetsInv => BackendWatchesTargets
  <2> SUFFICES ASSUME IInv, TargetsInv PROVE BackendWatchesTargets
    OBVIOUS
  <2>1. \A t \in Targets :
          WillWatch(t) <=> WatchedAfter(rpc.requests, t, rpc.watching[t])
    BY PlacesOfProperties DEF IInv
  <2> QED
    BY <2>1 DEF TargetsInv, BackendWatchesTargets
<1> QED
  BY <1>1, TargetsInvariantHolds, PTL

\* And outstanding_responses_ is what its comment says: the number of the requests
\* for the target, and of the answers to them, that are on their way.
THEOREM OutstandingIsExact ==
    ASSUME "reject" \notin WatchFaultKinds
    PROVE  Spec => []OutstandingIsUnanswered
PROOF
<1>1. IInv /\ TargetsInv => OutstandingIsUnanswered
  <2> SUFFICES ASSUME IInv, TargetsInv PROVE OutstandingIsUnanswered
    OBVIOUS
  <2>1. \A t \in Targets :
          /\ RequestsFor(t) = Places(rpc.requests, ForTarget(t))
          /\ AnswersFor(t) = Places(rpc.responses, AnswerTo(t))
    BY PlacesOfProperties DEF IInv
  <2> QED
    BY <2>1 DEF TargetsInv, OutstandingIsUnanswered, Unanswered
<1> QED
  BY <1>1, TargetsInvariantHolds, PTL
=============================================================================
