----------------------------- MODULE RemoteWatch -----------------------------
(***************************************************************************)
(* The watch half of RemoteStore: the targets the client listens to, the    *)
(* watch stream, the count of unanswered requests in WatchChangeAggregator, *)
(* and OnlineStateTracker, all on the worker queue.                         *)
(*                                                                         *)
(* Every handler is one action.  Token callbacks, gRPC results and timers   *)
(* may run in any order.  External parts, modelled from how the code uses   *)
(* them: the caller (SyncEngine), Auth's tokens, gRPC and the backend.      *)
(* What a target change says about documents is left out: a target is       *)
(* CURRENT or not.                                                          *)
(***************************************************************************)
EXTENDS Streams, Integers, Sequences, FiniteSets, SequencesExt

CONSTANTS
    Targets,      \* TargetIds; a query that is listened to again keeps its id
    NoTarget,     \* a change without target ids
    MaxFailures,  \* kMaxWatchStreamFailures
    MaxListens,   \* bound: calls of Listen
    MaxToggles,   \* bound: network switches and credential changes
    MaxFaults,    \* bound: faults of the network and whims of the backend
    MaxInFlight,  \* bound: messages of the backend on their way
    WatchFaultKinds  \* which of them the environment produces

WatchFaults == {"lost", "token", "corrupt", "reject", "filter", "reset", "old"}

\* TargetIds are integers of the program, so there are finitely many.
ASSUME TargetsAssumption == NoTarget \notin Targets /\ IsFiniteSet(Targets)
ASSUME FailuresAssumption == MaxFailures \in Nat \ {0}
ASSUME WatchBoundsAssumption ==
    /\ {MaxListens, MaxToggles, MaxFaults, MaxInFlight} \subseteq Nat
    /\ WatchFaultKinds \subseteq WatchFaults

VARIABLES
    networkEnabled,  \* is_network_enabled_
    listenTargets,   \* the keys of listen_targets_
    aggregator,      \* watch_change_aggregator_
    stream,          \* WatchStream: [state, idle, backoff, closeCount]
    tokens,          \* close counts of the token requests not answered yet
    tracker,         \* OnlineStateTracker: [state, failures, timer]
    rpc,             \* the gRPC call, with what the backend watches for it
    asserted,        \* FALSE once a HARD_ASSERT has failed
    used             \* [listens, toggles, faults]: the bounds used up

vars == <<networkEnabled, listenTargets, aggregator, stream, tokens, tracker,
          rpc, asserted, used>>

-----------------------------------------------------------------------------
Request == [kind : {"watch", "unwatch"}, target : Targets]

\* `ack` marks the answer to a request.
Change(kind, t, ack) == [kind |-> kind, target |-> t, ack |-> ack]

NewTarget == [outstanding |-> 0, current |-> FALSE]
NewAggregator == [live |-> TRUE, states |-> [t \in Targets |-> NewTarget],
                  resets |-> {}]

\* The pointer is null.  A target state that was erased reads like a new one.
NoAggregator == [NewAggregator EXCEPT !.live = FALSE]

NoCall == [status |-> "none", requests |-> <<>>, responses |-> <<>>,
           watching |-> [t \in Targets |-> "no"], unsnapped |-> FALSE]

Holds(condition) == asserted' = (asserted /\ condition)

-----------------------------------------------------------------------------
(* OnlineStateTracker                                                      *)

UpdateState(k, new) == [state |-> new, failures |-> 0, timer |-> FALSE]

\* Only the first attempt of a series starts the timer.
HandleWatchStreamStart(k) ==
    IF k.failures = 0 THEN [k EXCEPT !.state = "Unknown", !.timer = TRUE] ELSE k
MayStartTimer(k) == k.failures = 0 => ~k.timer

\* Variant: the failure that gives up leaves the timer running.
HandleFailureKeepingTimer(k) ==
    CASE k.state = "Online" -> [k EXCEPT !.state = "Unknown"]
      [] k.state # "Online" /\ k.failures + 1 >= MaxFailures ->
           [state |-> "Offline", failures |-> k.failures + 1, timer |-> k.timer]
      [] OTHER -> [k EXCEPT !.failures = @ + 1]

\* Variant: counts the wrong way.
HandleFailureDown(k) ==
    IF k.state = "Online" THEN [k EXCEPT !.state = "Unknown"]
                          ELSE [k EXCEPT !.failures = @ - 1]

HandleWatchStreamFailure(k) ==
    CASE k.state = "Online" -> [k EXCEPT !.state = "Unknown"]
      [] k.state # "Online" /\ k.failures + 1 >= MaxFailures ->
           [state |-> "Offline", failures |-> k.failures + 1, timer |-> FALSE]
      [] OTHER -> [k EXCEPT !.failures = @ + 1]
MayHandleFailure(k) == k.state = "Online" => k.failures = 0 /\ ~k.timer

-----------------------------------------------------------------------------
(* WatchChangeAggregator                                                   *)

RecordPendingTargetRequest(a, t) ==
    [a EXCEPT !.states[t].outstanding = @ + 1]
RecordTargetResponse(a, t) == [a EXCEPT !.states[t].outstanding = @ - 1]
RemoveTarget(a, t) == [a EXCEPT !.states[t] = NewTarget]

\* IsActiveTarget: listened to, and no answer outstanding.
IsActiveTarget(t) == t \in listenTargets /\ aggregator.states[t].outstanding = 0

\* HandleTargetChange.  ADDED clears the document changes and nothing else.
HandleTargetChange(a, m) ==
    LET answered == RecordTargetResponse(a, m.target)
        last == answered.states[m.target].outstanding = 0
    IN  CASE m.kind = "added" -> answered
          [] m.kind = "removed" ->
               IF last THEN RemoveTarget(answered, m.target) ELSE answered
          [] m.kind = "current" ->
               IF IsActiveTarget(m.target)
               THEN [a EXCEPT !.states[m.target].current = TRUE] ELSE a
          [] m.kind = "reset" ->
               IF IsActiveTarget(m.target) THEN RemoveTarget(a, m.target) ELSE a

\* HandleExistenceFilter, for a filter that does not match.
HandleExistenceFilter(a, m) ==
    IF IsActiveTarget(m.target)
    THEN [RemoveTarget(a, m.target) EXCEPT !.resets = @ \cup {m.target}]
    ELSE a

-----------------------------------------------------------------------------
(* RemoteStore                                                             *)

\* Variant: a stream that failed is not started again.
ShouldStartInitialStream(net, targets, s) ==
    net /\ s.state = "Initial" /\ targets # {}

ShouldStartWatchStream(net, targets, s) ==
    net /\ ~Started(s) /\ targets # {}

\* s, k and T: the stream, the tracker and the token requests as the handler has
\* left them.  A stream in state Error only schedules its backoff timer.
StartWatchStream(s, k, T) ==
    /\ aggregator' = NewAggregator
    /\ stream' = StartStream(s)
    /\ tokens' = IF s.state = "Initial" THEN T \cup {s.closeCount} ELSE T
    /\ tracker' = HandleWatchStreamStart(k)

\* Variant: the online state is left alone.
OnWatchStreamCloseSilently(s, T, graceful) ==
    \/ /\ ShouldStartWatchStream(networkEnabled, listenTargets, s)
       /\ Holds(/\ ~graceful /\ MayHandleFailure(tracker)
                /\ MayStartTimer(HandleWatchStreamFailure(tracker)))
       /\ StartWatchStream(s, HandleWatchStreamFailure(tracker), T)
    \/ /\ ~ShouldStartWatchStream(networkEnabled, listenTargets, s)
       /\ aggregator' = NoAggregator
       /\ stream' = s
       /\ tokens' = T
       /\ UNCHANGED <<tracker, asserted>>

\* The stream has been closed, by Stop() (`graceful`) or by an error.
OnWatchStreamClose(s, T, graceful) ==
    \/ /\ ShouldStartWatchStream(networkEnabled, listenTargets, s)
       /\ Holds(/\ ~graceful /\ MayHandleFailure(tracker)
                /\ MayStartTimer(HandleWatchStreamFailure(tracker)))
       /\ StartWatchStream(s, HandleWatchStreamFailure(tracker), T)
    \/ /\ ~ShouldStartWatchStream(networkEnabled, listenTargets, s)
       /\ aggregator' = NoAggregator
       /\ stream' = s
       /\ tokens' = T
       /\ tracker' = UpdateState(tracker, "Unknown")
       /\ UNCHANGED asserted

Watch(t) == [kind |-> "watch", target |-> t]
Unwatch(t) == [kind |-> "unwatch", target |-> t]

\* Listen returns early for a target that is watched already.  Writing to an open
\* stream cancels its idle timer.
Listen(t) ==
    /\ used.listens < MaxListens
    /\ used' = [used EXCEPT !.listens = @ + 1]
    /\ t \notin listenTargets
    /\ listenTargets' = listenTargets \cup {t}
    /\ \/ /\ ShouldStartWatchStream(networkEnabled, {t}, stream)
          /\ Holds(MayStartTimer(tracker))
          /\ StartWatchStream(stream, tracker, tokens)
          /\ UNCHANGED rpc
       \/ /\ stream.state = "Open"
          /\ Holds(aggregator.live)
          /\ aggregator' = RecordPendingTargetRequest(aggregator, t)
          /\ rpc' = [rpc EXCEPT !.requests = Append(@, Watch(t))]
          /\ stream' = [stream EXCEPT !.idle = FALSE]
          /\ UNCHANGED <<tokens, tracker>>
       \/ /\ ~ShouldStartWatchStream(networkEnabled, {t}, stream)
          /\ stream.state # "Open"
          /\ UNCHANGED <<aggregator, stream, tokens, tracker, rpc, asserted>>
    /\ UNCHANGED networkEnabled

\* MarkIdle when the last target of an open stream goes.
StopListening(t) ==
    /\ t \in listenTargets
    /\ listenTargets' = listenTargets \ {t}
    /\ \/ /\ stream.state = "Open"
          /\ Holds(aggregator.live)
          /\ aggregator' = RecordPendingTargetRequest(aggregator, t)
          /\ rpc' = [rpc EXCEPT !.requests = Append(@, Unwatch(t))]
          /\ stream' = [stream EXCEPT !.idle = (listenTargets' = {})]
          /\ UNCHANGED tracker
       \/ /\ stream.state # "Open"
          /\ tracker' = IF listenTargets' = {} /\ networkEnabled
                        THEN UpdateState(tracker, "Unknown") ELSE tracker
          /\ UNCHANGED <<aggregator, stream, rpc, asserted>>
    /\ UNCHANGED <<networkEnabled, tokens, used>>

Toggle ==
    /\ used.toggles < MaxToggles
    /\ used' = [used EXCEPT !.toggles = @ + 1]

EnableNetwork ==
    /\ Toggle
    /\ networkEnabled' = TRUE
    /\ \/ /\ ShouldStartWatchStream(TRUE, listenTargets, stream)
          /\ Holds(MayStartTimer(tracker))
          /\ StartWatchStream(stream, tracker, tokens)
       \/ /\ ~ShouldStartWatchStream(TRUE, listenTargets, stream)
          /\ tracker' = UpdateState(tracker, "Unknown")
          /\ UNCHANGED <<aggregator, stream, tokens, asserted>>
    /\ UNCHANGED <<listenTargets, rpc>>

\* The flag goes first, so that the stream's close is not taken for a failure.
DisableNetwork ==
    /\ Toggle
    /\ networkEnabled' = FALSE
    /\ stream' = Stopped(stream)
    /\ rpc' = NoCall
    /\ aggregator' = NoAggregator
    /\ tracker' = UpdateState(tracker, "Offline")
    /\ UNCHANGED <<listenTargets, tokens, asserted>>

\* Tears the stream down and starts it again with the token of the new user.
HandleCredentialChange ==
    /\ Toggle
    /\ networkEnabled
    /\ rpc' = NoCall
    /\ \/ /\ ShouldStartWatchStream(TRUE, listenTargets, Stopped(stream))
          /\ StartWatchStream(Stopped(stream), UpdateState(tracker, "Unknown"),
                              tokens)
       \/ /\ ~ShouldStartWatchStream(TRUE, listenTargets, Stopped(stream))
          /\ aggregator' = NoAggregator
          /\ stream' = Stopped(stream)
          /\ tracker' = UpdateState(tracker, "Unknown")
          /\ UNCHANGED tokens
    /\ UNCHANGED <<networkEnabled, listenTargets, asserted>>

-----------------------------------------------------------------------------
(* Token callbacks and timers                                              *)

\* OnWatchStreamOpen: a request for every target, in the order of the hash map.
WatchAll(order) == [i \in DOMAIN order |-> Watch(order[i])]

RecordAllPending(a) ==
    [a EXCEPT !.states = [t \in Targets |->
        IF t \in listenTargets
        THEN [a.states[t] EXCEPT !.outstanding = @ + 1] ELSE a.states[t]]]

\* ResumeStartWithCredentials with a token.  A callback of an earlier start, told
\* by its close count, is stale.
StreamOpen ==
    \E c \in tokens :
      /\ tokens' = tokens \ {c}
      /\ \/ /\ c = stream.closeCount
            /\ Holds(stream.state = "Starting" /\ aggregator.live)
            /\ stream' = Opened(stream)
            /\ \E order \in SetToSeqs(listenTargets) :
                 rpc' = [NoCall EXCEPT !.status = "running",
                                       !.requests = WatchAll(order)]
            /\ aggregator' = RecordAllPending(aggregator)
         \/ /\ c # stream.closeCount
            /\ UNCHANGED <<stream, rpc, aggregator, asserted>>
      /\ UNCHANGED <<networkEnabled, listenTargets, tracker, used>>

Fault(kind) ==
    /\ kind \in WatchFaultKinds
    /\ used.faults < MaxFaults
    /\ used' = [used EXCEPT !.faults = @ + 1]

\* ResumeStartWithCredentials with an error instead of a token.
TokenFailed ==
    \E c \in tokens :
      /\ Fault("token")
      /\ \/ /\ c = stream.closeCount
            /\ OnWatchStreamClose(Failed(stream), tokens \ {c}, FALSE)
         \/ /\ c # stream.closeCount
            /\ tokens' = tokens \ {c}
            /\ UNCHANGED <<aggregator, stream, tracker, asserted>>
      /\ UNCHANGED <<networkEnabled, listenTargets, rpc>>

\* The idle timer fires: Stop().
IdleTimeout ==
    /\ stream.idle
    /\ OnWatchStreamClose(Stopped(stream), tokens, TRUE)
    /\ rpc' = NoCall
    /\ UNCHANGED <<networkEnabled, listenTargets, used>>

BackoffElapsed ==
    /\ stream.backoff
    /\ Holds(stream.state = "Backoff")
    /\ stream' = Restarted(stream)
    /\ tokens' = tokens \cup {stream.closeCount}
    /\ UNCHANGED <<networkEnabled, listenTargets, aggregator, tracker, rpc, used>>

\* online_state_timer_ fires.
OnlineStateTimeout ==
    /\ tracker.timer
    /\ Holds(tracker.state = "Unknown")
    /\ tracker' = [tracker EXCEPT !.state = "Offline", !.timer = FALSE]
    /\ UNCHANGED <<networkEnabled, listenTargets, aggregator, stream, tokens, rpc,
                   used>>

-----------------------------------------------------------------------------
(* OnWatchStreamChange: the next message of the backend                    *)

Kinds == {"added", "removed", "current", "reset", "filter", "rejected"}

\* Any message makes the client Online.  A message needs an aggregator.
Receive(kinds) ==
    /\ rpc.responses # <<>> /\ Head(rpc.responses).kind \in kinds
    /\ Holds(Started(stream) /\ aggregator.live)
    /\ tracker' = UpdateState(tracker, "Online")
    /\ UNCHANGED <<networkEnabled, tokens, used>>

Received == rpc' = [rpc EXCEPT !.responses = Tail(@)]

TargetChange ==
    /\ Receive({"added", "removed", "current", "reset"})
    /\ aggregator' = HandleTargetChange(aggregator, Head(rpc.responses))
    /\ Received
    /\ UNCHANGED <<listenTargets, stream>>

ExistenceFilterMismatch ==
    /\ Receive({"filter"})
    /\ aggregator' = HandleExistenceFilter(aggregator, Head(rpc.responses))
    /\ Received
    /\ UNCHANGED <<listenTargets, stream>>

\* ProcessTargetError: a target that is not listened to any more is ignored.
ProcessTargetError ==
    /\ Receive({"rejected"})
    /\ LET t == Head(rpc.responses).target
       IN  \/ /\ t \in listenTargets
              /\ listenTargets' = listenTargets \ {t}
              /\ aggregator' = RemoveTarget(aggregator, t)
           \/ /\ t \notin listenTargets
              /\ UNCHANGED <<listenTargets, aggregator>>
    /\ Received
    /\ UNCHANGED stream

\* Variant: one answer is expected for the two requests.
RecordReset(a, R) ==
    [a EXCEPT !.resets = {},
              !.states = [t \in Targets |->
                  IF t \in R THEN [a.states[t] EXCEPT !.outstanding = @ + 1]
                             ELSE a.states[t]]]

\* The targets R are unwatched and watched again.
RecordRestart(a, R) ==
    [a EXCEPT !.resets = {},
              !.states = [t \in Targets |->
                  IF t \in R THEN [a.states[t] EXCEPT !.outstanding = @ + 2]
                             ELSE a.states[t]]]

\* Variant: only unwatched.
UnwatchRequests(order) == [i \in DOMAIN order |-> Unwatch(order[i])]

\* Each target is unwatched and watched at once, without its resume token.
RestartRequests(order) ==
    [i \in 1..(2 * Len(order)) |-> IF i % 2 = 1 THEN Unwatch(order[(i + 1) \div 2])
                                               ELSE Watch(order[i \div 2])]

\* RaiseWatchSnapshot: restarts the listens whose filter did not match.
RaiseWatchSnapshot ==
    /\ Receive({"snapshot"})
    /\ LET R == aggregator.resets \cap listenTargets
       IN  /\ aggregator' = RecordRestart(aggregator, R)
           /\ \E order \in SetToSeqs(R) :
                rpc' = [rpc EXCEPT !.responses = Tail(@),
                                   !.requests = @ \o RestartRequests(order)]
           /\ stream' = [stream EXCEPT !.idle = @ /\ R = {}]
    /\ UNCHANGED listenTargets

\* A snapshot older than the last one that was applied.
IgnoreOldSnapshot ==
    /\ Receive({"old"})
    /\ Received
    /\ UNCHANGED <<listenTargets, aggregator, stream>>

\* A message that does not parse; OnStreamRead finishes the call.
CorruptResponse ==
    /\ rpc.responses # <<>>
    /\ Fault("corrupt")
    /\ OnWatchStreamClose(Failed(stream), tokens, FALSE)
    /\ rpc' = NoCall
    /\ UNCHANGED <<networkEnabled, listenTargets>>

\* OnStreamFinish with an error.  A write that fails on the finished call cancels
\* the reads that are still to be run.
StreamFinish ==
    /\ rpc.status = "lost"
    /\ rpc.responses = <<>> \/ rpc.requests # <<>>
    /\ OnWatchStreamClose(Failed(stream), tokens, FALSE)
    /\ rpc' = NoCall
    /\ UNCHANGED <<networkEnabled, listenTargets, used>>

-----------------------------------------------------------------------------
(* Backend and network                                                     *)

client == <<networkEnabled, listenTargets, aggregator, stream, tokens, tracker,
            asserted>>

\* The backend sends `change`, and from now on watches t as `watched`.
Answer(change, t, watched) ==
    rpc' = [rpc EXCEPT !.responses = Append(@, change),
                       !.watching[t] = watched,
                       !.unsnapped = TRUE]

AnswerNext(change, t, watched) ==
    rpc' = [rpc EXCEPT !.requests = Tail(@),
                       !.responses = Append(@, change),
                       !.watching[t] = watched]

Connected == rpc.status = "running"
MaySend == Connected /\ Len(rpc.responses) < MaxInFlight

\* The next request is a watch.
BackendWatch ==
    /\ MaySend /\ rpc.requests # <<>> /\ Head(rpc.requests).kind = "watch"
    /\ LET t == Head(rpc.requests).target
       IN  \/ /\ AnswerNext(Change("added", t, TRUE), t, "added")
              /\ UNCHANGED used
           \/ /\ Fault("reject")
              /\ AnswerNext(Change("rejected", t, TRUE), t, "no")
    /\ UNCHANGED client

\* The next request is an unwatch, maybe of a target that it has rejected.
BackendUnwatch ==
    /\ MaySend /\ rpc.requests # <<>> /\ Head(rpc.requests).kind = "unwatch"
    /\ LET t == Head(rpc.requests).target
       IN  AnswerNext(Change("removed", t, TRUE), t, "no")
    /\ UNCHANGED <<client, used>>

BackendCurrent ==
    /\ MaySend
    /\ \E t \in Targets :
         /\ rpc.watching[t] = "added"
         /\ Answer(Change("current", t, FALSE), t, "current")
    /\ UNCHANGED <<client, used>>

\* A consistent snapshot of everything sent so far, with its version.
BackendSnapshot ==
    /\ MaySend /\ rpc.unsnapped
    /\ \/ /\ rpc' = [rpc EXCEPT !.unsnapped = FALSE,
                       !.responses = Append(@, Change("snapshot", NoTarget, FALSE))]
          /\ UNCHANGED used
       \/ /\ Fault("old")
          /\ rpc' = [rpc EXCEPT
                       !.responses = Append(@, Change("old", NoTarget, FALSE))]
    /\ UNCHANGED client

\* The backend starts a target over, finds that the client's documents do not
\* match, or withdraws a target that it watched.
BackendDisturbs ==
    /\ MaySend
    /\ \E t \in Targets :
         /\ rpc.watching[t] # "no"
         /\ \/ /\ Fault("reset")
               /\ Answer(Change("reset", t, FALSE), t, "added")
            \/ /\ Fault("filter")
               /\ Answer(Change("filter", t, FALSE), t, rpc.watching[t])
            \/ /\ Fault("reject")
               /\ Answer(Change("rejected", t, FALSE), t, "no")
    /\ UNCHANGED client

\* The connection breaks; some of the responses still arrive.
CallLost ==
    /\ Connected
    /\ Fault("lost")
    /\ \E n \in 0..Len(rpc.responses) :
         rpc' = [rpc EXCEPT !.status = "lost",
                            !.responses = SubSeq(@, 1, n),
                            !.watching = [t \in Targets |-> "no"]]
    /\ UNCHANGED client

-----------------------------------------------------------------------------
\* RemoteStore::Start enables the network; nobody listens yet.
Init ==
    /\ networkEnabled = TRUE
    /\ listenTargets = {}
    /\ aggregator = NoAggregator
    /\ stream = [state |-> "Initial", idle |-> FALSE, backoff |-> FALSE,
                 closeCount |-> 0]
    /\ tokens = {}
    /\ tracker = [state |-> "Unknown", failures |-> 0, timer |-> FALSE]
    /\ rpc = NoCall
    /\ asserted = TRUE
    /\ used = [listens |-> 0, toggles |-> 0, faults |-> 0]

Caller == (\E t \in Targets : Listen(t) \/ StopListening(t))
          \/ EnableNetwork \/ DisableNetwork \/ HandleCredentialChange

Message == TargetChange \/ ExistenceFilterMismatch \/ ProcessTargetError
           \/ RaiseWatchSnapshot \/ IgnoreOldSnapshot

Timer == IdleTimeout \/ BackoffElapsed \/ OnlineStateTimeout

Backend == BackendWatch \/ BackendUnwatch \/ BackendCurrent \/ BackendSnapshot

Disturbance == TokenFailed \/ CorruptResponse \/ BackendDisturbs \/ CallLost

Next == Caller \/ StreamOpen \/ Message \/ StreamFinish \/ Timer \/ Backend
        \/ Disturbance

Spec == Init /\ [][Next]_vars

\* The worker queue runs its tasks and the backoff timer, Auth answers, and a
\* backend that is connected serves its requests.
Fairness ==
    /\ WF_vars(StreamOpen)
    /\ WF_vars(Message \/ StreamFinish)
    /\ WF_vars(BackoffElapsed)
    /\ WF_vars(BackendWatch \/ BackendUnwatch)
    /\ WF_vars(BackendCurrent)
    /\ WF_vars(BackendSnapshot)

FairSpec == Spec /\ Fairness

-----------------------------------------------------------------------------
(* Properties                                                              *)

OnlineStates == {"Unknown", "Online", "Offline"}
AggregatorType == [live : BOOLEAN, resets : SUBSET Targets,
                   states : [Targets -> [outstanding : Int, current : BOOLEAN]]]
WatchStreamType == [state : StreamStates, idle : BOOLEAN, backoff : BOOLEAN,
                    closeCount : Nat]
TrackerType == [state : OnlineStates, failures : Nat, timer : BOOLEAN]
ChangeType ==
    [kind : Kinds, target : Targets, ack : BOOLEAN]
      \cup [kind : {"snapshot", "old"}, target : {NoTarget}, ack : {FALSE}]
CallType == [status : {"none", "running", "lost"}, requests : Seq(Request),
             responses : Seq(ChangeType),
             watching : [Targets -> {"no", "added", "current"}],
             unsnapped : BOOLEAN]

\* Every variable keeps its type.  A count of outstanding answers may be negative:
\* see OutstandingIsUnanswered.
TypeOK ==
    /\ networkEnabled \in BOOLEAN
    /\ listenTargets \subseteq Targets
    /\ aggregator \in AggregatorType
    /\ stream \in WatchStreamType
    /\ tokens \subseteq Nat
    /\ tracker \in TrackerType
    /\ rpc \in CallType
    /\ asserted \in BOOLEAN
    /\ used \in [listens : Nat, toggles : Nat, faults : Nat]

\* No HARD_ASSERT fails and no null pointer is used: the online state timer is
\* never set twice and fires only while Unknown, no needed stream is stopped
\* gracefully, stale token and backoff callbacks do nothing, and there is an
\* aggregator whenever a message or a request for a target meets an open stream.
NoWatchAssertionFails == asserted

\* While the network is enabled, a client that listens has a stream that is open,
\* starting or waiting for its backoff timer, and no idle timer runs.  Only events
\* start a stream, so one forgotten start would leave the listener without answers.
NoListenIsStranded ==
    networkEnabled /\ listenTargets # {}
        => /\ Started(stream)
           /\ stream.state = "Backoff" => stream.backoff
           /\ ~stream.idle

\* The client says Online only while a stream is open: no path out of the open
\* state forgets to tell the tracker.
OnlineOnlyWhileOpen ==
    tracker.state = "Online" => stream.state = "Open" /\ networkEnabled

\* The ten-second timer runs only during a connection attempt whose outcome is
\* unknown: every success, failure, stop and network switch cancels it.
TimerOnlyWhileConnecting ==
    tracker.timer =>
        /\ tracker.state = "Unknown"
        /\ Started(stream)
        /\ networkEnabled

\* The places of the requests and of the answers for target t that are on their way.
RequestsFor(t) == {i \in DOMAIN rpc.requests : rpc.requests[i].target = t}
AnswersFor(t) ==
    {i \in DOMAIN rpc.responses : rpc.responses[i].target = t /\ rpc.responses[i].ack}

\* Whether the backend watches t once it has handled the requests on their way.
WillWatch(t) ==
    IF RequestsFor(t) = {}
    THEN rpc.watching[t] # "no"
    ELSE \E i \in RequestsFor(t) : /\ \A j \in RequestsFor(t) : j <= i
                                  /\ rpc.requests[i].kind = "watch"

\* Once the requests on their way have been handled, the backend watches exactly
\* the targets that the client listens to, through restarts of the stream, quick
\* changes of mind and existence filters (without rejected targets).
BackendWatchesTargets ==
    Connected => \A t \in Targets : WillWatch(t) <=> t \in listenTargets

Unanswered(t) == Cardinality(RequestsFor(t)) + Cardinality(AnswersFor(t))

\* remote_event.h: outstanding_responses_ is "the number of outstanding responses
\* (adds or removes) that we are waiting on".  It decides whether a message about a
\* target belongs to its present listen or to an earlier one.
OutstandingIsUnanswered ==
    Connected => \A t \in Targets :
        aggregator.states[t].outstanding = Unanswered(t)

\* A client that was online does not become Offline by the failure of one stream:
\* it is Unknown first, unless the network is disabled.
OfflineOnlyAfterUnknown ==
    [][tracker.state = "Online" /\ tracker'.state = "Offline"
         => ~networkEnabled']_vars

Synced(t) == stream.state = "Open" /\ IsActiveTarget(t)
             /\ aggregator.states[t].current

\* Once disturbances stop, a target that the client keeps listening to becomes
\* active and current, through backoff, restarts, resets and restarted listens
\* (without rejected targets).
ListensAreAnswered ==
    \A t \in Targets :
        t \in listenTargets ~> (t \notin listenTargets \/ ~networkEnabled \/ Synced(t))
=============================================================================
