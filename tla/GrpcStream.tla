------------------------------ MODULE GrpcStream ------------------------------
(***************************************************************************)
(* One GrpcStream, its BufferedWriter and its GrpcCompletions, the thread   *)
(* that polls the gRPC completion queue (Datastore::PollGrpcQueue), and the *)
(* worker queue, which blocks inside Shutdown and WriteAndFinish.           *)
(*                                                                         *)
(* gRPC and the server are external: an operation given to gRPC comes back  *)
(* from its completion queue once, with a result that fits the state of the *)
(* call.  Messages are numbered in the order in which they are written, and *)
(* in which the server sends them.  An operation of the observer (Stream)   *)
(* is an action of its own, also when it is called from one of the          *)
(* callbacks, which touch nothing afterwards.                               *)
(***************************************************************************)
EXTENDS Naturals, Sequences

CONSTANTS
    MaxWrites,   \* bound: messages that the client writes
    MaxMessages  \* bound: messages that the server sends

ASSUME GrpcBounds == {MaxWrites, MaxMessages} \subseteq Nat

VARIABLES
    stream,    \* GrpcStream: alive; observer (observer_ is set); registered
               \*   (grpc_connection_ is set); finished (is_grpc_call_finished_);
               \*   pending (completions_); buffer (queue_); active
               \*   (has_active_write_)
    comps,     \* the GrpcCompletions created so far
    poll,      \* the completion whose off_queue_ is set and which is not yet
               \*   enqueued, 0 if none
    tasks,     \* worker queue: completions whose Complete has enqueued them
    worker,    \* the worker queue: where it blocks, and whether it then notifies
    call,      \* gRPC: state; arrived and taken (the server's messages, those
               \*   read); written (the messages given to the call)
    \* history
    told,      \* the observer: messages, finishes; accepted (messages written)
    asserted   \* every HARD_ASSERT has held

vars == <<stream, comps, poll, tasks, worker, call, told, asserted>>

-----------------------------------------------------------------------------
\* place: with gRPC; taken off its queue; on the worker queue; executed.
Completion == [type : {"Read", "Write", "Finish"}, callback : BOOLEAN,
               place : {"grpc", "off", "worker", "ran"}, ok : BOOLEAN,
               message : Nat]

NewCompletion(type, callback) ==
    [type |-> type, callback |-> callback, place |-> "grpc", ok |-> FALSE,
     message |-> 0]

Idle == [at |-> "idle", notify |-> FALSE]
\* The places where the worker queue waits for completions: TryLastWrite,
\* FinishGrpcCall from OnOperationFailed, FinishGrpcCall from Shutdown, and the end
\* of Shutdown.
Blocked == {"lastWrite", "failing", "finishing", "draining"}

Init ==
    /\ stream = [alive |-> TRUE, observer |-> TRUE, registered |-> TRUE,
                 finished |-> FALSE, pending |-> {}, buffer |-> <<>>,
                 active |-> FALSE]
    /\ comps = <<>> /\ poll = 0 /\ tasks = <<>> /\ worker = Idle
    /\ call = [state |-> "none", arrived |-> 0, taken |-> 0, written |-> <<>>]
    /\ told = [messages |-> <<>>, finishes |-> 0, accepted |-> 0]
    /\ asserted = TRUE

Holds(condition) == asserted' = (asserted /\ condition)

\* The worker queue executes something of this stream.
Runs == worker = Idle /\ stream.alive

-----------------------------------------------------------------------------
(* The completions                                                         *)

\* Variant: the completions keep their callbacks.
CancelledNone(cs, S) == cs

\* Cancel, of each completion in S.
Cancelled(cs, S) ==
    [i \in DOMAIN cs |-> IF i \in S THEN [cs[i] EXCEPT !.callback = FALSE] ELSE cs[i]]

Pending(s, i) == [s EXCEPT !.pending = @ \cup {i}]

\* Read, on a stream and completions that have been changed to s and cs.
Read(s, cs) ==
    /\ stream' = Pending(s, Len(cs) + 1)
    /\ comps' = Append(cs, NewCompletion("Read", TRUE))

\* Variant: a write does not wait for the one before it.
TryStartWriteAtOnce(s) == s.buffer # <<>>

TryStartWrite(s) == s.buffer # <<>> /\ ~s.active

\* Variant: the message written last goes first.
MaybeWriteLast(s, cs) ==
    IF TryStartWrite(s)
    THEN /\ stream' = [Pending(s, Len(cs) + 1) EXCEPT
                         !.buffer = SubSeq(@, 1, Len(@) - 1), !.active = TRUE]
         /\ comps' = Append(cs, NewCompletion("Write", TRUE))
         /\ call' = [call EXCEPT !.written = Append(@, s.buffer[Len(s.buffer)])]
    ELSE stream' = s /\ comps' = cs /\ UNCHANGED call

\* Variant: the message that is written stays on the buffer.
MaybeWriteFront(s, cs) ==
    IF TryStartWrite(s)
    THEN /\ stream' = [Pending(s, Len(cs) + 1) EXCEPT !.active = TRUE]
         /\ comps' = Append(cs, NewCompletion("Write", TRUE))
         /\ call' = [call EXCEPT !.written = Append(@, Head(s.buffer))]
    ELSE stream' = s /\ comps' = cs /\ UNCHANGED call

\* MaybeWrite(TryStartWrite()).
MaybeWrite(s, cs) ==
    IF TryStartWrite(s)
    THEN /\ stream' = [Pending(s, Len(cs) + 1) EXCEPT !.buffer = Tail(@),
                                                      !.active = TRUE]
         /\ comps' = Append(cs, NewCompletion("Write", TRUE))
         /\ call' = [call EXCEPT !.written = Append(@, Head(s.buffer))]
    ELSE stream' = s /\ comps' = cs /\ UNCHANGED call

\* The message that the client writes next is put on the buffer.
Enqueued(s) == [s EXCEPT !.buffer = Append(@, told.accepted + 1)]

Accepts ==
    /\ told.accepted < MaxWrites
    /\ told' = [told EXCEPT !.accepted = @ + 1]

\* Variant: what is waited for is that the worker queue has executed them.
AllRan == \A i \in stream.pending : comps[i].place = "ran"

AllOffQueue == \A i \in stream.pending : comps[i].place # "grpc"

-----------------------------------------------------------------------------
(* Shutdown                                                                *)

TryCancel(c) == IF c.state = "live" THEN [c EXCEPT !.state = "cancelled"] ELSE c

\* Shutdown up to the point where it first blocks: in FinishGrpcCall, if the call
\* has been started and is not finished, or else until what is left is off the
\* queue.
Shutdown(s, cs, notify) ==
    /\ comps' = Cancelled(cs, s.pending)
    /\ IF s.pending # {} /\ ~s.finished
       THEN /\ stream' = [s EXCEPT !.registered = FALSE, !.finished = TRUE]
            /\ call' = TryCancel(call)
            /\ worker' = [at |-> "finishing", notify |-> notify]
       ELSE /\ stream' = [s EXCEPT !.registered = FALSE]
            /\ worker' = [at |-> "draining", notify |-> notify]
            /\ UNCHANGED call

\* Variant: the status of a call that failed is not asked for.
FinishGrpcCallSilently ==
    /\ worker.at \in {"failing", "finishing"} /\ AllOffQueue
    /\ stream' = [stream EXCEPT !.pending = {Len(comps) + 1}]
    /\ comps' = Append(comps, NewCompletion("Finish", FALSE))
    /\ worker' = IF worker.at = "failing" THEN Idle ELSE [worker EXCEPT !.at = "draining"]
    /\ UNCHANGED <<poll, tasks, call, told, asserted>>

\* FinishGrpcCall once every completion is off the queue.  OnOperationFailed gives
\* it a callback; Shutdown cancels it and waits for it.
FinishGrpcCall ==
    /\ worker.at \in {"failing", "finishing"} /\ AllOffQueue
    /\ stream' = [stream EXCEPT !.pending = {Len(comps) + 1}]
    /\ comps' = Append(comps, NewCompletion("Finish", worker.at = "failing"))
    /\ worker' = IF worker.at = "failing" THEN Idle ELSE [worker EXCEPT !.at = "draining"]
    /\ UNCHANGED <<poll, tasks, call, told, asserted>>

\* The end of Shutdown, then UnsetObserver and, from FinishAndNotify,
\* OnStreamFinish.
Drained ==
    /\ worker.at = "draining" /\ AllOffQueue
    /\ stream' = [stream EXCEPT !.pending = {}, !.observer = FALSE]
    /\ told' = IF worker.notify /\ stream.observer
               THEN [told EXCEPT !.finishes = @ + 1] ELSE told
    /\ worker' = Idle
    /\ UNCHANGED <<comps, poll, tasks, call, asserted>>

-----------------------------------------------------------------------------
(* What Stream and GrpcConnection do with the stream                       *)

Start ==
    /\ Runs /\ stream.observer /\ call.state = "none"
    /\ call' = [call EXCEPT !.state = "live"]
    /\ Read(stream, comps)
    /\ UNCHANGED <<poll, tasks, worker, told, asserted>>

Write ==
    /\ Runs /\ stream.observer /\ call.state # "none"
    /\ Accepts
    /\ MaybeWrite(Enqueued(stream), comps)
    /\ UNCHANGED <<poll, tasks, worker, asserted>>

FinishImmediately ==
    /\ Runs
    /\ Shutdown(stream, comps, FALSE)
    /\ UNCHANGED <<poll, tasks, told, asserted>>

\* GrpcConnection notices a change of the network, of the calls that are registered.
FinishAndNotify ==
    /\ Runs /\ stream.registered
    /\ Shutdown(stream, comps, TRUE)
    /\ UNCHANGED <<poll, tasks, told, asserted>>

\* WriteAndFinish, up to the wait for the last write.
WriteAndFinish ==
    /\ Runs /\ call.state # "none"
    /\ UNCHANGED <<poll, tasks, asserted>>
    /\ \/ stream.finished /\ Shutdown(stream, comps, FALSE) /\ UNCHANGED told
       \/ /\ ~stream.finished /\ Accepts
          /\ IF stream.active
             THEN Shutdown(Enqueued(stream), comps, FALSE)
             ELSE /\ MaybeWrite(Enqueued(stream), comps)
                  /\ worker' = [Idle EXCEPT !.at = "lastWrite"]

\* The last write has come off the queue, or 500 ms have passed.
LastWriteWaited ==
    /\ worker.at = "lastWrite"
    /\ Shutdown(stream, comps, FALSE)
    /\ UNCHANGED <<poll, tasks, told, asserted>>

\* The observer destroys the stream, which has finished.
Destroy ==
    /\ Runs /\ ~stream.observer
    /\ Holds(stream.pending = {})
    /\ stream' = [stream EXCEPT !.alive = FALSE, !.registered = FALSE]
    /\ UNCHANGED <<comps, poll, tasks, worker, call, told>>

-----------------------------------------------------------------------------
(* The callbacks on the worker queue                                       *)

\* The first task is executed: its completion is i.
Executes(i) ==
    /\ worker = Idle /\ tasks # <<>> /\ i = Head(tasks)
    /\ tasks' = Tail(tasks)
    /\ UNCHANGED poll

Ran(i) == [comps EXCEPT ![i].place = "ran"]

RunCancelled(i) ==
    /\ Executes(i) /\ ~comps[i].callback
    /\ comps' = Ran(i)
    /\ UNCHANGED <<stream, worker, call, told, asserted>>

\* The callback of NewCompletion up to the point where it looks at ok.
Callback(i, ok) ==
    /\ Executes(i) /\ comps[i].callback /\ comps[i].ok = ok

RemoveCompletion(i) == [stream EXCEPT !.pending = @ \ {i}]
IsPending(i) == i \in stream.pending

\* Read, then OnStreamRead.
OnRead(i) ==
    /\ Callback(i, TRUE) /\ comps[i].type = "Read"
    /\ Holds(IsPending(i))
    /\ IF stream.observer
       THEN /\ Read(RemoveCompletion(i), Ran(i))
            /\ told' = [told EXCEPT !.messages = Append(@, comps[i].message)]
       ELSE stream' = RemoveCompletion(i) /\ comps' = Ran(i) /\ UNCHANGED told
    /\ UNCHANGED <<worker, call>>

\* Variant: the write stays active.
OnWriteStaysActive(i) ==
    /\ Callback(i, TRUE) /\ comps[i].type = "Write"
    /\ Holds(IsPending(i))
    /\ stream' = RemoveCompletion(i) /\ comps' = Ran(i)
    /\ UNCHANGED <<worker, call, told>>

\* DequeueNextWrite, then MaybeWrite.
OnWrite(i) ==
    /\ Callback(i, TRUE) /\ comps[i].type = "Write"
    /\ Holds(IsPending(i))
    /\ IF stream.observer
       THEN MaybeWrite([RemoveCompletion(i) EXCEPT !.active = FALSE], Ran(i))
       ELSE stream' = RemoveCompletion(i) /\ comps' = Ran(i) /\ UNCHANGED call
    /\ UNCHANGED <<worker, told>>

\* The callback that OnOperationFailed gave to FinishGrpcCall.
OnFinish(i) ==
    /\ Callback(i, TRUE) /\ comps[i].type = "Finish"
    /\ Holds(IsPending(i))
    /\ Shutdown(RemoveCompletion(i), Ran(i), TRUE)
    /\ UNCHANGED told

\* Up to the point where FinishGrpcCall blocks.
OnOperationFailed(i) ==
    /\ Callback(i, FALSE)
    /\ LET s == RemoveCompletion(i)
       IN  IF s.finished
           THEN /\ Holds(IsPending(i))
                /\ stream' = s /\ comps' = Ran(i) /\ UNCHANGED worker
           ELSE /\ Holds(IsPending(i) /\ ~s.finished)
                /\ stream' = [s EXCEPT !.finished = TRUE]
                /\ comps' = Cancelled(Ran(i), s.pending)
                /\ worker' = [Idle EXCEPT !.at = "failing"]
    /\ UNCHANGED <<call, told>>

RunTask == \E i \in DOMAIN comps :
    RunCancelled(i) \/ OnRead(i) \/ OnWrite(i) \/ OnFinish(i) \/ OnOperationFailed(i)

-----------------------------------------------------------------------------
(* The thread that polls, gRPC and the server                              *)

\* Next returns the completion, and Complete says that it is off the queue.
Returns(i, ok, message) ==
    /\ poll = 0 /\ poll' = i
    /\ comps[i].place = "grpc"
    /\ comps' = [comps EXCEPT ![i].place = "off", ![i].ok = ok, ![i].message = message]
    /\ UNCHANGED <<stream, tasks, worker, told, asserted>>

ReadReturns(i) ==
    /\ comps[i].type = "Read" /\ call.taken < call.arrived
    /\ Returns(i, TRUE, call.taken + 1)
    /\ call' = [call EXCEPT !.taken = @ + 1]

WriteReturns(i) ==
    /\ comps[i].type = "Write"
    /\ Returns(i, TRUE, 0) /\ UNCHANGED call

FinishReturns(i) ==
    /\ comps[i].type = "Finish" /\ call.state # "live"
    /\ Returns(i, TRUE, 0) /\ UNCHANGED call

OperationFails(i) ==
    /\ comps[i].type # "Finish" /\ call.state # "live"
    /\ Returns(i, FALSE, 0) /\ UNCHANGED call

OperationReturns(i) ==
    ReadReturns(i) \/ WriteReturns(i) \/ FinishReturns(i) \/ OperationFails(i)

\* The end of Complete: the worker queue gets the callback.
Complete ==
    /\ poll # 0 /\ poll' = 0
    /\ tasks' = Append(tasks, poll)
    /\ comps' = [comps EXCEPT ![poll].place = "worker"]
    /\ UNCHANGED <<stream, worker, call, told, asserted>>

ServerSends ==
    /\ call.state = "live" /\ call.arrived < MaxMessages
    /\ call' = [call EXCEPT !.arrived = @ + 1]
    /\ UNCHANGED <<stream, comps, poll, tasks, worker, told, asserted>>

\* The server or the connection ends the call.
CallBreaks ==
    /\ call.state = "live"
    /\ call' = [call EXCEPT !.state = "broken"]
    /\ UNCHANGED <<stream, comps, poll, tasks, worker, told, asserted>>

-----------------------------------------------------------------------------
Client == Start \/ Write \/ FinishImmediately \/ FinishAndNotify \/ WriteAndFinish
              \/ Destroy
WorkerGoesOn == LastWriteWaited \/ FinishGrpcCall \/ Drained \/ RunTask
Grpc == \E i \in DOMAIN comps : OperationReturns(i)

Next == Client \/ WorkerGoesOn \/ Grpc \/ Complete \/ ServerSends \/ CallBreaks

Spec == Init /\ [][Next]_vars

\* The worker queue and the polling thread go on with what they have; gRPC returns
\* every operation that can end.
FairSpec ==
    /\ Spec
    /\ WF_vars(WorkerGoesOn)
    /\ WF_vars(Complete)
    /\ WF_vars(Grpc)

-----------------------------------------------------------------------------
(* Properties                                                              *)

\* Every variable keeps its type; no more is read than the server sent, and each
\* message of the client is either on the buffer or given to the call.
TypeOK ==
    /\ stream \in [alive : BOOLEAN, observer : BOOLEAN, registered : BOOLEAN,
                   finished : BOOLEAN, pending : SUBSET Nat, buffer : Seq(Nat),
                   active : BOOLEAN]
    /\ stream.pending \subseteq DOMAIN comps
    /\ comps \in Seq(Completion)
    /\ poll \in {0} \cup DOMAIN comps
    /\ tasks \in Seq(DOMAIN comps)
    /\ worker \in {Idle} \cup [at : Blocked, notify : BOOLEAN]
    /\ call \in [state : {"none", "live", "cancelled", "broken"}, arrived : Nat,
                 taken : Nat, written : Seq(Nat)]
    /\ call.taken <= call.arrived /\ call.arrived <= MaxMessages
    /\ told \in [messages : Seq(Nat), finishes : {0, 1}, accepted : 0..MaxWrites]
    /\ Len(call.written) + Len(stream.buffer) = told.accepted
    /\ asserted \in BOOLEAN

\* No HARD_ASSERT fails: a callback finds its completion among completions_, the
\* call is finished once, and the stream is destroyed after it was shut down
\* (grpc_stream.cc:103, 228, 330).
NoAssertionFails == asserted

\* gRPC never has two reads, two writes or two finishes of the call at the same
\* time: the BufferedWriter holds back a write, OnRead and OnWrite issue the next
\* operation only when the one before it has come back, and FinishGrpcCall runs once.
OneOperationAtATime ==
    \A i, j \in DOMAIN comps :
        comps[i].place = "grpc" /\ comps[j].place = "grpc" /\ comps[i].type = comps[j].type
            => i = j

\* A callback that has not run and is not cancelled captures a stream that is alive
\* and observed and still holds its completion: whatever the order in which
\* completions come back, are enqueued and are cancelled, none uses a destroyed
\* stream, and none is ever stopped by the tests of observer_ in OnRead and OnWrite.
CallbacksFindTheirStream ==
    \A i \in DOMAIN comps :
        comps[i].callback /\ comps[i].place # "ran" =>
            stream.alive /\ stream.observer /\ i \in stream.pending

\* The context and the call, which go with the stream, outlive every operation that
\* gRPC has of them.
CallOutlivesOperations ==
    ~stream.alive => \A i \in DOMAIN comps : comps[i].place # "grpc"

\* "The stream is always listening" (grpc_stream.h:104): while it is open and has not
\* failed, a read is with gRPC or its callback is on the way.
AlwaysListening ==
    (call.state # "none" /\ stream.observer /\ ~stream.finished /\ worker = Idle) =>
        \E i \in stream.pending :
            comps[i].type = "Read" /\ comps[i].callback /\ comps[i].place # "ran"

\* The worker queue waits without a timeout only for operations of a call that has
\* ended, which gRPC returns: an idle read of a live call would block it for ever.
BlockedOnlyOnEndedCall ==
    worker.at \in Blocked \ {"lastWrite"} /\ ~AllOffQueue =>
        call.state \in {"cancelled", "broken"}

\* The worker queue always gets out of the waits of Shutdown and WriteAndFinish.
WorkerComesBack == worker # Idle ~> worker = Idle

\* A call that ends is noticed, and the stream closes.
FailureIsTold == call.state = "broken" ~> ~stream.observer

\* As long as the call lives, every message of the server is told to the observer
\* and every message that was written goes to the call.
MessagesPass ==
    /\ \A m \in 1..MaxMessages :
          call.arrived >= m ~> Len(told.messages) >= m \/ call.state # "live"
    /\ \A m \in 1..MaxWrites :
          told.accepted >= m ~> Len(call.written) >= m \/ call.state # "live"

\* The stream keeps what ObservedStream promises its observer.
Observed == INSTANCE ObservedStream WITH
    phase <- IF ~stream.observer THEN "closed"
             ELSE IF call.state = "none" THEN "new" ELSE "open",
    accepted <- told.accepted,
    sent <- call.written,
    arrived <- call.arrived,
    seen <- told.messages,
    notices <- told.finishes
ImplementsObservedStream == Observed!OsSpec
=============================================================================
