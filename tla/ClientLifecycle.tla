--------------------------- MODULE ClientLifecycle ---------------------------
(***************************************************************************)
(* The life of a Firestore instance: api::Firestore, FirestoreClient, the   *)
(* AsyncQueue they share and the executor under it, from the first API call *)
(* through Terminate and ClearPersistence to Dispose.                       *)
(*                                                                         *)
(* The actors are the application's threads, the worker thread of the       *)
(* executor and its timers.  A thread's step ends where another thread can  *)
(* come between: at every lock of Firestore::mutex_, AsyncQueue::mutex_ and *)
(* the executor's mutex.  The last two are leaf locks, so that each step    *)
(* takes them and releases them.  What an operation does on the worker      *)
(* thread takes two steps, its start and the rest, so that a thread may     *)
(* find it running.                                                        *)
(***************************************************************************)
EXTENDS Naturals, Sequences, FiniteSets, SequencesExt

CONSTANTS
    Threads,         \* threads of the application
    NoThread,        \* no thread
    Scenarios,       \* sets of calls; the application makes those of one set
    MaxCalls,        \* bound: API calls
    MaxRetries,      \* bound: attempts of transactions after the first
    MaxCollections   \* bound: LRU collections

Calls == {"write", "transaction", "remove", "user", "terminate", "clear",
          "release"}

ASSUME ThreadsAssumption == NoThread \notin Threads
ASSUME ScenariosAssumption == Scenarios \subseteq SUBSET Calls /\ Scenarios # {}
ASSUME LifecycleBoundsAssumption ==
    {MaxCalls, MaxRetries, MaxCollections} \subseteq Nat

VARIABLES
    allowed,    \* the calls the application makes in this behaviour
    \* AsyncQueue and its executor
    mode,       \* mode_
    queue,      \* Seq(Task): handed to libdispatch, not started
    schedule,   \* set of Task: delayed operations not yet due
    running,    \* the Task that the worker thread executes, or NoTask
    doomed,     \* ids of the tasks Dispose has not got to yet (local_tasks)
    \* Firestore and FirestoreClient
    mutex,      \* the thread that holds Firestore::mutex_ while it waits
    configured, \* client_ is set
    engine,     \* "none", "open" after Initialize, "shut" after Terminate
    files,      \* LevelDB files: "absent" or "present"
    signalled,  \* signal_disposing
    instance,   \* the Firestore object: "alive", "releasing" or "gone"
    \* threads of the application
    thread,     \* [Threads -> [at, call, n]]: where a call is; n is its number
    outside,    \* transactions whose update function or commit is under way
    \* history and bounds
    owed,       \* calls that have been accepted and have a callback
    answered,   \* calls whose callback went to the user executor
    issued,     \* operations accepted
    made,       \* API calls made
    retries, collections

queueVars == <<mode, queue, schedule, running, doomed, issued>>
clientVars == <<mutex, configured, engine, files, signalled, instance>>
callVars == <<outside, owed, answered>>
bounds == <<made, retries, collections>>
vars == <<allowed, queueVars, clientVars, thread, callVars, bounds>>

-----------------------------------------------------------------------------
Ops == (Calls \ {"release"}) \cup {"init", "attempt", "commit", "gc", "dispose"}
Task == [id : Nat \ {0}, op : Ops, call : 0..MaxCalls]
NoTask == [id |-> 0, op |-> "none", call |-> 0]
Owing == [at : {"verify", "submit"}, n : 1..MaxCalls,
          call : {"write", "transaction", "terminate"}]
Idle == [at |-> "idle", call |-> "none", n |-> 0]

\* Operations that use the remote store, the local store or the event manager.
UsesEngine ==
    {"write", "transaction", "remove", "user", "attempt", "commit", "gc"}

NewTask(op, call) == [id |-> issued + 1, op |-> op, call |-> call]
TaskIds(S) == {t.id : t \in S}
QueuedTasks == ToSet(queue)

\* executor_->Execute(Wrap(operation)).
Execute(op, call) ==
    /\ queue' = Append(queue, NewTask(op, call))
    /\ issued' = issued + 1

Dropped == UNCHANGED <<queue, issued>>

\* AsyncQueue::Enqueue: an operation is accepted only in the running mode, and
\* the callers here ignore whether it was.
Enqueue(op, call) == IF mode = "running" THEN Execute(op, call) ELSE Dropped

\* AsyncQueue::EnqueueEvenWhileRestricted.
EnqueueEvenWhileRestricted(op, call) ==
    IF mode = "disposed" THEN Dropped ELSE Execute(op, call)

\* Variant: one delayed operation per timer id, as for every other timer.
ScheduleReplacing(op, call) ==
    IF mode # "running" THEN UNCHANGED <<schedule, issued>>
    ELSE /\ schedule' = {t \in schedule : t.op # op} \cup {NewTask(op, call)}
         /\ issued' = issued + 1

\* AsyncQueue::EnqueueAfterDelay.
EnqueueAfterDelay(op, call) ==
    IF mode # "running" THEN UNCHANGED <<schedule, issued>>
    ELSE /\ schedule' = schedule \cup {NewTask(op, call)}
         /\ issued' = issued + 1

\* The executor forgets tasks, of which at most one is in the queue.
Cancel(tasks) ==
    /\ schedule' = schedule \ tasks
    /\ \/ QueuedTasks \cap tasks = {} /\ UNCHANGED queue
       \/ \E i \in DOMAIN queue : /\ queue[i] \in tasks
                                  /\ queue' = RemoveAt(queue, i)

\* user_executor_->Execute(callback).
Answer(call) == answered' = answered \cup {call}

At(t, place) == thread' = [thread EXCEPT ![t].at = place]
Return(t) == thread' = [thread EXCEPT ![t] = Idle]

-----------------------------------------------------------------------------
Init ==
    /\ allowed \in Scenarios
    /\ mode = "running" /\ queue = <<>> /\ schedule = {} /\ running = NoTask
    /\ doomed = {} /\ issued = 0
    /\ mutex = NoThread /\ configured = FALSE /\ engine = "none"
    /\ files = "absent" /\ signalled = FALSE /\ instance = "alive"
    /\ thread = [t \in Threads |-> Idle]
    /\ outside = {} /\ owed = {} /\ answered = {}
    /\ made = 0 /\ retries = 0 /\ collections = 0

-----------------------------------------------------------------------------
(* Calls of the application.                                               *)

Begin(t, call, place) ==
    /\ call \in allowed /\ thread[t] = Idle /\ made < MaxCalls
    /\ made' = made + 1
    /\ thread' = [thread EXCEPT ![t] = [at |-> place, call |-> call,
                                        n |-> made + 1]]

\* EnsureClientConfigured, under Firestore::mutex_: the first call creates the
\* client, whose credential listener queues Initialize before it returns.
CallFirestore(t, call) ==
    /\ call \in {"write", "transaction", "terminate"}
    /\ instance = "alive" /\ mutex = NoThread
    /\ Begin(t, call, IF call = "terminate" THEN "restrict" ELSE "verify")
    /\ configured' = TRUE
    /\ IF configured THEN Dropped ELSE Enqueue("init", 0)
    /\ UNCHANGED <<allowed, mode, schedule, running, doomed, mutex, engine,
                   files, signalled, instance, callVars, retries,
                   collections>>

\* ListenerRegistration::Remove: it keeps the client, not the Firestore object.
CallRemove(t) ==
    /\ configured
    /\ Begin(t, "remove", "verify")
    /\ UNCHANGED <<allowed, queueVars, clientVars, callVars, retries,
                   collections>>

\* The credential listener, until TerminateInternal takes it away.
ChangeUser(t) ==
    /\ configured /\ engine # "shut" /\ instance # "gone"
    /\ Begin(t, "user", "enqueue")
    /\ UNCHANGED <<allowed, queueVars, clientVars, callVars, retries,
                   collections>>

\* Firestore::ClearPersistence: no client is created for it.
ClearPersistence(t) ==
    /\ "clear" \in allowed /\ thread[t] = Idle /\ made < MaxCalls
    /\ instance = "alive"
    /\ made' = made + 1
    /\ EnqueueEvenWhileRestricted("clear", made + 1)
    /\ UNCHANGED <<allowed, mode, schedule, running, doomed, clientVars, thread,
                   callVars, retries, collections>>

\* VerifyNotTerminated throws, and RemoveListener returns, when it is too late.
VerifyNotTerminated(t) ==
    /\ thread[t].at = "verify"
    /\ IF mode = "running"
       THEN At(t, "enqueue") /\ owed' = owed \cup ({thread[t]} \cap Owing)
       ELSE Return(t) /\ UNCHANGED owed
    /\ UNCHANGED <<allowed, queueVars, clientVars, outside, answered, bounds>>

\* worker_queue_->Enqueue, after a check that may be out of date.
EnqueueCall(t) ==
    /\ thread[t].at = "enqueue"
    /\ Enqueue(thread[t].call, thread[t].n)
    /\ Return(t)
    /\ UNCHANGED <<allowed, mode, schedule, running, doomed, clientVars,
                   callVars, bounds>>

\* Variant: TerminateAsync and Dispose leave the mode alone.
StayUnrestricted(t) ==
    /\ thread[t].at = "restrict"
    /\ At(t, "submit")
    /\ UNCHANGED <<allowed, queueVars, clientVars, callVars, bounds>>

\* worker_queue_->EnterRestrictedMode, for TerminateAsync and for Dispose.
EnterRestrictedMode(t) ==
    /\ thread[t].at = "restrict"
    /\ mode' = IF mode = "disposed" THEN mode ELSE "restricted"
    /\ At(t, "submit")
    /\ UNCHANGED <<allowed, queue, schedule, running, doomed, issued,
                   clientVars, callVars, bounds>>

\* TerminateInternal is queued; Dispose then waits until it has started.
SubmitTermination(t) ==
    /\ thread[t].at = "submit"
    /\ EnqueueEvenWhileRestricted(
           IF thread[t].call = "release" THEN "dispose" ELSE "terminate",
           thread[t].n)
    /\ IF thread[t].call = "release" THEN At(t, "await") ELSE Return(t)
    /\ owed' = owed \cup ({thread[t]} \cap Owing)
    /\ UNCHANGED <<allowed, mode, schedule, running, doomed, clientVars,
                   outside, answered, bounds>>

-----------------------------------------------------------------------------
(* ~Firestore: the last reference is dropped, so that no call of the object  *)
(* is under way or will come.                                              *)

Release(t) ==
    /\ instance = "alive" /\ instance' = "releasing"
    /\ \A u \in Threads : thread[u].call \in {"none", "remove", "user"}
    /\ Begin(t, "release", "lock")
    /\ UNCHANGED <<allowed, queueVars, mutex, configured, engine, files,
                   signalled, callVars, retries, collections>>

\* Firestore::Dispose keeps the mutex until the client is disposed of.  Without
\* a client only the queue is, by its own destructor.
LockForDispose(t) ==
    /\ thread[t].at = "lock" /\ mutex = NoThread
    /\ IF configured THEN mutex' = t /\ At(t, "restrict")
                     ELSE UNCHANGED mutex /\ At(t, "close")
    /\ UNCHANGED <<allowed, queueVars, configured, engine, files, signalled,
                   instance, callVars, bounds>>

\* signal_disposing.get_future().wait().
AwaitTermination(t) ==
    /\ thread[t].at = "await" /\ signalled
    /\ At(t, "close")
    /\ UNCHANGED <<allowed, queueVars, clientVars, callVars, bounds>>

\* AsyncQueue::Dispose, and the executor's up to the loop: from here on nothing
\* is accepted, and every task the executor knows will be cancelled.
CloseQueue(t) ==
    /\ thread[t].at = "close"
    /\ mode' = "disposed"
    /\ doomed' = TaskIds(QueuedTasks \cup schedule \cup {running}) \ {0}
    /\ At(t, "cancel")
    /\ UNCHANGED <<allowed, queue, schedule, running, issued, clientVars,
                   callVars, bounds>>

\* Task::Cancel, in any order: a task that has not started never will, one that
\* is being executed is waited for, and one that is done is let go.  Meanwhile
\* the worker thread goes on with those that are not yet cancelled.
CancelTask(t) ==
    /\ thread[t].at = "cancel"
    /\ \E id \in doomed \ {running.id} :
        /\ doomed' = doomed \ {id}
        /\ Cancel({k \in QueuedTasks \cup schedule : k.id = id})
    /\ UNCHANGED <<allowed, mode, running, issued, clientVars, thread,
                   callVars, bounds>>

\* user_executor_->Dispose, and the members of Firestore are destroyed.
FinishDispose(t) ==
    /\ thread[t].at = "cancel" /\ doomed = {}
    /\ instance' = "gone" /\ mutex' = NoThread
    /\ Return(t)
    /\ UNCHANGED <<allowed, queueVars, configured, engine, files, signalled,
                   callVars, bounds>>

-----------------------------------------------------------------------------
(* The worker thread.                                                      *)

\* Variant: the operations are not executed in order.
StartAny ==
    /\ running = NoTask
    /\ \E i \in DOMAIN queue :
        running' = queue[i] /\ queue' = RemoveAt(queue, i)
    /\ UNCHANGED <<allowed, mode, schedule, doomed, issued, clientVars, thread,
                   callVars, bounds>>

\* libdispatch executes the next block of the serial queue.
Start ==
    /\ running = NoTask /\ queue # <<>>
    /\ running' = Head(queue) /\ queue' = Tail(queue)
    /\ UNCHANGED <<allowed, mode, schedule, doomed, issued, clientVars, thread,
                   callVars, bounds>>

\* A delayed operation is due and joins the queue.
Expire ==
    /\ \E k \in schedule :
        /\ k.op = "gc" => collections < MaxCollections
        /\ collections' = collections + (IF k.op = "gc" THEN 1 ELSE 0)
        /\ schedule' = schedule \ {k}
        /\ queue' = Append(queue, k)
    /\ UNCHANGED <<allowed, mode, running, doomed, issued, clientVars, thread,
                   callVars, made, retries>>

Executes(ops) == running.op \in ops /\ running' = NoTask

\* FirestoreClient::Initialize opens the database and starts the collector.
RunInitialize ==
    /\ Executes({"init"})
    /\ engine' = "open" /\ files' = "present"
    /\ EnqueueAfterDelay("gc", 0)
    /\ UNCHANGED <<allowed, mode, queue, doomed, mutex, configured, signalled,
                   instance, thread, callVars, bounds>>

\* Any call that only uses the stores, and tells its caller if it has one.
RunCall ==
    /\ Executes({"write", "remove", "user"})
    /\ IF running.op = "write" THEN Answer(running.call) ELSE UNCHANGED answered
    /\ UNCHANGED <<allowed, mode, queue, schedule, doomed, issued, clientVars,
                   thread, outside, owed, bounds>>

\* TransactionRunner::Run: even the first attempt is a delayed operation.
RunTransaction ==
    /\ Executes({"transaction"})
    /\ EnqueueAfterDelay("attempt", running.call)
    /\ UNCHANGED <<allowed, mode, queue, doomed, clientVars, thread,
                   callVars, bounds>>

\* The attempt creates a transaction and calls the update function.
RunAttempt ==
    /\ Executes({"attempt"})
    /\ outside' = outside \cup {running.call}
    /\ UNCHANGED <<allowed, mode, queue, schedule, doomed, issued, clientVars,
                   thread, owed, answered, bounds>>

\* The update function is done, or the backend has answered the commit.
Resume ==
    /\ \E call \in outside :
        outside' = outside \ {call} /\ Enqueue("commit", call)
    /\ UNCHANGED <<allowed, mode, schedule, running, doomed, clientVars, thread,
                   owed, answered, bounds>>

\* ContinueCommit and DispatchResult: the result is told, or Run called again.
RunCommit ==
    /\ Executes({"commit"})
    /\ \/ /\ Answer(running.call)
          /\ UNCHANGED <<schedule, issued, retries>>
       \/ /\ retries < MaxRetries /\ retries' = retries + 1
          /\ EnqueueAfterDelay("attempt", running.call)
          /\ UNCHANGED answered
    /\ UNCHANGED <<allowed, mode, queue, doomed, clientVars, thread, outside,
                   owed, made, collections>>

\* The collection reschedules itself.
RunCollection ==
    /\ Executes({"gc"})
    /\ EnqueueAfterDelay("gc", 0)
    /\ UNCHANGED <<allowed, mode, queue, doomed, clientVars, thread,
                   callVars, bounds>>

\* Dispose's operation signals first, to lock out even restricted ones.
SignalDisposing ==
    /\ running.op = "dispose" /\ ~signalled
    /\ signalled' = TRUE
    /\ UNCHANGED <<allowed, queueVars, mutex, configured, engine, files,
                   instance, thread, callVars, bounds>>

\* lru_callback_.Cancel(), which finds nothing once Dispose has taken the tasks.
CancelCollection ==
    IF mode = "disposed" THEN UNCHANGED <<queue, schedule>>
    ELSE Cancel({k \in QueuedTasks \cup schedule : k.op = "gc"})

\* TerminateInternal: a second time it finds remote_store_ reset.  The timer of
\* a transaction's attempt is not among the ones it cancels.
RunTerminate ==
    /\ running.op = "dispose" => signalled
    /\ Executes({"terminate", "dispose"})
    /\ IF engine = "open" THEN engine' = "shut" /\ CancelCollection
                          ELSE UNCHANGED <<engine, queue, schedule>>
    /\ IF running.op = "terminate" THEN Answer(running.call)
                                   ELSE UNCHANGED answered
    /\ UNCHANGED <<allowed, mode, doomed, issued, mutex, configured, files,
                   signalled, instance, thread, outside, owed, bounds>>

\* client_ is null or is_terminated().
MayClear == ~configured \/ mode # "running"

\* The operation of ClearPersistence takes Firestore::mutex_ for its check.
RunClear ==
    /\ mutex = NoThread
    /\ Executes({"clear"})
    /\ files' = IF MayClear THEN "absent" ELSE files
    /\ Answer(running.call)
    /\ UNCHANGED <<allowed, mode, queue, schedule, doomed, issued, mutex,
                   configured, engine, signalled, instance, thread, outside,
                   owed, bounds>>

-----------------------------------------------------------------------------
CallStep(t) ==
    \/ VerifyNotTerminated(t) \/ EnqueueCall(t) \/ EnterRestrictedMode(t)
    \/ SubmitTermination(t) \/ LockForDispose(t) \/ AwaitTermination(t)
    \/ CloseQueue(t) \/ CancelTask(t) \/ FinishDispose(t)

WorkerStep ==
    \/ Start \/ RunInitialize \/ RunCall \/ RunTransaction \/ RunAttempt
    \/ RunCommit \/ RunCollection \/ SignalDisposing \/ RunTerminate \/ RunClear

Next ==
    \/ \E t \in Threads :
        \/ \E call \in Calls : CallFirestore(t, call)
        \/ CallRemove(t) \/ ChangeUser(t) \/ ClearPersistence(t) \/ Release(t)
        \/ CallStep(t)
    \/ WorkerStep \/ Expire \/ Resume

Spec == Init /\ [][Next]_vars

\* Threads that are inside a call go on, the worker thread executes its queue,
\* timers expire and transactions' update functions and RPCs end.  Nobody has
\* to make a call.
Fairness ==
    /\ \A t \in Threads : WF_vars(CallStep(t))
    /\ WF_vars(WorkerStep) /\ WF_vars(Expire) /\ WF_vars(Resume)

FairSpec == Spec /\ Fairness

-----------------------------------------------------------------------------
TypeOK ==
    /\ mode \in {"running", "restricted", "disposed"}
    /\ queue \in Seq(Task) /\ schedule \subseteq Task
    /\ running \in Task \cup {NoTask}
    /\ TaskIds(QueuedTasks \cup schedule \cup {running}) \subseteq 0..issued
    /\ doomed \subseteq 1..issued
    /\ mutex \in Threads \cup {NoThread} /\ configured \in BOOLEAN
    /\ engine \in {"none", "open", "shut"} /\ files \in {"absent", "present"}
    /\ signalled \in BOOLEAN /\ instance \in {"alive", "releasing", "gone"}
    /\ thread \in [Threads -> [at : {"idle", "verify", "enqueue", "restrict",
                                     "submit", "lock", "await", "close",
                                     "cancel"},
                               call : Calls \cup {"none"}, n : 0..MaxCalls]]
    /\ outside \cup answered \subseteq 0..MaxCalls /\ owed \subseteq Owing
    /\ issued \in Nat /\ made \in 0..MaxCalls

\* The stores are there for every operation that uses them, whatever was queued
\* before, during and after the termination: Initialize is ahead of all of
\* them, none that was checked before the mode changed gets behind
\* TerminateInternal, which resets the stores, and the collector's timer is
\* cancelled there (FirestoreClient::TerminateInternal).  Two timers outlive it
\* and are excepted: the attempt of a transaction, which is never cancelled,
\* and a collection that Dispose finds in the executor.
WorkUsesOpenEngine ==
    \/ running.op \notin UsesEngine
    \/ running.op = "attempt"
    \/ running.op = "gc" /\ mode = "disposed"
    \/ engine = "open"

\* Dispose does not keep Firestore::mutex_ from the operation that it waits
\* for: the comment in FirestoreClient::Dispose says a racing ClearPersistence
\* is of no concern.
DisposeNeverWaitsInACircle ==
    ~ /\ running.op = "clear"
      /\ mutex # NoThread
      /\ \/ thread[mutex].at = "await" /\ ~signalled
         \/ thread[mutex].at = "cancel" /\ doomed = {running.id}

\* Every call comes to an end.  Releasing the last reference returns, through
\* Dispose's wait for its own operation and the cancellation of every other.
\* An accepted call is answered in the end: a write or a transaction that passed
\* the check unless the instance is terminated, however many transactions wait
\* for a timer; and a termination unless the instance is released, also when
\* several threads terminate it.
Unanswered == {k \in owed : k.n \notin answered}
CallsComeToAnEnd ==
    /\ instance = "releasing" ~> instance = "gone"
    /\ <>[](mode = "running" => Unanswered = {})
    /\ <>[](instance = "alive" =>
                \A k \in Unanswered : k.call # "terminate")

\* The worker queue keeps the order of what it accepts, executes one operation
\* at a time and discards nothing but cancelled timers until it is disposed of,
\* while other threads enqueue, cancel and dispose.  Once Dispose has returned,
\* the instance that the operations point to is gone, and none is left to run.
Promised == INSTANCE SerialQueue WITH
    phase <- IF mode # "disposed" THEN "open"
             ELSE IF instance # "gone" THEN "closing" ELSE "closed",
    waiting <- [i \in DOMAIN queue |-> queue[i].id],
    delayed <- TaskIds(schedule),
    timers <- TaskIds({k \in QueuedTasks \cup schedule :
                           k.op \in {"gc", "attempt"}}),
    current <- running.id,
    accepted <- issued

ImplementsSerialQueue == Promised!SqSpec
=============================================================================
