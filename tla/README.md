# Harusari: a verification project

Harusari is an iOS application: a user signs up or signs in with an e-mail
address, and a sign-up saves the user's profile as one Firestore document. The
application's own code is four screens (`src/harusari/Harusali`); the program's
hard logic is the Firebase SDK it vendors as source under `src/harusari/Pods`,
above all the offline write path of the Firestore client, which has to get the
profile to the backend through process deaths, lost connections, changes of the
signed-in user and expired tokens.

This directory holds TLA+ modules of the application, of that write path, of the
watch half of the same client, of its limbo resolution and its transactions, of the
client's life on its worker queue and of the gRPC streams below, the TLC configurations that check them on
small instances, and TLAPS proofs.

Paths below are relative to `src/harusari/`, with
`P` = `Pods/FirebaseFirestore/Firestore/core/src` and `S` = `Harusali`.

## Reading order

| module | what it is |
| --- | --- |
| `UserWriteQueue` | abstract: what the Firestore client promises about a write |
| `Streams` | the state machine of `remote/stream.cc`, shared by both streams |
| `WritePipeline` | SyncEngine, LocalStore, RemoteStore, WriteStream on the worker queue |
| `WritePipelineRefinement` | `WritePipeline` implements `UserWriteQueue` |
| `HarusariApp` | the screens and Firebase Auth, composed with `UserWriteQueue` |
| `RemoteWatch` | listens, the watch stream, the aggregator's counts, OnlineStateTracker |
| `LimboResolution` | the queries of SyncEngine, their views, and the limbo documents |
| `Transactions` | TransactionRunner and Transaction against the backend's Commit |
| `SerialQueue` | abstract: what AsyncQueue promises about the operations it accepts |
| `ClientLifecycle` | Firestore, FirestoreClient, AsyncQueue, executor: from the first call to Dispose |
| `ObservedStream` | abstract: what a GrpcStream promises its observer |
| `GrpcStream` | GrpcStream, its completions, the polling thread, the waits of the worker queue |
| `MCWritePipeline`, `MCHarusariApp`, `MCRemoteWatch`, `MCLimboResolution`, `MCTransactions`, `MCClientLifecycle`, `MCGrpcStream` | small instances for TLC |
| `WritePipelineProofs` | types and batch ids of the write path: theorems and proofs |
| `WritePipelineSafetyProofs` | its other safety properties, from one inductive invariant, and that it implements `UserWriteQueue`, step by step |
| `HarusariAppProofs`, `RemoteWatchProofs`, `LimboResolutionProofs`, `TransactionsProofs`, `ClientLifecycleProofs`, `GrpcStreamProofs` | theorems and proofs about the other modules |

The composition is in two layers. `HarusariApp` does not contain the write path;
it INSTANCEs the abstract `UserWriteQueue`, and `WritePipeline` is shown to
implement the same module. What `HarusariApp` assumes of Firestore is therefore
exactly what the `write_users` run checks of the code. `RemoteWatch` stands
beside them: the two halves of RemoteStore share the network switch and the
credential change, which both modules have, and nothing else. `LimboResolution` is
the layer above `RemoteWatch`: it takes from it that targets which are listened to
become current and are rejected at most (the environment of its `RemoteEvent` and
`HandleRejectedListen`).

All of these make every handler one action, because a serial queue runs them.
`ClientLifecycle` is where that comes from: below the handlers, with threads,
locks and timers, and shown to implement `SerialQueue`, in which operations run one
at a time in the order in which they became due. `GrpcStream` is below them as well:
it says how the results of a call get from the thread that polls gRPC to that queue,
of which `rpc` in `WritePipeline` and `RemoteWatch` is a coarser view (a call and its
results as one state, with the results that a failure cancels dropped). That view was
drawn from the same source; it is not shown to follow from `ObservedStream`.
`Transactions` shares only the
backend with everything else.

## Inventory

### The application (`S/Controller`, `S/AppDelegate.swift`)

*State.* Which screen is shown (MainVC, the navigation controller with SignInVC,
a SignUpVC pushed on it), the alert over it, and whatever the completions in
flight have captured.
*Operations.* `didFinishLaunchingWithOptions`, `checkIfUserLoggedIn`,
`didTapLogout`, `tapLoginBT`, `tapSignUpBT`, `signUpBtTap`, `signUp`, two alerts.
*Interactions.* Calls FirebaseAuth (`signIn`, `createUser`, `signOut`) and
Firestore (`setData`); every completion comes back on the main queue.
*Hard.* A sign-up is two remote operations (make the account, save the profile)
and the second is issued in the completion of the first. No button is disabled
while its request is under way, so requests overlap, and completions run on
screens that have gone or for users who have signed out again.
*Correct when* every account gets its own profile, written as its own user; an
alert says what happened; the main screen is for signed-in users.

### Firebase Auth session (`Pods/FirebaseAuth/.../FIRAuth.m`)

*State.* `_currentUser` and its copy in the keychain; the backend's accounts.
*Operations.* Sign-in, sign-up, sign-out, loading at launch, `updateCurrentUser`
and the notification it dispatches, automatic token refresh.
*Interactions.* Notifies Firestore's credentials provider through the main queue.
*Hard.* The notification and the completion of a request are dispatched
separately, and Firestore only knows the user from the notification. Keychain
writes can fail between the two. Token refresh retries on a timer.
*Correct when* the notification never comes after the completion that relies on it.

### Credentials provider (`P/auth/firebase_credentials_provider_apple.mm`)

*State.* `current_user`, `token_counter`, the change listener.
*Operations.* The notification handler, `GetToken` with its retry, `SetCredentialChangeListener`.
*Hard.* A token is asked for on the worker queue, answered on another, and the
user may have changed in between.

### FirestoreClient, SyncEngine (`P/core`)

*State.* `current_user_`, `mutation_callbacks_`, `pending_writes_callbacks_`; the
query views, limbo resolution queues and the online state.
*Operations.* `WriteMutations`, `RegisterPendingWritesCallback`,
`HandleCredentialChange`, `HandleSuccessfulWrite`, `HandleRejectedWrite`,
`EnableNetwork`, `DisableNetwork`.
*Hard.* Callbacks are looked up by batch id, and batch ids are used again once a
queue has drained. The application is told before the acknowledgement is durable.

### Life of an instance: Firestore, FirestoreClient, AsyncQueue, executor (`P/api/firestore.cc`, `P/core/firestore_client.cc`, `P/util`)

*State.* `Firestore::mutex_` and `client_`; the queue's mode (running, restricted,
disposed), the tasks that are due, delayed or being executed; whether the stores
are open and the database files exist.
*Operations.* Every API call (configure, check, enqueue), `TerminateAsync`,
`ClearPersistence`, `~Firestore`; `Initialize`, `TerminateInternal` and the delayed
operations on the worker thread; `Execute`, `Schedule`, `Cancel`, `Dispose` of the
executor.
*Interactions.* Threads of the application, one worker thread and timers, through
three mutexes and a promise.
*Hard.* A call is checked in one step and queued in another. Operations that are
queued run after the mode has changed. `Dispose` blocks a thread of the
application on the worker, and cancels tasks that the worker is about to start.
*Correct when* no operation finds the stores reset or the instance destroyed,
`Dispose` returns, and an accepted call is answered.

### Queries, views and limbo resolution (`P/core/sync_engine.cc`, `view.cc`)

*State.* A view per query: its documents, which the backend has confirmed
(`synced_documents_`), whether it is current, and its limbo documents. In SyncEngine
the references to limbo documents, the queue of resolutions, the active ones by
document and by target.
*Operations.* `Listen`, `StopListening`, `ApplyRemoteEvent`, `HandleRejectedListen`,
`HandleOnlineStateChange`, with `UpdateTrackedLimboDocuments` and
`PumpEnqueuedLimboResolutions` inside.
*Interactions.* RemoteStore listens for SyncEngine and calls it with remote events;
LocalStore keeps documents and the keys of each target.
*Hard.* Four containers describe one set of documents, and each event changes
several of them for several queries at once. Slots are meant to be bounded, and
nothing polls the queue.
*Correct when* every limbo document of a current view is being resolved or
waits, none waits while a slot is free, and an up-to-date query shows what the
backend has.

### Transactions (`P/core/transaction.cc`, `transaction_runner.cc`, `Source/API/FIRFirestore.mm`)

*State.* `retries_left_`; versions read, documents written, mutations, a deferred
error, the permanent-error mark.
*Operations.* Reads and writes of the update function, commit, retry, result.
*Hard.* The update function runs on another queue and goes on after errors; other
clients change what it has read; an answer is lost after the commit was applied.
*Correct when* the changes are applied only on what was read, and the completion
block is called once and told the truth.

### LocalStore and mutation queue (`P/local`)

*State.* Per user: batches in id order, `last_stream_token`; `next_batch_id_`.
*Operations.* Add, acknowledge, reject, next batch after an id, user change.
*Hard.* The queue outlives the process and the session, and is shared by users who
take turns.

### RemoteStore, write half (`P/remote/remote_store.cc`)

*State.* `is_network_enabled_`, `write_pipeline_` (at most `kMaxPendingWrites`).
*Operations.* `FillWritePipeline`, the events of the write stream, the network
switch, `HandleCredentialChange`.
*Hard.* Responses carry no batch id: position in the pipeline is the only
correlation. Nothing polls: each handler must leave the stream running if there
is work left.

### RemoteStore, watch half; WatchChangeAggregator (`P/remote/remote_store.cc`, `remote_event.cc`)

*State.* `listen_targets_`; per target the count of outstanding responses, whether it
is current and its document changes; the targets to be restarted because an
existence filter did not match.
*Operations.* `Listen`, `StopListening`, the events of the watch stream,
`HandleTargetChange`, `HandleExistenceFilter`, `CreateRemoteEvent`, target errors.
*Interactions.* SyncEngine listens and gets remote events; every message tells
`OnlineStateTracker`.
*Hard.* A target id says nothing about *which* listen a message belongs to: only the
count of unanswered requests does. Listens are given up and renewed while
messages about them are on their way, and a filter mismatch sends two
requests at once. The aggregator is destroyed at every close.
*Correct when* client and backend agree on what is watched, the count is exact, and a
target that stays listened to becomes current.

### OnlineStateTracker (`P/remote/online_state_tracker.cc`)

*State.* `Unknown / Online / Offline`, failures in a row, a ten-second timer.
*Hard.* The timer races the stream's success and failure, network switches,
credential changes and the last listener's leaving; five assertions are about it.
*Correct when* Online is said only while a stream is open, and the timer runs only
while a connection attempt is under way.

### GrpcStream, GrpcCompletion (`P/remote/grpc_stream.cc`, `grpc_completion.cc`)

*State.* `observer_`, `completions_` (the operations that gRPC has or whose callbacks
have yet to run), the BufferedWriter's `queue_` and `has_active_write_`,
`is_grpc_call_finished_`, whether it is registered with the connection; of each
completion, its callback and whether it is off the gRPC queue.
*Operations.* `Start`, `Write`, `WriteAndFinish`, `FinishImmediately`,
`FinishAndNotify`, destruction; the callbacks for reads, writes, finish and failures.
*Interactions.* One thread polls gRPC and puts callbacks on the worker queue; the
worker queue blocks on promises that this thread fulfils.
*Hard.* Callbacks capture the stream without owning it, and a completion is in one of
four places when it is cancelled. gRPC allows one operation of a kind at a time and
wants the call to outlive all of them. A wait for a read of a call that nobody ends
never ends.
*Correct when* no callback finds a stream that has gone, no assertion fails, messages
pass in order and once, and every wait ends.

### Stream, WriteStream, WatchStream (`P/remote`)

*State.* `Initial / Starting / Open / Error / Backoff`, the close count that
invalidates old callbacks, the idle and backoff timers, the handshake flag, the
last stream token.
*Hard.* Token callbacks, timers, results of calls, stops and restarts arrive in any
order, and assertions demand that they never meet the wrong state.

### Present in the repository and not modelled so far

Unary calls and `GrpcStreamingReader`; how the aggregator folds a sequence of
document changes into a `RemoteEvent`; local writes, limits and shared targets in
views; Auth's token refresh; the arithmetic of `ExponentialBackoff` and of the LRU
garbage collector: see *Plan*. Queries, serializers and API wrappers are sequential
conversions of data. The other pods (GoogleDataTransport, GTMSessionFetcher,
FirebaseInstallations, gRPC, abseil, BoringSSL, LevelDB, nanopb, lottie, ...) are
either not on the path of the application's operations or general-purpose libraries,
used here through what they promise: a call is a pair of FIFO directions, a LevelDB
write batch is atomic and durable.

`PROJECT.json` lists every component with its status, every modelled definition
with its source lines (`map`), and every hazard with the properties aimed at it.

## `WritePipeline`: state and actions against the code

Every handler runs to completion on one serial worker queue, so each handler is
one action, with everything it calls (refill and restart of the stream included).
What interleaves is the order of handlers.

| variable | code |
| --- | --- |
| `queue`, `lastToken` | LevelDB: mutations per user, `MutationQueue.last_stream_token` |
| `nextBatchId` | `LevelDbMutationQueue::next_batch_id_` |
| `currentUser`, `callbacks`, `waiters` | `SyncEngine::current_user_`, `mutation_callbacks_`, `pending_writes_callbacks_` |
| `networkEnabled`, `pipeline` | `RemoteStore::is_network_enabled_`, `write_pipeline_` |
| `stream` | `Stream::state_`, `close_count_`, both timers, `WriteStream::handshake_complete_`, `last_stream_token_` |
| `rpc` | the gRPC call: requests on their way, responses on their way, status |
| `worker` | credential changes and token callbacks, in the worker queue's order |
| `authUser`, `tokenCounter`, `tokenRequests` | the credentials provider and Auth's outstanding `getToken` calls |
| `committed` | the backend |
| `owner`, `fate`, `rejected`, `released`, `asserted`, `used` | history, for the properties and the bounds |

| action | code |
| --- | --- |
| `WriteMutations` | `SyncEngine::WriteMutations`, `LocalStore::WriteLocally` (`WriteLocally`), `FillWritePipeline` |
| `RegisterPendingWritesCallback` | the same name |
| `EnableNetwork`, `DisableNetwork` | `RemoteStore`'s |
| `HandleCredentialChange` | SyncEngine's, LocalStore's `HandleUserChange`, RemoteStore's (`RestartNetwork`) |
| `StreamOpen`, `TokenFailed` | `Stream::ResumeStartWithCredentials` with and without a token |
| `HandshakeComplete`, `MutationResult` | `NotifyStreamResponse` (`Received`), `OnWriteStreamHandshakeComplete`, `OnWriteStreamMutationResult` to `LocalStore::AcknowledgeBatch` |
| `StreamFinish`, `CloseWithError` | `OnStreamFinish`, `Close`, `OnWriteStreamClose`, `HandleWriteError` to `LocalStore::RejectBatch`, `HandleHandshakeError` |
| `IdleTimeout`, `BackoffElapsed` | the two timers of `Stream` |
| `AuthStateChanged`, `GetTokenDone` | the notification and the `getToken` callback in the credentials provider |
| `BackendReply`, `BackendRefuse`, `BackendCloseOk`, `CallLost`, `CorruptResponse` | external: backend and network, as the client sees them |
| `Restart` | process death between two handlers, then `FirestoreClient::Initialize` |
| `DieBeforeAcknowledgeBatch`, `DieBeforeNotifyUser` | process death inside `HandleSuccessfulWrite` and `HandleRejectedWrite`, which tell and persist in opposite orders |

Credential changes and token callbacks keep their FIFO order because that order
is what ties a stream to its user. Every other handler may be the next one at any
time, which allows more orders than the queue does, never fewer.

*Abstractions.* A batch is its id and a number unique to the API call; the content
of mutations is not looked at by the write path. A stream token is named by the
user whose stream delivered it. Statuses are three classes, as
`Datastore::IsPermanentError` and `IsPermanentWriteError` tell them apart: `lost`
(retried), `aborted` (permanent except for writes), `permanent`. The length of the
backoff delay and `force_refresh` (which token is asked for after
UNAUTHENTICATED) are left out; that a restart after an error waits for the
backoff timer is kept. When the client lets go of a call (`DropCall`), the
backend may still execute any prefix of the requests on their way, and this is
decided at that moment. A failing `HARD_ASSERT` clears `asserted` and the run goes
on; in the program it aborts.
A response that cannot be parsed is modelled by its first effect, the failed
`NotifyStreamResponse`.

The operators commented `Variant:` are plausible mistakes in the operator that
follows them. They are not used by the specification; substituted for that operator
they show that a property can fail.

## `RemoteWatch`: state and actions against the code

| variable | code |
| --- | --- |
| `networkEnabled`, `listenTargets` | `RemoteStore::is_network_enabled_`, the keys of `listen_targets_` |
| `aggregator` | `watch_change_aggregator_`: whether it exists, `outstanding_responses_` and `current_` of each target, `pending_target_resets_` |
| `stream`, `tokens` | the WatchStream (`Streams`), and the close counts of its unanswered token requests |
| `tracker` | `OnlineStateTracker`: state, failures, whether the timer is set |
| `rpc` | the gRPC call, both directions, and what the backend watches for it |
| `asserted`, `used` | history, bounds |

| action | code |
| --- | --- |
| `Listen`, `StopListening` | the same names, with `SendWatchRequest`, `SendUnwatchRequest`, `MarkIdle` |
| `EnableNetwork`, `DisableNetwork`, `HandleCredentialChange` | RemoteStore's, the watch half |
| `StreamOpen`, `TokenFailed` | `ResumeStartWithCredentials`, `OnWatchStreamOpen` (a request for every target) |
| `TargetChange`, `ExistenceFilterMismatch`, `ProcessTargetError`, `RaiseWatchSnapshot`, `IgnoreOldSnapshot` | `OnWatchStreamChange` for each kind of message, to the aggregator |
| `CorruptResponse`, `StreamFinish`, `IdleTimeout`, `BackoffElapsed` | `OnStreamRead`, `OnStreamFinish`, the timers, with `OnWatchStreamClose` |
| `OnlineStateTimeout` | the block in `HandleWatchStreamStart` |
| `BackendWatch`, `BackendUnwatch`, `BackendCurrent`, `BackendSnapshot`, `BackendDisturbs`, `CallLost` | external: the Listen RPC and the network, as the client sees them |

*Abstractions.* The backend answers requests in order, one message for each, and
may send CURRENT, RESET, an existence filter or a rejection for a target it watches
at any time, and a snapshot version, maybe an old one, after anything. What
messages say about documents, and resume tokens, is left out: the filter message
stands for one that does not match (one that matches does nothing). NoChange
messages only carry resume tokens and snapshots, and here only snapshots. A target
state that has been erased reads like a new one, as `EnsureTargetState` makes it.
Two calls of `UpdateState` in one handler leave what the last one leaves. The
listens that SyncEngine makes while it applies a snapshot are `Listen` steps of
their own, which may come at any other time as well. That a backend may close a
call with OK (the same `Stream::OnStreamFinish` as for writes) is not repeated here.

## `HarusariApp`: state and actions against the code

`main` is the main dispatch queue: the auth notification, the completions of
`signIn`, `createUser` and `setData`, and the block of `checkIfUserLoggedIn`, in
the order they were dispatched. Taps come between any two. `calls` are requests
to the Auth backend, answered in any order. `fsUser`, `pending`, `live`,
`committed`, `fate`, `count` are the variables of `UserWriteQueue`, and `docs`
says which profile each write carries.

| action | code |
| --- | --- |
| `TapLogin`, `TapSignUp` | `SignInVC.tapLoginBT`, `tapSignUpBT` |
| `TapCreate`, `TapBack`, `TapAlert` | `SignUpVC.signUpBtTap`, the back button, the alerts' buttons |
| `TapLogout` | `MainVC.didTapLogout`, with the error of `signOut` that `try?` drops |
| `BackendCreates` | external: the account exists, the client does not know yet |
| `AuthSucceeds`, `AuthFails` | `signInFlowAuthDataResultCallbackByDecoratingCallback`, `updateCurrentUser` |
| `PresentLogin`, `SignInDone`, `SignUpDone`, `ProfileSaved` | the blocks and completions of the screens |
| `AuthChanged` | the credentials provider's listener, and `Store!SwitchUser` |
| `ProfileSettles`, `ProfileExecutes` | `Store!Settle`, `Store!Execute` |
| `Kill` | process death and `didFinishLaunchingWithOptions` |

*Abstractions.* An account's uid is its address. UIKit is external: a second
`present` is ignored, so is one from a screen that is not in the window, and
`dismiss` takes away an alert before a screen. `MainVC.swift` presents
`ViewController()`, a class that the repository does not have; it is taken to be
SignInVC. Two simplifications to lift later: a keychain that cannot be read at
launch, and the lag between the provider's user and SyncEngine's, which
`WritePipeline` has (`authUser` against `currentUser`).

## `LimboResolution`: state and actions against the code

| variable | code |
| --- | --- |
| `limit` | `max_concurrent_limbo_resolutions_` |
| `views` | `query_views_by_query_` and each `View`'s `synced_documents_`, `current_`, `limbo_documents_`; `synced` also is LocalStore's keys of the target while nobody listens |
| `limbo.refs`, `.enqueued`, `.byKey`, `.byTarget` | `limbo_document_refs_`, `enqueued_limbo_resolutions_`, `active_limbo_targets_by_key_`, `active_limbo_resolutions_by_target_` |
| `limbo.listens`, `limbo.nextId` | the limbo targets of RemoteStore, `target_id_generator_` |
| `cache`, `server` | LocalStore's remote documents, the backend's documents |
| `caughtUp` | the targets whose CURRENT has come on the present connection |
| `asserted`, `used`, `denied` | history, bounds |

| action | code |
| --- | --- |
| `Listen`, `StopListening` | SyncEngine's, with `InitializeViewAndComputeSnapshot` and `RemoveAndCleanupTarget` |
| `RemoteEvent` | `CreateRemoteEvent`, `SyncEngine::ApplyRemoteEvent`, LocalStore's, `EmitNewSnapshotsAndNotifyLocalStore` |
| `HandleRejectedListen` | of a query and of a limbo target |
| `FilterMismatch` | `HandleExistenceFilter`, `ResetTarget` and the RemoteEvent they lead to |
| `ConnectionLost`, `WentOffline` | a closed watch stream; `HandleOnlineStateChange(Offline)` |
| `ServerChange` | external: another client writes or deletes a document |

*Abstractions.* A document is the set of queries that it matches, or does not exist.
A RemoteEvent brings any set of waiting targets to CURRENT, any others halfway, and
those that are CURRENT to what the backend has now; of a document that no longer
matches a query the backend may say only that, or what it is now, and that choice is
what puts documents into limbo. Views are visited in any order, as in a hash map.
Ids of limbo targets are given by a counter and are never those of queries: the two
generators of `target_id_generator.h` give out odd and even ids. The four loops
(references of one view removed, then added; one view after the other; what a query
leaves behind) are folds with a name each, over the documents in the order of their
keys (`InKeyOrder`), and the loop that fills the free slots
(`PumpEnqueuedLimboResolutions`) is one over the documents that wait. Left out are local writes (which keep a document out of limbo), limits
and refills, and queries that share a target.

## `Transactions`: state and actions against the code

`txn[t]` is the runner (`phase`, `left` for `retries_left_`) with its current
`core::Transaction` (`tr`): `read_versions_`, `written_docs_`, `mutations_`,
`last_write_error_`. `version` and `clock` are the backend's documents and its time;
`told`, `applied` and `lost` are history.

| action | code |
| --- | --- |
| `RunTransaction`, `StartAttempt` | `SyncEngine::Transaction`, `TransactionRunner::Run` and the block of its backoff |
| `Lookup`, `SetOrDelete`, `Update` | `Transaction::Lookup` with `RecordVersion`, `Set`, `Delete`, `Update` with their preconditions |
| `FailUpdate`, `ContinueCommit` | `RunUpdateBlock` with and without an error, `ContinueCommit`, `Transaction::Commit` |
| `CommitEnds` | `Datastore::CommitMutations`, `DispatchResult`, `HandleTransactionError` |
| `OtherCommit` | external: another client |

*Abstractions.* A version is a number, 0 for a document that does not exist; a
precondition is the set of versions it accepts; content is left out. A read is one
step because `getDocument` waits for it (a read that comes back between two other
commits has seen a version of that time). The backend checks and applies a commit
in one step; its answer comes with it or is lost. The delay of the backoff is left
out. One transaction is modelled: transactions share only the backend, and
`OtherCommit` stands for the others.

## `ClientLifecycle`: state and actions against the code

| variable | code |
| --- | --- |
| `mode`, `queue`, `schedule`, `running` | `AsyncQueue::mode_`; the executor's tasks: handed to libdispatch, delayed, being executed |
| `doomed` | `local_tasks` of `ExecutorLibdispatch::Dispose`, those not yet cancelled |
| `mutex`, `configured` | `Firestore::mutex_` while its holder waits, `client_` |
| `engine`, `files` | whether the stores are open (`remote_store_`), the files of LevelDB |
| `signalled`, `instance` | `signal_disposing`, the `Firestore` object |
| `thread` | where each thread of the application is in its call |
| `outside` | transactions in their update function or commit |
| `owed`, `answered`, `issued` | history |

| action | code |
| --- | --- |
| `CallFirestore`, `VerifyNotTerminated`, `EnqueueCall` | `EnsureClientConfigured`, the check, the enqueueing: three steps of one call |
| `CallRemove`, `ChangeUser` | `ListenerRegistration::Remove`, the credential listener |
| `EnterRestrictedMode`, `SubmitTermination` | `TerminateAsync`, and the same steps of `Dispose` |
| `Release`, `LockForDispose`, `AwaitTermination`, `CloseQueue`, `CancelTask`, `FinishDispose` | `~Firestore` down to `ExecutorLibdispatch::Dispose` and `Task::Cancel` |
| `Start`, `Run...`, `SignalDisposing` | the worker thread: `Task::ExecuteAndRelease` and the operations |
| `Expire`, `Resume` | a timer is due; an update function or its commit is done |

*Abstractions.* The two leaf mutexes (of the queue, of the executor and of a task) are
held for one step. Operations that only use the stores are one kind, `write`
standing for those with a callback and `remove` for those without; listening,
enabling the network and waiting for pending writes take the same path. Opening the
database does not fail (the code aborts then). Of the delayed operations, the LRU
collection and the attempts of transactions are modelled: the timers of the
streams are cancelled with their stream (`WritePipeline`, `RemoteWatch`).

## `GrpcStream`: state and actions against the code

| variable | code |
| --- | --- |
| `stream` | the members of `GrpcStream`: whether it exists, `observer_`, `grpc_connection_`, `is_grpc_call_finished_`, `completions_`, and of its BufferedWriter `queue_` and `has_active_write_` |
| `comps` | every `GrpcCompletion` made so far: its type, whether it has a callback, where it is (with gRPC, off its queue, on the worker queue, executed), its result |
| `poll`, `tasks` | the completion in the hands of `PollGrpcQueue`; the callbacks on the worker queue, in order |
| `worker` | idle, or where the worker queue blocks (`TryLastWrite`, `FinishGrpcCall` from a failure or from `Shutdown`, the end of `Shutdown`), and whether it notifies the observer then |
| `call` | gRPC: the state of the call, messages that have arrived, those taken by reads, those given to it |
| `told`, `asserted` | history |

| action | code |
| --- | --- |
| `Start`, `Write` | the same names, with `Read`, `EnqueueWrite` and `MaybeWrite` |
| `FinishImmediately`, `FinishAndNotify`, `WriteAndFinish` | the same names, up to the point where they block; the first two as `Stream` and `GrpcConnection` call them |
| `LastWriteWaited`, `FinishGrpcCall`, `Drained` | what follows each wait |
| `Destroy` | `~GrpcStream` |
| `RunCancelled`, `OnRead`, `OnWrite`, `OnFinish`, `OnOperationFailed` | the callback of `NewCompletion` on the worker queue, by type and result |
| `ReadReturns`, `WriteReturns`, `FinishReturns`, `OperationFails` | `CompletionQueue::Next` (external) and the first half of `GrpcCompletion::Complete` |
| `Complete` | its second half |
| `ServerSends`, `CallBreaks` | external |

*Abstractions.* A message is its number. `Complete` is two steps because the worker
queue can go on between `set_value` and `Enqueue`. A wait is a state of `worker` that is
left once `AllOffQueue` holds, or, for the last write, at any time (500 ms). gRPC
returns an operation as failed only when the call has ended, returns Finish only then
and always as successful (`completion_queue_impl.h:170`); a write may come back as
successful on a call that has ended. What the observer does from within a callback is a
step of its own: after calling the observer no callback touches the stream. Left out:
`WriteLast` and the reader that uses it, response headers, and a worker queue that is
disposed of while completions are on their way.

## Runs

Two of everything that can be mixed up: users, addresses, targets, queries,
documents, threads. Every bound is a CONSTANT that caps one kind of *event of the
environment* (writes, waits, calls, auth notifications, network switches, process
deaths, faults, commits of other clients), so that the client's own steps are never
cut off; in `ClientLifecycle`, `MaxRetries` and `MaxCollections` cap how often the
two timers that set themselves again are due. `CHECK_DEADLOCK FALSE` is set
everywhere: with its queue drained, its stream idle and closed and the bounds used
up, the system really does stop; that it does not stop *earlier* is what
`NoWriteIsStranded`, `NoListenIsStranded`, `SlotsAreUsed` and the liveness
properties say.

| run | distinct states | bounds | shows |
| --- | ---: | --- | --- |
| `write_faults` | 378,000 | 4 writes, pipeline of 2, 1 wait, 1 switch, 3 faults of 5 kinds | order, correlation by position and the refill survive every kind of error; no assertion fails; pending writes settle (under `FairSpec`) |
| `write_users` | 4,444,000 | 2 writes, 1 wait, 2 auth changes, 1 switch, 1 death, 1 fault | no write is sent as the wrong user, late tokens are harmless, a new process resumes the queues; `WritePipeline` implements `UserWriteQueue` |
| `app_profiles` | 632,000 | 3 requests, 2 sign-up screens, 1 death, 1 fault | every account gets its own profile under its own user |
| `watch_targets` | 669,000 | 2 targets, 2 listens, 1 switch or credential change, 2 faults of 6 kinds, 3 messages in flight | what is watched, the count of outstanding responses, and that listens are answered (under `FairSpec`) |
| `watch_online` | 1,322,000 | 2 targets, 3 listens, 2 switches or credential changes, 2 faults of 4 kinds, rejections among them, 2 messages in flight | the online state and its timer; no assertion fails, no listen is stranded |
| `client_lifecycle` | 862,000 | 2 threads, 3 calls out of one of 4 sets of calls, 1 retry, 1 collection | start, use, termination and disposal of an instance from several threads; calls come to an end (under `FairSpec`); `AsyncQueue` implements `SerialQueue` |
| `transactions` | 870,000 | 1 transaction of at most 3 operations on 2 documents, 2 retries, 2 commits of others | what is committed rests on current reads; the result is true and always comes (under `FairSpec`) |
| `limbo` | 391,000 | 2 documents, 2 queries, 1 or 2 slots, 2 changes, 2 listens, 2 faults of 4 kinds | limbo documents are resolved, none waits while a slot is free, settled views are right |
| `grpc_stream` | 86,000 | 3 messages of the client, 2 of the server | the order in which operations come back, are enqueued and are cancelled is harmless; waits end, broken calls are noticed, messages pass (under `FairSpec`); `GrpcStream` implements `ObservedStream` |
| `reject_front`, `dispose_clear_deadlock`, `from_cache_forever` | | small | see *Findings* |

*Why the bounds are enough.* Four writes through a pipeline of two fill it, overflow it
and refill it twice; three faults let a fault strike during the recovery from
another. Two auth changes give A, B, A: a queue that is left and returned to,
with its batch ids loaded again, and a token request that outlives two users. One
death suffices for what a death can lose, since all volatile state is reset by it;
what it resumes from is any queue the other events can produce. A target that is
listened to, given up and listened to again needs two listens, the same with another
target beside it three; every message of the backend can then be about the listen
before. Giving up a listen is not bounded. `kMaxWatchStreamFailures` is 1, as in
the code. In the application, three requests allow two overlapping ones and one after
them. In the life cycle, three calls on two threads put any call before, into and
after a termination, and any two inside the third; a collection and a retry that
happen once have set their timer again. Three operations of an update function
read and write one document and touch another, or read one twice; with two retries
a loss, a conflict and the last attempt follow each other, and two commits of others
change a document that is read, or delete it and make it again. Limbo needs one
document in both of two queries, another one to wait in the queue, and one slot for
both; two changes take a document out of a query and put it back. A stream with three
messages to write has one with gRPC, one on the buffer and a last one for
`WriteAndFinish`; two messages of the server put a read with gRPC behind one that is
still on the worker queue. The steps of the stream itself are not bounded: at most two
operations are pending and each goes through four places once.

Twelve properties are stated by theorems alone and no run is spent on them: in
`WritePipeline` `CallbacksHaveBatches` and `SettledInOrder`, in `RemoteWatch`
`TimerOnlyWhileConnecting` and `OfflineOnlyAfterUnknown`, in `LimboResolution`
`NoLimboAssertionFails`, in `GrpcStream` `NoAssertionFails`,
`CallOutlivesOperations`, `AlwaysListening`, `BlockedOnlyOnEndedCall` and the
inductive invariant, and the type invariants of `ClientLifecycle` and
`Transactions`.

*What each property is for.*

- `PipelineIsQueuePrefix`, `ResponsesMatchPipeline`, `SettledInOrder`: a response is
  given to the front of the pipeline, so the pipeline, the requests sent and the
  user's queue must agree in order and without a gap, through refills, rejections,
  restarts of the stream and retransmission.
- `ImplementsUserWriteQueue`: what the application may rely on. Success means
  committed, a write is told its fate once, by the order of its own user's queue; a
  death between telling and persisting an acknowledgement does not contradict what
  was told. A rejection is persisted first, so a death there loses the news of it:
  `UserWriteQueue` says so (`Die`), because the code promises no more.
- `NoWriteIsStranded`: in *every* state with the network enabled, a non-empty queue
  has a started stream, or one whose backoff timer is set. In `write_users` the
  backend may close a call with OK, which meets the `HARD_ASSERT` at
  `remote_store.cc:437` when writes are pending; that aborts the process, so what
  follows is not claimed.
- `CommittedOnlyAsOwner`, `TokensBelongToUser`: across user changes, nothing goes
  out, and no token is kept, under the wrong user. Two mechanisms in the code
  protect this: the `token_counter` test in `GetToken`, and the close count
  together with the FIFO order of the worker queue. With the second, the first
  turns out not to be needed for these properties: leaving out the counter test
  alone violates nothing in `write_users`.
- `BatchIdsIncrease`, `CallbacksHaveBatches`: ids are reused after a queue drains,
  and still no batch overwrites another, and no callback is leaked, run twice or
  run for another write.
- `WaitersSeeAllWrites`: `waitForPendingWrites` watches a single id, and is right
  because of the order.
- `NoAssertionFails`: the `HARD_ASSERT`s on this path, apart from the one above
  (the `ok` fault is not enabled in `write_faults`).
- `BackendWatchesTargets`: folding the requests that are still on their way into what
  the backend watches gives the client's targets, always. This is what makes
  the restart after an existence filter (unwatch and watch at once) safe against a
  `StopListening` around it.
- `OutstandingIsUnanswered`: `outstanding_responses_` equals the requests plus the
  answers on their way. Too high, and the target is mute for ever; too low, and
  messages of an earlier listen are taken for the present one.
- `ListensAreAnswered`: both of these together with backoff, resets and restarts.
- These three are checked without rejected targets. With them the count is not exact:
  when an unwatch crosses the rejection of its target, `ProcessTargetError`
  (`remote_store.cc:338`) erases or ignores the count instead of lowering it, and
  the unwatch or the watch is then counted differently from what
  `remote_event.h:208` says. What a backend answers to an unwatch of a target that
  it has rejected is not said in the repository either, so nothing is
  claimed about that case; everything in `watch_online` holds with rejections.
- `OnlineOnlyWhileOpen`, `TimerOnlyWhileConnecting`, `OfflineOnlyAfterUnknown`,
  `NoWatchAssertionFails`: no path through close, idle stop, switch, credential
  change and timeout forgets the tracker, and no callback meets a stream or an
  aggregator that has gone.
- `NoListenIsStranded`: with the network enabled a listener has a stream that is open,
  starting or waiting for its backoff timer.
- `ProfileInOwnersQueue`, `AccountsHaveProfiles`, `SuccessAlertMeansSaved`,
  `FirestoreFollowsAuth`: the two halves of a sign-up stay together.
- `WorkUsesOpenEngine`: an operation is accepted after a check that may be out of
  date and runs later still; the mode, the order of the queue and the cancelled
  timer together keep it away from stores that are not open yet or no longer. Two
  timers are excepted, because they really are due too late: see *Findings*.
- `CallsComeToAnEnd`: no thread waits for ever in `Dispose`, and an accepted write,
  transaction or termination is answered, with the exceptions that the code makes
  (what `Terminate` drops, what a release drops).
- `ImplementsSerialQueue`: order, one operation at a time, nothing discarded but
  timers until the queue is disposed of, nothing left after. `WritePipeline`,
  `RemoteWatch` and `LimboResolution` make each handler one action because of it.
- `AppliesOnCurrentReads`, `ResultIsTrue`, `EveryTransactionEnds`: the promise of
  `runTransaction`, with its limit: after a lost answer a retried transaction may be
  applied twice, or applied and reported as failed.
- `LimboIsTracked`, `NoLimboAssertionFails`: the four containers of SyncEngine agree
  with the views and with RemoteStore, whatever ends a resolution.
- `SlotsAreUsed`: a document waits only while RemoteStore listens to at least `limit`
  different documents for SyncEngine. The pump looks at the size of
  `active_limbo_targets_by_key_` only, so this needs each of those documents to have a
  target that is listened to, and the pump to run wherever a resolution ends. It says
  nothing of the other direction: there can be more listens than slots (see *Findings*).
- `SettledViewsAreRight`: what all of this is for. When there is a slot for every
  document and none was rejected, a client that is up to date shows each query's
  documents and has none in limbo. Without the first premise it is false:
  `from_cache_forever`.

- `CallbacksFindTheirStream`, `CallOutlivesOperations`, `NoAssertionFails` of
  `GrpcStream`: the callbacks hold plain pointers to the stream. That they never run too
  late rests on `Cancel` on the worker queue, on `completions_` having every operation
  that could call back, and on the waits for what gRPC still has.
- `OneOperationAtATime`, `AlwaysListening`, `ImplementsObservedStream`: one read and one
  write at a time, and never none when there should be one; so messages pass in order.
- `BlockedOnlyOnEndedCall`, `WorkerComesBack`: the waits have no timeout. They end
  because the call was cancelled or has broken before, and because what they wait for
  is done by the polling thread alone: a wait for the callback to have *run* would
  block the worker queue on itself.
- `FailureIsTold`, `MessagesPass`: the first failure cancels every other operation and
  is the only one that asks for the status; and a buffered message is not left
  behind by the write before it.

*Fairness.* `FairSpec` of the write path gives weak fairness to the tasks of the
worker queue, to the gRPC results, to the backoff timer, to Auth answering token
requests and to the backend answering the next request: a serial queue runs what it
holds, a set timer fires, and a connected, healthy service answers. Nothing is
assumed of the application (which need not ever write again), of the idle timer, of
faults or of restarts. A connection that breaks forever is excluded by `MaxFaults`:
the claim is that writes settle *once faults stop*. For the watch half the same
holds: callbacks, messages in order, the backoff timer, and a backend that answers
requests, says CURRENT and sends snapshots. Listening again, the idle timer and the
online state timer are not assumed. In `ClientLifecycle`, a thread inside a call goes
on, the worker thread executes its queue, timers expire, and update functions and
RPCs end; nobody has to make a call. In `Transactions`, timers expire, update
functions end and every commit has some outcome, failures included. `LimboResolution`
states no liveness: what is reached is said of the settled states instead. In
`GrpcStream`, the worker queue goes on when it can (`WorkerGoesOn`), the polling thread
enqueues what it has (`Complete`) and takes what there is (`Grpc`): gRPC returns every
operation of a call that has ended, every write, and a read for which there is a
message. A server that sends, a call that breaks and an observer that acts are not
assumed.

## Findings

Each has a run in which TLC finds the behaviour. They are disagreements between
the code and a statement in the repository; `PROJECT.json` quotes both.

1. `reject_front`: a permanent error rejects the front of the pipeline. If a write
   on the finished call fails before the queued responses are read, those are
   dropped, and a write that was committed is rejected in place of the refused one.
   The abstract `UserWriteQueue` says what then still holds: it is *a* pending
   write, the oldest, told once.
2. `dispose_clear_deadlock`: `Firestore::Dispose` holds `mutex_` while it waits for the
   worker queue, and the operation of a `ClearPersistence` that is still queued
   takes the same mutex. `core/firestore_client.cc:229-231` says that the race is OK.
3. `from_cache_forever`: a document that leaves limbo while it waits in the queue of
   resolutions stays there; its resolution is started all the same, nothing ends it,
   and its slot is lost. When all slots are, a query stays from cache although the
   client is up to date.

Met while modelling, and no run is spent on them:

- A second tap on login: nothing disables the button during a request, and the
  completion of the second tap dismisses a login screen that a logout has brought up
  since, so `MainVC` is shown with nobody signed in (`SignInVC.swift:78`;
  `MainVC.swift:55` says that the login screen comes up then).
- `GrpcStream::MaybeWrite` does not look at `is_grpc_call_finished_`. After
  `OnOperationFailed` has issued Finish and until its callback runs, `Write` still
  gives messages to gRPC (`grpc_stream.cc:149`), which says of Finish that it "should
  not be used concurrently with other operations"; the comments at
  `grpc_stream.cc:204-208` and `236-237` say that it does not happen. Nothing that is
  proved of the stream depends on it: such a write comes back as well and is waited for.
- A call that the *backend* ends with OK goes down the path of a graceful local stop
  and meets a `HARD_ASSERT` when writes are pending (`remote_store.cc:437`).
- `Stream::Close(OK)` returns early in state Error, so a stopped stream stays there and
  its next start waits for the backoff timer, where `stream.h:81` says any state goes
  to INITIAL; both modules keep it (`Stopped`).
- Giving up the only listen while the stream is connecting cancels the online state
  timer (`remote_store.cc:168`); a listen that follows at once does not set it again,
  so the client may stay Unknown for as long as the attempt hangs.
- A target that is given up and listened to again before the removal is answered
  keeps `current_` (`remote_event.cc:161`), so it counts as current before the backend
  has said so for the new listen.
- A second tap on sign-up fails with "address in use" and shows the failure alert on
  the screen that has just made the account.
- `is_terminated()` is true as soon as the mode is restricted, before `TerminateInternal`
  has run: a `ClearPersistence` from then on that was queued ahead of it deletes the
  files of a database that is open (`api/firestore.cc:172`).
- The timer of a transaction's attempt is not cancelled by `TerminateInternal`: the
  attempt runs and calls the update function of a client without stores; and a
  transaction that is under way then never gets an answer, because what it enqueues
  next is dropped.
- A commit that was applied and whose answer was lost is retried, so a transaction
  may be applied twice, where `FIRFirestore.h:120-123` promises all or nothing.
- `SyncEngine::Transaction` takes a number of retries (`sync_engine.h:122-125`) and
  the runner counts from its own `kRetryCount`.
- There can be more limbo listens than `max_concurrent_limbo_resolutions_`, which is
  there so that the backend does not run out of resources (`sync_engine.h:244-253`).
  A document that gets into limbo for a second query while it waits is queued twice
  (`sync_engine.cc:529-537`). When its second entry comes up and it is being resolved
  already, it gets a second target and a second `Listen`; the `emplace` into
  `active_limbo_targets_by_key_` keeps the first (`sync_engine.cc:546-549`), so the map
  whose size is compared with the limit does not grow and a slot looks free. When the
  document leaves limbo, only the target in that map is given up and the other is
  listened to for ever. `LimboResolution` does all of this: with `Docs = {1, 2, 3}`,
  `Contents <- AllOrNothing`, `Limits = {2}`, two calls, five changes and no fault, TLC
  finds `Cardinality(limbo.listens) <= limit` violated in twelve states. Two queries
  have three documents in limbo, 1 and 2 are being resolved and 3 is queued for each; 1 ends
  and 3 gets a target; 2 ends and 3 gets another, while 1, in limbo again, gets a
  third. With two documents, as in the run `limbo`, the listens fit.
- A document whose resolution was rejected stays in limbo, without a target, in a view
  that is not current at that moment, until the view is current again (`denied` in
  `LimboResolution`).

## Proofs

TLC checks the instances above; the theorems hold for all sets of users, addresses,
threads, transactions and documents, all finite sets of targets, every pipeline
limit, every `kMaxWatchStreamFailures` and every value of the bounds. Assumptions on
the constants are the named ASSUMEs of `WritePipeline` (`UsersAssumption`,
`PendingAssumption`, `BoundsAssumption`), `HarusariApp` (`EmailsAssumption`,
`AppBoundsAssumption`), `RemoteWatch` (`TargetsAssumption`, `FailuresAssumption`,
`WatchBoundsAssumption`), `LimboResolution` (`LimboAssumption`), `Transactions`
(`TransactionBounds`, `TransactionsFinite`), `ClientLifecycle`
(`LifecycleBoundsAssumption`) and `GrpcStream` (`GrpcBounds`): the unauthenticated
user is a user, the empty token is none, the pipeline holds at least one batch,
there are finitely many targets, queries, transactions and documents, documents are
ordered by their key (in `LimboResolution` they are numbers), a query is not a limbo
target, there is at least one slot for resolutions, at least one failure makes a
client Offline, the bounds are natural numbers. `ResultsAreTrue` uses no assumption.

| theorem | statement |
| --- | --- |
| `WritePipelineProofs!TypeCorrect` | `Spec => []TypeOK` |
| `WritePipelineProofs!IdsIncrease` | `Spec => []BatchIdsIncrease` |
| `WritePipelineSafetyProofs!PipelineInOrder` | `Spec => []PipelineIsQueuePrefix` |
| `WritePipelineSafetyProofs!ResponsesInOrder` | `Spec => []ResponsesMatchPipeline` |
| `WritePipelineSafetyProofs!NothingStranded` | `Spec => []NoWriteIsStranded` |
| `WritePipelineSafetyProofs!CommittedAsOwner` | `Spec => []CommittedOnlyAsOwner` |
| `WritePipelineSafetyProofs!TokensOfUser` | `Spec => []TokensBelongToUser` |
| `WritePipelineSafetyProofs!CallbacksOfBatches` | `Spec => []CallbacksHaveBatches` |
| `WritePipelineSafetyProofs!WaitersSeeWrites` | `Spec => []WaitersSeeAllWrites` |
| `WritePipelineSafetyProofs!SettlesInOrder` | `Spec => []SettledInOrder` |
| `WritePipelineSafetyProofs!AssertionsHold` | `"ok" \notin FaultKinds`: `Spec => []NoAssertionFails` |
| `WritePipelineSafetyProofs!ImplementsQueue` | `Spec => ImplementsUserWriteQueue` |
| `HarusariAppProofs!AppTypeCorrect` | `AppSpec => []AppTypeOK` |
| `HarusariAppProofs!ProfilesInOwnersQueue` | `AppSpec => []ProfileInOwnersQueue` |
| `HarusariAppProofs!FirestoreIsTold` | `AppSpec => []FirestoreFollowsAuth` |
| `HarusariAppProofs!SuccessMeansSaved` | `AppSpec => []SuccessAlertMeansSaved` |
| `HarusariAppProofs!NoAccountIsForgotten` | `AppSpec => []AccountsHaveProfiles` |
| `RemoteWatchProofs!WatchTypeCorrect` | `Spec => []TypeOK` |
| `RemoteWatchProofs!WatchAssertionsHold` | `Spec => []NoWatchAssertionFails` |
| `RemoteWatchProofs!ListensKeepAStream` | `Spec => []NoListenIsStranded` |
| `RemoteWatchProofs!OnlineMeansOpen` | `Spec => []OnlineOnlyWhileOpen` |
| `RemoteWatchProofs!TimerMeansConnecting` | `Spec => []TimerOnlyWhileConnecting` |
| `RemoteWatchProofs!UnknownBeforeOffline` | `Spec => OfflineOnlyAfterUnknown` |
| `RemoteWatchProofs!BackendAgrees` | `"reject" \notin WatchFaultKinds`: `Spec => []BackendWatchesTargets` |
| `RemoteWatchProofs!OutstandingIsExact` | `"reject" \notin WatchFaultKinds`: `Spec => []OutstandingIsUnanswered` |
| `LimboResolutionProofs!LimboTypeCorrect` | `Spec => []TypeOK` |
| `LimboResolutionProofs!NoLimboAssertFails` | `Spec => []NoLimboAssertionFails` |
| `LimboResolutionProofs!LimboDocumentsAreTracked` | `Spec => []LimboIsTracked` |
| `LimboResolutionProofs!SlotsFill` | `Spec => []SlotsAreUsed` |
| `LimboResolutionProofs!SettledViews` | `Spec => []SettledViewsAreRight` |
| `TransactionsProofs!TransactionsTypeCorrect` | `Spec => []TypeOK` |
| `TransactionsProofs!ResultsAreTrue` | `Spec => []ResultIsTrue` |
| `TransactionsProofs!CommitsOnCurrentReads` | `Spec => AppliesOnCurrentReads` |
| `ClientLifecycleProofs!LifecycleTypeCorrect` | `Spec => []TypeOK` |
| `ClientLifecycleProofs!OperationsFindTheStores` | `Spec => []WorkUsesOpenEngine` |
| `ClientLifecycleProofs!QueueIsSerial` | `Spec => ImplementsSerialQueue` |
| `GrpcStreamProofs!StreamIsConsistent` | `Spec => []IInv` |
| `GrpcStreamProofs!TypeCorrect` | `Spec => []TypeOK` |
| `GrpcStreamProofs!AssertionsHold` | `Spec => []NoAssertionFails` |
| `GrpcStreamProofs!OneOperation` | `Spec => []OneOperationAtATime` |
| `GrpcStreamProofs!CallbacksAreSafe` | `Spec => []CallbacksFindTheirStream` |
| `GrpcStreamProofs!CallIsSafe` | `Spec => []CallOutlivesOperations` |
| `GrpcStreamProofs!StreamListens` | `Spec => []AlwaysListening` |
| `GrpcStreamProofs!WorkerWaitsForEndedCall` | `Spec => []BlockedOnlyOnEndedCall` |
| `GrpcStreamProofs!ImplementsObserved` | `Spec => ImplementsObservedStream` |

**WritePipeline.** `BatchIdsIncrease` is not inductive: appending `nextBatchId` keeps
the order only if that id is above the ids in the queue. The inductive invariant is
`IInv == TypeOK /\ IdsInv`. `IdsInv` adds that every id in the *current* user's
queue is below `nextBatchId`, and that `nextBatchId` and the ids of *every* queue
are bounded by the number of writes made so far, which makes the set of stored
ids finite: only then does `LoadNextBatchId`, one above their maximum, mean
anything. A queue of another user may well hold ids above `nextBatchId` of the
moment; since `LoadNextBatchId` looks at the queues of all users, the fact is
restored for whichever user comes next. Lemmas state what
`RemoveBatch`, `NextBatches`, `FillWritePipeline`, `StartWriteStreamIfNeeded`,
`CloseWithError` and `TellUser` return; each action then has its own lemma.

The other properties of the write path depend on each other, and one inductive
invariant, `SafetyInv`, carries them all. It adds these parts to `IInv`.

- `PathInv`: the stream, its call, the token callbacks and the pipeline fit
  (`Fits`): a call exists exactly while the stream is open; after the handshake the
  responses that are still to come are those of the first batches of the pipeline, and
  while the call runs, responses and requests together *are* the pipeline; the
  pipeline is the beginning of the current user's queue, is filled when that queue is
  not empty, and then has a stream that is started. At most one token callback has the
  stream's close count, which is why a late one does nothing. `Fits` takes the
  pipeline, the stream and the call as parameters, because a handler passes through
  states in between (stopped, not yet filled, not yet started) and every helper is
  proved to keep it.
- `UserInv`: the credential changes that are still in the worker queue lead from
  SyncEngine's user to Auth's, and a token in the worker queue is that of the user who
  will be current *when its turn comes* (`TasksFit`). It is why a token never meets a
  stream of another user.
- `OwnerInv`: the writes of a queue are its user's, in the order in which they were
  made, and what was committed was committed as its owner.
- `SettledInv`: whatever was told to a callback is older than everything still
  queued, and a waiter's writes are settled or queued with an id that it waits for.
- `AssertInv`: assertions fail only in environments that end a call with OK. This is
  the hypothesis of `AssertionsHold`, and it is needed: with
  `"ok" \in FaultKinds` the assertion at `remote_store.cc:437` really can fail when the
  backend half-closes a stream that is wanted (see the hazards). The other nine
  theorems of this component hold with every kind of fault.

*Refinement.* `ImplementsQueue` maps the state by dropping the batch ids of the queues
(`Pending`), the users of the callbacks (`Live`) and of the commits (`Done`).
`NextImplements` has a case for each way in which a step touches the queues:
`WriteMutations` is `Submit`; an acknowledgement (`MutationResult`) and a rejection by
any path (`Rejects`) are `Settle`, whose `Head` is the batch that was written because
responses come in the pipeline's order; the two deaths in the middle of those are the
last two disjuncts of `Die`. Every other step leaves the queues alone (`Keeps`): it is
`SwitchUser`, perhaps to the same user, or a plain `Die`. In each of them the backend may
commit on the side, and `StepCommits` shows that it only commits what is pending
for the current user. That a rejection tells the write it removes, and that nothing is
told twice, comes from `SettledInv` and `CallbacksHaveBatches`.

**HarusariApp.** `ProfileInOwnersQueue` says a profile is queued under its own
user. `setData` runs in `signUpDone` and is queued for `fsUser`, so what is
needed is that at that moment `fsUser` is the new account. The inductive invariant
is `AppIInv == AppTypeOK /\ OwnersQueue /\ NotificationFirst`:
`NotificationFirst` says that a successful `signUpDone` in the main queue is directly
preceded by the `authChanged` of its account, or is at the head of the queue and
`fsUser` already is its account. It is exactly what `updateCurrentUser` and the
completion dispatch one after the other, and overlapping requests
cannot come between the two.
Each of the other three properties is proved with one more conjunct of its own.
`AuthTold`: the last `authChanged` in the main queue carries `authUser`, or there is
none and `fsUser` has it. `NewsIsTrue`: not only the alert, but every `saved` task
still in the main queue that says yes is about a profile the backend has; it
lasts because documents and commits are only ever added (`ProfilesStay`).
`SignUpsGoOn`: an account is at one of three stages, created at the backend
(`Created`), its answer in the main queue (`Completes`), its profile written
(`Written`), or it was cut off; there is one lemma for how each stage is left.

**RemoteWatch.** None of the five safety properties is inductive alone: that the timer
is not set twice needs that a stopped stream leaves no timer behind, that a message
finds an aggregator needs that a call exists only while the stream is open, and
that a stale token callback is harmless needs the close count. The inductive
invariant `IInv == TypeOK /\ WatchInv` ties them together: a timer means Unknown
and a started stream; Online means an open stream, no failures and no timer; idle
means open and without targets; a started stream has an aggregator and an enabled
network; a listener with the network enabled has a started stream; a call exists
only while the stream is open; a token request with the stream's close count
finds it Starting. `StartHolds` and `CloseHolds` prove it once for starting and
closing the stream, from whatever the tracker looks like; each action then only has
to reach one of them. The action property follows from the same invariant.

`BackendAgrees` and `OutstandingIsExact` are about messages on their way in both
directions. `TargetsInv` says of a running call that the count of a target is the
number of its requests and answers in flight, and that the last request for it, or
what the backend watches if there is none, is what the client wants; that a
stream which is not open yet has all counts at zero, because each start makes a new
aggregator; and that a response is an answer just when it is an ADDED or a REMOVED.
The lemmas count the places of a sequence that hold a request for a target
(`PlacesConcat`, `CountSteps`, `WatchedConcat`), also for the requests of
`OnWatchStreamOpen` and for the unwatch-and-watch pairs of a restart, whichever order
the hash map gives them (`OrderPlaces`, `WatchAllPlaces`, `RestartPlaces`). A target
state is thrown away only when nothing is outstanding for it (`MessageCounts`),
so no answer is lost with it. Both theorems assume that the backend
rejects no target, as the properties say: a rejected target is dropped with whatever
it was still waiting for, and the counts of its next listen are then off.

**Transactions.** `ResultIsTrue` speaks of the moment the result is told; the
inductive invariant also speaks of the way there: until a transaction is done
nothing has been told, and nothing has been applied unless an answer of the
backend was lost; when it is done one result has been told, and it is the one the
last answer allows. What a single step does to one transaction leaves the others
alone, so each action needs the fact only for its own.

`CommitsOnCurrentReads` needs what an attempt has collected before it commits. The
inductive invariant is `GuardsInv`. Its part `ReadsInv` says that every document read
is guarded: the *first* mutation of such a document in `mutations_` accepts the
version that was read and no other (later ones see what the first has left, so
their preconditions say nothing); after a write error there is nothing that could be
committed (`ReadsOK`). `ContinueCommit` adds a verification of every document
that was read and not written, so at the commit every document read has such a first
mutation (`CommitOK`). The backend applies all mutations or none, and what it
compares the first one with is the version before the commit, because no
earlier mutation has touched that document. That a list which mentions a document
has a first mention is an argument by the least number (`LeastNumber`). The types
need a bound for the backend's clock: `AppliedCount` and `ClockInv` count one commit
of a transaction for every retry that was used up, one for the last attempt, and
those of other clients.

**LimboResolution.** The four containers are changed by loops inside loops, so the work
is in what each loop leaves behind. `Fine(l, excepted)` is what every handler of
SyncEngine finds and leaves: the maps agree (`Resolving`: a document being resolved
has a target that is no other document's, RemoteStore listens to exactly the targets);
there are at most `limit` documents in `byKey`, which is no bound on the targets; a
document waits only when `byKey` is full (`SlotsUsed`); no assertion has failed; every
document with a reference is
being resolved or waits, except those whose resolution was rejected (`Tracked`).
`SlotsUsed` is false in the middle of a handler, when a resolution has just ended, and
`PumpProperties` says that the pump restores it from any state that is otherwise
right (`Ready`). On top of it there is one lemma for each operation
(`TrackProperties`, `RemoveTargetProperties`, `RemoveReferenceProperties`,
`AddReferenceProperties`), one for each loop (`RemoveReferencesProperties`,
`AddReferencesProperties`, `TrackViewsProperties`, `CleanupProperties`) and one for
the handler they make up (`EmitProperties`). In the loops the references are between
two states: `RefsMixed` says that those of the views already visited are new and
the others old.

`SlotsFill` carries `SlotsUsed`, which counts what the pump itself counts, over to
what RemoteStore does: by `Resolving` every document of `byKey` is listened to, so a
full `byKey` means at least `limit` different documents on the wire. Nothing more can
be proved of the number of listens, because it has no bound (see *Findings*).

The inductive invariant is `LInv`: types, `Fine(limbo, denied)`, the references are
those of the views (`RefsAre`), and `ViewsInv`: a view that is current has in limbo
just what the cache has and the backend has not confirmed, and a target that is up to
date belongs to a view that is listened to and current. `SettledViews` follows from
it: with a slot for every document only documents that are being resolved can be in
limbo (`Tracked`, `SlotsUsed`, `Resolving`), and a target that is up to date has
brought the cache what the backend has of its document, which then is in no view's
limbo.

The loops are `FoldLeft`s of the community modules, which choose a recursive
function. Their *values* for every input are out of reach, but an invariant of a
loop is not. `FoldExists` shows that such a function exists for sequences of any
length (if it did not, there would be a longest beginning for which one exists, by
`CountUp` and `LeastNumber`), and the lemmas `PumpRun`, `RemoveRun`, `AddRun`,
`TrackRun` and `CleanupRun` state of each loop that there is a sequence of states from
its argument to its result, each one step of the body away from the one before. A
loop invariant is then carried along that sequence by `CountUp`: if it held at
the beginning and failed later, there would be a least place where it fails.
No theorem with an operator as its parameter is needed; the price is that the
five lemmas repeat the same short argument, one for each body.

**ClientLifecycle.** `WorkUsesOpenEngine` is about one moment, but why it holds is
spread over the queue. The inductive invariant `IInv` says where operations can be:
before `Initialize` has run, it is in the queue with nothing but the operations of
ClearPersistence ahead of it (`NotOpened`), and it does not come again
(`Opened`); behind a termination there is nothing that needs the stores
(`EndsLast`), because the mode was changed before the termination was queued and
every operation checks the mode at the moment it is queued; so that after
TerminateInternal only timers are left (`Ended`). That the collector's timer is
gone then needs that there is one (`OneCollection`). `ThreadsInv` ties the place of
every call to the mode and to the state of the instance: at most one thread
releases it, and only when no call of the object is under way.

`QueueIsSerial` uses the same invariant and shows that every step maps to one step
of `SerialQueue` or to none. It needs that no two operations share an id
(`UniqueIds`: then what Cancel removes is one operation), and that while
Dispose works through its list every operation that is left is on it (`AllDoomed`):
nothing is left when the list is empty, although the worker thread
goes on in between.

**GrpcStream.** None of the properties is inductive alone, and they need each other: an
assertion holds because the callback finds its completion pending, it is pending because
nothing removes it without cancelling it, and cancelling it is enough because the worker
queue blocks until it is off the queue. The inductive invariant `IInv` has these parts.

- `Outstanding`: `completions_` has every completion that gRPC has or that can still
  call back, and none that has run.
- `Open`: with completions pending the stream is observed; `is_grpc_call_finished_`
  means that the call has ended; `FailuresAreFinal`: so does a result that is not ok,
  which is why `OnOperationFailed` may wait without cancelling the call.
- `OneOfAKind`: at most one read and one write are pending, a pending write is the
  active one, and Finish is issued once. (Two completions of a kind may be on their
  way once the first has been cancelled, which is why this speaks of pending ones.)
- `InOrder`, `ReadsInOrder`: the buffer continues what the call was given; a read that
  has come back has the message after those that were told.
- `QueueOK`: a completion is in one place, and on the worker queue once; `WorkerOK`:
  while the worker queue blocks, which of the pending completions have lost their
  callbacks, and that no second Finish will be issued; `Listening`.

Handlers change the stream piece by piece, so the parts take it as a parameter, and there
is one lemma for each piece: a callback removes its completion (`CallbackKeeps`), an
operation is issued (`IssueKeeps`, `ReadKeeps`, `MaybeWriteKeeps`), a message is put
on the buffer (`AcceptKeeps`), the stream shuts down (`ShutdownKeeps`), gRPC returns an
operation (`ReturnsKeeps`). Each action combines them. For `ImplementsObserved`,
`ObservedStep` maps `OnRead` to `Tell` by `ReadsInOrder`, `MaybeWrite` to `Send` by
`InOrder`, and the end of `Shutdown` to `Close`, with one notice at most because the
observer is unset before it is told.

*Only model-checked.* Liveness: `PendingWritesSettle`, `ListensAreAnswered`,
`EveryTransactionEnds`, `CallsComeToAnEnd`, `WorkerComesBack`, `FailureIsTold` and
`MessagesPass`, which need fairness and ENABLED. Every invariant and every action
property that a passing run checks is also proved, as are all three refinements. The inductive invariants were checked by TLC as invariants before
they were proved.

## Plan

Done: the write path with the application on its abstraction, the watch half and
the online state, the life cycle of an instance on its worker queue, transactions,
limbo resolution, gRPC streams. Left, in this order:

1. *Proofs.* What a single step may not do, stated as action properties and proved from
   the invariants there are: a batch leaves the queue only at its front, a target's
   state is only thrown away when nothing is outstanding, a view leaves limbo
   documents only through its target. `BackendWatchesTargets` for rejections, if
   the answers of the backend to them can be justified.
2. *Streams on GrpcStream.* That the `rpc` of `WritePipeline` and `RemoteWatch` follows
   from `ObservedStream`; unary calls and `GrpcStreamingReader`; completions that meet a
   worker queue that is disposed of.
3. *Documents of targets.* What HandleDocumentChange, ResetTarget and
   CreateRemoteEvent make of a sequence of changes, as an algorithm against a
   reference definition, on top of `RemoteWatch`; local writes, limits and refills in
   the views of `LimboResolution`.
4. *Auth session.* Token refresh with its retry timer across sign-outs, the
   keychain failing at launch, and the `AuthStateChanged` of `WritePipeline` as its
   abstraction.
5. *Algorithms.* `ExponentialBackoff` (delay bounds and growth) and the LRU collector's
   sequence-number cut-off, against reference definitions over bounded inputs.

Out of the prover's reach and left to TLC: liveness under fairness, ENABLED, and
what a recursive definition computes for every input (loop invariants of folds are
proved, see *LimboResolution* above). The modules that are proved
about use no RECURSIVE operators.
