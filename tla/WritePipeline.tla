---------------------------- MODULE WritePipeline ----------------------------
(***************************************************************************)
(* The write path of the Firestore client the app saves profiles with:     *)
(* SyncEngine, LocalStore over the LevelDB mutation queue, RemoteStore's    *)
(* write half, and Stream/WriteStream, on one serial worker queue.          *)
(*                                                                         *)
(* Every handler runs to completion on the worker queue, so it is one       *)
(* action.  What interleaves is the ORDER of handlers: API calls, the       *)
(* credential listener, token callbacks, gRPC completions and timers.       *)
(* Credential changes and token callbacks are kept in the queue's FIFO      *)
(* order (`worker`), because their relative order is what ties a stream to  *)
(* its user; every other handler may be the next one at any time.           *)
(*                                                                         *)
(* External parts, modelled from how the code uses them: the Firestore      *)
(* backend and gRPC (`rpc`), Firebase Auth (`authUser`, token requests).    *)
(* A batch is a record [id, write]: `id` is the BatchId of the code, and    *)
(* `write` is a number unique to the API call, so that the properties can   *)
(* tell apart two batches that got the same id.                             *)
(***************************************************************************)
EXTENDS Streams, Sequences, FiniteSets, SequencesExt

CONSTANTS
    Users,        \* users, the unauthenticated one included (User::uid() = "")
    NoUser,       \* User::Unauthenticated()
    NoToken,      \* the empty stream token
    MaxPending,   \* kMaxPendingWrites
    MaxWrites,    \* bound: API calls that write
    MaxWaits,     \* bound: calls of waitForPendingWrites that have to wait
    MaxAuth,      \* bound: auth notifications
    MaxToggles,   \* bound: calls of enableNetwork and disableNetwork
    MaxRestarts,  \* bound: process deaths
    MaxFaults,    \* bound: faults of the network, the backend and Auth
    FaultKinds    \* which faults the environment produces

Faults == {"lost", "aborted", "permanent", "ok", "token", "corrupt"}

ASSUME UsersAssumption == NoUser \in Users /\ NoToken \notin Users
ASSUME PendingAssumption == MaxPending \in Nat \ {0}
ASSUME BoundsAssumption ==
    /\ {MaxWrites, MaxWaits, MaxAuth, MaxToggles, MaxRestarts, MaxFaults}
         \subseteq Nat
    /\ FaultKinds \subseteq Faults

VARIABLES
    \* LevelDB, survives a restart
    queue,        \* [Users -> Seq(Batch)], a user's mutation queue in id order
    lastToken,    \* [Users -> Tokens], last_stream_token of the queue metadata
    \* SyncEngine and LocalStore
    currentUser,  \* current_user_
    nextBatchId,  \* next_batch_id_ of the current mutation queue
    callbacks,    \* mutation_callbacks_: [Users -> SUBSET Batch]
    waiters,      \* pending_writes_callbacks_: set of [id, writes]
    \* RemoteStore
    networkEnabled,  \* is_network_enabled_
    pipeline,        \* write_pipeline_
    \* WriteStream
    stream,       \* [state, handshake, idle, backoff, closeCount, token]
    rpc,          \* the gRPC call of the open stream and its two directions
    \* worker queue and Firebase Auth
    worker,       \* credential changes and token callbacks, in FIFO order
    authUser,     \* current_user of the credentials provider
    tokenCounter, \* token_counter of the credentials provider
    tokenRequests,   \* calls of GetToken that Auth has not answered
    \* backend
    committed,    \* set of [user, write]: commits, and as whom
    \* history, for the properties and the bounds
    owner,        \* Seq(Users): who was current when each write was issued
    fate,         \* [1..MaxWrites -> Fates]: what the write's callback was told
    rejected,     \* writes whose batch RejectBatch removed
    released,     \* sets of writes that a waiter told OK was waiting for
    asserted,     \* FALSE once a HARD_ASSERT has failed
    used          \* [waits, toggles, restarts, faults]: the bounds used up

client == <<queue, lastToken, currentUser, nextBatchId, callbacks, waiters>>
remote == <<networkEnabled, pipeline, stream, rpc>>
auth == <<worker, authUser, tokenCounter, tokenRequests>>
ghosts == <<owner, fate, rejected, released, asserted, used>>
vars == <<client, remote, auth, committed, ghosts>>

-----------------------------------------------------------------------------
Writes == 1..MaxWrites
Batch == [id : Nat \ {0}, write : Writes]
Tokens == Users \cup {NoToken}
Fates == {"none", "acked", "rejected"}

\* The first message on a stream, and its reply; every later one is a batch.
Handshake == [id |-> 0, write |-> 0]
Message == Batch \cup {Handshake}

\* No gRPC call (grpc_stream_ is null).
NoCall == [user |-> NoUser, requests |-> <<>>, responses |-> <<>>,
           status |-> "none", refused |-> 0]
NewCall(u) == [NoCall EXCEPT !.user = u, !.status = "running",
                             !.requests = <<Handshake>>]

\* Datastore::IsPermanentError and IsPermanentWriteError, by class of status:
\* "lost" stands for the codes that are retried, "aborted" for ABORTED.
IsPermanentError(status) == status \in {"aborted", "permanent"}
IsPermanentWriteError(status) == status = "permanent"

MaxId(S) == CHOOSE n \in S \cup {0} : \A m \in S : m <= n

\* Variant: the counter starts over.
LoadFirstBatchId(q) == 1

\* Variant: without the increment.
LoadHighestBatchId(q) ==
    MaxId(UNION {{q[u][i].id : i \in DOMAIN q[u]} : u \in Users})

\* LoadNextBatchIdFromDb: over the queues of ALL users.
LoadNextBatchId(q) ==
    1 + MaxId(UNION {{q[u][i].id : i \in DOMAIN q[u]} : u \in Users})

HasBatch(q, id) == \E i \in DOMAIN q : q[i].id = id
RemoveBatch(q, id) ==
    IF HasBatch(q, id) THEN RemoveAt(q, CHOOSE i \in DOMAIN q : q[i].id = id)
                       ELSE q

\* Variant: from the batch with the id `last` itself.
NextBatchesFrom(q, last, room) ==
    LET skip == Cardinality({i \in DOMAIN q : q[i].id < last})
    IN  SubSeq(q, skip + 1,
               IF Len(q) <= skip + room THEN Len(q) ELSE skip + room)

\* Variant: both the caller and the query add one to `last`.
NextBatchesAfterNext(q, last, room) ==
    LET skip == Cardinality({i \in DOMAIN q : q[i].id <= last + 1})
    IN  SubSeq(q, skip + 1,
               IF Len(q) <= skip + room THEN Len(q) ELSE skip + room)

\* What repeated NextMutationBatchAfterBatchId returns: at most `room` batches
\* of q, which is in id order, from the first one whose id is above `last`.
NextBatches(q, last, room) ==
    LET skip == Cardinality({i \in DOMAIN q : q[i].id <= last})
    IN  SubSeq(q, skip + 1,
               IF Len(q) <= skip + room THEN Len(q) ELSE skip + room)

LastId(p) == IF p = <<>> THEN 0 ELSE p[Len(p)].id

WritesIn(q) == {q[i].write : i \in DOMAIN q}

-----------------------------------------------------------------------------
(* WriteStream                                                             *)

\* Stop() of the write stream, whose NotifyStreamClose resets the handshake flag
\* last, so that after a failure the listener still sees it.
StoppedWrite(s) == [Stopped(s) EXCEPT !.handshake = FALSE]

\* The GetToken call a stream makes when it enters Starting.
TokenRequest(s, u, n) == [count |-> s.closeCount, user |-> u, counter |-> n]

\* When the client drops a call, the backend may have executed any prefix of
\* the requests that are on their way.
Executed(r, n) ==
    {[user |-> r.user, write |-> r.requests[i].write] : i \in 1..n}
      \ {[user |-> r.user, write |-> 0]}
InFlight(r) == IF r.status = "running" THEN 0..Len(r.requests) ELSE {0}

-----------------------------------------------------------------------------
(* RemoteStore                                                             *)

\* What a handler starts from: is_network_enabled_, the credentials provider
\* that GetToken asks, and the requests Auth still owes an answer.
Env == [net |-> networkEnabled, user |-> authUser, counter |-> tokenCounter,
        requests |-> tokenRequests]

\* Variant: a stream that failed is not started again.
StartInitialWriteStream(p, s, e) ==
    LET starts == e.net /\ s.state = "Initial" /\ p # <<>>
    IN  /\ stream' = IF starts THEN StartStream(s) ELSE s
        /\ tokenRequests' =
             IF starts THEN e.requests \cup {TokenRequest(s, e.user, e.counter)}
                       ELSE e.requests

\* ShouldStartWriteStream and StartWriteStream, for the given pipeline.
StartWriteStreamIfNeeded(p, s, e) ==
    LET starts == e.net /\ ~Started(s) /\ p # <<>>
    IN  /\ stream' = IF starts THEN StartStream(s) ELSE s
        /\ tokenRequests' =
             IF starts /\ s.state = "Initial"
             THEN e.requests \cup {TokenRequest(s, e.user, e.counter)}
             ELSE e.requests

\* Variant: as soon as the stream is open.
MaySendWhenOpen(s) == s.state = "Open"

\* AddToWritePipeline only sends what it adds after the handshake.
MaySend(s) == s.state = "Open" /\ s.handshake

\* FillWritePipeline, the last thing almost every handler does: p, q, s, r are
\* the pipeline, the current user's queue, the stream and its call as the
\* handler has left them.  MarkIdle only if the loop ran out of batches.
FillWritePipeline(p, q, s, r, e) ==
    LET room == IF e.net /\ Len(p) < MaxPending THEN MaxPending - Len(p) ELSE 0
        added == NextBatches(q, LastId(p), room)
        sent == MaySend(s) /\ added # <<>>
        idles == room > 0 /\ p \o added = <<>> /\ s.state = "Open"
    IN  /\ pipeline' = p \o added
        /\ rpc' = IF sent THEN [r EXCEPT !.requests = @ \o added] ELSE r
        /\ StartWriteStreamIfNeeded(
             p \o added, [s EXCEPT !.idle = (@ /\ ~sent) \/ idles], e)

\* The client lets go of its call.
DropCall == \E n \in InFlight(rpc) : committed' = committed \cup Executed(rpc, n)

\* Variant: the network is only restarted if there is something in the pipeline.
RestartNetworkIfSending(u) ==
    IF networkEnabled /\ pipeline # <<>>
    THEN /\ DropCall
         /\ FillWritePipeline(
              <<>>, queue[u],
              [StoppedWrite(stream) EXCEPT !.token = lastToken[u]], NoCall, Env)
    ELSE UNCHANGED <<committed, pipeline, stream, rpc, tokenRequests>>

\* RemoteStore::HandleCredentialChange: disables and enables the network, now
\* with the queue of user u.
RestartNetwork(u) ==
    IF networkEnabled
    THEN /\ DropCall
         /\ FillWritePipeline(
              <<>>, queue[u],
              [StoppedWrite(stream) EXCEPT !.token = lastToken[u]], NoCall, Env)
    ELSE UNCHANGED <<committed, pipeline, stream, rpc, tokenRequests>>

\* HARD_ASSERT: the process would abort; here the invariant NoAssertionFails
\* does.
Holds(condition) == asserted' = (asserted /\ condition)

\* OnWriteStreamClose(OK): asserts that the stream was not needed any more.
MayStopGracefully == ~(networkEnabled /\ pipeline # <<>>)

-----------------------------------------------------------------------------
(* LocalStore                                                              *)

\* WriteLocally: the batch goes to the end of the current user's queue.
WriteLocally(b) ==
    /\ queue' = [queue EXCEPT ![currentUser] = Append(@, b)]
    /\ nextBatchId' = nextBatchId + 1

\* The queues once the current user's batch of that id is gone.
Without(id) == [queue EXCEPT ![currentUser] = RemoveBatch(@, id)]

\* AcknowledgeBatch: the batch goes, the token of the response stays.
AcknowledgeBatch(id, token) ==
    /\ queue' = Without(id)
    /\ lastToken' = [lastToken EXCEPT ![currentUser] = token]

RejectBatch(id) ==
    /\ queue' = Without(id)
    /\ UNCHANGED lastToken

\* HandleUserChange: starts the queue of another user.
HandleUserChange == nextBatchId' = LoadNextBatchId(queue)

-----------------------------------------------------------------------------
(* SyncEngine                                                              *)

\* Variant: every waiter is woken.
WokenAll(id) == waiters

\* NotifyUser: runs the current user's callback of that id, if this process
\* has one, and then TriggerPendingWriteCallbacks its waiters.
Told(id) == {c \in callbacks[currentUser] : c.id = id}
Woken(id) == {x \in waiters : x.id = id}

TellUser(id, result) ==
    /\ fate' = [w \in Writes |-> IF \E c \in Told(id) : c.write = w
                                 THEN result ELSE fate[w]]
    /\ released' = released \cup {x.writes : x \in Woken(id)}

NotifyUser(id, result) ==
    /\ TellUser(id, result)
    /\ callbacks' = [callbacks EXCEPT ![currentUser] = @ \ Told(id)]
    /\ waiters' = waiters \ Woken(id)

\* WriteMutations: persist the batch, remember the callback (insert never
\* replaces one), fill the pipeline.
WriteMutations ==
    /\ Len(owner) < MaxWrites
    /\ LET b == [id |-> nextBatchId, write |-> Len(owner) + 1]
       IN  /\ WriteLocally(b)
           /\ callbacks' = [callbacks EXCEPT ![currentUser] =
                              IF \E c \in @ : c.id = b.id THEN @ ELSE @ \cup {b}]
           /\ FillWritePipeline(pipeline, Append(queue[currentUser], b), stream,
                                rpc, Env)
    /\ owner' = Append(owner, currentUser)
    /\ UNCHANGED <<lastToken, currentUser, waiters, networkEnabled, worker,
                   authUser, tokenCounter, committed, fate, rejected, released,
                   asserted, used>>

\* RegisterPendingWritesCallback; with an empty queue it answers at once.
RegisterPendingWritesCallback ==
    /\ used.waits < MaxWaits
    /\ queue[currentUser] # <<>>
    /\ waiters' = waiters \cup {[id |-> LastId(queue[currentUser]),
                                 writes |-> WritesIn(queue[currentUser])]}
    /\ used' = [used EXCEPT !.waits = @ + 1]
    /\ UNCHANGED <<queue, lastToken, currentUser, nextBatchId, callbacks, remote,
                   auth, committed, owner, fate, rejected, released, asserted>>

FailOutstandingPendingWriteCallbacks == waiters' = {}

\* The user may be the same with a new token; RemoteStore starts over anyway.
HandleCredentialChange ==
    /\ worker # <<>> /\ Head(worker).type = "cred"
    /\ worker' = Tail(worker)
    /\ LET u == Head(worker).user
       IN  /\ currentUser' = u
           /\ \/ /\ u # currentUser
                 /\ FailOutstandingPendingWriteCallbacks
                 /\ HandleUserChange
              \/ /\ u = currentUser
                 /\ UNCHANGED <<waiters, nextBatchId>>
           /\ RestartNetwork(u)
    /\ UNCHANGED <<queue, lastToken, callbacks, networkEnabled, authUser,
                   tokenCounter, ghosts>>

-----------------------------------------------------------------------------
(* RemoteStore: network switch and the events of the write stream          *)

EnableNetwork ==
    /\ used.toggles < MaxToggles
    /\ used' = [used EXCEPT !.toggles = @ + 1]
    /\ networkEnabled' = TRUE
    /\ FillWritePipeline(pipeline, queue[currentUser],
                         [stream EXCEPT !.token = lastToken[currentUser]], rpc,
                         [Env EXCEPT !.net = TRUE])
    /\ UNCHANGED <<client, worker, authUser, tokenCounter, committed, owner,
                   fate, rejected, released, asserted>>

DisableNetwork ==
    /\ used.toggles < MaxToggles
    /\ used' = [used EXCEPT !.toggles = @ + 1]
    /\ networkEnabled' = FALSE
    /\ pipeline' = <<>>
    /\ stream' = StoppedWrite(stream)
    /\ rpc' = NoCall
    /\ DropCall
    /\ UNCHANGED <<client, auth, owner, fate, rejected, released, asserted>>

\* ResumeStartWithCredentials with a token: the call starts, which opens the
\* stream, which writes the handshake.  A callback of an earlier start is stale.
StreamOpen ==
    /\ worker # <<>> /\ Head(worker).type = "token" /\ Head(worker).ok
    /\ worker' = Tail(worker)
    /\ IF Head(worker).count # stream.closeCount
       THEN UNCHANGED <<stream, rpc, asserted>>
       ELSE /\ Holds(stream.state = "Starting" /\ ~stream.handshake)
            /\ stream' = [Opened(stream) EXCEPT !.idle = FALSE]
            /\ rpc' = NewCall(Head(worker).user)
    /\ UNCHANGED <<client, networkEnabled, pipeline, authUser, tokenCounter,
                   tokenRequests, committed, owner, fate, rejected, released,
                   used>>

\* NotifyStreamResponse: captures the token; the first response is the handshake.
Received(s) == [s EXCEPT !.token = rpc.user, !.handshake = TRUE]

\* OnWriteStreamHandshakeComplete: record the token, send the whole pipeline.
HandshakeComplete ==
    /\ rpc.responses # <<>> /\ ~stream.handshake
    /\ Holds(Started(stream))
    /\ stream' = [Received(stream) EXCEPT !.idle = @ /\ pipeline = <<>>]
    /\ lastToken' = [lastToken EXCEPT ![currentUser] = rpc.user]
    /\ rpc' = [rpc EXCEPT !.responses = Tail(@), !.requests = @ \o pipeline]
    /\ UNCHANGED <<queue, currentUser, nextBatchId, callbacks, waiters,
                   networkEnabled, pipeline, auth, committed, owner, fate,
                   rejected, released, used>>

\* OnWriteStreamMutationResult: the response is taken to be for the front of
\* the pipeline; HandleSuccessfulWrite; AcknowledgeBatch; refill.
MutationResult ==
    /\ rpc.responses # <<>> /\ stream.handshake
    /\ pipeline # <<>>
    /\ Holds(/\ Started(stream)
             /\ HasBatch(queue[currentUser], Head(pipeline).id))
    /\ LET id == Head(pipeline).id
       IN  /\ NotifyUser(id, "acked")
           /\ AcknowledgeBatch(id, rpc.user)
           /\ FillWritePipeline(Tail(pipeline), Without(id)[currentUser],
                                Received(stream),
                                [rpc EXCEPT !.responses = Tail(@)], Env)
    /\ UNCHANGED <<currentUser, nextBatchId, networkEnabled, worker, authUser,
                   tokenCounter, committed, owner, rejected, used>>

\* HandleWriteError with a permanent error: reject the front of the pipeline,
\* inhibit backoff, refill.
HandleWriteError(s) ==
    LET b == Head(pipeline)
    IN  /\ Holds(Started(stream) /\ HasBatch(queue[currentUser], b.id))
        /\ RejectBatch(b.id)
        /\ rejected' = rejected \cup {b.write}
        /\ NotifyUser(b.id, "rejected")
        /\ FillWritePipeline(Tail(pipeline), Without(b.id)[currentUser],
                             [s EXCEPT !.state = "Initial", !.handshake = FALSE],
                             NoCall, Env)

\* HandleHandshakeError with a permanent error: drop the stream token.
HandleHandshakeError(s) ==
    /\ lastToken' = [lastToken EXCEPT ![currentUser] = NoToken]
    /\ StartWriteStreamIfNeeded(
         pipeline, [s EXCEPT !.handshake = FALSE, !.token = NoToken], Env)

\* Close(error) and OnWriteStreamClose: with writes in the pipeline, a permanent
\* error is that of the first write or of the handshake; anything else only
\* restarts the stream.
CloseWithError(status) ==
    LET s == Failed(stream)
        rejects == pipeline # <<>> /\ s.handshake /\ IsPermanentWriteError(status)
        forgets == pipeline # <<>> /\ ~s.handshake /\ IsPermanentError(status)
    IN  \/ rejects /\ HandleWriteError(s)
        \/ /\ ~rejects
           /\ Holds(Started(stream))
           /\ rpc' = NoCall
           /\ \/ forgets /\ HandleHandshakeError(s)
              \/ /\ ~forgets
                 /\ StartWriteStreamIfNeeded(
                      pipeline, [s EXCEPT !.handshake = FALSE], Env)
                 /\ UNCHANGED lastToken
           /\ UNCHANGED <<queue, callbacks, waiters, pipeline, fate, rejected,
                          released>>

\* ResumeStartWithCredentials without a token.
TokenFailed ==
    /\ worker # <<>> /\ Head(worker).type = "token" /\ ~Head(worker).ok
    /\ worker' = Tail(worker)
    /\ IF Head(worker).count # stream.closeCount
       THEN UNCHANGED <<client, remote, tokenRequests, fate, rejected, released,
                        asserted>>
       ELSE /\ CloseWithError("lost")
            /\ UNCHANGED <<currentUser, nextBatchId, networkEnabled>>
    /\ UNCHANGED <<authUser, tokenCounter, committed, owner, used>>

\* OnOperationFailed: the status arrives after the responses, or ahead of them
\* when a write on the finished call fails first, because the reads that are
\* still to be run are cancelled.
StatusArrives ==
    /\ rpc.status \notin {"none", "running"}
    /\ rpc.responses = <<>> \/ rpc.requests # <<>>

\* OnStreamFinish.
StreamFinish ==
    /\ StatusArrives
    /\ \/ /\ rpc.status = "ok"
          /\ Holds(Started(stream) /\ MayStopGracefully)
          /\ stream' = StoppedWrite(stream)
          /\ rpc' = NoCall
          /\ UNCHANGED <<client, pipeline, tokenRequests, fate, rejected,
                         released>>
       \/ /\ rpc.status # "ok"
          /\ CloseWithError(rpc.status)
          /\ UNCHANGED <<currentUser, nextBatchId>>
    /\ UNCHANGED <<networkEnabled, worker, authUser, tokenCounter, committed,
                   owner, used>>

\* The idle timer fires: Stop().
IdleTimeout ==
    /\ stream.idle
    /\ Holds(MayStopGracefully)
    /\ stream' = StoppedWrite(stream)
    /\ rpc' = NoCall
    /\ DropCall
    /\ UNCHANGED <<client, networkEnabled, pipeline, auth, owner, fate, rejected,
                   released, used>>

\* The backoff timer fires: the stream starts again.
BackoffElapsed ==
    /\ stream.backoff
    /\ Holds(stream.state = "Backoff")
    /\ stream' = Restarted(stream)
    /\ tokenRequests' =
         tokenRequests \cup {TokenRequest(stream, authUser, tokenCounter)}
    /\ UNCHANGED <<client, networkEnabled, pipeline, rpc, worker, authUser,
                   tokenCounter, committed, owner, fate, rejected, released,
                   used>>

-----------------------------------------------------------------------------
(* Firebase Auth and the credentials provider                              *)

\* The listener of FIRAuthStateDidChangeInternalNotification: a sign-in, a
\* sign-out or a refreshed token of the same user.
AuthStateChanged ==
    /\ used.auth < MaxAuth
    /\ used' = [used EXCEPT !.auth = @ + 1]
    /\ \E u \in Users :
         /\ authUser' = u
         /\ worker' = Append(worker, [type |-> "cred", user |-> u])
    /\ tokenCounter' = tokenCounter + 1
    /\ UNCHANGED <<client, remote, tokenRequests, committed, owner, fate,
                   rejected, released, asserted>>

\* The callback of getTokenForcingRefresh: asks again if the user may have
\* changed, else hands the token (or the error) to the worker queue.
GetTokenDone ==
    \E r \in tokenRequests :
      \/ /\ r.counter # tokenCounter
         /\ tokenRequests' = (tokenRequests \ {r}) \cup
              {[r EXCEPT !.user = authUser, !.counter = tokenCounter]}
         /\ UNCHANGED <<worker, used>>
      \/ /\ r.counter = tokenCounter
         /\ tokenRequests' = tokenRequests \ {r}
         /\ \E ok \in BOOLEAN :
              /\ worker' = Append(worker, [type |-> "token", user |-> r.user,
                                           count |-> r.count, ok |-> ok])
              /\ IF ok THEN UNCHANGED used
                       ELSE /\ "token" \in FaultKinds
                            /\ used.faults < MaxFaults
                            /\ used' = [used EXCEPT !.faults = @ + 1]

Authenticate ==
    /\ GetTokenDone
    /\ UNCHANGED <<client, remote, authUser, tokenCounter, committed, owner,
                   fate, rejected, released, asserted>>

-----------------------------------------------------------------------------
(* Backend and network                                                     *)

Fault(kind) ==
    /\ kind \in FaultKinds
    /\ used.faults < MaxFaults
    /\ used' = [used EXCEPT !.faults = @ + 1]

\* The backend executes the next request and answers it.
BackendReply ==
    /\ rpc.status = "running" /\ rpc.requests # <<>>
    /\ committed' = committed \cup Executed(rpc, 1)
    /\ rpc' = [rpc EXCEPT !.requests = Tail(@),
                          !.responses = Append(@, Head(rpc.requests))]
    /\ UNCHANGED <<client, networkEnabled, pipeline, stream, auth, ghosts>>

\* The backend refuses the next request, which ends the call.
BackendRefuse ==
    /\ rpc.status = "running" /\ rpc.requests # <<>>
    /\ \E kind \in {"aborted", "permanent"} :
         /\ Fault(kind)
         /\ rpc' = [rpc EXCEPT !.requests = Tail(@), !.status = kind,
                               !.refused = Head(rpc.requests).write]
    /\ UNCHANGED <<client, networkEnabled, pipeline, stream, auth, committed,
                   owner, fate, rejected, released, asserted>>

\* The backend ends the call with status OK.
BackendCloseOk ==
    /\ rpc.status = "running"
    /\ Fault("ok")
    /\ rpc' = [rpc EXCEPT !.status = "ok"]
    /\ UNCHANGED <<client, networkEnabled, pipeline, stream, auth, committed,
                   owner, fate, rejected, released, asserted>>

\* The connection breaks: some requests were executed, some responses arrive.
CallLost ==
    /\ rpc.status = "running"
    /\ Fault("lost")
    /\ \E n \in 0..Len(rpc.requests), k \in 0..Len(rpc.responses) :
         /\ committed' = committed \cup Executed(rpc, n)
         /\ rpc' = [rpc EXCEPT !.status = "lost",
                      !.responses = SubSeq(@, 1, k),
                      !.requests = SubSeq(@, n + 1, Len(@))]
    /\ UNCHANGED <<client, networkEnabled, pipeline, stream, auth, owner, fate,
                   rejected, released, asserted>>

\* A response that does not parse: NotifyStreamResponse fails with DATA_LOSS,
\* which OnStreamRead handles like a permanent error of the stream.
CorruptResponse ==
    /\ rpc.responses # <<>>
    /\ Fault("corrupt")
    /\ DropCall
    /\ CloseWithError("permanent")
    /\ UNCHANGED <<currentUser, nextBatchId, networkEnabled, worker, authUser,
                   tokenCounter, owner>>

-----------------------------------------------------------------------------
(* Process death and FirestoreClient::Initialize                           *)

InitialStream(token) ==
    [state |-> "Initial", handshake |-> FALSE, idle |-> FALSE,
     backoff |-> FALSE, closeCount |-> 0, token |-> token]

\* From the queues q that the old process left.  The new process may see no user
\* yet: Auth loads the keychain later.
Initialize(q) ==
    /\ used.restarts < MaxRestarts
    /\ used' = [used EXCEPT !.restarts = @ + 1]
    /\ \E u \in {authUser, NoUser} :
         /\ currentUser' = u
         /\ authUser' = u
         /\ FillWritePipeline(<<>>, q[u], InitialStream(lastToken[u]), NoCall,
                              [net |-> TRUE, user |-> u, counter |-> 0,
                               requests |-> {}])
    /\ queue' = q
    /\ nextBatchId' = LoadNextBatchId(q)
    /\ callbacks' = [v \in Users |-> {}]
    /\ waiters' = {}
    /\ networkEnabled' = TRUE
    /\ worker' = <<>>
    /\ tokenCounter' = 0
    /\ DropCall
    /\ UNCHANGED <<lastToken, owner, asserted>>

Restart ==
    /\ Initialize(queue)
    /\ UNCHANGED <<fate, rejected, released>>

\* The process dies inside HandleSuccessfulWrite: the app has been told, but the
\* acknowledged batch is still in the queue.
DieBeforeAcknowledgeBatch ==
    /\ rpc.responses # <<>> /\ stream.handshake /\ pipeline # <<>>
    /\ TellUser(Head(pipeline).id, "acked")
    /\ Initialize(queue)
    /\ UNCHANGED rejected

\* The process dies inside HandleRejectedWrite, which does it the other way
\* round: the rejected batch is gone, but the app has not been told.
DieBeforeNotifyUser ==
    /\ StatusArrives /\ IsPermanentWriteError(rpc.status)
    /\ stream.handshake /\ pipeline # <<>>
    /\ rejected' = rejected \cup {Head(pipeline).write}
    /\ Initialize(Without(Head(pipeline).id))
    /\ UNCHANGED <<fate, released>>

-----------------------------------------------------------------------------
Init ==
    /\ queue = [u \in Users |-> <<>>]
    /\ lastToken = [u \in Users |-> NoToken]
    /\ authUser \in Users
    /\ currentUser = authUser
    /\ nextBatchId = LoadNextBatchId(queue)
    /\ callbacks = [u \in Users |-> {}]
    /\ waiters = {}
    /\ networkEnabled = TRUE
    /\ pipeline = <<>>
    /\ stream = InitialStream(NoToken)
    /\ rpc = NoCall
    /\ worker = <<>>
    /\ tokenCounter = 0
    /\ tokenRequests = {}
    /\ committed = {}
    /\ owner = <<>>
    /\ fate = [w \in Writes |-> "none"]
    /\ rejected = {}
    /\ released = {}
    /\ asserted = TRUE
    /\ used = [waits |-> 0, auth |-> 0, toggles |-> 0, restarts |-> 0,
               faults |-> 0]

\* Calls of the application and of Firebase Auth.
Caller == WriteMutations \/ RegisterPendingWritesCallback \/ EnableNetwork
          \/ DisableNetwork \/ AuthStateChanged

\* Handlers on the worker queue.
Handler == HandleCredentialChange \/ StreamOpen \/ TokenFailed
           \/ HandshakeComplete \/ MutationResult
           \/ StreamFinish \/ IdleTimeout \/ BackoffElapsed

Environment == Authenticate \/ BackendReply \/ BackendRefuse \/ BackendCloseOk
               \/ CallLost \/ CorruptResponse

Death == Restart \/ DieBeforeAcknowledgeBatch \/ DieBeforeNotifyUser

Next == Caller \/ Handler \/ Environment \/ Death

Spec == Init /\ [][Next]_vars

\* The worker queue and its timers run, Auth and the backend answer.  Nothing is
\* assumed of the application, of faults or of restarts.
Fairness ==
    /\ WF_vars(HandleCredentialChange \/ StreamOpen \/ TokenFailed)
    /\ WF_vars(HandshakeComplete \/ MutationResult \/ StreamFinish)
    /\ WF_vars(BackoffElapsed)
    /\ WF_vars(Authenticate)
    /\ WF_vars(BackendReply)

FairSpec == Spec /\ Fairness
-----------------------------------------------------------------------------
(* Properties                                                              *)

Task == [type : {"cred"}, user : Users]
          \cup [type : {"token"}, user : Users, count : Nat, ok : BOOLEAN]
StreamType == [state : StreamStates, handshake : BOOLEAN, idle : BOOLEAN,
               backoff : BOOLEAN, closeCount : Nat, token : Tokens]
CallType == [user : Users, requests : Seq(Message), responses : Seq(Message),
             status : {"none", "running", "ok", "lost", "aborted", "permanent"},
             refused : Writes \cup {0}]
TokenRequestType == [count : Nat, user : Users, counter : Nat]

\* Every variable keeps its type, whatever the order of handlers.
TypeOK ==
    /\ queue \in [Users -> Seq(Batch)]
    /\ lastToken \in [Users -> Tokens]
    /\ currentUser \in Users
    /\ nextBatchId \in Nat \ {0}
    /\ callbacks \in [Users -> SUBSET Batch]
    /\ waiters \in SUBSET [id : Nat \ {0}, writes : SUBSET Writes]
    /\ networkEnabled \in BOOLEAN
    /\ pipeline \in Seq(Batch)
    /\ stream \in StreamType
    /\ rpc \in CallType
    /\ worker \in Seq(Task)
    /\ authUser \in Users
    /\ tokenCounter \in Nat
    /\ tokenRequests \in SUBSET TokenRequestType
    /\ committed \in SUBSET [user : Users, write : Writes]
    /\ owner \in Seq(Users)
    /\ fate \in [Writes -> Fates]
    /\ rejected \in SUBSET Writes
    /\ released \in SUBSET (SUBSET Writes)
    /\ asserted \in BOOLEAN
    /\ used \in [waits : Nat, auth : Nat, toggles : Nat, restarts : Nat,
                 faults : Nat]

\* No HARD_ASSERT of the write path fails: no result without a pending write, no
\* graceful stop of a stream that is still needed, no start of a started stream,
\* no removal of a batch that is not in the queue.
NoAssertionFails ==
    /\ asserted
    /\ rpc.responses # <<>> /\ stream.handshake => pipeline # <<>>

\* The pipeline holds the oldest batches of the CURRENT user's queue, in order
\* and without a gap, across acknowledgements, rejections, user changes, network
\* switches and restarts (FillWritePipeline resumes from the last batch id).
PipelineIsQueuePrefix == IsPrefix(pipeline, queue[currentUser])

\* As long as the network is enabled, a non-empty queue of the current user is
\* being sent: some of it is in the pipeline, and the write stream is started or
\* will be by its backoff timer.  FillWritePipeline is only called on events, so
\* one forgotten call would strand the write until the next one.  (A failed
\* assertion aborts the process; what the model does after one does not count.)
NoWriteIsStranded ==
    asserted /\ networkEnabled /\ queue[currentUser] # <<>>
        => /\ pipeline # <<>>
           /\ Started(stream)
           /\ stream.state = "Backoff" => stream.backoff
           /\ stream.state = "Open" => ~stream.idle

\* OnWriteStreamMutationResult gives every response to the front of the pipeline:
\* the responses on their way are those of the pipeline's first batches, in order,
\* however the call ended and whatever was refilled in between.
ResponsesMatchPipeline ==
    stream.handshake => IsPrefix(rpc.responses, pipeline)

\* The backend never executes a write under another user's credentials: neither a
\* late token callback nor a pipeline kept across a user change mixes them up.
CommittedOnlyAsOwner == \A c \in committed : c.user = owner[c.write]

\* A user's queue only ever holds stream tokens of streams opened as that user.
TokensBelongToUser == \A u \in Users : lastToken[u] \in {u, NoToken}

\* Batch ids of a queue strictly increase, so Put never overwrites a batch, even
\* though the ids of drained queues are used again after a user change or restart.
BatchIdsIncrease ==
    \A u \in Users : \A i, j \in DOMAIN queue[u] :
        i < j => queue[u][i].id < queue[u][j].id

\* Every callback in mutation_callbacks_ still has its batch in that user's queue:
\* none is leaked, and none can be run for a later batch with a reused id.
CallbacksHaveBatches ==
    \A u \in Users : \A c \in callbacks[u] :
        \E i \in DOMAIN queue[u] : queue[u][i] = c

\* A waitForPendingWrites callback told OK: every write it was waiting for has
\* been committed or rejected, not only the one with the highest batch id.
WaitersSeeAllWrites ==
    \A W \in released : \A w \in W :
        w \in rejected \/ [user |-> owner[w], write |-> w] \in committed

\* Writes of one user are settled in the order they were made.
SettledInOrder ==
    \A u \in Users : \A i \in DOMAIN queue[u] : \A w \in 1..Len(owner) :
        owner[w] = u /\ fate[w] # "none" => w <= queue[u][i].write

\* Once faults stop, every pending write of the user who stays signed in with the
\* network enabled is acknowledged or rejected, through backoff, token requests,
\* handshakes and refills.
PendingWritesSettle ==
    \A w \in Writes :
        (w \in WritesIn(queue[currentUser]))
            ~> (\/ w \notin WritesIn(queue[currentUser])
                \/ ~networkEnabled)
-----------------------------------------------------------------------------
(* A claim of the repository's comments that the code does not keep        *)

\* remote_store.cc: on a permanent error "the request itself was the problem", so
\* the batch that is rejected is the one the backend refused.
RejectsRefusedWrite ==
    [][\A w \in rejected' \ rejected : rpc.refused = w]_vars
=============================================================================
