--------------------------- MODULE LimboResolution ---------------------------
(***************************************************************************)
(* The queries of SyncEngine and the resolution of their limbo documents.   *)
(* A document is in limbo while the cache says that it matches a query and   *)
(* the backend, which has sent all results of the query, does not.          *)
(* SyncEngine then listens to the document itself, for a bounded number of   *)
(* documents at a time, and queues the others.                              *)
(*                                                                         *)
(* Every handler is one action.  RemoteStore and the backend are abstracted *)
(* to what SyncEngine sees of them: RemoteEvents that bring the targets that *)
(* are CURRENT to the state of the backend, rejected listens, existence      *)
(* filters and lost connections.  RemoteWatch has the stream in between.    *)
(* A document is abstracted to the queries that it matches.  Left out are   *)
(* local writes, limits, and queries that share a target.                   *)
(***************************************************************************)
EXTENDS Integers, Sequences, FiniteSets, SequencesExt, Functions

CONSTANTS
    Docs,         \* documents, numbered in the order of their keys
    NoDoc,        \* a document that does not exist
    Queries,      \* the application's queries; a query is its own target
    Contents,     \* what a document can be: the queries it matches, or NoDoc
    Limits,       \* values of max_concurrent_limbo_resolutions_
    MaxChanges,   \* bound: changes of the backend's documents
    MaxCalls,     \* bound: calls of Listen
    MaxFaults,    \* bound: rejections, filters and lost connections
    FaultKinds    \* which of them the environment produces

ASSUME LimboAssumption ==
    /\ Docs \subseteq Nat /\ IsFiniteSet(Docs)
    /\ IsFiniteSet(Queries) /\ Queries \cap Nat = {}
    /\ Contents \subseteq SUBSET Queries \cup {NoDoc} /\ NoDoc \in Contents
    /\ Limits \subseteq Nat \ {0}
    /\ {MaxChanges, MaxCalls, MaxFaults} \subseteq Nat
    /\ FaultKinds \subseteq {"reject", "filter", "lost", "offline"}

VARIABLES
    limit,     \* max_concurrent_limbo_resolutions_
    server,    \* backend: [Docs -> Contents]
    cache,     \* the remote documents of LocalStore: [Docs -> Contents]
    views,     \* query_views_by_query_ with each View: [Queries -> View]
    limbo,     \* the limbo members of SyncEngine, and what it listens to
    caughtUp,  \* the targets that are CURRENT on the present connection
    asserted,  \* FALSE once a HARD_ASSERT has failed
    used,      \* [changes, calls, faults]: the bounds used up
    denied     \* history: documents whose resolution was rejected

vars == <<limit, server, cache, views, limbo, caughtUp, asserted, used, denied>>

-----------------------------------------------------------------------------
Matches(content, q) == content # NoDoc /\ q \in content
Results(docs, q) == {d \in Docs : Matches(docs[d], q)}

\* `synced` is kept by LocalStore while the query is not listened to.
NewView(synced) == [listening |-> FALSE, synced |-> synced, current |-> FALSE,
                    limbo |-> {}]
Listened == {q \in Queries : views[q].listening}

NoLimbo == [refs |-> {},         \* limbo_document_refs_: <<document, query>>
            enqueued |-> <<>>,   \* enqueued_limbo_resolutions_
            byKey |-> <<>>,      \* active_limbo_targets_by_key_
            byTarget |-> <<>>,   \* active_limbo_resolutions_by_target_
            listens |-> {},      \* limbo targets in RemoteStore
            nextId |-> 1,        \* target_id_generator_
            ok |-> TRUE]         \* no HARD_ASSERT has failed

ActiveTargets == Listened \cup limbo.listens

Init ==
    /\ limit \in Limits
    /\ server \in [Docs -> Contents]
    /\ cache = [d \in Docs |-> NoDoc]
    /\ views = [q \in Queries |-> NewView({})]
    /\ limbo = NoLimbo
    /\ caughtUp = {}
    /\ asserted = TRUE
    /\ used = [changes |-> 0, calls |-> 0, faults |-> 0]
    /\ denied = {}

Use(what, max) == used[what] < max /\ used' = [used EXCEPT ![what] = @ + 1]
Fault(kind) == kind \in FaultKinds /\ Use("faults", MaxFaults)

-----------------------------------------------------------------------------
(* The limbo members l of SyncEngine                                       *)

\* emplace leaves an entry that is there.
Emplace(map, key, value) ==
    [x \in DOMAIN map \cup {key} |-> IF x \in DOMAIN map THEN map[x] ELSE value]

\* The next document is listened to.
StartResolution(l) ==
    LET key == Head(l.enqueued)
        t == l.nextId
    IN  [l EXCEPT !.enqueued = Tail(@),
                  !.byTarget = Emplace(@, t, [key |-> key, received |-> FALSE]),
                  !.byKey = Emplace(@, key, t),
                  !.listens = @ \cup {t}, !.nextId = @ + 1]

PumpEnqueuedLimboResolutions(l) ==
    FoldLeft(LAMBDA m, d :
                 IF m.enqueued # <<>> /\ Cardinality(DOMAIN m.byKey) < limit
                 THEN StartResolution(m) ELSE m,
             l, l.enqueued)

TrackLimboChange(l, d) ==
    IF d \in DOMAIN l.byKey THEN l
    ELSE PumpEnqueuedLimboResolutions([l EXCEPT !.enqueued = Append(@, d)])

\* Variant: one of the maps is left alone.
ForgetKey(l, d, t) ==
    [l EXCEPT !.byKey = Restrict(@, DOMAIN @ \ {d}), !.listens = @ \ {t}]

\* The maps without the entries of a document and of a target.
Forget(l, d, t) ==
    [l EXCEPT !.byKey = Restrict(@, DOMAIN @ \ {d}),
              !.byTarget = Restrict(@, DOMAIN @ \ {t}),
              !.listens = @ \ {t}]

RemoveLimboTarget(l, d) ==
    IF d \notin DOMAIN l.byKey THEN l
    ELSE PumpEnqueuedLimboResolutions(
           [Forget(l, d, l.byKey[d]) EXCEPT
               !.ok = @ /\ l.byKey[d] \in l.listens])

Referenced(l, d) == \E q \in Queries : <<d, q>> \in l.refs

\* A reference is dropped, and the target with the last one.
RemoveReference(l, d, q) ==
    LET m == [l EXCEPT !.refs = @ \ {<<d, q>>}]
    IN  IF Referenced(m, d) THEN m ELSE RemoveLimboTarget(m, d)

AddReference(l, d, q) ==
    TrackLimboChange([l EXCEPT !.refs = @ \cup {<<d, q>>}], d)

InKeyOrder(docs) ==
    CHOOSE s \in SetToSeqs(docs) : \A i, j \in DOMAIN s : i < j => s[i] < s[j]

RemoveReferences(l, q, docs) ==
    FoldLeft(LAMBDA m, d : RemoveReference(m, d, q), l, InKeyOrder(docs))

AddReferences(l, q, docs) ==
    FoldLeft(LAMBDA m, d : AddReference(m, d, q), l, InKeyOrder(docs))

\* UpdateTrackedLimboDocuments, for the limbo changes of the view of q.
UpdateTrackedLimboDocuments(l, q, old, new) ==
    AddReferences(RemoveReferences(l, q, old \ new), q, new \ old)

\* ... and of one view after the other: the limbo documents of each were old and
\* are new.
TrackViews(l, order, old, new) ==
    FoldLeft(LAMBDA m, q : UpdateTrackedLimboDocuments(m, q, old[q], new[q]),
             l, order)

-----------------------------------------------------------------------------
(* Views                                                                   *)

\* ApplyTargetChange, of a view that a RemoteEvent has brought up to date.
ApplyTargetChange(v, synced, current) ==
    [v EXCEPT !.synced = synced, !.current = current]

\* UpdateLimboDocuments with ShouldBeInLimbo: only of a view that is current.
UpdateLimboDocuments(v, results) ==
    IF v.current THEN [v EXCEPT !.limbo = results \ v.synced] ELSE v

\* EmitNewSnapshotsAndNotifyLocalStore: vs are the views with the target changes
\* applied and l the limbo members; the views come in the order of a hash map.
EmitNewSnapshots(vs, docs, l) ==
    LET New(q) == IF vs[q].listening
                  THEN UpdateLimboDocuments(vs[q], Results(docs, q)) ELSE vs[q]
    IN  /\ cache' = docs
        /\ views' = [q \in Queries |-> New(q)]
        /\ \E order \in SetToSeqs({q \in Queries : vs[q].listening}) :
              limbo' = TrackViews(l, order, [q \in Queries |-> vs[q].limbo],
                                  [q \in Queries |-> New(q).limbo])
        /\ asserted' = (asserted /\ limbo'.ok)

-----------------------------------------------------------------------------
(* The application's calls                                                 *)

\* Listen and InitializeViewAndComputeSnapshot: the view is not current yet.
Listen(q) ==
    /\ Use("calls", MaxCalls)
    /\ ~views[q].listening
    /\ views' = [views EXCEPT ![q] = [NewView(@.synced) EXCEPT
                                         !.listening = TRUE]]
    /\ UNCHANGED <<limit, server, cache, limbo, caughtUp, asserted, denied>>

\* Variant: other references to a document are not looked for.
CleanupAll(l, q) ==
    FoldLeft(LAMBDA m, d : RemoveLimboTarget(m, d),
             [l EXCEPT !.refs = {r \in @ : r[2] # q}],
             InKeyOrder({d \in Docs : <<d, q>> \in l.refs}))

\* The targets of documents without a reference go.
RemoveUnreferenced(l, docs) ==
    FoldLeft(LAMBDA m, d : IF Referenced(m, d) THEN m ELSE RemoveLimboTarget(m, d),
             l, InKeyOrder(docs))

\* RemoveAndCleanupTarget: all references of a query go, then the targets of the
\* documents that have no other.
RemoveAndCleanupTarget(l, q) ==
    RemoveUnreferenced([l EXCEPT !.refs = {r \in @ : r[2] # q}],
                       {d \in Docs : <<d, q>> \in l.refs})

\* StopListening, and HandleRejectedListen of a query.
RemoveQuery(q) ==
    /\ views[q].listening
    /\ views' = [views EXCEPT ![q] = NewView(@.synced)]
    /\ limbo' = RemoveAndCleanupTarget(limbo, q)
    /\ asserted' = (asserted /\ limbo'.ok)
    /\ caughtUp' = (caughtUp \ {q}) \cap (Queries \cup limbo'.listens)
    /\ UNCHANGED <<limit, server, cache, denied>>

StopListening(q) == RemoveQuery(q) /\ UNCHANGED used

-----------------------------------------------------------------------------
(* The backend and the connection                                          *)

ServerChange(d) ==
    /\ Use("changes", MaxChanges)
    /\ \E c \in Contents : server' = [server EXCEPT ![d] = c]
    /\ UNCHANGED <<limit, cache, views, limbo, caughtUp, asserted, denied>>

\* The document that a limbo target of E is about has come, or has gone.
Received(l, E) ==
    LET Lookup(r) == [r EXCEPT !.received = (server[r.key] # NoDoc)]
    IN  [l EXCEPT !.byTarget = [t \in DOMAIN @ |->
            IF t \in E THEN Lookup(@[t]) ELSE @[t]]]

\* A RemoteEvent.  The targets in `reached` become CURRENT with it; those in
\* `part` get their documents and are not CURRENT yet; those that are CURRENT
\* follow the backend.  What the backend says of a document that no longer
\* matches is only that it left the target, unless the document is in `told`.
\* The watch stream makes a document that a CURRENT limbo target has not
\* received a deleted one (CreateRemoteEvent).
ApplyRemoteEvent(reached, part, told) ==
    LET following == (caughtUp \cap ActiveTargets) \cup reached
        full == Queries \cap following
        sent == UNION {Results(server, q) : q \in full \cup part}
        looked == {limbo.byTarget[t].key : t \in limbo.listens \cap following}
        docs == [d \in Docs |-> IF d \in sent \cup looked \cup told
                                THEN server[d] ELSE cache[d]]
        Changed(q) ==
            CASE q \in full ->
                   ApplyTargetChange(views[q], Results(server, q), TRUE)
              [] q \in part ->
                   ApplyTargetChange(views[q],
                       views[q].synced \cup Results(server, q), FALSE)
              [] OTHER -> views[q]
    IN  /\ EmitNewSnapshots([q \in Queries |-> Changed(q)], docs,
                            Received(limbo, following))
        /\ caughtUp' = following \cap (Queries \cup limbo'.listens)
        /\ UNCHANGED <<limit, server, used, denied>>

RemoteEvent ==
    LET waiting == ActiveTargets \ caughtUp
        Gone(q) == views[q].synced \ Results(server, q)
    IN  \E reached \in SUBSET waiting :
          \E part \in SUBSET ((waiting \ reached) \cap Queries) :
            \E told \in SUBSET UNION {Gone(q) : q \in Queries \cap
                                                  (caughtUp \cup reached)} :
              ApplyRemoteEvent(reached, part, told)

\* Variant: the next resolution is not started.
ForgetRejected(l, d, t) == Forget(l, d, t)

\* HandleRejectedListen of a limbo target, up to the synthetic RemoteEvent.
RejectedLimbo(l, d, t) == PumpEnqueuedLimboResolutions(Forget(l, d, t))

HandleRejectedListen(t) ==
    /\ Fault("reject")
    /\ \/ t \in Queries /\ RemoveQuery(t)
       \/ /\ t \in limbo.listens
          /\ LET d == limbo.byTarget[t].key
             IN  /\ EmitNewSnapshots(views, [cache EXCEPT ![d] = NoDoc],
                                     RejectedLimbo(limbo, d, t))
                 /\ denied' = denied \cup {d}
          /\ caughtUp' = (caughtUp \ {t}) \cap (Queries \cup limbo'.listens)
          /\ UNCHANGED <<limit, server>>

\* An existence filter does not match: the query starts over, without documents.
FilterMismatch(q) ==
    /\ Fault("filter")
    /\ q \in caughtUp
    /\ EmitNewSnapshots([views EXCEPT ![q] = ApplyTargetChange(@, {}, FALSE)],
                        cache, limbo)
    /\ caughtUp' = (caughtUp \ {q}) \cap (Queries \cup limbo'.listens)
    /\ UNCHANGED <<limit, server, denied>>

\* The connection is lost: targets are listened to again on the next one.
ConnectionLost ==
    /\ Fault("lost")
    /\ caughtUp' = {}
    /\ UNCHANGED <<limit, server, cache, views, limbo, asserted, denied>>

\* HandleOnlineStateChange(Offline): no view is current after it.
WentOffline ==
    /\ Fault("offline")
    /\ caughtUp' = {}
    /\ views' = [q \in Queries |-> [views[q] EXCEPT !.current = FALSE]]
    /\ UNCHANGED <<limit, server, cache, limbo, asserted, denied>>

-----------------------------------------------------------------------------
Next ==
    \/ \E q \in Queries : Listen(q) \/ StopListening(q) \/ FilterMismatch(q)
    \/ \E d \in Docs : ServerChange(d)
    \/ RemoteEvent
    \/ \E t \in ActiveTargets : HandleRejectedListen(t)
    \/ ConnectionLost \/ WentOffline

Spec == Init /\ [][Next]_vars

-----------------------------------------------------------------------------
TypeOK ==
    /\ limit \in Limits
    /\ server \in [Docs -> Contents] /\ cache \in [Docs -> Contents]
    /\ views \in [Queries -> [listening : BOOLEAN, synced : SUBSET Docs,
                              current : BOOLEAN, limbo : SUBSET Docs]]
    /\ limbo.refs \subseteq Docs \X Queries
    /\ limbo.enqueued \in Seq(Docs)
    /\ DOMAIN limbo.byKey \subseteq Docs
    /\ Range(limbo.byKey) \subseteq DOMAIN limbo.byTarget
    /\ limbo.listens = DOMAIN limbo.byTarget
    /\ \A t \in DOMAIN limbo.byTarget :
          /\ t \in 1..(limbo.nextId - 1)
          /\ limbo.byTarget[t] \in [key : Docs, received : BOOLEAN]
    /\ caughtUp \subseteq ActiveTargets /\ denied \subseteq Docs

\* SyncEngine never stops a listen that RemoteStore does not know.
NoLimboAssertionFails == asserted

\* The references of SyncEngine are the limbo documents of its views, and a
\* document that is in limbo for a view that is current is being resolved, or
\* it waits.  Excepted is one whose resolution was rejected: it is deleted
\* from the cache, and a view that is not current keeps it in limbo without a
\* target (HandleRejectedListen and View::UpdateLimboDocuments).
LimboIsTracked ==
    /\ limbo.refs = UNION {views[q].limbo \X {q} : q \in Queries}
    /\ \A q \in Listened : \A d \in views[q].limbo \ denied :
          views[q].current =>
              d \in DOMAIN limbo.byKey \cup Range(limbo.enqueued)

\* The documents that RemoteStore listens to for SyncEngine.
ResolvedDocs == {limbo.byTarget[t].key : t \in limbo.listens}

\* A document waits only while RemoteStore listens to at least as many different
\* documents as there are slots: SyncEngine starts the next resolution wherever
\* one ends, and every resolution has a target, of its own document.  The listens
\* have no such bound from above: a document that was queued twice can be
\* listened to twice, and then there are more listens than slots.
SlotsAreUsed ==
    limbo.enqueued # <<>> => Cardinality(ResolvedDocs) >= limit

\* The backend has sent everything that it has for every target.
UpToDate ==
    /\ ActiveTargets \subseteq caughtUp
    /\ \A q \in Listened : /\ views[q].synced = Results(server, q)
                           /\ \A d \in views[q].synced : cache[d] = server[d]
    /\ \A t \in limbo.listens : cache[limbo.byTarget[t].key]
                                    = server[limbo.byTarget[t].key]

\* Once the client is up to date, every query shows what the backend has for it
\* and no document is in limbo, as long as there is a slot for every document
\* and no resolution was rejected.
SettledViewsAreRight ==
    UpToDate /\ limit >= Cardinality(Docs) /\ denied = {} =>
        \A q \in Listened : /\ views[q].limbo = {}
                            /\ Results(cache, q) = Results(server, q)

\* A query that is listened to is not answered from the cache once the client
\* has received up-to-date data from the backend (FIRSnapshotMetadata.h).
UpToDateIsNotFromCache ==
    UpToDate => \A q \in Listened : views[q].limbo = {}
=============================================================================
