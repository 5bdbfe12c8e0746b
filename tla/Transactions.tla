----------------------------- MODULE Transactions -----------------------------
(***************************************************************************)
(* Transactions: TransactionRunner, Transaction, and FIRFirestore's bridge  *)
(* to the application's update function, over the backend's Commit and      *)
(* BatchGetDocuments calls.                                                *)
(*                                                                         *)
(* The backend is external.  It gives every commit a new version, and       *)
(* checks the preconditions of a commit and applies it in one step.         *)
(* An update function waits for each read, so that a read is one step; its  *)
(* commit is answered at a later time, or never, or after it was applied.   *)
(* A precondition is the set of versions it accepts; version 0 is that of a *)
(* document that does not exist (SnapshotVersion::None()).                  *)
(***************************************************************************)
EXTENDS Integers, Sequences, FiniteSets, SequencesExt

CONSTANTS
    Txns,         \* transactions
    Docs,         \* documents
    kRetryCount,  \* of transaction_runner.cc
    MaxOps,       \* bound: reads and writes of one run of an update function
    MaxOthers     \* bound: commits of other clients

ASSUME TransactionBounds == {kRetryCount, MaxOps, MaxOthers} \subseteq Nat
ASSUME TransactionsFinite == IsFiniteSet(Txns) /\ IsFiniteSet(Docs)

VARIABLES
    txn,      \* [Txns -> the runner and its current Transaction]
    version,  \* backend: [Docs -> Versions]
    clock,    \* backend: the highest version given
    others,   \* bound: commits of other clients
    \* history
    told,     \* [Txns -> Seq of what result_callback_ was called with]
    applied,  \* [Txns -> Seq of the documents that each applied commit wrote]
    lost      \* transactions of which a commit was applied, its answer lost

vars == <<txn, version, clock, others, told, applied, lost>>

-----------------------------------------------------------------------------
Versions == 0..(1 + MaxOthers + Cardinality(Txns) * (1 + kRetryCount))
Unread == -1
Kinds == {"set", "update", "delete", "verify"}
Mutation == [doc : Docs, kind : Kinds, pre : SUBSET Versions]
Phases == {"new", "backoff", "running", "committing", "done"}

\* Precondition::None(), Exists(true) and UpdateTime(v).
None == Versions
Exists == Versions \ {0}
UpdateTime(v) == {v}

\* The codes that are told apart: "aborted" stands for FAILED_PRECONDITION too,
\* "lost" for the other codes that Datastore::IsPermanentError lets be retried.
Codes == {"aborted", "lost", "permanent"}
IsRetryableTransactionError(code) == code \in {"aborted", "lost"}

\* A Transaction as CreateTransaction makes it.
FreshTransaction == [reads |-> [d \in Docs |-> Unread], written |-> {},
                     mutations |-> <<>>, writeError |-> FALSE,
                     failed |-> "none", ops |-> 0]
Runner(phase, left, tr) == [phase |-> phase, left |-> left, tr |-> tr]

Init ==
    /\ txn = [t \in Txns |-> Runner("new", kRetryCount, FreshTransaction)]
    /\ version \in [Docs -> {0, 1}]
    /\ clock = 1 /\ others = 0
    /\ told = [t \in Txns |-> <<>>] /\ applied = [t \in Txns |-> <<>>]
    /\ lost = {}

-----------------------------------------------------------------------------
Tr(t) == txn[t].tr
\* A runner moves on; one that is not running an update function has left its
\* Transaction behind.
SetRunner(t, phase, left) ==
    txn' = [txn EXCEPT ![t] = Runner(phase, left, FreshTransaction)]
SetPhase(t, phase) == SetRunner(t, phase, txn[t].left)
Tell(t, result) == told' = [told EXCEPT ![t] = Append(@, result)]

\* Firestore::RunTransaction, SyncEngine::Transaction, and the first Run.
RunTransaction(t) ==
    /\ txn[t].phase = "new"
    /\ SetPhase(t, "backoff")
    /\ UNCHANGED <<version, clock, others, told, applied, lost>>

\* The backoff is over: a new Transaction, and the update function is called.
StartAttempt(t) ==
    /\ txn[t].phase = "backoff"
    /\ SetPhase(t, "running")
    /\ UNCHANGED <<version, clock, others, told, applied, lost>>

\* The update function makes one more call, which changes the Transaction.
Operate(t, tr) ==
    /\ txn[t].phase = "running" /\ Tr(t).ops < MaxOps
    /\ txn' = [txn EXCEPT ![t].tr = [tr EXCEPT !.ops = @ + 1]]
    /\ UNCHANGED <<version, clock, others, told, applied, lost>>

\* Lookup and RecordVersion.  What goes wrong is told to the update function,
\* which may go on all the same.
Lookup(t, d) ==
    LET tr == Tr(t)
        Fail(code) == Operate(t, [tr EXCEPT !.failed = code])
    IN  \/ tr.mutations # <<>> /\ Fail("permanent")
        \/ /\ tr.mutations = <<>>
           /\ \/ Fail("lost")
              \/ Fail("permanent")
              \/ tr.reads[d] \notin {Unread, version[d]} /\ Fail("aborted")
              \/ /\ tr.reads[d] \in {Unread, version[d]}
                 /\ Operate(t, [tr EXCEPT !.reads[d] = version[d]])

\* CreatePrecondition: only the first write to a document that was read.
CreatePrecondition(tr, d) ==
    IF d \notin tr.written /\ tr.reads[d] # Unread
    THEN UpdateTime(tr.reads[d]) ELSE None

\* WriteMutations, and the document counts as written.
Written(tr, d, kind, pre) ==
    [tr EXCEPT !.mutations = Append(@, [doc |-> d, kind |-> kind, pre |-> pre]),
               !.written = @ \cup {d}]

SetOrDelete(t, d, kind) ==
    /\ kind \in {"set", "delete"}
    /\ Operate(t, Written(Tr(t), d, kind, CreatePrecondition(Tr(t), d)))

\* Update and CreateUpdatePrecondition: a document that was read as missing
\* cannot be updated, which fails the transaction when it commits.
Update(t, d) ==
    LET tr == Tr(t)
        first == d \notin tr.written /\ tr.reads[d] # Unread
    IN  IF first /\ tr.reads[d] = 0
        THEN Operate(t, [tr EXCEPT !.writeError = TRUE, !.written = @ \cup {d}])
        ELSE Operate(t, Written(tr, d, "update",
                         IF first THEN UpdateTime(tr.reads[d]) ELSE Exists))

-----------------------------------------------------------------------------
\* Variant: retries are not counted.
RetryForever(t, code, permanently) ==
    IF IsRetryableTransactionError(code) /\ ~permanently
    THEN SetPhase(t, "backoff") /\ UNCHANGED told
    ELSE SetPhase(t, "done") /\ Tell(t, "error")

\* HandleTransactionError, with IsPermanentlyFailed.
HandleTransactionError(t, code, permanently) ==
    IF txn[t].left > 0 /\ IsRetryableTransactionError(code) /\ ~permanently
    THEN /\ SetRunner(t, "backoff", txn[t].left - 1)
         /\ UNCHANGED told
    ELSE SetPhase(t, "done") /\ Tell(t, "error")

\* The update function sets an error: one of its own, which marks the
\* transaction as permanently failed, or the one that a read returned.
FailUpdate(t) ==
    /\ txn[t].phase = "running"
    /\ \/ HandleTransactionError(t, "permanent", TRUE)
       \/ /\ Tr(t).failed # "none"
          /\ HandleTransactionError(t, Tr(t).failed, FALSE)
    /\ UNCHANGED <<version, clock, others, applied, lost>>

\* Variant: only the writes are sent.
CommitWritesOnly(tr) == tr.mutations

\* Transaction::Commit: a document that was read and not written is verified.
CommitMutations(tr) ==
    LET unwritten == {d \in Docs : /\ tr.reads[d] # Unread
                                   /\ \A i \in DOMAIN tr.mutations :
                                          tr.mutations[i].doc # d}
    IN  tr.mutations \o SetToSeq({[doc |-> d, kind |-> "verify",
                                   pre |-> CreatePrecondition(tr, d)] :
                                      d \in unwritten})

\* ContinueCommit: an earlier error of a write is raised, or the mutations are
\* sent.
ContinueCommit(t) ==
    /\ txn[t].phase = "running"
    /\ IF Tr(t).writeError
       THEN HandleTransactionError(t, "permanent", FALSE)
       ELSE /\ txn' = [txn EXCEPT
                  ![t] = Runner("committing", @.left,
                           [FreshTransaction EXCEPT
                               !.reads = Tr(t).reads,
                               !.mutations = CommitMutations(Tr(t))])]
            /\ UNCHANGED told
    /\ UNCHANGED <<version, clock, others, applied, lost>>

-----------------------------------------------------------------------------
(* The backend, and DispatchResult.                                        *)

\* The first n mutations of ms that write document d.
Writes(ms, n, d) == {i \in 1..n : ms[i].doc = d /\ ms[i].kind # "verify"}

\* The versions after the first n mutations of a commit: the last write to a
\* document counts.
AfterMutations(ms, n) ==
    LET Left(m) == IF m.kind = "delete" THEN 0 ELSE clock + 1
    IN  [d \in Docs |-> IF Writes(ms, n, d) = {} THEN version[d]
                        ELSE Left(ms[Max(Writes(ms, n, d))])]

\* Every mutation finds its document in a version that it accepts.
Acceptable(ms) ==
    \A i \in DOMAIN ms : AfterMutations(ms, i - 1)[ms[i].doc] \in ms[i].pre

Apply(t) ==
    LET ms == Tr(t).mutations
    IN  /\ Acceptable(ms)
        /\ version' = AfterMutations(ms, Len(ms))
        /\ clock' = clock + 1
        /\ applied' = [applied EXCEPT ![t] = Append(@,
               {ms[i].doc : i \in {j \in DOMAIN ms : ms[j].kind # "verify"}})]
        /\ UNCHANGED others

\* Variant: a rejected commit is reported as done.
TellAnyway(t) ==
    /\ SetPhase(t, "done") /\ Tell(t, "ok")
    /\ UNCHANGED <<version, clock, others, applied, lost>>

\* The commit is rejected as a whole, and so DispatchResult sees an error.
Rejected(t) ==
    /\ HandleTransactionError(t, "aborted", FALSE)
    /\ UNCHANGED <<version, clock, others, applied, lost>>

\* CommitMutations ends: applied, applied with its answer lost to the network
\* or to a change of connectivity, rejected, or never applied.
CommitEnds(t) ==
    /\ txn[t].phase = "committing"
    /\ \/ Apply(t) /\ SetPhase(t, "done") /\ Tell(t, "ok") /\ UNCHANGED lost
       \/ /\ Apply(t)
          /\ HandleTransactionError(t, "lost", FALSE)
          /\ lost' = lost \cup {t}
       \/ ~Acceptable(Tr(t).mutations) /\ Rejected(t)
       \/ /\ \E code \in {"lost", "permanent"} :
                HandleTransactionError(t, code, FALSE)
          /\ UNCHANGED <<version, clock, others, applied, lost>>

\* Another client writes or deletes a document.
OtherCommit(d) ==
    /\ others < MaxOthers /\ others' = others + 1
    /\ clock' = clock + 1
    /\ \E v \in {0, clock + 1} : version' = [version EXCEPT ![d] = v]
    /\ UNCHANGED <<txn, told, applied, lost>>

-----------------------------------------------------------------------------
Next ==
    \/ \E t \in Txns :
        \/ RunTransaction(t) \/ StartAttempt(t)
        \/ \E d \in Docs :
            \/ Lookup(t, d) \/ Update(t, d)
            \/ \E kind \in {"set", "delete"} : SetOrDelete(t, d, kind)
        \/ FailUpdate(t) \/ ContinueCommit(t) \/ CommitEnds(t)
    \/ \E d \in Docs : OtherCommit(d)

Spec == Init /\ [][Next]_vars

\* Timers expire, update functions end, and every commit has an outcome.
Fairness ==
    \A t \in Txns :
        /\ WF_vars(StartAttempt(t))
        /\ WF_vars(FailUpdate(t) \/ ContinueCommit(t))
        /\ WF_vars(CommitEnds(t))

FairSpec == Spec /\ Fairness

-----------------------------------------------------------------------------
TypeOK ==
    /\ \A t \in Txns :
        /\ txn[t].phase \in Phases /\ txn[t].left \in 0..kRetryCount
        /\ Tr(t).reads \in [Docs -> Versions \cup {Unread}]
        /\ Tr(t).mutations \in Seq(Mutation) /\ Tr(t).written \subseteq Docs
        /\ Tr(t).writeError \in BOOLEAN
        /\ Tr(t).failed \in Codes \cup {"none"} /\ Tr(t).ops \in 0..MaxOps
    /\ version \in [Docs -> Versions] /\ clock \in Versions
    /\ told \in [Txns -> Seq({"ok", "error"})]
    /\ applied \in [Txns -> Seq(SUBSET Docs)] /\ lost \subseteq Txns

\* What a transaction commits is computed from data that is still current at
\* the moment it is applied, for every document it has read, whether it writes
\* it or not, in whatever order and however often it writes it, and even when
\* the update function went on after a failed read (Transaction::Commit).
AppliesOnCurrentReads ==
    [][\A t \in Txns : applied'[t] # applied[t] =>
          \A d \in Docs : Tr(t).reads[d] \in {Unread, version[d]}]_vars

\* The completion block gets one result, however often the update function
\* runs, and the result is true: success means that the changes were applied.
\* While no answer of the backend is lost they are applied once then, and an
\* error means that they were not applied (TransactionRunner::DispatchResult and
\* HandleTransactionError).
ResultIsTrue ==
    \A t \in Txns :
        /\ Len(told[t]) <= 1
        /\ told[t] = <<"ok">> => applied[t] # <<>>
        /\ t \notin lost =>
               Len(applied[t]) = (IF told[t] = <<"ok">> THEN 1 ELSE 0)

\* Every transaction comes to a result, whatever the backend and the network
\* do: the retries are counted over all kinds of failures.
EveryTransactionEnds ==
    \A t \in Txns : txn[t].phase = "backoff" ~> told[t] # <<>>
=============================================================================
