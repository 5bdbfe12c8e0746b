-------------------------- MODULE TransactionsProofs --------------------------
(***************************************************************************)
(* What holds of transactions for all sets of transactions and documents,   *)
(* every number of retries and every bound: the result that is told is true, *)
(* and a commit is applied only on what its update function has read.        *)
(***************************************************************************)
EXTENDS Transactions, SequenceTheorems, FiniteSetTheorems,
        WellFoundedInduction, TLAPS

\* A runner is in one of its phases.
RunnersInv ==
    /\ DOMAIN txn = Txns
    /\ \A t \in Txns :
        /\ txn[t] = Runner(txn[t].phase, txn[t].left, txn[t].tr)
        /\ txn[t].phase \in Phases
    /\ told \in [Txns -> Seq({"ok", "error"})]
    /\ \E S : applied \in [Txns -> Seq(S)]

\* What is told and what was applied, by the phase of the runner: until it is
\* done nothing is told, and nothing was applied unless an answer was lost.
OutcomeOf(t) ==
    IF txn[t].phase = "done"
    THEN \/ told[t] = <<"ok">> /\ applied[t] # <<>>
         \/ told[t] = <<"error">>
    ELSE told[t] = <<>>

AppliedOf(t) ==
    t \notin lost => Len(applied[t]) = (IF told[t] = <<"ok">> THEN 1 ELSE 0)

IInv == RunnersInv /\ \A t \in Txns : OutcomeOf(t) /\ AppliedOf(t)

-----------------------------------------------------------------------------
\* One transaction's variables determine its part of the invariant.
LEMMA SameOutcome ==
    ASSUME NEW t \in Txns, OutcomeOf(t), AppliedOf(t),
           txn'[t].phase = "done" <=> txn[t].phase = "done",
           told'[t] = told[t], applied'[t] = applied[t], t \in lost => t \in lost'
    PROVE  OutcomeOf(t)' /\ AppliedOf(t)'
PROOF
  BY DEF OutcomeOf, AppliedOf

\* A step that replaces the runner of one transaction.
LEMMA MovedRunner ==
    ASSUME RunnersInv, NEW t \in Txns, NEW phase \in Phases, NEW left, NEW tr,
           txn' = [txn EXCEPT ![t] = Runner(phase, left, tr)]
    PROVE  /\ DOMAIN txn' = Txns
           /\ \A u \in Txns :
                /\ txn'[u] = Runner(txn'[u].phase, txn'[u].left, txn'[u].tr)
                /\ txn'[u].phase \in Phases
           /\ txn'[t].phase = phase
           /\ \A u \in Txns \ {t} : txn'[u] = txn[u]
PROOF
<1>1. /\ DOMAIN txn' = Txns
      /\ txn'[t] = Runner(phase, left, tr)
      /\ \A u \in Txns \ {t} : txn'[u] = txn[u]
  BY DEF RunnersInv
<1>2. /\ txn'[t].phase = phase
      /\ txn'[t] = Runner(txn'[t].phase, txn'[t].left, txn'[t].tr)
  BY <1>1 DEF Runner
<1> QED
  BY <1>1, <1>2 DEF RunnersInv

\* A step that tells nothing and applies nothing: the runner stays short of
\* being done.
LEMMA QuietStep ==
    ASSUME IInv, NEW t \in Txns, NEW phase \in Phases \ {"done"}, NEW left, NEW tr,
           txn[t].phase # "done",
           txn' = [txn EXCEPT ![t] = Runner(phase, left, tr)],
           told' = told, applied' = applied, lost' = lost
    PROVE  IInv'
PROOF
<1>1. RunnersInv
  BY DEF IInv
<1>2. /\ RunnersInv'
      /\ txn'[t].phase = phase
      /\ \A u \in Txns \ {t} : txn'[u] = txn[u]
  BY <1>1, MovedRunner DEF RunnersInv
<1>3. ASSUME NEW u \in Txns PROVE OutcomeOf(u)' /\ AppliedOf(u)'
  <2>1. OutcomeOf(u) /\ AppliedOf(u)
    BY DEF IInv
  <2>2. txn'[u].phase = "done" <=> txn[u].phase = "done"
    BY <1>2
  <2> QED
    BY <2>1, <2>2, SameOutcome
<1> QED
  BY <1>2, <1>3 DEF IInv

\* HandleTransactionError tells an error or starts over, from any phase in which
\* nothing was told; what was applied is as it was, or its answer was lost.
LEMMA ErrorStep ==
    ASSUME IInv, NEW t \in Txns, NEW code, NEW permanently,
           txn[t].phase # "done",
           HandleTransactionError(t, code, permanently),
           \E S : applied' \in [Txns -> Seq(S)],
           \A u \in Txns \ {t} : applied'[u] = applied[u],
           lost \subseteq lost',
           applied'[t] = applied[t] \/ t \in lost'
    PROVE  IInv'
PROOF
<1>1. RunnersInv /\ told[t] = <<>>
  BY DEF IInv, OutcomeOf
<1>2. PICK phase \in {"backoff", "done"} :
        /\ \E left : txn' = [txn EXCEPT ![t] = Runner(phase, left, FreshTransaction)]
        /\ told' = IF phase = "done"
                   THEN [told EXCEPT ![t] = Append(@, "error")] ELSE told
  BY DEF HandleTransactionError, SetRunner, SetPhase, Tell
<1>3. PICK left : txn' = [txn EXCEPT ![t] = Runner(phase, left, FreshTransaction)]
  BY <1>2
<1>4. phase \in Phases
  BY DEF Phases
<1>5. /\ DOMAIN txn' = Txns
      /\ \A u \in Txns :
            /\ txn'[u] = Runner(txn'[u].phase, txn'[u].left, txn'[u].tr)
            /\ txn'[u].phase \in Phases
      /\ txn'[t].phase = phase
      /\ \A u \in Txns \ {t} : txn'[u] = txn[u]
  BY <1>1, <1>3, <1>4, MovedRunner
<1>6. /\ told' \in [Txns -> Seq({"ok", "error"})]
      /\ \A u \in Txns \ {t} : told'[u] = told[u]
      /\ told'[t] = IF phase = "done" THEN <<"error">> ELSE <<>>
  <2>1. told[t] \in Seq({"ok", "error"}) /\ Append(told[t], "error") = <<"error">>
    BY <1>1 DEF RunnersInv
  <2>2. Append(told[t], "error") \in Seq({"ok", "error"})
    BY <2>1, AppendProperties
  <2> QED
    BY <1>1, <1>2, <2>1, <2>2 DEF RunnersInv
<1>7. ASSUME NEW u \in Txns PROVE OutcomeOf(u)' /\ AppliedOf(u)'
  <2>1. OutcomeOf(u) /\ AppliedOf(u)
    BY DEF IInv
  <2>2. CASE u # t
    <3>1. /\ txn'[u].phase = txn[u].phase /\ told'[u] = told[u]
          /\ applied'[u] = applied[u] /\ (u \in lost => u \in lost')
      BY <1>5, <1>6, <2>2
    <3> QED
      BY <2>1, <3>1, SameOutcome
  <2>3. CASE u = t
    <3>1. OutcomeOf(t)'
      BY <1>5, <1>6 DEF OutcomeOf
    <3>2. <<"error">> # <<"ok">> /\ <<>> # <<"ok">>
      OBVIOUS
    <3>3. AppliedOf(t)'
      BY <1>1, <1>6, <2>1, <2>3, <3>2 DEF AppliedOf
    <3> QED
      BY <2>3, <3>1, <3>3
  <2> QED
    BY <2>2, <2>3
<1>8. RunnersInv'
  BY <1>5, <1>6 DEF RunnersInv
<1> QED
  BY <1>7, <1>8 DEF IInv

\* A call of the update function changes the Transaction only.
LEMMA OperateStep ==
    ASSUME IInv, NEW t \in Txns, NEW tr, Operate(t, tr)
    PROVE  IInv'
PROOF
<1>1. PICK new : txn' = [txn EXCEPT ![t].tr = new]
  BY Zenon DEF Operate
<1>2. /\ txn[t].phase = "running"
      /\ told' = told /\ applied' = applied /\ lost' = lost
  BY Zenon DEF Operate
<1>3. DOMAIN txn = Txns /\ txn[t] = Runner("running", txn[t].left, txn[t].tr)
  BY <1>2 DEF IInv, RunnersInv
<1>4. [txn[t] EXCEPT !.tr = new] = Runner("running", txn[t].left, new)
  BY <1>3 DEF Runner
<1>5. txn' = [txn EXCEPT ![t] = Runner("running", txn[t].left, new)]
  BY <1>1, <1>4
<1>6. "running" \in Phases \ {"done"}
  BY DEF Phases
<1> QED
  BY <1>2, <1>5, <1>6, QuietStep

\* What Apply adds to the history of its transaction.
LEMMA ApplyProperties ==
    ASSUME RunnersInv, NEW t \in Txns, Apply(t)
    PROVE  /\ \E S : applied' \in [Txns -> Seq(S)]
           /\ \A u \in Txns \ {t} : applied'[u] = applied[u]
           /\ applied'[t] # <<>>
           /\ Len(applied'[t]) = Len(applied[t]) + 1
PROOF
<1>1. PICK D : applied' = [applied EXCEPT ![t] = Append(@, D)]
  BY DEF Apply
<1>2. PICK S : applied \in [Txns -> Seq(S)]
  BY DEF RunnersInv
<1> DEFINE W == S \cup {D}
<1>3. \A u \in Txns : applied[u] \in Seq(W)
  <2> TAKE u \in Txns
  <2>1. applied[u] \in Seq(S)
    BY <1>2
  <2>2. /\ applied[u] \in [1..Len(applied[u]) -> S] /\ Len(applied[u]) \in Nat
    BY <2>1, LenProperties
  <2>3. applied[u] \in [1..Len(applied[u]) -> W]
    BY <2>2
  <2> HIDE DEF W
  <2> QED
    BY <2>2, <2>3, SeqDef
<1>4. D \in W
  OBVIOUS
<1> HIDE DEF W
<1>5. /\ Append(applied[t], D) \in Seq(W) /\ Append(applied[t], D) # <<>>
      /\ Len(Append(applied[t], D)) = Len(applied[t]) + 1
  BY <1>3, <1>4, AppendProperties
<1>6. applied \in [Txns -> Seq(W)]
  BY <1>2, <1>3
<1> QED
  BY <1>1, <1>5, <1>6

\* The commit is applied and its answer comes: success is told, once.
LEMMA SuccessStep ==
    ASSUME IInv, NEW t \in Txns, txn[t].phase = "committing",
           Apply(t), SetPhase(t, "done"), Tell(t, "ok"), lost' = lost
    PROVE  IInv'
PROOF
<1>1. /\ RunnersInv /\ told[t] = <<>>
      /\ t \notin lost => Len(applied[t]) = 0
  <2>1. told[t] = <<>>
    BY DEF IInv, OutcomeOf
  <2> QED
    BY <2>1 DEF IInv, AppliedOf
<1>2. /\ \E S : applied' \in [Txns -> Seq(S)]
      /\ \A u \in Txns \ {t} : applied'[u] = applied[u]
      /\ applied'[t] # <<>>
      /\ Len(applied'[t]) = Len(applied[t]) + 1
  BY <1>1, ApplyProperties
<1>3. /\ DOMAIN txn' = Txns
      /\ \A u \in Txns :
            /\ txn'[u] = Runner(txn'[u].phase, txn'[u].left, txn'[u].tr)
            /\ txn'[u].phase \in Phases
      /\ txn'[t].phase = "done"
      /\ \A u \in Txns \ {t} : txn'[u] = txn[u]
  BY <1>1, MovedRunner DEF SetPhase, SetRunner, Phases
<1>4. /\ told' \in [Txns -> Seq({"ok", "error"})]
      /\ \A u \in Txns \ {t} : told'[u] = told[u]
      /\ told'[t] = <<"ok">>
  <2>1. told[t] \in Seq({"ok", "error"}) /\ Append(told[t], "ok") = <<"ok">>
    BY <1>1 DEF RunnersInv
  <2>2. Append(told[t], "ok") \in Seq({"ok", "error"})
    BY <2>1, AppendProperties
  <2> QED
    BY <1>1, <2>1, <2>2 DEF RunnersInv, Tell
<1>5. ASSUME NEW u \in Txns PROVE OutcomeOf(u)' /\ AppliedOf(u)'
  <2>1. CASE u # t
    <3>1. OutcomeOf(u) /\ AppliedOf(u)
      BY DEF IInv
    <3>2. /\ txn'[u].phase = txn[u].phase /\ told'[u] = told[u]
          /\ applied'[u] = applied[u] /\ (u \in lost => u \in lost')
      BY <1>2, <1>3, <1>4, <2>1
    <3> QED
      BY <3>1, <3>2, SameOutcome
  <2>2. CASE u = t
    <3>1. OutcomeOf(t)'
      BY <1>2, <1>3, <1>4 DEF OutcomeOf
    <3>2. AppliedOf(t)'
      BY <1>1, <1>2, <1>4 DEF AppliedOf
    <3> QED
      BY <2>2, <3>1, <3>2
  <2> QED
    BY <2>1, <2>2
<1>6. RunnersInv'
  BY <1>2, <1>3, <1>4 DEF RunnersInv
<1> QED
  BY <1>5, <1>6 DEF IInv

\* What ends a commit.
LEMMA CommitStep ==
    ASSUME IInv, NEW t \in Txns, CommitEnds(t)
    PROVE  IInv'
PROOF
<1>1. RunnersInv /\ txn[t].phase = "committing"
  BY DEF IInv, CommitEnds
<1>2. CASE Apply(t) /\ SetPhase(t, "done") /\ Tell(t, "ok") /\ UNCHANGED lost
  BY <1>1, <1>2, SuccessStep
<1>3. CASE /\ Apply(t)
           /\ HandleTransactionError(t, "lost", FALSE)
           /\ lost' = lost \cup {t}
  <2>1. /\ \E S : applied' \in [Txns -> Seq(S)]
        /\ \A u \in Txns \ {t} : applied'[u] = applied[u]
    BY <1>1, <1>3, ApplyProperties
  <2> QED
    BY <1>1, <1>3, <2>1, ErrorStep
<1>4. ASSUME NEW code, HandleTransactionError(t, code, FALSE),
             UNCHANGED <<applied, lost>>
      PROVE  IInv'
  BY <1>1, <1>4, ErrorStep DEF RunnersInv
<1>5. CASE Rejected(t)
  BY <1>4, <1>5 DEF Rejected
<1>6. CASE /\ \E code \in {"lost", "permanent"} :
                 HandleTransactionError(t, code, FALSE)
           /\ UNCHANGED <<version, clock, others, applied, lost>>
  BY <1>4, <1>6
<1> QED
  BY <1>2, <1>3, <1>5, <1>6 DEF CommitEnds

\* What ends an update function.
LEMMA UpdateFunctionStep ==
    ASSUME IInv, NEW t \in Txns, FailUpdate(t) \/ ContinueCommit(t)
    PROVE  IInv'
PROOF
<1>1. /\ RunnersInv /\ txn[t].phase = "running" /\ UNCHANGED <<applied, lost>>
  BY DEF IInv, FailUpdate, ContinueCommit
<1>2. ASSUME NEW code, NEW permanently,
             HandleTransactionError(t, code, permanently)
      PROVE  IInv'
  BY <1>1, <1>2, ErrorStep DEF RunnersInv
<1>3. CASE FailUpdate(t)
  BY <1>2, <1>3 DEF FailUpdate
<1>4. CASE ContinueCommit(t)
  <2>1. CASE Tr(t).writeError
    BY <1>2, <1>4, <2>1 DEF ContinueCommit
  <2>2. CASE ~Tr(t).writeError
    <3>1. \E left, tr : txn' = [txn EXCEPT ![t] = Runner("committing", left, tr)]
      BY <1>4, <2>2 DEF ContinueCommit
    <3>2. told' = told
      BY <1>4, <2>2 DEF ContinueCommit
    <3>3. "committing" \in Phases \ {"done"}
      BY DEF Phases
    <3>4. applied' = applied /\ lost' = lost /\ txn[t].phase # "done"
      BY <1>1
    <3> QED
      BY <3>1, <3>2, <3>3, <3>4, QuietStep
  <2> QED
    BY <2>1, <2>2
<1> QED
  BY <1>3, <1>4

-----------------------------------------------------------------------------
LEMMA InitHolds == Init => IInv
PROOF
<1> SUFFICES ASSUME Init PROVE IInv
  OBVIOUS
<1>1. <<>> \in Seq({"ok", "error"}) /\ <<>> \in Seq({}) /\ Len(<<>>) = 0
  BY EmptySeq
<1>2. <<>> # <<"ok">>
  OBVIOUS
<1>3. \A t \in Txns : /\ txn[t] = Runner("new", kRetryCount, FreshTransaction)
                      /\ told[t] = <<>> /\ applied[t] = <<>>
  BY DEF Init
<1>4. RunnersInv
  BY <1>1, <1>3 DEF Init, RunnersInv, Runner, Phases
<1>5. \A t \in Txns : OutcomeOf(t)
  BY <1>3 DEF OutcomeOf, Runner
<1>6. \A t \in Txns : AppliedOf(t)
  BY <1>1, <1>2, <1>3 DEF AppliedOf
<1> QED
  BY <1>4, <1>5, <1>6 DEF IInv

LEMMA NextHolds == IInv /\ [Next]_vars => IInv'
PROOF
<1> SUFFICES ASSUME IInv, [Next]_vars PROVE IInv'
  OBVIOUS
<1>1. ASSUME NEW t \in Txns, RunTransaction(t) \/ StartAttempt(t) PROVE IInv'
  <2>1. PICK phase \in {"backoff", "running"} : SetPhase(t, phase)
    BY <1>1 DEF RunTransaction, StartAttempt
  <2>2. phase \in Phases \ {"done"} /\ txn[t].phase # "done"
    BY <1>1 DEF RunTransaction, StartAttempt, Phases
  <2> QED
    BY <1>1, <2>1, <2>2, QuietStep
       DEF RunTransaction, StartAttempt, SetPhase, SetRunner
<1>2. ASSUME NEW t \in Txns, NEW d \in Docs,
             \/ Lookup(t, d) \/ Update(t, d)
             \/ \E kind \in {"set", "delete"} : SetOrDelete(t, d, kind)
      PROVE  IInv'
  <2>1. \E tr : Operate(t, tr)
    BY <1>2 DEF Lookup, Update, SetOrDelete
  <2> QED
    BY <2>1, OperateStep
<1>3. ASSUME NEW d \in Docs, OtherCommit(d) PROVE IInv'
  BY <1>3 DEF OtherCommit, IInv, RunnersInv, OutcomeOf, AppliedOf
<1>4. CASE UNCHANGED vars
  BY <1>4 DEF vars, IInv, RunnersInv, OutcomeOf, AppliedOf
<1> QED
  BY <1>1, <1>2, <1>3, <1>4, UpdateFunctionStep, CommitStep DEF Next

\* The completion block of a transaction gets at most one result, success means
\* that its changes were applied, and unless an answer of the backend was lost
\* they were applied exactly when success was told
\* (TransactionRunner::HandleTransactionError and DispatchResult).
THEOREM ResultsAreTrue == Spec => []ResultIsTrue
PROOF
<1>1. IInv => ResultIsTrue
  <2> SUFFICES ASSUME IInv, NEW t \in Txns
               PROVE  /\ Len(told[t]) <= 1
                      /\ told[t] = <<"ok">> => applied[t] # <<>>
                      /\ t \notin lost => Len(applied[t]) =
                             (IF told[t] = <<"ok">> THEN 1 ELSE 0)
    BY DEF ResultIsTrue
  <2>1. OutcomeOf(t) /\ AppliedOf(t)
    BY DEF IInv
  <2>2. Len(<<>>) = 0 /\ Len(<<"ok">>) = 1 /\ Len(<<"error">>) = 1
    BY EmptySeq
  <2>3. <<"error">> # <<"ok">> /\ <<>> # <<"ok">>
    OBVIOUS
  <2>4. told[t] = <<>> \/ told[t] = <<"ok">> \/ told[t] = <<"error">>
    BY <2>1 DEF OutcomeOf
  <2>5. Len(told[t]) <= 1
    <3>1. CASE told[t] = <<>>
      BY <3>1
    <3>2. CASE told[t] = <<"ok">>
      BY <3>2
    <3>3. CASE told[t] = <<"error">>
      BY <3>3
    <3> QED
      BY <2>4, <3>1, <3>2, <3>3
  <2>6. told[t] = <<"ok">> => applied[t] # <<>>
    BY <2>1, <2>3 DEF OutcomeOf
  <2> QED
    BY <2>1, <2>5, <2>6 DEF AppliedOf
<1> QED
  BY <1>1, InitHolds, NextHolds, PTL DEF Spec
-----------------------------------------------------------------------------
(* What a commit guards.                                                   *)

\* What Transactions are.
TransactionRecords ==
    [reads : [Docs -> Versions \cup {Unread}], written : SUBSET Docs,
     mutations : Seq(Mutation), writeError : BOOLEAN,
     failed : Codes \cup {"none"}, ops : 0..MaxOps]

\* Mutation number i of ms is the first on document d.
FirstOn(ms, i, d) == ms[i].doc = d /\ \A j \in 1..(i - 1) : ms[j].doc # d

\* The first mutation on d accepts no version but the one that was read.
Guarded(tr, d) ==
    \E i \in DOMAIN tr.mutations :
        /\ FirstOn(tr.mutations, i, d)
        /\ tr.mutations[i].pre = UpdateTime(tr.reads[d])

\* A document counts as written when it has a mutation, and its first mutation
\* guards what was read of it.  After an error of a write nothing is committed.
ReadsOK(tr) ==
    ~tr.writeError =>
        \A d \in Docs :
            /\ d \in tr.written <=>
                   \E i \in DOMAIN tr.mutations : tr.mutations[i].doc = d
            /\ d \in tr.written /\ tr.reads[d] # Unread => Guarded(tr, d)

\* What is sent guards everything that was read.
CommitOK(tr) == \A d \in Docs : tr.reads[d] # Unread => Guarded(tr, d)

ReadsInv(t) ==
    /\ txn[t].phase = "running" => ReadsOK(Tr(t))
    /\ txn[t].phase = "committing" => CommitOK(Tr(t))

TypedInv ==
    /\ txn \in [Txns -> [phase : Phases, left : 0..kRetryCount,
                         tr : TransactionRecords]]
    /\ version \in [Docs -> Versions] /\ others \in 0..MaxOthers
    /\ told \in [Txns -> Seq({"ok", "error"})]
    /\ applied \in [Txns -> Seq(SUBSET Docs)] /\ lost \subseteq Txns

\* Every retry that was used up allows for one commit that was applied.
AppliedCount(t) ==
    Len(applied[t]) <= kRetryCount - txn[t].left
                           + (IF txn[t].phase = "done" THEN 1 ELSE 0)

\* The backend has given out one version for each commit.
AppliedPlaces ==
    {p \in Txns \X (1..(1 + kRetryCount)) : p[2] <= Len(applied[p[1]])}
ClockInv == clock = 1 + others + Cardinality(AppliedPlaces)

GuardsInv ==
    TypedInv /\ ClockInv /\ \A t \in Txns : AppliedCount(t) /\ ReadsInv(t)

-----------------------------------------------------------------------------
\* The least of a set of numbers.
LEMMA LeastNumber ==
    ASSUME NEW T \in SUBSET Nat, T # {}
    PROVE  \E x \in T : \A y \in T : x <= y
PROOF
<1> DEFINE R == {ss \in Nat \X Nat : ss[1] < ss[2]}
<1>1. IsWellFoundedOn(R, Nat)
  BY NatLessThanWellFounded DEF OpToRel
<1>2. \A x, y \in Nat : <<y, x>> \in R <=> y < x
  OBVIOUS
<1> HIDE DEF R
<1>3. PICK x \in T : \A y \in T : ~ (<<y, x>> \in R)
  BY <1>1, WFMin
<1>4. x \in Nat
  OBVIOUS
<1>5. ASSUME NEW y \in T PROVE x <= y
  <2>1. y \in Nat /\ ~ (<<y, x>> \in R)
    BY <1>3
  <2> QED
    BY <1>2, <1>4, <2>1
<1> QED
  BY <1>5

\* The first mutation on a document that has one.
LEMMA FirstExists ==
    ASSUME NEW ms \in Seq(Mutation), NEW d, NEW k \in DOMAIN ms, ms[k].doc = d
    PROVE  \E i \in DOMAIN ms : FirstOn(ms, i, d)
PROOF
<1> DEFINE T == {i \in DOMAIN ms : ms[i].doc = d}
<1>1. DOMAIN ms = 1..Len(ms) /\ Len(ms) \in Nat
  BY LenProperties
<1>2. T \in SUBSET Nat /\ T # {}
  BY <1>1
<1>3. PICK i \in T : \A j \in T : i <= j
  BY <1>2, LeastNumber
<1>4. i \in 1..Len(ms) /\ ms[i].doc = d
  BY <1>1, <1>3
<1>5. ASSUME NEW j \in 1..(i - 1) PROVE ms[j].doc # d
  <2>1. j \in 1..Len(ms) /\ ~ (i <= j)
    BY <1>1, <1>4
  <2> QED
    BY <1>1, <1>3, <2>1
<1> QED
  BY <1>1, <1>4, <1>5 DEF FirstOn

\* A finite set is put into a sequence as a whole.
LEMMA SetToSeqProperties ==
    ASSUME NEW S, IsFiniteSet(S)
    PROVE  /\ SetToSeq(S) \in Seq(S)
           /\ \A x \in S : \E i \in DOMAIN SetToSeq(S) : SetToSeq(S)[i] = x
PROOF
<1> DEFINE N == Cardinality(S)
<1>1. N \in Nat /\ ExistsBijection(1..N, S)
  BY FS_CardinalityType
<1>2. PICK f \in Bijection(1..N, S) : TRUE
  BY <1>1 DEF ExistsBijection
<1>3. f \in [1..N -> S] /\ IsInjective(f)
  BY <1>2 DEF Bijection, Injection, IsInjective
<1> DEFINE g == SetToSeq(S)
<1>4. g \in [1..N -> S] /\ IsInjective(g)
  BY <1>3 DEF SetToSeq
<1> HIDE DEF g
<1>5. g \in Injection(1..N, S)
  BY <1>4 DEF Injection, IsInjective
<1>6. IsFiniteSet(1..N) /\ Cardinality(1..N) = N
  BY <1>1, FS_Interval
<1>7. g \in Surjection(1..N, S)
  BY <1>5, <1>6, FS_Injection
<1>8. \A x \in S : \E i \in 1..N : g[i] = x
  BY <1>7 DEF Surjection
<1>9. g \in Seq(S) /\ DOMAIN g = 1..N
  BY <1>1, <1>4, SeqDef
<1> QED
  BY <1>8, <1>9 DEF g

-----------------------------------------------------------------------------
(* The calls of an update function.                                        *)

\* One more mutation leaves the ones before it where they are.
LEMMA AppendedMutation ==
    ASSUME NEW ms \in Seq(Mutation), NEW m \in Mutation
    PROVE  /\ Append(ms, m) \in Seq(Mutation)
           /\ DOMAIN Append(ms, m) = 1..(Len(ms) + 1) /\ DOMAIN ms = 1..Len(ms)
           /\ Len(ms) \in Nat
           /\ \A i \in 1..Len(ms) : Append(ms, m)[i] = ms[i]
           /\ Append(ms, m)[Len(ms) + 1] = m
PROOF
  BY AppendProperties, LenProperties

\* What was guarded stays guarded when mutations are added.
LEMMA StaysGuarded ==
    ASSUME NEW tr \in TransactionRecords, NEW new \in TransactionRecords,
           NEW d \in Docs, new.reads[d] = tr.reads[d], Guarded(tr, d),
           \A i \in DOMAIN tr.mutations :
               i \in DOMAIN new.mutations /\ new.mutations[i] = tr.mutations[i]
    PROVE  Guarded(new, d)
PROOF
<1>1. PICK i \in DOMAIN tr.mutations :
        /\ FirstOn(tr.mutations, i, d)
        /\ tr.mutations[i].pre = UpdateTime(tr.reads[d])
  BY DEF Guarded
<1>2. DOMAIN tr.mutations = 1..Len(tr.mutations) /\ Len(tr.mutations) \in Nat
  BY LenProperties DEF TransactionRecords
<1>3. i \in 1..Len(tr.mutations)
  BY <1>2
<1>4. \A j \in 1..(i - 1) : j \in DOMAIN tr.mutations
  BY <1>2, <1>3
<1>5. FirstOn(new.mutations, i, d)
  BY <1>1, <1>3, <1>2, <1>4 DEF FirstOn
<1> QED
  BY <1>1, <1>5, <1>2, <1>3 DEF Guarded

\* A call that goes wrong is noted.
LEMMA FailedCall ==
    ASSUME NEW tr \in TransactionRecords, tr.ops < MaxOps, ReadsOK(tr),
           NEW code \in Codes,
           NEW new, new = [[tr EXCEPT !.failed = code] EXCEPT !.ops = @ + 1]
    PROVE  new \in TransactionRecords /\ ReadsOK(new)
PROOF
<1>1. tr.ops + 1 \in 0..MaxOps
  BY TransactionBounds DEF TransactionRecords
<1>2. new \in TransactionRecords
  BY <1>1 DEF TransactionRecords
<1>3. /\ new.writeError = tr.writeError /\ new.written = tr.written
      /\ new.mutations = tr.mutations /\ new.reads = tr.reads
  BY DEF TransactionRecords
<1> QED
  BY <1>2, <1>3 DEF ReadsOK, Guarded

\* A document is read: nothing has been written yet.
LEMMA ReadCall ==
    ASSUME NEW tr \in TransactionRecords, tr.ops < MaxOps, ReadsOK(tr),
           tr.mutations = <<>>, NEW d \in Docs, NEW v \in Versions,
           NEW new, new = [[tr EXCEPT !.reads[d] = v] EXCEPT !.ops = @ + 1]
    PROVE  new \in TransactionRecords /\ ReadsOK(new)
PROOF
<1>1. tr.ops + 1 \in 0..MaxOps
  BY TransactionBounds DEF TransactionRecords
<1>2. [tr.reads EXCEPT ![d] = v] \in [Docs -> Versions \cup {Unread}]
  BY DEF TransactionRecords
<1>3. new = [[tr EXCEPT !.reads = [tr.reads EXCEPT ![d] = v]] EXCEPT !.ops = tr.ops + 1]
  BY DEF TransactionRecords
<1>4. new \in TransactionRecords
  BY <1>1, <1>2, <1>3 DEF TransactionRecords
<1>5. /\ new.writeError = tr.writeError /\ new.written = tr.written
      /\ new.mutations = tr.mutations
  BY DEF TransactionRecords
<1>6. DOMAIN tr.mutations = {}
  OBVIOUS
<1> QED
  BY <1>4, <1>5, <1>6 DEF ReadsOK

\* A write that fails is remembered, and nothing will be committed.
LEMMA FailedWrite ==
    ASSUME NEW tr \in TransactionRecords, tr.ops < MaxOps, NEW d \in Docs,
           NEW new, new = [[tr EXCEPT !.writeError = TRUE,
                                      !.written = @ \cup {d}] EXCEPT !.ops = @ + 1]
    PROVE  new \in TransactionRecords /\ ReadsOK(new)
PROOF
<1>1. tr.ops + 1 \in 0..MaxOps
  BY TransactionBounds DEF TransactionRecords
<1>2. new \in TransactionRecords
  BY <1>1 DEF TransactionRecords
<1>3. new.writeError = TRUE
  BY DEF TransactionRecords
<1> QED
  BY <1>2, <1>3 DEF ReadsOK

\* A Transaction with other mutations is one.
LEMMA WrittenRecord ==
    ASSUME NEW tr \in TransactionRecords, NEW more \in Seq(Mutation),
           NEW written \in SUBSET Docs, NEW ops \in 0..MaxOps
    PROVE  [[tr EXCEPT !.mutations = more, !.written = written]
                EXCEPT !.ops = ops] \in TransactionRecords
PROOF
  BY DEF TransactionRecords

\* A document is written.  The first write to one that was read accepts only
\* the version that was read.
LEMMA WriteCall ==
    ASSUME NEW tr \in TransactionRecords, tr.ops < MaxOps, ReadsOK(tr),
           NEW d \in Docs, NEW kind \in Kinds, NEW pre \in SUBSET Versions,
           d \notin tr.written /\ tr.reads[d] # Unread =>
               pre = UpdateTime(tr.reads[d]),
           NEW new, new = [Written(tr, d, kind, pre) EXCEPT !.ops = @ + 1]
    PROVE  new \in TransactionRecords /\ ReadsOK(new)
PROOF
<1> DEFINE m == [doc |-> d, kind |-> kind, pre |-> pre]
           n == Len(tr.mutations)
<1>1. m \in Mutation /\ m.doc = d /\ m.pre = pre
  BY DEF Mutation
<1>2. tr.mutations \in Seq(Mutation)
  BY DEF TransactionRecords
<1>3. new = [[tr EXCEPT !.mutations = Append(tr.mutations, m),
                        !.written = tr.written \cup {d}] EXCEPT !.ops = tr.ops + 1]
  BY DEF Written, TransactionRecords
<1> HIDE DEF m
<1>4. /\ Append(tr.mutations, m) \in Seq(Mutation)
      /\ DOMAIN Append(tr.mutations, m) = 1..(n + 1)
      /\ DOMAIN tr.mutations = 1..n /\ n \in Nat
      /\ \A i \in 1..n : Append(tr.mutations, m)[i] = tr.mutations[i]
      /\ Append(tr.mutations, m)[n + 1] = m
  BY <1>1, <1>2, AppendedMutation
<1>5. tr.ops + 1 \in 0..MaxOps
  BY TransactionBounds DEF TransactionRecords
<1>6. new \in TransactionRecords
  <2>1. PICK more : more = Append(tr.mutations, m)
    OBVIOUS
  <2>2. more \in Seq(Mutation)
    BY <1>4, <2>1
  <2>3. new = [[tr EXCEPT !.mutations = more,
                          !.written = tr.written \cup {d}] EXCEPT !.ops = tr.ops + 1]
    BY <1>3, <2>1
  <2>4. tr.written \cup {d} \in SUBSET Docs
    BY DEF TransactionRecords
  <2>5. [[tr EXCEPT !.mutations = more, !.written = tr.written \cup {d}]
            EXCEPT !.ops = tr.ops + 1] \in TransactionRecords
    BY <1>5, <2>2, <2>4, WrittenRecord
  <2> QED
    BY <2>3, <2>5
<1>7. /\ new.writeError = tr.writeError /\ new.written = tr.written \cup {d}
      /\ new.reads = tr.reads /\ new.mutations = Append(tr.mutations, m)
  BY <1>3 DEF TransactionRecords
<1> HIDE DEF n
<1>8. ASSUME ~tr.writeError, NEW e \in Docs
      PROVE  /\ e \in new.written <=>
                    \E i \in DOMAIN new.mutations : new.mutations[i].doc = e
             /\ e \in new.written /\ new.reads[e] # Unread => Guarded(new, e)
  <2>1. /\ e \in tr.written <=>
               \E i \in 1..n : tr.mutations[i].doc = e
        /\ e \in tr.written /\ tr.reads[e] # Unread => Guarded(tr, e)
    BY <1>4, <1>8 DEF ReadsOK
  <2>2. /\ DOMAIN new.mutations = 1..(n + 1) /\ new.mutations[n + 1] = m
        /\ \A i \in 1..n : i \in 1..(n + 1) /\ new.mutations[i] = tr.mutations[i]
        /\ n + 1 \in 1..(n + 1)
    BY <1>4, <1>7
  <2>3. \A i \in 1..(n + 1) : i \in 1..n \/ i = n + 1
    BY <1>4
  <2>4. ASSUME Guarded(tr, e) PROVE Guarded(new, e)
    <3>1. \A i \in DOMAIN tr.mutations :
             i \in DOMAIN new.mutations /\ new.mutations[i] = tr.mutations[i]
      BY <1>4, <2>2
    <3>2. new.reads[e] = tr.reads[e]
      BY <1>7
    <3> QED
      BY <1>6, <1>8, <2>4, <3>1, <3>2, StaysGuarded
  <2>5. CASE e = d
    <3>1. new.mutations[n + 1].doc = e
      BY <1>1, <2>2, <2>5
    <3>2. CASE e \in tr.written
      BY <1>7, <2>1, <2>2, <2>4, <2>5, <3>1, <3>2
    <3>3. CASE e \notin tr.written
      <4>1. ASSUME tr.reads[e] # Unread PROVE Guarded(new, e)
        <5>1. new.mutations[n + 1].pre = UpdateTime(new.reads[e])
          BY <1>1, <1>7, <2>2, <2>5, <3>3, <4>1
        <5>2. \A j \in 1..n : new.mutations[j].doc # e
          BY <2>1, <2>2, <3>3
        <5>3. (n + 1) - 1 = n
          BY <1>4
        <5> QED
          BY <2>2, <3>1, <5>1, <5>2, <5>3 DEF Guarded, FirstOn
      <4> QED
        BY <1>7, <2>2, <2>5, <3>1, <4>1
    <3> QED
      BY <3>2, <3>3
  <2>6. CASE e # d
    <3>1. e \in new.written <=> e \in tr.written
      BY <1>7, <2>6
    <3>2. (\E i \in 1..(n + 1) : new.mutations[i].doc = e)
             <=> \E i \in 1..n : tr.mutations[i].doc = e
      BY <1>1, <2>2, <2>3, <2>6
    <3> QED
      BY <1>7, <2>1, <2>2, <2>4, <3>1, <3>2
  <2> QED
    BY <2>5, <2>6
<1> QED
  BY <1>6, <1>7, <1>8 DEF ReadsOK

-----------------------------------------------------------------------------
(* Commit.                                                                 *)

\* What is verified: the documents that were read and have no mutation.
LEMMA VerifiedMutations ==
    ASSUME NEW tr \in TransactionRecords, ReadsOK(tr), ~tr.writeError,
           NEW unwritten \in SUBSET Docs,
           \A d \in unwritten : /\ tr.reads[d] # Unread
                                /\ \A i \in DOMAIN tr.mutations :
                                       tr.mutations[i].doc # d,
           NEW V, V = {[doc |-> d, kind |-> "verify",
                        pre |-> CreatePrecondition(tr, d)] : d \in unwritten}
    PROVE  /\ IsFiniteSet(V)
           /\ V \subseteq Mutation
           /\ \A m \in V : m.doc \in unwritten
                           /\ m.pre = UpdateTime(tr.reads[m.doc])
           /\ \A d \in unwritten : \E m \in V : m.doc = d
PROOF
<1>1. IsFiniteSet(unwritten)
  BY TransactionsFinite, FS_Subset
<1>2. \A d \in unwritten : /\ CreatePrecondition(tr, d) = UpdateTime(tr.reads[d])
                           /\ UpdateTime(tr.reads[d]) \subseteq Versions
  <2> TAKE d \in unwritten
  <2>1. d \in Docs /\ d \notin tr.written /\ tr.reads[d] # Unread
    BY DEF ReadsOK
  <2>2. tr.reads[d] \in Versions
    BY <2>1 DEF TransactionRecords
  <2> QED
    BY <2>1, <2>2 DEF CreatePrecondition, UpdateTime
<1> DEFINE Verify(d) == [doc |-> d, kind |-> "verify",
                         pre |-> CreatePrecondition(tr, d)]
<1>3. V = {Verify(d) : d \in unwritten}
  OBVIOUS
<1>4. \A d \in unwritten : /\ Verify(d) \in Mutation /\ Verify(d).doc = d
                           /\ Verify(d).pre = UpdateTime(tr.reads[d])
  BY <1>2 DEF Mutation, Kinds
<1> HIDE DEF Verify
<1>5. IsFiniteSet(V)
  <2>1. PICK f : f = [d \in unwritten |-> Verify(d)]
    OBVIOUS
  <2>2. f \in Surjection(unwritten, V)
    BY <1>3, <2>1 DEF Surjection
  <2> QED
    BY <1>1, <2>2, FS_Surjection
<1> QED
  BY <1>3, <1>4, <1>5

\* A new Transaction has neither read nor written.
LEMMA FreshProperties ==
    /\ FreshTransaction \in TransactionRecords
    /\ ReadsOK(FreshTransaction) /\ CommitOK(FreshTransaction)
PROOF
<1>1. <<>> \in Seq(Mutation) /\ DOMAIN <<>> = {}
  BY EmptySeq
<1>2. 0 \in 0..MaxOps
  BY TransactionBounds
<1>3. FreshTransaction \in TransactionRecords
  BY <1>1, <1>2 DEF FreshTransaction, TransactionRecords
<1>4. /\ FreshTransaction.written = {} /\ FreshTransaction.mutations = <<>>
      /\ \A d \in Docs : FreshTransaction.reads[d] = Unread
  BY DEF FreshTransaction
<1> QED
  BY <1>1, <1>3, <1>4 DEF ReadsOK, CommitOK

\* What is kept of a Transaction that is being committed.
Sent(tr) == [FreshTransaction EXCEPT !.reads = tr.reads,
                                     !.mutations = CommitMutations(tr)]

\* It is a Transaction, of the mutations that are sent.
LEMMA SentProperties ==
    ASSUME NEW tr \in TransactionRecords, CommitMutations(tr) \in Seq(Mutation)
    PROVE  /\ Sent(tr) \in TransactionRecords
           /\ Sent(tr).reads = tr.reads
           /\ Sent(tr).mutations = CommitMutations(tr)
PROOF
<1>1. PICK cm \in Seq(Mutation) : cm = CommitMutations(tr)
  OBVIOUS
<1>2. PICK fresh \in TransactionRecords : fresh = FreshTransaction
  BY FreshProperties
<1>3. Sent(tr) = [fresh EXCEPT !.reads = tr.reads, !.mutations = cm]
  BY <1>1, <1>2 DEF Sent
<1>4. /\ [fresh EXCEPT !.reads = tr.reads, !.mutations = cm] \in TransactionRecords
      /\ [fresh EXCEPT !.reads = tr.reads, !.mutations = cm].reads = tr.reads
      /\ [fresh EXCEPT !.reads = tr.reads, !.mutations = cm].mutations = cm
  BY DEF TransactionRecords
<1> QED
  BY <1>1, <1>3, <1>4

\* The mutations of a Transaction, and then those that verify what was only
\* read: everything that was read is guarded.
LEMMA CommitGuards ==
    ASSUME NEW tr \in TransactionRecords, ReadsOK(tr), ~tr.writeError
    PROVE  Sent(tr) \in TransactionRecords /\ CommitOK(Sent(tr))
PROOF
<1> DEFINE unwritten == {d \in Docs : /\ tr.reads[d] # Unread
                                      /\ \A i \in DOMAIN tr.mutations :
                                             tr.mutations[i].doc # d}
           V == {[doc |-> d, kind |-> "verify",
                  pre |-> CreatePrecondition(tr, d)] : d \in unwritten}
           vs == SetToSeq(V)
           ms == tr.mutations
           cm == CommitMutations(tr)
<1>1. cm = ms \o vs
  BY DEF CommitMutations
<1>2. /\ unwritten \in SUBSET Docs
      /\ \A d \in unwritten : /\ tr.reads[d] # Unread
                              /\ \A i \in DOMAIN tr.mutations :
                                     tr.mutations[i].doc # d
      /\ \A d \in Docs \ unwritten : tr.reads[d] # Unread =>
             \E i \in DOMAIN tr.mutations : tr.mutations[i].doc = d
  OBVIOUS
<1> HIDE DEF unwritten
<1>3. /\ IsFiniteSet(V)
      /\ V \subseteq Mutation
      /\ \A m \in V : m.doc \in unwritten
                      /\ m.pre = UpdateTime(tr.reads[m.doc])
      /\ \A d \in unwritten : \E m \in V : m.doc = d
  BY <1>2, VerifiedMutations
<1> HIDE DEF V
<1>4. /\ vs \in Seq(V)
      /\ \A x \in V : \E i \in DOMAIN vs : vs[i] = x
  BY <1>3, SetToSeqProperties
<1> HIDE DEF vs
<1>5. vs \in Seq(Mutation)
  <2>1. vs \in [1..Len(vs) -> V] /\ Len(vs) \in Nat
    BY <1>4, LenProperties
  <2>2. vs \in [1..Len(vs) -> Mutation]
    BY <1>3, <2>1
  <2> QED
    BY <2>1, <2>2, SeqDef
<1>6. ms \in Seq(Mutation)
  BY DEF TransactionRecords
<1> HIDE DEF ms, cm
<1>7. /\ cm \in Seq(Mutation) /\ Len(cm) = Len(ms) + Len(vs)
      /\ \A i \in 1..Len(cm) : cm[i] = IF i <= Len(ms) THEN ms[i]
                                       ELSE vs[i - Len(ms)]
      /\ Len(ms) \in Nat /\ Len(vs) \in Nat
      /\ DOMAIN ms = 1..Len(ms) /\ DOMAIN vs = 1..Len(vs)
      /\ DOMAIN cm = 1..Len(cm)
  BY <1>1, <1>5, <1>6, ConcatProperties, LenProperties
<1>8. PICK new : new = Sent(tr)
  OBVIOUS
<1>9. new \in TransactionRecords /\ new.reads = tr.reads /\ new.mutations = cm
  BY <1>7, <1>8, SentProperties DEF cm
<1>10. \A i \in 1..Len(ms) : i \in 1..Len(cm) /\ cm[i] = ms[i]
  BY <1>7
<1>11. ASSUME NEW d \in Docs, tr.reads[d] # Unread
       PROVE  Guarded(new, d)
  <2>1. CASE d \notin unwritten
    <3>1. Guarded(tr, d)
      BY <1>2, <1>11, <2>1 DEF ReadsOK
    <3>2. new.reads[d] = tr.reads[d]
      BY <1>9
    <3>3. \A i \in DOMAIN tr.mutations :
             i \in DOMAIN new.mutations /\ new.mutations[i] = tr.mutations[i]
      BY <1>7, <1>9, <1>10 DEF ms
    <3> QED
      BY <1>9, <3>1, <3>2, <3>3, StaysGuarded
  <2>2. CASE d \in unwritten
    <3>1. PICK j \in 1..Len(vs) : vs[j].doc = d
      BY <1>3, <1>4, <1>7, <2>2
    <3>2. /\ Len(ms) + j \in DOMAIN cm
          /\ cm[Len(ms) + j].doc = d
      <4>1. /\ Len(ms) + j \in 1..Len(cm) /\ ~ (Len(ms) + j <= Len(ms))
            /\ (Len(ms) + j) - Len(ms) = j
        BY <1>7
      <4> QED
        BY <1>7, <3>1, <4>1
    <3>3. PICK i \in DOMAIN cm : FirstOn(cm, i, d)
      BY <1>7, <3>2, FirstExists
    <3>4. i \in 1..Len(cm) /\ cm[i].doc = d
      BY <1>7, <3>3 DEF FirstOn
    <3>5. ~ (i <= Len(ms))
      <4>1. SUFFICES ASSUME i <= Len(ms) PROVE FALSE
        OBVIOUS
      <4>2. i \in 1..Len(ms) /\ ms[i].doc = d
        BY <1>7, <3>4, <4>1
      <4> QED
        BY <1>2, <1>7, <2>2, <4>2 DEF ms
    <3>6. cm[i] = vs[i - Len(ms)] /\ i - Len(ms) \in 1..Len(vs)
      BY <1>7, <3>4, <3>5
    <3>7. vs[i - Len(ms)] \in V
      BY <1>4, <1>7, <3>6, ElementOfSeq
    <3>8. cm[i].pre = UpdateTime(tr.reads[d])
      BY <1>3, <3>4, <3>6, <3>7
    <3> QED
      BY <1>9, <3>3, <3>8 DEF Guarded
  <2> QED
    BY <2>1, <2>2
<1> QED
  BY <1>8, <1>9, <1>11 DEF CommitOK

\* A commit that the backend accepts finds what was read as it was read.
LEMMA AcceptedIsCurrent ==
    ASSUME NEW tr \in TransactionRecords, CommitOK(tr), Acceptable(tr.mutations),
           NEW d \in Docs, tr.reads[d] # Unread
    PROVE  version[d] = tr.reads[d]
PROOF
<1>1. PICK i \in DOMAIN tr.mutations :
        /\ FirstOn(tr.mutations, i, d)
        /\ tr.mutations[i].pre = UpdateTime(tr.reads[d])
  BY DEF CommitOK, Guarded
<1>2. AfterMutations(tr.mutations, i - 1)[d] \in {tr.reads[d]}
  BY <1>1 DEF Acceptable, FirstOn, UpdateTime
<1>3. Writes(tr.mutations, i - 1, d) = {}
  BY <1>1 DEF Writes, FirstOn
<1>4. AfterMutations(tr.mutations, i - 1)[d] = version[d]
  BY <1>3 DEF AfterMutations
<1> QED
  BY <1>2, <1>4

-----------------------------------------------------------------------------
(* The steps.                                                              *)

\* The versions that the backend can have given out.
LEMMA ClockBounded ==
    ASSUME NEW P \in SUBSET (Txns \X (1..(1 + kRetryCount))), NEW o \in 0..MaxOthers
    PROVE  /\ IsFiniteSet(P) /\ Cardinality(P) \in Nat
           /\ 1 + o + Cardinality(P) \in Versions /\ 0 \in Versions
PROOF
<1> DEFINE N == Cardinality(Txns) * (1 + kRetryCount)
<1>1. kRetryCount \in Nat /\ MaxOthers \in Nat
  BY TransactionBounds
<1>2. IsFiniteSet(Txns)
  BY TransactionsFinite
<1>3. /\ IsFiniteSet(1..(1 + kRetryCount))
      /\ Cardinality(1..(1 + kRetryCount)) = 1 + kRetryCount
  BY <1>1, FS_Interval
<1>4. /\ IsFiniteSet(Txns \X (1..(1 + kRetryCount)))
      /\ Cardinality(Txns \X (1..(1 + kRetryCount))) = N
  BY <1>2, <1>3, FS_Product
<1>5. IsFiniteSet(P) /\ Cardinality(P) <= N
  BY <1>4, FS_Subset
<1>6. Cardinality(P) \in Nat /\ N \in Nat
  BY <1>4, <1>5, FS_CardinalityType
<1>7. Versions = 0..(1 + MaxOthers + N)
  BY DEF Versions
<1> HIDE DEF N
<1> QED
  BY <1>1, <1>5, <1>6, <1>7

\* The clock is one of them.
LEMMA ClockTyped == TypedInv /\ ClockInv => clock \in Versions
PROOF
<1> SUFFICES ASSUME TypedInv, ClockInv PROVE clock \in Versions
  OBVIOUS
<1>1. AppliedPlaces \in SUBSET (Txns \X (1..(1 + kRetryCount)))
  BY DEF AppliedPlaces
<1>2. others \in 0..MaxOthers
  BY DEF TypedInv
<1>3. PICK o \in 0..MaxOthers : o = others
  BY <1>2
<1>4. PICK P \in SUBSET (Txns \X (1..(1 + kRetryCount))) : P = AppliedPlaces
  BY <1>1
<1>5. 1 + o + Cardinality(P) \in Versions
  BY ClockBounded
<1> QED
  BY <1>3, <1>4, <1>5 DEF ClockInv

\* One transaction moves; its runner, and what was applied of it, are right.
LEMMA TransactionStep ==
    ASSUME GuardsInv, NEW t \in Txns, NEW phase \in Phases,
           NEW left \in 0..kRetryCount, NEW tr \in TransactionRecords,
           txn' = [txn EXCEPT ![t] = Runner(phase, left, tr)],
           phase = "running" => ReadsOK(tr),
           phase = "committing" => CommitOK(tr),
           told' \in [Txns -> Seq({"ok", "error"})], lost' \subseteq Txns,
           others' = others, version' \in [Docs -> Versions], ClockInv',
           applied' \in [Txns -> Seq(SUBSET Docs)],
           \A u \in Txns \ {t} : applied'[u] = applied[u],
           Len(applied'[t]) <= kRetryCount - left + (IF phase = "done" THEN 1 ELSE 0)
    PROVE  GuardsInv'
PROOF
<1> DEFINE Records == [phase : Phases, left : 0..kRetryCount, tr : TransactionRecords]
<1>1. TypedInv
  BY DEF GuardsInv
<1>2. PICK r : r = Runner(phase, left, tr)
  OBVIOUS
<1>3. /\ r \in Records
      /\ r.phase = phase /\ r.left = left /\ r.tr = tr
  BY <1>2 DEF Runner
<1>4. txn' = [txn EXCEPT ![t] = r]
  BY <1>2
<1> HIDE DEF Records
<1>5. txn \in [Txns -> Records]
  BY <1>1 DEF TypedInv, Records
<1>6. /\ txn' \in [Txns -> Records] /\ txn'[t] = r
      /\ \A u \in Txns \ {t} : txn'[u] = txn[u]
  BY <1>3, <1>4, <1>5
<1>7. TypedInv'
  BY <1>1, <1>6 DEF TypedInv, Records
<1>8. ASSUME NEW u \in Txns PROVE AppliedCount(u)' /\ ReadsInv(u)'
  <2>1. CASE u = t
    BY <1>3, <1>6, <2>1 DEF AppliedCount, ReadsInv, Tr
  <2>2. CASE u # t
    <3>1. AppliedCount(u) /\ ReadsInv(u)
      BY DEF GuardsInv
    <3> QED
      BY <1>6, <2>2, <3>1 DEF AppliedCount, ReadsInv, Tr
  <2> QED
    BY <2>1, <2>2
<1> QED
  BY <1>7, <1>8 DEF GuardsInv

\* A runner of the invariant, and how much was applied of it.
LEMMA RunnerTyped ==
    ASSUME GuardsInv, NEW t \in Txns
    PROVE  /\ txn[t].phase \in Phases /\ txn[t].left \in 0..kRetryCount
           /\ Tr(t) \in TransactionRecords
           /\ applied[t] \in Seq(SUBSET Docs) /\ Len(applied[t]) \in Nat
           /\ txn[t].phase # "done" => Len(applied[t]) <= kRetryCount - txn[t].left
           /\ kRetryCount \in Nat
PROOF
<1>1. TypedInv /\ AppliedCount(t)
  BY DEF GuardsInv
<1>2. txn[t] \in [phase : Phases, left : 0..kRetryCount, tr : TransactionRecords]
  BY <1>1 DEF TypedInv
<1>3. applied[t] \in Seq(SUBSET Docs) /\ Len(applied[t]) \in Nat
  BY <1>1, LenProperties DEF TypedInv
<1>4. /\ txn[t].phase \in Phases /\ txn[t].left \in 0..kRetryCount
      /\ txn[t].tr \in TransactionRecords
  BY <1>2
<1>5. kRetryCount \in Nat
  BY TransactionBounds
<1> QED
  BY <1>1, <1>3, <1>4, <1>5 DEF AppliedCount, Tr

\* A runner moves on and nothing is applied.
LEMMA MoveStep ==
    ASSUME GuardsInv, NEW t \in Txns, NEW phase \in Phases,
           NEW left \in 0..kRetryCount, NEW tr \in TransactionRecords,
           txn' = [txn EXCEPT ![t] = Runner(phase, left, tr)],
           txn[t].phase # "done", left <= txn[t].left,
           phase = "running" => ReadsOK(tr),
           phase = "committing" => CommitOK(tr),
           told' \in [Txns -> Seq({"ok", "error"})],
           UNCHANGED <<version, clock, others, applied, lost>>
    PROVE  GuardsInv'
PROOF
<1>1. TypedInv /\ ClockInv
  BY DEF GuardsInv
<1>2. /\ lost' \subseteq Txns /\ version' \in [Docs -> Versions]
      /\ applied' \in [Txns -> Seq(SUBSET Docs)]
      /\ \A u \in Txns \ {t} : applied'[u] = applied[u]
  BY <1>1 DEF TypedInv
<1>3. ClockInv'
  BY <1>1 DEF ClockInv, AppliedPlaces
<1>4. Len(applied'[t]) <= kRetryCount - left + (IF phase = "done" THEN 1 ELSE 0)
  <2>1. /\ Len(applied[t]) \in Nat /\ Len(applied[t]) <= kRetryCount - txn[t].left
        /\ txn[t].left \in 0..kRetryCount /\ kRetryCount \in Nat
    BY RunnerTyped
  <2>2. Len(applied[t]) <= kRetryCount - left
    BY <2>1
  <2>3. left \in Int
    OBVIOUS
  <2>4. CASE phase = "done"
    BY <2>1, <2>2, <2>3, <2>4
  <2>5. CASE phase # "done"
    BY <2>1, <2>2, <2>3, <2>5
  <2> QED
    BY <2>4, <2>5
<1> QED
  BY <1>2, <1>3, <1>4, TransactionStep

\* What is told is one more result.
LEMMA ToldTyped ==
    ASSUME GuardsInv, NEW t \in Txns, NEW result \in {"ok", "error"}
    PROVE  /\ told \in [Txns -> Seq({"ok", "error"})]
           /\ Tell(t, result) => told' \in [Txns -> Seq({"ok", "error"})]
PROOF
<1>1. told \in [Txns -> Seq({"ok", "error"})]
  BY DEF GuardsInv, TypedInv
<1>2. Append(told[t], result) \in Seq({"ok", "error"})
  BY <1>1, AppendProperties
<1> QED
  BY <1>1, <1>2 DEF Tell

\* HandleTransactionError uses up a retry or is the end.
LEMMA ErrorMoves ==
    ASSUME GuardsInv, NEW t \in Txns, NEW code, NEW permanently,
           HandleTransactionError(t, code, permanently)
    PROVE  /\ told' \in [Txns -> Seq({"ok", "error"})]
           /\ \E phase \in {"backoff", "done"}, left \in 0..kRetryCount :
                 /\ txn' = [txn EXCEPT ![t] = Runner(phase, left, FreshTransaction)]
                 /\ phase = "backoff" => left = txn[t].left - 1
                 /\ phase = "done" => left = txn[t].left
PROOF
<1>1. txn[t].left \in 0..kRetryCount /\ kRetryCount \in Nat
  BY RunnerTyped
<1>2. CASE SetPhase(t, "done") /\ Tell(t, "error")
  <2>1. told' \in [Txns -> Seq({"ok", "error"})]
    BY <1>2, ToldTyped
  <2>2. txn' = [txn EXCEPT ![t] = Runner("done", txn[t].left, FreshTransaction)]
    BY <1>2 DEF SetPhase, SetRunner
  <2> QED
    BY <1>1, <2>1, <2>2
<1>3. CASE txn[t].left > 0 /\ SetRunner(t, "backoff", txn[t].left - 1) /\ UNCHANGED told
  <2>1. told' \in [Txns -> Seq({"ok", "error"})]
    BY <1>3, ToldTyped
  <2>2. PICK left : left = txn[t].left - 1
    OBVIOUS
  <2>3. left \in 0..kRetryCount
    BY <1>1, <1>3, <2>2
  <2>4. txn' = [txn EXCEPT ![t] = Runner("backoff", left, FreshTransaction)]
    BY <1>3, <2>2 DEF SetRunner
  <2> QED
    BY <2>1, <2>2, <2>3, <2>4
<1> QED
  BY <1>2, <1>3 DEF HandleTransactionError

\* ... and when nothing is applied with it, the invariant holds.
LEMMA ErrorGuards ==
    ASSUME GuardsInv, NEW t \in Txns, NEW code, NEW permanently,
           HandleTransactionError(t, code, permanently), txn[t].phase # "done",
           UNCHANGED <<version, clock, others, applied, lost>>
    PROVE  GuardsInv'
PROOF
<1>1. told' \in [Txns -> Seq({"ok", "error"})]
  BY ErrorMoves
<1>2. PICK phase \in {"backoff", "done"}, left \in 0..kRetryCount :
        /\ txn' = [txn EXCEPT ![t] = Runner(phase, left, FreshTransaction)]
        /\ phase = "backoff" => left = txn[t].left - 1
        /\ phase = "done" => left = txn[t].left
  BY ErrorMoves
<1>3. txn[t].left \in 0..kRetryCount
  BY RunnerTyped
<1>4. /\ left <= txn[t].left /\ phase \in Phases
      /\ phase # "running" /\ phase # "committing"
  BY <1>2, <1>3 DEF Phases
<1> QED
  BY <1>1, <1>2, <1>4, FreshProperties, MoveStep

\* What a commit writes is a set of documents.
LEMMA WrittenDocs ==
    ASSUME NEW ms \in Seq(Mutation)
    PROVE  {ms[i].doc : i \in {j \in DOMAIN ms : ms[j].kind # "verify"}} \in SUBSET Docs
PROOF
<1>1. \A i \in DOMAIN ms : ms[i].doc \in Docs
  <2> TAKE i \in DOMAIN ms
  <2>1. ms[i] \in Mutation
    BY LenProperties, ElementOfSeq
  <2> QED
    BY <2>1 DEF Mutation
<1> QED
  BY <1>1

\* A commit is applied: there is one more place, and one more version.
LEMMA ApplyGuards ==
    ASSUME GuardsInv, NEW t \in Txns, txn[t].phase = "committing", Apply(t)
    PROVE  /\ version' \in [Docs -> Versions] /\ ClockInv' /\ others' = others
           /\ applied' \in [Txns -> Seq(SUBSET Docs)]
           /\ \A u \in Txns \ {t} : applied'[u] = applied[u]
           /\ Len(applied'[t]) = Len(applied[t]) + 1
PROOF
<1>1. /\ Tr(t) \in TransactionRecords /\ applied[t] \in Seq(SUBSET Docs)
      /\ Len(applied[t]) \in Nat /\ kRetryCount \in Nat
      /\ Len(applied[t]) <= kRetryCount - txn[t].left
      /\ txn[t].left \in 0..kRetryCount
  BY RunnerTyped
<1>2. TypedInv /\ ClockInv
  BY DEF GuardsInv
<1>3. Tr(t).mutations \in Seq(Mutation)
  BY <1>1 DEF TransactionRecords
<1>4. PICK D \in SUBSET Docs : applied' = [applied EXCEPT ![t] = Append(@, D)]
  BY <1>3, WrittenDocs DEF Apply
<1>5. /\ Append(applied[t], D) \in Seq(SUBSET Docs)
      /\ Len(Append(applied[t], D)) = Len(applied[t]) + 1
  BY <1>1, <1>4, AppendProperties
<1>6. /\ applied \in [Txns -> Seq(SUBSET Docs)]
      /\ clock' = clock + 1 /\ others' = others
      /\ version' = AfterMutations(Tr(t).mutations, Len(Tr(t).mutations))
  BY <1>2 DEF TypedInv, Apply
<1>7. /\ applied' \in [Txns -> Seq(SUBSET Docs)]
      /\ \A u \in Txns \ {t} : applied'[u] = applied[u]
      /\ Len(applied'[t]) = Len(applied[t]) + 1
  BY <1>4, <1>5, <1>6
<1> DEFINE k == Len(applied[t])
           places == AppliedPlaces
<1>8. k + 1 \in 1..(1 + kRetryCount) /\ k \in Nat
  BY <1>1
<1>9. AppliedPlaces' = places \cup {<<t, k + 1>>} /\ <<t, k + 1>> \notin places
  <2>1. \A u \in Txns : \A i \in 1..(1 + kRetryCount) :
           i <= Len(applied'[u]) <=>
               i <= Len(applied[u]) \/ <<u, i>> = <<t, k + 1>>
    <3> SUFFICES ASSUME NEW u \in Txns, NEW i \in 1..(1 + kRetryCount)
                 PROVE  i <= Len(applied'[u]) <=>
                           i <= Len(applied[u]) \/ <<u, i>> = <<t, k + 1>>
      OBVIOUS
    <3>1. i \in Int
      BY <1>1
    <3>2. CASE u = t
      BY <1>7, <1>8, <3>1, <3>2
    <3>3. CASE u # t
      BY <1>7, <3>3
    <3> QED
      BY <3>2, <3>3
  <2>2. ASSUME NEW p \in Txns \X (1..(1 + kRetryCount))
        PROVE  p \in AppliedPlaces' <=> p \in places \/ p = <<t, k + 1>>
    <3>1. PICK u \in Txns, i \in 1..(1 + kRetryCount) : p = <<u, i>>
      OBVIOUS
    <3>2. i <= Len(applied'[u]) <=> i <= Len(applied[u]) \/ p = <<t, k + 1>>
      BY <2>1, <3>1
    <3> HIDE DEF k
    <3> QED
      BY <3>1, <3>2 DEF AppliedPlaces
  <2>3. <<t, k + 1>> \in Txns \X (1..(1 + kRetryCount))
    BY <1>8
  <2>4. /\ AppliedPlaces' \subseteq Txns \X (1..(1 + kRetryCount))
        /\ places \subseteq Txns \X (1..(1 + kRetryCount))
    BY DEF AppliedPlaces
  <2>5. <<t, k + 1>> \notin places
    BY <1>8 DEF AppliedPlaces
  <2> HIDE DEF k, places
  <2> QED
    BY <2>2, <2>3, <2>4, <2>5
<1>10. /\ IsFiniteSet(places) /\ Cardinality(places) \in Nat
       /\ others \in 0..MaxOthers
  BY <1>2, ClockBounded DEF AppliedPlaces, TypedInv
<1>11. Cardinality(AppliedPlaces') = Cardinality(places) + 1
  BY <1>9, <1>10, FS_AddElement
<1>12. ClockInv'
  <2>1. clock = 1 + others + Cardinality(places)
    BY <1>2 DEF ClockInv
  <2>2. others \in Int
    BY <1>10, TransactionBounds
  <2>3. clock + 1 = 1 + others + (Cardinality(places) + 1)
    BY <1>10, <2>1, <2>2
  <2> HIDE DEF places
  <2> QED
    BY <1>6, <1>11, <2>3 DEF ClockInv
<1>13. clock + 1 \in Versions
  <2>1. AppliedPlaces' \in SUBSET (Txns \X (1..(1 + kRetryCount)))
    BY DEF AppliedPlaces
  <2>2. 1 + others + Cardinality(AppliedPlaces') \in Versions
    BY <1>10, <2>1, ClockBounded
  <2> QED
    BY <1>6, <1>12, <2>2 DEF ClockInv
<1>14. version' \in [Docs -> Versions]
  <2>1. 0 \in Versions
    BY <1>10, ClockBounded DEF AppliedPlaces
  <2>2. version \in [Docs -> Versions]
    BY <1>2 DEF TypedInv
  <2> QED
    BY <1>6, <1>13, <2>1, <2>2 DEF AfterMutations
<1> QED
  BY <1>6, <1>7, <1>12, <1>14

\* A commit that ends.
LEMMA CommitEndsGuards ==
    ASSUME GuardsInv, NEW t \in Txns, CommitEnds(t)
    PROVE  GuardsInv'
PROOF
<1>1. /\ txn[t].phase = "committing" /\ txn[t].left \in 0..kRetryCount
      /\ Len(applied[t]) \in Nat /\ Len(applied[t]) <= kRetryCount - txn[t].left
      /\ kRetryCount \in Nat
  BY RunnerTyped DEF CommitEnds
<1>2. lost \subseteq Txns
  BY DEF GuardsInv, TypedInv
<1>3. CASE Apply(t) /\ SetPhase(t, "done") /\ Tell(t, "ok") /\ UNCHANGED lost
  <2>1. /\ version' \in [Docs -> Versions] /\ ClockInv' /\ others' = others
        /\ applied' \in [Txns -> Seq(SUBSET Docs)]
        /\ \A u \in Txns \ {t} : applied'[u] = applied[u]
        /\ Len(applied'[t]) = Len(applied[t]) + 1
    BY <1>1, <1>3, ApplyGuards
  <2>2. told' \in [Txns -> Seq({"ok", "error"})]
    BY <1>3, ToldTyped
  <2>3. txn' = [txn EXCEPT ![t] = Runner("done", txn[t].left, FreshTransaction)]
    BY <1>3 DEF SetPhase, SetRunner
  <2>4. Len(applied'[t]) <= kRetryCount - txn[t].left + 1
    BY <1>1, <2>1
  <2>5. "done" \in Phases /\ lost' \subseteq Txns
    BY <1>2, <1>3 DEF Phases
  <2>6. Len(applied'[t]) <= kRetryCount - txn[t].left
                               + (IF "done" = "done" THEN 1 ELSE 0)
    BY <2>4
  <2> QED
    BY <1>1, <2>1, <2>2, <2>3, <2>5, <2>6, FreshProperties, TransactionStep
<1>4. CASE /\ Apply(t)
           /\ HandleTransactionError(t, "lost", FALSE)
           /\ lost' = lost \cup {t}
  <2>1. /\ version' \in [Docs -> Versions] /\ ClockInv' /\ others' = others
        /\ applied' \in [Txns -> Seq(SUBSET Docs)]
        /\ \A u \in Txns \ {t} : applied'[u] = applied[u]
        /\ Len(applied'[t]) = Len(applied[t]) + 1
    BY <1>1, <1>4, ApplyGuards
  <2>2. told' \in [Txns -> Seq({"ok", "error"})]
    BY <1>4, ErrorMoves
  <2>3. PICK phase \in {"backoff", "done"}, left \in 0..kRetryCount :
          /\ txn' = [txn EXCEPT ![t] = Runner(phase, left, FreshTransaction)]
          /\ phase = "backoff" => left = txn[t].left - 1
          /\ phase = "done" => left = txn[t].left
    BY <1>4, ErrorMoves
  <2>4. Len(applied'[t]) <= kRetryCount - left + (IF phase = "done" THEN 1 ELSE 0)
    <3>0. /\ Len(applied'[t]) = Len(applied[t]) + 1 /\ Len(applied[t]) \in Nat
          /\ Len(applied[t]) <= kRetryCount - txn[t].left
          /\ kRetryCount \in Nat /\ txn[t].left \in 0..kRetryCount
      BY <1>1, <2>1
    <3>1. CASE phase = "done"
      <4>1. left = txn[t].left /\ (IF phase = "done" THEN 1 ELSE 0) = 1
        BY <2>3, <3>1
      <4>2. Len(applied'[t]) <= kRetryCount - left + 1
        BY ONLY <3>0, <4>1, SMTT(30)
      <4> QED
        BY ONLY <4>1, <4>2
    <3>2. CASE phase = "backoff"
      <4>1. left = txn[t].left - 1 /\ (IF phase = "done" THEN 1 ELSE 0) = 0
        BY <2>3, <3>2
      <4>2. Len(applied'[t]) <= kRetryCount - left + 0
        BY ONLY <3>0, <4>1, SMTT(30)
      <4> QED
        BY ONLY <4>1, <4>2
    <3> QED
      BY <3>1, <3>2
  <2>5. /\ phase \in Phases /\ phase # "running" /\ phase # "committing"
        /\ lost' \subseteq Txns
    BY <1>2, <1>4 DEF Phases
  <2> QED
    BY <2>1, <2>2, <2>3, <2>4, <2>5, FreshProperties, TransactionStep
<1>5. ASSUME NEW code, HandleTransactionError(t, code, FALSE),
             UNCHANGED <<version, clock, others, applied, lost>>
      PROVE  GuardsInv'
  BY <1>1, <1>5, ErrorGuards
<1>6. CASE Rejected(t)
  BY <1>5, <1>6 DEF Rejected
<1>7. CASE /\ \E code \in {"lost", "permanent"} :
                 HandleTransactionError(t, code, FALSE)
           /\ UNCHANGED <<version, clock, others, applied, lost>>
  BY <1>5, <1>7
<1> QED
  BY <1>3, <1>4, <1>6, <1>7 DEF CommitEnds

\* A call of an update function leaves a Transaction whose commit will guard
\* what it has read.
LEMMA OperateGuards ==
    ASSUME GuardsInv, NEW t \in Txns, NEW tr, Operate(t, tr),
           \A new : new = [tr EXCEPT !.ops = @ + 1] =>
               new \in TransactionRecords /\ ReadsOK(new)
    PROVE  GuardsInv'
PROOF
<1>1. PICK new : new = [tr EXCEPT !.ops = @ + 1]
  OBVIOUS
<1>2. new \in TransactionRecords /\ ReadsOK(new)
  BY <1>1
<1>3. /\ txn' = [txn EXCEPT ![t].tr = new]
      /\ txn[t].phase = "running"
      /\ UNCHANGED <<version, clock, others, told, applied, lost>>
  BY <1>1 DEF Operate
<1>4. txn \in [Txns -> [phase : Phases, left : 0..kRetryCount, tr : TransactionRecords]]
  BY DEF GuardsInv, TypedInv
<1>5. txn[t].left \in 0..kRetryCount /\ txn[t].left <= txn[t].left
  BY RunnerTyped
<1>6. [txn[t] EXCEPT !.tr = new] = Runner("running", txn[t].left, new)
  BY <1>3, <1>4 DEF Runner
<1>7. txn' = [txn EXCEPT ![t] = Runner("running", txn[t].left, new)]
  BY <1>3, <1>6
<1>8. "running" \in Phases /\ told' \in [Txns -> Seq({"ok", "error"})]
  BY <1>3, ToldTyped DEF Phases
<1> QED
  BY <1>2, <1>3, <1>5, <1>7, <1>8, MoveStep

\* The reads and writes of an update function.
LEMMA CallsGuard ==
    ASSUME GuardsInv, NEW t \in Txns, NEW d \in Docs,
           \/ Lookup(t, d) \/ Update(t, d)
           \/ \E kind \in {"set", "delete"} : SetOrDelete(t, d, kind)
    PROVE  GuardsInv'
PROOF
<1> DEFINE tr == Tr(t)
<1>1. tr \in TransactionRecords /\ version[d] \in Versions
  BY RunnerTyped DEF GuardsInv, TypedInv
<1>2. txn[t].phase = "running" => ReadsOK(tr)
  BY DEF GuardsInv, ReadsInv
<1>3. ASSUME NEW any, Operate(t, any) PROVE tr.ops < MaxOps /\ ReadsOK(tr)
  BY <1>2, <1>3 DEF Operate
<1> HIDE DEF tr
<1>4. ASSUME NEW code \in Codes, Operate(t, [tr EXCEPT !.failed = code])
      PROVE  GuardsInv'
  <2>1. tr.ops < MaxOps /\ ReadsOK(tr)
    BY <1>3, <1>4
  <2>2. \A new : new = [[tr EXCEPT !.failed = code] EXCEPT !.ops = @ + 1] =>
                     new \in TransactionRecords /\ ReadsOK(new)
    BY <1>1, <2>1, FailedCall
  <2> QED
    BY <1>4, <2>2, OperateGuards
<1>5. ASSUME tr.mutations = <<>>, Operate(t, [tr EXCEPT !.reads[d] = version[d]])
      PROVE  GuardsInv'
  <2>1. tr.ops < MaxOps /\ ReadsOK(tr)
    BY <1>3, <1>5
  <2>2. PICK v \in Versions : v = version[d]
    BY <1>1
  <2>3. \A new : new = [[tr EXCEPT !.reads[d] = v] EXCEPT !.ops = @ + 1] =>
                     new \in TransactionRecords /\ ReadsOK(new)
    BY <1>1, <1>5, <2>1, ReadCall
  <2>4. Operate(t, [tr EXCEPT !.reads[d] = v])
    BY <1>5, <2>2
  <2> QED
    BY <2>3, <2>4, OperateGuards
<1>6. ASSUME NEW kind \in Kinds, NEW pre \in SUBSET Versions,
             d \notin tr.written /\ tr.reads[d] # Unread =>
                 pre = UpdateTime(tr.reads[d]),
             Operate(t, Written(tr, d, kind, pre))
      PROVE  GuardsInv'
  <2>1. tr.ops < MaxOps /\ ReadsOK(tr)
    BY <1>3, <1>6
  <2>2. \A new : new = [Written(tr, d, kind, pre) EXCEPT !.ops = @ + 1] =>
                     new \in TransactionRecords /\ ReadsOK(new)
    BY <1>1, <1>6, <2>1, WriteCall
  <2> QED
    BY <1>6, <2>2, OperateGuards
<1>7. tr.reads[d] # Unread => UpdateTime(tr.reads[d]) \in SUBSET Versions
  BY <1>1 DEF TransactionRecords, UpdateTime
<1>8. CASE Lookup(t, d)
  <2>1. {"lost", "permanent", "aborted"} \subseteq Codes
    BY DEF Codes
  <2> QED
    BY <1>4, <1>5, <1>8, <2>1 DEF Lookup, tr
<1>9. ASSUME NEW kind \in {"set", "delete"}, SetOrDelete(t, d, kind)
      PROVE  GuardsInv'
  <2>1. PICK pre : pre = CreatePrecondition(tr, d)
    OBVIOUS
  <2>2. /\ pre \in SUBSET Versions
        /\ d \notin tr.written /\ tr.reads[d] # Unread =>
               pre = UpdateTime(tr.reads[d])
    BY <1>7, <2>1 DEF CreatePrecondition, None
  <2>3. Operate(t, Written(tr, d, kind, pre))
    BY <1>9, <2>1 DEF SetOrDelete, tr
  <2>4. kind \in Kinds
    BY DEF Kinds
  <2> QED
    BY <1>6, <2>2, <2>3, <2>4
<1>10. CASE Update(t, d)
  <2>1. CASE /\ d \notin tr.written /\ tr.reads[d] # Unread /\ tr.reads[d] = 0
    <3>1. Operate(t, [tr EXCEPT !.writeError = TRUE, !.written = @ \cup {d}])
      BY <1>10, <2>1 DEF Update, tr
    <3>2. tr.ops < MaxOps
      BY <1>3, <3>1
    <3>3. \A new : new = [[tr EXCEPT !.writeError = TRUE, !.written = @ \cup {d}]
                             EXCEPT !.ops = @ + 1] =>
                       new \in TransactionRecords /\ ReadsOK(new)
      BY <1>1, <3>2, FailedWrite
    <3> QED
      BY <3>1, <3>3, OperateGuards
  <2>2. CASE ~ (d \notin tr.written /\ tr.reads[d] # Unread /\ tr.reads[d] = 0)
    <3>1. PICK pre : pre = IF d \notin tr.written /\ tr.reads[d] # Unread
                           THEN UpdateTime(tr.reads[d]) ELSE Exists
      OBVIOUS
    <3>2. /\ pre \in SUBSET Versions
          /\ d \notin tr.written /\ tr.reads[d] # Unread =>
                 pre = UpdateTime(tr.reads[d])
      BY <1>7, <3>1 DEF Exists
    <3>3. Operate(t, Written(tr, d, "update", pre))
      BY <1>10, <2>2, <3>1 DEF Update, tr
    <3>4. "update" \in Kinds
      BY DEF Kinds
    <3> QED
      BY <1>6, <3>2, <3>3, <3>4
  <2> QED
    BY <2>1, <2>2
<1> QED
  BY <1>8, <1>9, <1>10

\* What ends an update function.
LEMMA UpdateFunctionGuards ==
    ASSUME GuardsInv, NEW t \in Txns, FailUpdate(t) \/ ContinueCommit(t)
    PROVE  GuardsInv'
PROOF
<1>1. /\ txn[t].phase = "running" /\ txn[t].phase # "done"
      /\ UNCHANGED <<version, clock, others, applied, lost>>
  BY DEF FailUpdate, ContinueCommit
<1>2. ASSUME NEW code, NEW permanently,
             HandleTransactionError(t, code, permanently)
      PROVE  GuardsInv'
  BY <1>1, <1>2, ErrorGuards
<1>3. CASE FailUpdate(t)
  BY <1>2, <1>3 DEF FailUpdate
<1>4. CASE ContinueCommit(t)
  <2>1. CASE Tr(t).writeError
    BY <1>2, <1>4, <2>1 DEF ContinueCommit
  <2>2. CASE ~Tr(t).writeError
    <3>1. /\ txn' = [txn EXCEPT ![t] = Runner("committing", txn[t].left, Sent(Tr(t)))]
          /\ told' = told
      BY <1>4, <2>2 DEF ContinueCommit, Sent
    <3>2. Tr(t) \in TransactionRecords /\ ReadsOK(Tr(t))
      BY <1>1, RunnerTyped DEF GuardsInv, ReadsInv
    <3>3. Sent(Tr(t)) \in TransactionRecords /\ CommitOK(Sent(Tr(t)))
      <4>1. PICK tr : tr = Tr(t)
        OBVIOUS
      <4> QED
        BY <2>2, <3>2, <4>1, CommitGuards
    <3>4. /\ txn[t].left \in 0..kRetryCount /\ txn[t].left <= txn[t].left
          /\ "committing" \in Phases /\ "committing" # "running"
          /\ told' \in [Txns -> Seq({"ok", "error"})]
      BY <3>1, RunnerTyped, ToldTyped DEF Phases
    <3> QED
      BY <1>1, <3>1, <3>3, <3>4, MoveStep
  <2> QED
    BY <2>1, <2>2
<1> QED
  BY <1>3, <1>4

-----------------------------------------------------------------------------
\* Nothing is applied, and the backend has given out one version.
LEMMA GuardsInit == Init => GuardsInv
PROOF
<1> SUFFICES ASSUME Init PROVE GuardsInv
  OBVIOUS
<1>1. <<>> \in Seq({"ok", "error"}) /\ <<>> \in Seq(SUBSET Docs) /\ Len(<<>>) = 0
  BY EmptySeq
<1>2. kRetryCount \in Nat /\ MaxOthers \in Nat
  BY TransactionBounds
<1>3. \A t \in Txns : applied[t] = <<>>
  BY DEF Init
<1>4. AppliedPlaces = {}
  <2>1. \A p \in Txns \X (1..(1 + kRetryCount)) : ~ (p[2] <= Len(applied[p[1]]))
    BY <1>1, <1>2, <1>3
  <2> QED
    BY <2>1 DEF AppliedPlaces
<1>5. ClockInv
  <2>1. Cardinality({}) = 0
    BY FS_EmptySet
  <2> QED
    BY <1>4, <2>1 DEF Init, ClockInv
<1>6. 1 \in Versions /\ 0 \in Versions
  <2>1. {} \in SUBSET (Txns \X (1..(1 + kRetryCount))) /\ 0 \in 0..MaxOthers
    BY <1>2
  <2>2. 1 + 0 + Cardinality({}) \in Versions /\ 0 \in Versions
    BY <2>1, ClockBounded
  <2>3. Cardinality({}) = 0
    BY FS_EmptySet
  <2> QED
    BY <2>2, <2>3
<1>7. TypedInv
  <2>1. PICK r : r = Runner("new", kRetryCount, FreshTransaction)
    OBVIOUS
  <2>2. r \in [phase : Phases, left : 0..kRetryCount, tr : TransactionRecords]
    BY <1>2, <2>1, FreshProperties DEF Runner, Phases
  <2>3. txn = [t \in Txns |-> r]
    BY <2>1 DEF Init
  <2>4. version \in [Docs -> Versions]
    BY <1>6 DEF Init
  <2>5. others \in 0..MaxOthers /\ lost \subseteq Txns
    BY <1>2 DEF Init
  <2>6. /\ told \in [Txns -> Seq({"ok", "error"})]
        /\ applied \in [Txns -> Seq(SUBSET Docs)]
    BY <1>1 DEF Init
  <2> QED
    BY <2>2, <2>3, <2>4, <2>5, <2>6 DEF TypedInv
<1>8. \A t \in Txns : txn[t].phase = "new" /\ txn[t].left = kRetryCount
  BY DEF Init, Runner
<1>9. \A t \in Txns : AppliedCount(t) /\ ReadsInv(t)
  BY <1>1, <1>2, <1>3, <1>8 DEF AppliedCount, ReadsInv
<1> QED
  BY <1>5, <1>7, <1>9 DEF GuardsInv

\* Every step keeps what was read guarded.
LEMMA GuardsNext == GuardsInv /\ [Next]_vars => GuardsInv'
PROOF
<1> SUFFICES ASSUME GuardsInv, [Next]_vars PROVE GuardsInv'
  OBVIOUS
<1>1. ASSUME NEW t \in Txns, RunTransaction(t) \/ StartAttempt(t) PROVE GuardsInv'
  <2>1. PICK phase \in {"backoff", "running"} : SetPhase(t, phase)
    BY <1>1 DEF RunTransaction, StartAttempt
  <2>2. /\ phase \in Phases /\ phase # "committing" /\ txn[t].phase # "done"
        /\ UNCHANGED <<version, clock, others, told, applied, lost>>
    BY <1>1, <2>1 DEF RunTransaction, StartAttempt, Phases
  <2>3. txn' = [txn EXCEPT ![t] = Runner(phase, txn[t].left, FreshTransaction)]
    BY <2>1 DEF SetPhase, SetRunner
  <2>4. /\ txn[t].left \in 0..kRetryCount /\ txn[t].left <= txn[t].left
        /\ told' \in [Txns -> Seq({"ok", "error"})]
    BY <2>2, RunnerTyped, ToldTyped
  <2> QED
    BY <2>2, <2>3, <2>4, FreshProperties, MoveStep
<1>2. ASSUME NEW d \in Docs, OtherCommit(d) PROVE GuardsInv'
  <2>1. TypedInv /\ ClockInv
    BY DEF GuardsInv
  <2>2. /\ others < MaxOthers /\ others' = others + 1 /\ clock' = clock + 1
        /\ txn' = txn /\ told' = told /\ applied' = applied /\ lost' = lost
        /\ others \in 0..MaxOthers
    BY <1>2, <2>1 DEF OtherCommit, TypedInv
  <2>3. others' \in 0..MaxOthers
    BY <2>2, TransactionBounds
  <2>4. AppliedPlaces' = AppliedPlaces
    BY <2>2 DEF AppliedPlaces
  <2>5. /\ Cardinality(AppliedPlaces) \in Nat /\ 0 \in Versions
        /\ 1 + (others + 1) + Cardinality(AppliedPlaces) \in Versions
    <3>1. AppliedPlaces \in SUBSET (Txns \X (1..(1 + kRetryCount)))
      BY DEF AppliedPlaces
    <3>2. others + 1 \in 0..MaxOthers
      BY <2>2, <2>3
    <3> QED
      BY <3>1, <3>2, ClockBounded
  <2>6. clock + 1 = 1 + (others + 1) + Cardinality(AppliedPlaces)
    <3>1. clock = 1 + others + Cardinality(AppliedPlaces)
      BY <2>1 DEF ClockInv
    <3>2. others \in Int
      BY <2>2, TransactionBounds
    <3> QED
      BY <2>5, <3>1, <3>2
  <2>7. ClockInv'
    BY <2>2, <2>4, <2>6 DEF ClockInv
  <2>8. version' \in [Docs -> Versions]
    <3>1. PICK v \in {0, clock + 1} : version' = [version EXCEPT ![d] = v]
      BY <1>2 DEF OtherCommit
    <3>2. v \in Versions
      BY <2>5, <2>6
    <3> QED
      BY <2>1, <3>1, <3>2 DEF TypedInv
  <2>9. TypedInv'
    BY <2>1, <2>2, <2>3, <2>8 DEF TypedInv
  <2>10. \A t \in Txns : AppliedCount(t)' /\ ReadsInv(t)'
    BY <2>2 DEF GuardsInv, AppliedCount, ReadsInv, Tr
  <2> QED
    BY <2>7, <2>9, <2>10 DEF GuardsInv
<1>3. CASE UNCHANGED vars
  <2>1. TypedInv' /\ ClockInv'
    BY <1>3 DEF vars, GuardsInv, TypedInv, ClockInv, AppliedPlaces
  <2>2. \A t \in Txns : AppliedCount(t)' /\ ReadsInv(t)'
    BY <1>3 DEF vars, GuardsInv, AppliedCount, ReadsInv, Tr
  <2> QED
    BY <2>1, <2>2 DEF GuardsInv
<1> QED
  BY <1>1, <1>2, <1>3, CallsGuard, UpdateFunctionGuards, CommitEndsGuards DEF Next

\* The invariant holds in every behaviour.
LEMMA GuardsInvariant == Spec => []GuardsInv
PROOF
  BY GuardsInit, GuardsNext, PTL DEF Spec

\* The runners, their Transactions and the backend have their types: a
\* transaction is retried no more than kRetryCount times, however its attempts
\* fail, and so the backend gives out no more versions than there are attempts
\* (TransactionRunner::HandleTransactionError).
THEOREM TransactionsTypeCorrect == Spec => []TypeOK
PROOF
<1>1. GuardsInv => TypeOK
  <2> SUFFICES ASSUME GuardsInv PROVE TypeOK
    OBVIOUS
  <2>1. TypedInv /\ clock \in Versions
    BY ClockTyped DEF GuardsInv
  <2>2. ASSUME NEW t \in Txns
        PROVE  /\ txn[t].phase \in Phases /\ txn[t].left \in 0..kRetryCount
               /\ Tr(t).reads \in [Docs -> Versions \cup {Unread}]
               /\ Tr(t).mutations \in Seq(Mutation) /\ Tr(t).written \subseteq Docs
               /\ Tr(t).writeError \in BOOLEAN
               /\ Tr(t).failed \in Codes \cup {"none"} /\ Tr(t).ops \in 0..MaxOps
    <3>1. /\ txn[t].phase \in Phases /\ txn[t].left \in 0..kRetryCount
          /\ Tr(t) \in TransactionRecords
      BY RunnerTyped
    <3> QED
      BY <3>1 DEF TransactionRecords
  <2> QED
    BY <2>1, <2>2 DEF TypeOK, TypedInv
<1> QED
  BY <1>1, GuardsInvariant, PTL

\* A commit is applied only while every document that its update function read
\* is still as it was read, whatever was written, in whatever order, and
\* whatever the update function did after a read that failed
\* (Transaction::Commit and Transaction::CreatePrecondition).
THEOREM CommitsOnCurrentReads == Spec => AppliesOnCurrentReads
PROOF
<1>1. GuardsInv /\ [Next]_vars =>
         [\A t \in Txns : applied'[t] # applied[t] =>
             \A d \in Docs : Tr(t).reads[d] \in {Unread, version[d]}]_vars
  <2> SUFFICES ASSUME GuardsInv, [Next]_vars,
                      NEW t \in Txns, applied'[t] # applied[t],
                      NEW d \in Docs, Tr(t).reads[d] # Unread
               PROVE  version[d] = Tr(t).reads[d]
    OBVIOUS
  <2>1. applied \in [Txns -> Seq(SUBSET Docs)]
    BY DEF GuardsInv, TypedInv
  <2>2. CommitEnds(t) /\ Acceptable(Tr(t).mutations)
    <3>1. ASSUME NEW u \in Txns, CommitEnds(u), applied' # applied
          PROVE  u = t /\ Acceptable(Tr(u).mutations)
      <4>1. Apply(u)
        BY <3>1 DEF CommitEnds, Rejected
      <4>2. \A w \in Txns \ {u} : applied'[w] = applied[w]
        BY <2>1, <4>1 DEF Apply
      <4> QED
        BY <4>1, <4>2 DEF Apply
    <3>2. applied' # applied
      OBVIOUS
    <3>3. \A u \in Txns : ~ (RunTransaction(u) \/ StartAttempt(u))
      BY <3>2 DEF RunTransaction, StartAttempt
    <3>4. \A u \in Txns, e \in Docs :
             ~ (Lookup(u, e) \/ Update(u, e)
                \/ \E kind \in {"set", "delete"} : SetOrDelete(u, e, kind))
      <4>1. \A u \in Txns : \A tr : ~ Operate(u, tr)
        BY <3>2 DEF Operate
      <4> QED
        BY <4>1 DEF Lookup, Update, SetOrDelete
    <3>5. \A u \in Txns : ~ (FailUpdate(u) \/ ContinueCommit(u))
      BY <3>2 DEF FailUpdate, ContinueCommit
    <3>6. \A e \in Docs : ~ OtherCommit(e)
      BY <3>2 DEF OtherCommit
    <3>7. \E u \in Txns : CommitEnds(u)
      BY <3>2, <3>3, <3>4, <3>5, <3>6 DEF Next, vars
    <3> QED
      BY <3>1, <3>2, <3>7
  <2>3. Tr(t) \in TransactionRecords /\ CommitOK(Tr(t))
    BY <2>2, RunnerTyped DEF GuardsInv, ReadsInv, CommitEnds
  <2>4. PICK tr : tr = Tr(t)
    OBVIOUS
  <2> QED
    BY <2>2, <2>3, <2>4, AcceptedIsCurrent
<1> QED
  BY <1>1, GuardsInvariant, PTL DEF Spec, AppliesOnCurrentReads
=============================================================================
