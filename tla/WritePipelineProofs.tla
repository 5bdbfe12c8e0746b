------------------------- MODULE WritePipelineProofs -------------------------
(***************************************************************************)
(* Theorems about WritePipeline, for every set of users, every pipeline     *)
(* limit and every value of the bounds.                                     *)
(***************************************************************************)
EXTENDS WritePipeline, SequenceTheorems, FiniteSetTheorems, TLAPS

-----------------------------------------------------------------------------
(* Lemmas about the operators                                              *)

\* A bounded set of ids has a maximum, so MaxId is well defined.
LEMMA MaxIdProperties ==
    ASSUME NEW S \in SUBSET Nat, NEW n \in Nat, \A m \in S : m <= n
    PROVE  /\ MaxId(S) \in 0..n
           /\ \A m \in S : m <= MaxId(S)
PROOF
<1> DEFINE Bounds == {k \in Nat : \A m \in S : m <= k}
<1>1. PICK k \in Bounds : \A y \in Bounds : ~(<<y, k>> \in OpToRel(<, Nat))
  <2>1. IsWellFoundedOn(OpToRel(<, Nat), Nat)
    BY NatLessThanWellFounded
  <2>2. Bounds \subseteq Nat /\ Bounds # {}
    OBVIOUS
  <2> HIDE DEF Bounds
  <2> QED
    BY <2>1, <2>2, WFMin
<1>2. k \in Nat /\ (\A m \in S : m <= k) /\ (\A y \in Bounds : ~(y < k))
  BY <1>1 DEF OpToRel
<1>3. k \in S \cup {0}
  <2> SUFFICES ASSUME k \notin S, k # 0 PROVE k - 1 \in Bounds
    BY <1>2
  <2> QED
    BY <1>2
<1>4. k <= n
  BY <1>2
<1> HIDE DEF Bounds
<1>5. /\ MaxId(S) \in S \cup {0}
      /\ \A m \in S : m <= MaxId(S)
  BY <1>2, <1>3 DEF MaxId
<1>6. MaxId(S) \in S \/ MaxId(S) = 0
  BY <1>5
<1>7. MaxId(S) \in Nat /\ MaxId(S) <= n
  <2>1. CASE MaxId(S) \in S
    <3>1. S \subseteq Nat
      OBVIOUS
    <3> QED
      BY <2>1, <3>1
  <2>2. CASE MaxId(S) = 0
    BY <2>2
  <2> QED
    BY <2>1, <2>2, <1>6
<1> QED
  BY <1>5, <1>7

\* Removing a batch leaves a queue, and the other batches in their order.
LEMMA RemoveBatchProperties ==
    ASSUME NEW q \in Seq(Batch), NEW id
    PROVE  /\ RemoveBatch(q, id) \in Seq(Batch)
           /\ \/ RemoveBatch(q, id) = q
              \/ \E k \in 1..Len(q) :
                   /\ Len(RemoveBatch(q, id)) = Len(q) - 1
                   /\ \A i \in 1..Len(q) - 1 : RemoveBatch(q, id)[i] =
                        IF i <= k - 1 THEN q[i] ELSE q[i + 1]
PROOF
<1>1. CASE ~HasBatch(q, id)
  BY <1>1 DEF RemoveBatch
<1>2. CASE HasBatch(q, id)
  <2>2. Len(q) \in Nat /\ DOMAIN q = 1..Len(q) /\ q \in [1..Len(q) -> Batch]
    BY LenProperties
  <2>1. PICK k \in 1..Len(q) :
          RemoveBatch(q, id) = SubSeq(q, 1, k - 1) \o SubSeq(q, k + 1, Len(q))
    <3>1. (CHOOSE i \in DOMAIN q : q[i].id = id) \in DOMAIN q
      BY <1>2 DEF HasBatch
    <3> QED
      BY <1>2, <2>2, <3>1 DEF RemoveBatch, RemoveAt
  <2> DEFINE front == SubSeq(q, 1, k - 1)
             back == SubSeq(q, k + 1, Len(q))
  <2>3. /\ front \in Seq(Batch) /\ Len(front) = k - 1
        /\ \A i \in 1..k - 1 : front[i] = q[i]
    <3>1. \A i \in 1..k - 1 : q[i] \in Batch
      BY <2>1, <2>2
    <3>2. 1 \in Int /\ k - 1 \in Int /\ k - 1 >= 0 /\ k - 1 - 1 + 1 = k - 1
      BY <2>1, <2>2
    <3>3. /\ front \in Seq(Batch)
          /\ Len(front) = IF 1 <= k - 1 THEN k - 1 - 1 + 1 ELSE 0
          /\ \A i \in 1..k - 1 - 1 + 1 : front[i] = q[1 + i - 1]
      BY ONLY q \in Seq(Batch), <3>1, <3>2, SubSeqProperties
    <3> HIDE DEF front
    <3>4. \A i \in 1..k - 1 : 1 + i - 1 = i
      BY <3>2
    <3> QED
      BY ONLY <3>2, <3>3, <3>4
  <2>4. /\ back \in Seq(Batch) /\ Len(back) = Len(q) - k
        /\ \A i \in 1..Len(q) - k : back[i] = q[k + i]
    <3>1. \A i \in k + 1..Len(q) : q[i] \in Batch
      BY <2>1, <2>2
    <3>2. /\ back \in Seq(Batch)
          /\ Len(back) = IF k + 1 <= Len(q) THEN Len(q) - (k + 1) + 1 ELSE 0
          /\ \A i \in 1..Len(q) - (k + 1) + 1 : back[i] = q[(k + 1) + i - 1]
      <4>1. k + 1 \in Int /\ Len(q) \in Int
        BY ONLY <2>2, k \in 1..Len(q)
      <4> QED
        BY ONLY q \in Seq(Batch), <3>1, <4>1, SubSeqProperties
    <3> HIDE DEF back
    <3>3. Len(back) = Len(q) - k
      <4>0. Len(q) \in Nat /\ k \in Nat /\ k <= Len(q)
        BY <2>2
      <4>1. (IF k + 1 <= Len(q) THEN Len(q) - (k + 1) + 1 ELSE 0) = Len(q) - k
        BY <4>0
      <4> QED
        BY <3>2, <4>1
    <3>4. ASSUME NEW i \in 1..Len(q) - k
          PROVE  back[i] = q[k + i]
      <4>1. i \in 1..Len(q) - (k + 1) + 1 /\ (k + 1) + i - 1 = k + i
        BY <2>1, <2>2
      <4> QED
        BY <3>2, <4>1
    <3> QED
      BY <3>2, <3>3, <3>4
  <2>5. RemoveBatch(q, id) = front \o back
    BY <2>1
  <2> HIDE DEF front, back
  <2>6. /\ front \o back \in Seq(Batch)
        /\ Len(front \o back) = Len(front) + Len(back)
        /\ \A i \in 1..Len(front) + Len(back) : (front \o back)[i] =
             IF i <= Len(front) THEN front[i] ELSE back[i - Len(front)]
    BY <2>3, <2>4, ConcatProperties
  <2>7. Len(front \o back) = Len(q) - 1
    <3>1. Len(q) \in Nat /\ k \in Nat
      BY <2>2
    <3> QED
      BY <3>1, <2>3, <2>4, <2>6
  <2>8. ASSUME NEW i \in 1..Len(q) - 1
        PROVE  (front \o back)[i] = IF i <= k - 1 THEN q[i] ELSE q[i + 1]
    <3>1. (front \o back)[i] = IF i <= k - 1 THEN front[i]
                                             ELSE back[i - (k - 1)]
      BY <2>1, <2>2, <2>3, <2>4, <2>6
    <3>2. CASE i <= k - 1
      BY <3>1, <3>2, <2>3
    <3>3. CASE ~(i <= k - 1)
      <4>1. i - (k - 1) \in 1..Len(q) - k /\ k + (i - (k - 1)) = i + 1
        BY <3>3, <2>1, <2>2
      <4> QED
        BY <3>1, <3>3, <4>1, <2>4
    <3> QED
      BY <3>2, <3>3
  <2> QED
    BY <2>5, <2>6, <2>7, <2>8
<1> QED
  BY <1>1, <1>2

\* Refilling takes batches of the queue, at most as many as there is room for.
LEMMA NextBatchesType ==
    ASSUME NEW q \in Seq(Batch), NEW last \in Nat, NEW room \in Nat
    PROVE  /\ NextBatches(q, last, room) \in Seq(Batch)
           /\ Len(NextBatches(q, last, room)) <= room
PROOF
<1> DEFINE old == {i \in DOMAIN q : q[i].id <= last}
           skip == Cardinality(old)
           end == IF Len(q) <= skip + room THEN Len(q) ELSE skip + room
<1>1. Len(q) \in Nat /\ DOMAIN q = 1..Len(q) /\ q \in [1..Len(q) -> Batch]
  BY LenProperties
<1>2. skip \in Nat
  <2>1. IsFiniteSet(1..Len(q))
    BY <1>1, FS_Interval
  <2>2. old \in SUBSET (1..Len(q))
    BY <1>1
  <2> HIDE DEF old
  <2> QED
    BY <2>1, <2>2, FS_Subset, FS_CardinalityType
<1>3. NextBatches(q, last, room) = SubSeq(q, skip + 1, end)
  BY DEF NextBatches
<1> HIDE DEF skip
<1>4. end \in Nat /\ end <= Len(q) /\ end <= skip + room
  BY <1>1, <1>2
<1> HIDE DEF end
<1>5. \A i \in skip + 1..end : q[i] \in Batch
  BY <1>1, <1>2, <1>4
<1>6. /\ SubSeq(q, skip + 1, end) \in Seq(Batch)
      /\ Len(SubSeq(q, skip + 1, end)) =
           IF skip + 1 <= end THEN end - (skip + 1) + 1 ELSE 0
  BY <1>2, <1>4, <1>5, SubSeqProperties
<1> QED
  BY <1>2, <1>3, <1>4, <1>6

\* The ids of a queue, and what removing a batch does to them.
Increasing(q) == \A i, j \in DOMAIN q : i < j => q[i].id < q[j].id
Below(q, n) == \A i \in DOMAIN q : q[i].id < n

\* (A bound may be raised.)
LEMMA BelowMonotonic ==
    ASSUME NEW q \in Seq(Batch), NEW m \in Nat, NEW n \in Nat, m <= n, Below(q, m)
    PROVE  Below(q, n)
PROOF
<1> SUFFICES ASSUME NEW i \in DOMAIN q PROVE q[i].id < n
  BY DEF Below
<1>1. q[i] \in Batch
  BY LenProperties, ElementOfSeq
<1>2. q[i].id \in Nat
  BY <1>1 DEF Batch
<1>3. q[i].id < m
  BY DEF Below
<1> QED
  BY <1>2, <1>3

\* Removing a batch keeps the ids of a queue increasing, and below a bound.
LEMMA RemoveBatchIds ==
    ASSUME NEW q \in Seq(Batch), NEW id, NEW n \in Nat
    PROVE  /\ Increasing(q) => Increasing(RemoveBatch(q, id))
           /\ Below(q, n) => Below(RemoveBatch(q, id), n)
PROOF
<1> DEFINE r == RemoveBatch(q, id)
<1>1. CASE r = q
  BY <1>1
<1>2. CASE r # q
  <2>1. PICK k \in 1..Len(q) :
          /\ Len(r) = Len(q) - 1
          /\ \A i \in 1..Len(q) - 1 : r[i] = IF i <= k - 1 THEN q[i]
                                                           ELSE q[i + 1]
    BY <1>2, RemoveBatchProperties
  <2>2. DOMAIN q = 1..Len(q) /\ Len(q) \in Nat
    BY LenProperties
  <2>3. DOMAIN r = 1..Len(q) - 1
    BY <2>1, RemoveBatchProperties, LenProperties
  <2> HIDE DEF r
  <2> DEFINE at(i) == IF i <= k - 1 THEN i ELSE i + 1
  <2>4. ASSUME NEW i \in 1..Len(q) - 1
        PROVE  at(i) \in 1..Len(q) /\ r[i] = q[at(i)]
    BY <2>1, <2>2
  <2>5. ASSUME NEW i \in 1..Len(q) - 1, NEW j \in 1..Len(q) - 1, i < j
        PROVE  at(i) < at(j)
    BY <2>2, <2>5
  <2> HIDE DEF at
  <2>6. Increasing(q) => Increasing(r)
    BY <2>2, <2>3, <2>4, <2>5 DEF Increasing
  <2>7. Below(q, n) => Below(r, n)
    BY <2>2, <2>3, <2>4 DEF Below
  <2> QED
    BY <2>6, <2>7 DEF r
<1> QED
  BY <1>1, <1>2

\* A new batch whose id is above all others keeps the ids of a queue increasing.
LEMMA AppendBatchIds ==
    ASSUME NEW q \in Seq(Batch), NEW b \in Batch, Increasing(q), Below(q, b.id)
    PROVE  /\ Append(q, b) \in Seq(Batch)
           /\ Increasing(Append(q, b))
           /\ Below(Append(q, b), b.id + 1)
PROOF
<1>1. /\ Append(q, b) \in Seq(Batch)
      /\ Len(Append(q, b)) = Len(q) + 1
      /\ \A i \in 1..Len(q) : Append(q, b)[i] = q[i]
      /\ Append(q, b)[Len(q) + 1] = b
  BY AppendProperties
<1>2. /\ DOMAIN q = 1..Len(q) /\ Len(q) \in Nat
      /\ DOMAIN Append(q, b) = 1..Len(q) + 1
  BY <1>1, LenProperties
<1>3. b.id \in Nat /\ \A i \in 1..Len(q) : q[i].id \in Nat /\ q[i].id < b.id
  <2>1. b.id \in Nat
    BY DEF Batch
  <2>2. \A i \in 1..Len(q) : q[i] \in Batch
    BY ElementOfSeq
  <2>3. \A i \in 1..Len(q) : q[i].id \in Nat
    BY <2>2 DEF Batch
  <2>4. \A i \in 1..Len(q) : q[i].id < b.id
    BY <1>2 DEF Below
  <2> QED
    BY <2>1, <2>3, <2>4
<1>4. \A i \in 1..Len(q) + 1 : i \in 1..Len(q) \/ i = Len(q) + 1
  BY <1>2
<1>5. Increasing(Append(q, b))
  BY <1>1, <1>2, <1>3, <1>4 DEF Increasing
<1>6. Below(Append(q, b), b.id + 1)
  BY <1>1, <1>2, <1>3, <1>4 DEF Below
<1> QED
  BY <1>1, <1>5, <1>6

\* The id that a user change or a restart loads is above the ids of every queue.
LEMMA LoadNextBatchIdProperties ==
    ASSUME NEW q \in [Users -> Seq(Batch)], NEW n \in Nat \ {0},
           \A u \in Users : Below(q[u], n)
    PROVE  /\ LoadNextBatchId(q) \in 1..n
           /\ \A u \in Users : Below(q[u], LoadNextBatchId(q))
PROOF
<1> DEFINE ids == UNION {{q[u][i].id : i \in DOMAIN q[u]} : u \in Users}
<1>1. ids \in SUBSET Nat
  <2>1. \A u \in Users : \A i \in DOMAIN q[u] : q[u][i] \in Batch
    BY LenProperties, ElementOfSeq
  <2> QED
    BY <2>1 DEF Batch
<1>2. n - 1 \in Nat /\ \A m \in ids : m <= n - 1
  <2>1. \A u \in Users : \A i \in DOMAIN q[u] : q[u][i].id < n
    BY DEF Below
  <2>2. \A m \in ids : m < n
    BY <2>1
  <2> HIDE DEF ids
  <2>3. \A m \in ids : m \in Nat
    BY <1>1
  <2> QED
    BY <2>2, <2>3
<1>3. LoadNextBatchId(q) = 1 + MaxId(ids)
  BY DEF LoadNextBatchId
<1>4. \A u \in Users : \A i \in DOMAIN q[u] : q[u][i].id \in ids
  OBVIOUS
<1> HIDE DEF ids
<1>5. MaxId(ids) \in 0..n - 1 /\ \A m \in ids : m <= MaxId(ids)
  BY <1>1, <1>2, MaxIdProperties
<1>6. LoadNextBatchId(q) \in 1..n
  BY <1>3, <1>5
<1>7. \A m \in ids : m < LoadNextBatchId(q)
  BY <1>1, <1>3, <1>5
<1> QED
  BY <1>4, <1>6, <1>7 DEF Below

-----------------------------------------------------------------------------
(* Lemmas about the stream and the refill                                  *)

Environments == [net : BOOLEAN, user : Users, counter : Nat,
                 requests : SUBSET TokenRequestType]

\* Stopping, failing and starting a stream leaves a stream.
LEMMA StreamTypes ==
    ASSUME NEW s \in StreamType
    PROVE  /\ StoppedWrite(s) \in StreamType
           /\ Failed(s) \in StreamType
           /\ StartStream(s) \in StreamType
PROOF
<1>0. s.closeCount + 1 \in Nat
  <2>1. s.closeCount \in Nat
    BY DEF StreamType
  <2> QED
    BY <2>1
<1>1. StoppedWrite(s) \in StreamType
  <2>1. Stopped(s) \in StreamType
    BY <1>0 DEF StreamType, StreamStates, Stopped
  <2> QED
    BY <2>1 DEF StreamType, StoppedWrite
<1>2. Failed(s) \in StreamType
  BY <1>0 DEF StreamType, StreamStates, Failed
<1>3. StartStream(s) \in StreamType
  BY DEF StreamType, StreamStates, StartStream
<1> QED
  BY <1>1, <1>2, <1>3

\* So does starting it only if it is needed; and Auth may be asked for a token.
LEMMA StartWriteStreamType ==
    ASSUME NEW p, NEW s \in StreamType, NEW e \in Environments,
           StartWriteStreamIfNeeded(p, s, e)
    PROVE  /\ stream' \in StreamType
           /\ tokenRequests' \in SUBSET TokenRequestType
PROOF
<1>1. TokenRequest(s, e.user, e.counter) \in TokenRequestType
  BY DEF TokenRequest, TokenRequestType, StreamType, Environments
<1>2. e.requests \in SUBSET TokenRequestType
  BY DEF Environments
<1> QED
  BY <1>1, <1>2, StreamTypes DEF StartWriteStreamIfNeeded

\* The refill leaves a pipeline, a call, a stream and token requests.
LEMMA FillWritePipelineType ==
    ASSUME NEW p \in Seq(Batch), NEW q \in Seq(Batch), NEW s \in StreamType,
           NEW r \in CallType, NEW e \in Environments,
           FillWritePipeline(p, q, s, r, e)
    PROVE  /\ pipeline' \in Seq(Batch)
           /\ rpc' \in CallType
           /\ stream' \in StreamType
           /\ tokenRequests' \in SUBSET TokenRequestType
PROOF
<1> DEFINE room == IF e.net /\ Len(p) < MaxPending THEN MaxPending - Len(p) ELSE 0
           added == NextBatches(q, LastId(p), room)
           sent == MaySend(s) /\ added # <<>>
           idles == room > 0 /\ p \o added = <<>> /\ s.state = "Open"
           s2 == [s EXCEPT !.idle = (@ /\ ~sent) \/ idles]
<1>1. room \in Nat
  <2>1. Len(p) \in Nat
    BY LenProperties
  <2> QED
    BY <2>1, PendingAssumption
<1>2. LastId(p) \in Nat
  <2>1. CASE p = <<>>
    BY <2>1 DEF LastId
  <2>2. CASE p # <<>>
    <3>1. Len(p) \in 1..Len(p)
      BY <2>2, EmptySeq
    <3>2. p[Len(p)] \in Batch
      BY <3>1, ElementOfSeq
    <3> QED
      BY <2>2, <3>2 DEF LastId, Batch
  <2> QED
    BY <2>1, <2>2
<1> HIDE DEF room
<1>3. added \in Seq(Batch)
  BY <1>1, <1>2, NextBatchesType
<1>4. /\ pipeline' = p \o added
      /\ rpc' = IF sent THEN [r EXCEPT !.requests = @ \o added] ELSE r
      /\ StartWriteStreamIfNeeded(p \o added, s2, e)
  BY DEF FillWritePipeline, room
<1> HIDE DEF added
<1>5. pipeline' \in Seq(Batch)
  BY <1>3, <1>4, ConcatProperties
<1>6. rpc' \in CallType
  <2>1. added \in Seq(Message)
    BY <1>3, SeqMonotonic DEF Message
  <2>2. r.requests \in Seq(Message)
    BY DEF CallType
  <2>3. r.requests \o added \in Seq(Message)
    BY <2>1, <2>2, ConcatProperties
  <2> QED
    BY <1>4, <2>3 DEF CallType
<1>7. s2 \in StreamType
  BY DEF StreamType
<1> HIDE DEF s2
<1> QED
  BY <1>4, <1>5, <1>6, <1>7, StartWriteStreamType

\* No call is a call.
LEMMA NoCallType == NoCall \in CallType
PROOF
<1>1. <<>> \in Seq(Message)
  BY EmptySeq
<1> QED
  BY <1>1, UsersAssumption DEF NoCall, CallType

\* A call that starts with the handshake.
LEMMA NewCallType ==
    ASSUME NEW u \in Users
    PROVE  NewCall(u) \in CallType
PROOF
<1>1. Handshake \in Message
  BY DEF Message
<1>2. <<Handshake>> \in Seq(Message)
  BY <1>1
<1> QED
  BY <1>2, NoCallType DEF NewCall, CallType

\* What the backend has executed of a call are writes under the call's user.
LEMMA ExecutedType ==
    ASSUME NEW r \in CallType, NEW n \in 0..Len(r.requests)
    PROVE  Executed(r, n) \in SUBSET [user : Users, write : Writes]
PROOF
<1>1. r.user \in Users /\ r.requests \in Seq(Message)
  BY DEF CallType
<1>2. Len(r.requests) \in Nat
  BY <1>1, LenProperties
<1>3. ASSUME NEW i \in 1..n
      PROVE  r.requests[i].write \in Writes \cup {0}
  <2>1. i \in 1..Len(r.requests)
    BY <1>2
  <2>2. r.requests[i] \in Message
    BY <1>1, <2>1, ElementOfSeq
  <2> QED
    BY <2>2 DEF Message, Batch, Handshake
<1> QED
  BY <1>1, <1>3 DEF Executed

-----------------------------------------------------------------------------
(* Lemmas about the parts that several handlers share                      *)

\* The environment a handler starts from.
LEMMA EnvType == TypeOK => Env \in Environments
PROOF
  BY DEF TypeOK, Env, Environments

\* Dropping the call commits requests of its user.
LEMMA DropCallType ==
    ASSUME TypeOK, DropCall
    PROVE  committed' \in SUBSET [user : Users, write : Writes]
PROOF
<1>1. PICK n \in InFlight(rpc) : committed' = committed \cup Executed(rpc, n)
  BY DEF DropCall
<1>2. n \in 0..Len(rpc.requests)
  <2>1. rpc.requests \in Seq(Message)
    BY DEF TypeOK, CallType
  <2>2. Len(rpc.requests) \in Nat
    BY <2>1, LenProperties
  <2> QED
    BY <1>1, <2>2 DEF InFlight
<1>3. Executed(rpc, n) \in SUBSET [user : Users, write : Writes]
  BY <1>2, ExecutedType DEF TypeOK
<1> QED
  BY <1>1, <1>3 DEF TypeOK

\* NotifyUser touches only the outcome and the callbacks.
LEMMA NotifyUserType ==
    ASSUME TypeOK, NEW id, NEW result \in Fates, NotifyUser(id, result)
    PROVE  /\ fate' \in [Writes -> Fates]
           /\ released' \in SUBSET (SUBSET Writes)
           /\ callbacks' \in [Users -> SUBSET Batch]
           /\ waiters' \in SUBSET [id : Nat \ {0}, writes : SUBSET Writes]
PROOF
<1>1. fate' \in [Writes -> Fates]
  BY DEF TypeOK, NotifyUser, TellUser
<1>2. released' \in SUBSET (SUBSET Writes)
  <2>1. \A x \in Woken(id) : x.writes \in SUBSET Writes
    BY DEF TypeOK, Woken
  <2> QED
    BY <2>1 DEF TypeOK, NotifyUser, TellUser
<1>3. callbacks' \in [Users -> SUBSET Batch]
  BY DEF TypeOK, NotifyUser
<1>4. waiters' \in SUBSET [id : Nat \ {0}, writes : SUBSET Writes]
  BY DEF TypeOK, NotifyUser
<1> QED
  BY <1>1, <1>2, <1>3, <1>4

\* The stream closes with an error: at most the first batch goes.
LEMMA CloseWithErrorType ==
    ASSUME TypeOK, NEW status, CloseWithError(status)
    PROVE  /\ queue' \in [Users -> Seq(Batch)]
           /\ \/ queue' = queue
              \/ \E id : queue' = Without(id)
           /\ lastToken' \in [Users -> Tokens]
           /\ callbacks' \in [Users -> SUBSET Batch]
           /\ waiters' \in SUBSET [id : Nat \ {0}, writes : SUBSET Writes]
           /\ pipeline' \in Seq(Batch)
           /\ stream' \in StreamType
           /\ rpc' \in CallType
           /\ tokenRequests' \in SUBSET TokenRequestType
           /\ fate' \in [Writes -> Fates]
           /\ rejected' \in SUBSET Writes
           /\ released' \in SUBSET (SUBSET Writes)
           /\ asserted' \in BOOLEAN
PROOF
<1> DEFINE s == Failed(stream)
           rejects == pipeline # <<>> /\ s.handshake
                        /\ IsPermanentWriteError(status)
           forgets == pipeline # <<>> /\ ~s.handshake /\ IsPermanentError(status)
<1>1. s \in StreamType
  BY StreamTypes DEF TypeOK
<1>2. NoCall \in CallType
  BY NoCallType
<1>3. Env \in Environments
  BY EnvType
<1>4. asserted' \in BOOLEAN
  BY DEF TypeOK, CloseWithError, HandleWriteError, Holds
<1> HIDE DEF s
<1>5. CASE rejects
  <2> DEFINE b == Head(pipeline)
             q == RemoveBatch(queue[currentUser], b.id)
             s1 == [s EXCEPT !.state = "Initial", !.handshake = FALSE]
  <2>1. /\ queue' = [queue EXCEPT ![currentUser] = q]
        /\ rejected' = rejected \cup {b.write}
        /\ NotifyUser(b.id, "rejected")
        /\ FillWritePipeline(Tail(pipeline), q, s1, NoCall, Env)
        /\ lastToken' = lastToken
    BY <1>5 DEF CloseWithError, HandleWriteError, RejectBatch, Without, s, TypeOK
  <2>2. b \in Batch /\ Tail(pipeline) \in Seq(Batch)
    BY <1>5, HeadTailProperties DEF TypeOK
  <2>3. q \in Seq(Batch)
    BY RemoveBatchProperties DEF TypeOK
  <2> HIDE DEF b, q
  <2>4. s1 \in StreamType
    BY <1>1 DEF StreamType, StreamStates
  <2> HIDE DEF s1
  <2>5. /\ pipeline' \in Seq(Batch)
        /\ rpc' \in CallType
        /\ stream' \in StreamType
        /\ tokenRequests' \in SUBSET TokenRequestType
    BY <2>1, <2>2, <2>3, <2>4, <1>2, <1>3, FillWritePipelineType
  <2>6. /\ fate' \in [Writes -> Fates]
        /\ released' \in SUBSET (SUBSET Writes)
        /\ callbacks' \in [Users -> SUBSET Batch]
        /\ waiters' \in SUBSET [id : Nat \ {0}, writes : SUBSET Writes]
    BY <2>1, NotifyUserType DEF Fates
  <2>7. rejected' \in SUBSET Writes
    BY <2>1, <2>2 DEF TypeOK, Batch
  <2>8. /\ queue' \in [Users -> Seq(Batch)]
        /\ \E id : queue' = Without(id)
    BY <2>1, <2>3 DEF TypeOK, Without, q
  <2>9. lastToken' \in [Users -> Tokens]
    BY <2>1 DEF TypeOK
  <2> QED
    BY <2>5, <2>6, <2>7, <2>8, <2>9, <1>4
<1>6. CASE ~rejects
  <2> DEFINE s1 == [s EXCEPT !.handshake = FALSE]
             s2 == [s EXCEPT !.handshake = FALSE, !.token = NoToken]
  <2>1. /\ \/ /\ lastToken' = [lastToken EXCEPT ![currentUser] = NoToken]
              /\ StartWriteStreamIfNeeded(pipeline, s2, Env)
           \/ /\ lastToken' = lastToken
              /\ StartWriteStreamIfNeeded(pipeline, s1, Env)
        /\ rpc' = NoCall
        /\ UNCHANGED <<queue, callbacks, waiters, pipeline, fate, rejected,
                       released>>
    BY <1>6 DEF CloseWithError, HandleHandshakeError, s
  <2>2. s1 \in StreamType /\ s2 \in StreamType
    BY <1>1 DEF StreamType, Tokens
  <2>3. lastToken' \in [Users -> Tokens]
    BY <2>1 DEF TypeOK, Tokens
  <2> HIDE DEF s1, s2, rejects, forgets
  <2>4. stream' \in StreamType /\ tokenRequests' \in SUBSET TokenRequestType
    BY <2>1, <2>2, <1>3, StartWriteStreamType
  <2> QED
    BY <2>1, <2>3, <2>4, <1>2, <1>4 DEF TypeOK
<1> QED
  BY <1>5, <1>6

\* The bounds used up.
LEMMA UsedType ==
    ASSUME TypeOK
    PROVE  LET Used == [waits : Nat, auth : Nat, toggles : Nat, restarts : Nat,
                        faults : Nat]
           IN  /\ [used EXCEPT !.waits = @ + 1] \in Used
               /\ [used EXCEPT !.auth = @ + 1] \in Used
               /\ [used EXCEPT !.toggles = @ + 1] \in Used
               /\ [used EXCEPT !.restarts = @ + 1] \in Used
               /\ [used EXCEPT !.faults = @ + 1] \in Used
PROOF
<1>1. /\ used.waits + 1 \in Nat /\ used.auth + 1 \in Nat
      /\ used.toggles + 1 \in Nat /\ used.restarts + 1 \in Nat
      /\ used.faults + 1 \in Nat
  <2>1. /\ used.waits \in Nat /\ used.auth \in Nat /\ used.toggles \in Nat
        /\ used.restarts \in Nat /\ used.faults \in Nat
    BY DEF TypeOK
  <2> QED
    BY <2>1
<1> QED
  BY <1>1 DEF TypeOK

\* A new process: everything in memory starts again.
LEMMA InitializeType ==
    ASSUME TypeOK, NEW q \in [Users -> Seq(Batch)], Initialize(q),
           nextBatchId' \in Nat \ {0}
    PROVE  /\ currentUser' \in Users /\ authUser' \in Users
           /\ callbacks' \in [Users -> SUBSET Batch]
           /\ waiters' \in SUBSET [id : Nat \ {0}, writes : SUBSET Writes]
           /\ networkEnabled' \in BOOLEAN
           /\ pipeline' \in Seq(Batch)
           /\ stream' \in StreamType
           /\ rpc' \in CallType
           /\ worker' \in Seq(Task)
           /\ tokenCounter' \in Nat
           /\ tokenRequests' \in SUBSET TokenRequestType
           /\ committed' \in SUBSET [user : Users, write : Writes]
           /\ used' \in [waits : Nat, auth : Nat, toggles : Nat, restarts : Nat,
                         faults : Nat]
PROOF
<1>1. PICK u \in {authUser, NoUser} :
        /\ currentUser' = u
        /\ authUser' = u
        /\ FillWritePipeline(<<>>, q[u], InitialStream(lastToken[u]), NoCall,
                             [net |-> TRUE, user |-> u, counter |-> 0,
                              requests |-> {}])
  BY DEF Initialize
<1>2. u \in Users
  BY UsersAssumption DEF TypeOK
<1>3. q[u] \in Seq(Batch) /\ lastToken[u] \in Tokens
  BY <1>2 DEF TypeOK
<1>4. InitialStream(lastToken[u]) \in StreamType
  BY <1>3 DEF InitialStream, StreamType, StreamStates
<1>5. [net |-> TRUE, user |-> u, counter |-> 0, requests |-> {}] \in Environments
  BY <1>2 DEF Environments
<1>6. <<>> \in Seq(Batch) /\ <<>> \in Seq(Task)
  BY EmptySeq
<1>7. /\ pipeline' \in Seq(Batch)
      /\ rpc' \in CallType
      /\ stream' \in StreamType
      /\ tokenRequests' \in SUBSET TokenRequestType
  BY <1>1, <1>3, <1>4, <1>5, <1>6, NoCallType, FillWritePipelineType
<1>8. committed' \in SUBSET [user : Users, write : Writes]
  BY DropCallType DEF Initialize
<1>9. used' \in [waits : Nat, auth : Nat, toggles : Nat, restarts : Nat,
                 faults : Nat]
  BY UsedType DEF Initialize
<1> QED
  BY <1>1, <1>2, <1>6, <1>7, <1>8, <1>9 DEF Initialize

\* The first task of the worker queue.
LEMMA FirstTaskType ==
    ASSUME TypeOK, worker # <<>>
    PROVE  /\ Tail(worker) \in Seq(Task)
           /\ Head(worker).type = "cred" => Head(worker).user \in Users
           /\ Head(worker).type = "token" => Head(worker).user \in Users
PROOF
<1>1. Head(worker) \in Task /\ Tail(worker) \in Seq(Task)
  BY HeadTailProperties DEF TypeOK
<1> QED
  BY <1>1 DEF Task

\* A refill for the current user's queue with the handler's environment.
LEMMA RefillType ==
    ASSUME TypeOK, NEW p \in Seq(Batch), NEW u \in Users, NEW s \in StreamType,
           NEW r \in CallType, FillWritePipeline(p, queue[u], s, r, Env)
    PROVE  /\ pipeline' \in Seq(Batch)
           /\ rpc' \in CallType
           /\ stream' \in StreamType
           /\ tokenRequests' \in SUBSET TokenRequestType
PROOF
<1>1. queue[u] \in Seq(Batch)
  BY DEF TypeOK
<1>2. Env \in Environments
  BY EnvType
<1> QED
  BY <1>1, <1>2, FillWritePipelineType

-----------------------------------------------------------------------------
(* The ids of the queues                                                   *)

\* What has to be kept with BatchIdsIncrease: no queue holds an id that the
\* writes made so far could not have been given, and the next id is above the
\* ids of the current user's queue.
IdsInv ==
    /\ nextBatchId \in 1..Len(owner) + 1
    /\ \A u \in Users : Increasing(queue[u]) /\ Below(queue[u], Len(owner) + 1)
    /\ Below(queue[currentUser], nextBatchId)

\* Removing a batch of the current user keeps the ids of all queues in order.
LEMMA RemovalIds ==
    ASSUME TypeOK, IdsInv, NEW id
    PROVE  /\ Without(id) \in [Users -> Seq(Batch)]
           /\ \A u \in Users : /\ Increasing(Without(id)[u])
                               /\ Below(Without(id)[u], Len(owner) + 1)
           /\ Below(Without(id)[currentUser], nextBatchId)
PROOF
<1>1. Len(owner) + 1 \in Nat /\ nextBatchId \in Nat
  BY LenProperties DEF TypeOK
<1>2. queue[currentUser] \in Seq(Batch) /\ currentUser \in Users
  BY DEF TypeOK
<1>3. /\ RemoveBatch(queue[currentUser], id) \in Seq(Batch)
      /\ Increasing(RemoveBatch(queue[currentUser], id))
      /\ Below(RemoveBatch(queue[currentUser], id), Len(owner) + 1)
      /\ Below(RemoveBatch(queue[currentUser], id), nextBatchId)
  BY <1>1, <1>2, RemoveBatchProperties, RemoveBatchIds DEF IdsInv
<1>4. /\ Without(id) \in [Users -> Seq(Batch)]
      /\ \A u \in Users :
           Without(id)[u] = IF u = currentUser
                            THEN RemoveBatch(queue[currentUser], id) ELSE queue[u]
  BY <1>3 DEF TypeOK, Without
<1> QED
  BY <1>2, <1>3, <1>4 DEF IdsInv

\* A step that at most removes a batch keeps the invariant.
LEMMA RemovalKeepsIds ==
    ASSUME TypeOK, IdsInv, UNCHANGED <<currentUser, nextBatchId, owner>>,
           queue' = queue \/ \E id : queue' = Without(id)
    PROVE  IdsInv'
PROOF
<1>1. CASE queue' = queue
  BY <1>1 DEF IdsInv, Increasing, Below
<1>2. ASSUME NEW id, queue' = Without(id)
      PROVE  IdsInv'
  <2>1. /\ nextBatchId' \in 1..Len(owner') + 1
        /\ \A u \in Users :
             Increasing(queue'[u]) /\ Below(queue'[u], Len(owner') + 1)
        /\ Below(queue'[currentUser'], nextBatchId')
    BY <1>2, RemovalIds DEF IdsInv
  <2> QED
    BY <2>1 DEF IdsInv, Increasing, Below
<1> QED
  BY <1>1, <1>2

\* Loading the next id, for whichever user comes, keeps the ids in order.
LEMMA LoadKeepsIds ==
    ASSUME TypeOK, currentUser' \in Users, owner' = owner,
           queue' \in [Users -> Seq(Batch)],
           \A u \in Users :
             Increasing(queue'[u]) /\ Below(queue'[u], Len(owner) + 1),
           nextBatchId' = LoadNextBatchId(queue')
    PROVE  IdsInv' /\ nextBatchId' \in Nat \ {0}
PROOF
<1>1. Len(owner) + 1 \in Nat \ {0}
  <2>1. Len(owner) \in Nat
    BY LenProperties DEF TypeOK
  <2> QED
    BY <2>1
<1>2. /\ nextBatchId' \in 1..Len(owner) + 1
      /\ \A u \in Users : Below(queue'[u], nextBatchId')
  BY <1>1, LoadNextBatchIdProperties
<1>3. nextBatchId' \in Nat \ {0}
  BY <1>1, <1>2
<1>4. /\ nextBatchId' \in 1..Len(owner') + 1
      /\ \A u \in Users :
           Increasing(queue'[u]) /\ Below(queue'[u], Len(owner') + 1)
      /\ Below(queue'[currentUser'], nextBatchId')
  BY <1>2
<1> QED
  BY <1>3, <1>4 DEF IdsInv, Increasing, Below

-----------------------------------------------------------------------------
(* The inductive invariant                                                 *)

IInv == TypeOK /\ IdsInv

\* A write takes the next id, which is above the ids of its queue.
LEMMA WriteMutationsKeepsIInv == IInv /\ WriteMutations => IInv'
PROOF
<1> SUFFICES ASSUME IInv, WriteMutations PROVE IInv'
  OBVIOUS
<1> USE DEF IInv
<1> DEFINE b == [id |-> nextBatchId, write |-> Len(owner) + 1]
           q == Append(queue[currentUser], b)
<1>1. Len(owner) \in Nat /\ MaxWrites \in Nat
  BY LenProperties, BoundsAssumption DEF TypeOK
<1>2. Len(owner) + 1 \in Writes
  BY <1>1 DEF WriteMutations, Writes
<1>3. b \in Batch
  BY <1>2 DEF TypeOK, Batch
<1>4. currentUser \in Users /\ queue[currentUser] \in Seq(Batch)
  BY DEF TypeOK
<1>5. /\ q \in Seq(Batch)
      /\ Increasing(q)
      /\ Below(q, b.id + 1)
  BY <1>3, <1>4, AppendBatchIds DEF IdsInv
<1>6. /\ queue' = [queue EXCEPT ![currentUser] = q]
      /\ callbacks' = [callbacks EXCEPT ![currentUser] =
                         IF \E c \in @ : c.id = b.id THEN @ ELSE @ \cup {b}]
      /\ FillWritePipeline(pipeline, q, stream, rpc, Env)
      /\ nextBatchId' = nextBatchId + 1
      /\ owner' = Append(owner, currentUser)
      /\ UNCHANGED <<lastToken, currentUser, waiters, networkEnabled, worker,
                     authUser, tokenCounter, committed, fate, rejected, released,
                     asserted, used>>
  BY DEF WriteMutations, WriteLocally, TypeOK
<1> HIDE DEF q
<1>7. /\ pipeline' \in Seq(Batch)
      /\ rpc' \in CallType
      /\ stream' \in StreamType
      /\ tokenRequests' \in SUBSET TokenRequestType
  BY <1>5, <1>6, EnvType, FillWritePipelineType DEF TypeOK
<1>8. callbacks' \in [Users -> SUBSET Batch]
  <2> HIDE DEF b
  <2> QED
    BY <1>3, <1>4, <1>6 DEF TypeOK
<1>9. /\ owner' \in Seq(Users)
      /\ Len(owner') = Len(owner) + 1
  BY <1>4, <1>6, AppendProperties DEF TypeOK
<1>10. nextBatchId' \in Nat \ {0}
  BY <1>6 DEF TypeOK
<1>11. TypeOK'
  BY <1>4, <1>5, <1>6, <1>7, <1>8, <1>9, <1>10 DEF TypeOK
<1>12. IdsInv'
  <2>1. nextBatchId' \in 1..Len(owner') + 1
    BY <1>1, <1>6, <1>9 DEF IdsInv
  <2>2. \A u \in Users : queue'[u] = IF u = currentUser THEN q ELSE queue[u]
    BY <1>4, <1>6 DEF TypeOK
  <2>3. Below(q, nextBatchId + 1)
    BY <1>5
  <2>4. \A u \in Users : Below(queue'[u], Len(owner) + 2)
    <3>1. /\ nextBatchId + 1 \in Nat /\ Len(owner) + 1 \in Nat
          /\ Len(owner) + 2 \in Nat /\ Len(owner) + 1 <= Len(owner) + 2
          /\ nextBatchId + 1 <= Len(owner) + 2
      BY <1>1 DEF IdsInv
    <3>2. Below(q, Len(owner) + 2)
      BY <1>5, <2>3, <3>1, BelowMonotonic
    <3>3. \A u \in Users : Below(queue[u], Len(owner) + 2)
      BY <3>1, BelowMonotonic DEF IdsInv, TypeOK
    <3> QED
      BY <2>2, <3>2, <3>3
  <2>5. \A u \in Users :
          Increasing(queue'[u]) /\ Below(queue'[u], Len(owner') + 1)
    <3>1. \A u \in Users : Increasing(queue'[u])
      BY <1>5, <2>2 DEF IdsInv
    <3>2. Len(owner') + 1 = Len(owner) + 2
      BY <1>1, <1>9
    <3> QED
      BY <2>4, <3>1, <3>2
  <2>6. Below(queue'[currentUser'], nextBatchId')
    BY <1>4, <1>6, <2>2, <2>3
  <2> QED
    BY <2>1, <2>5, <2>6 DEF IdsInv, Increasing, Below
<1> QED
  BY <1>11, <1>12

\* The handlers of SyncEngine and RemoteStore that touch the queues.
LEMMA HandlersKeepIInv ==
    ASSUME IInv, HandleCredentialChange \/ MutationResult \/ TokenFailed
                   \/ StreamFinish \/ CorruptResponse
    PROVE  IInv'
PROOF
<1> USE DEF IInv
<1>1. CASE HandleCredentialChange
  <2> DEFINE u == Head(worker).user
             s == [StoppedWrite(stream) EXCEPT !.token = lastToken[u]]
  <2>1. u \in Users /\ Tail(worker) \in Seq(Task)
    BY <1>1, FirstTaskType DEF HandleCredentialChange
  <2>2. /\ worker' = Tail(worker)
        /\ currentUser' = u
        /\ nextBatchId' = IF u # currentUser THEN LoadNextBatchId(queue)
                                             ELSE nextBatchId
        /\ waiters' = IF u # currentUser THEN {} ELSE waiters
        /\ \/ DropCall /\ FillWritePipeline(<<>>, queue[u], s, NoCall, Env)
           \/ UNCHANGED <<committed, pipeline, stream, rpc, tokenRequests>>
        /\ UNCHANGED <<queue, lastToken, callbacks, networkEnabled, authUser,
                       tokenCounter, ghosts>>
    BY <1>1 DEF HandleCredentialChange, HandleUserChange, RestartNetwork,
                FailOutstandingPendingWriteCallbacks
  <2>3. s \in StreamType
    <3>1. StoppedWrite(stream) \in StreamType
      BY StreamTypes DEF TypeOK
    <3>2. lastToken[u] \in Tokens
      BY <2>1 DEF TypeOK
    <3> QED
      BY <3>1, <3>2 DEF StreamType
  <2> HIDE DEF s, u
  <2>4. /\ pipeline' \in Seq(Batch)
        /\ rpc' \in CallType
        /\ stream' \in StreamType
        /\ tokenRequests' \in SUBSET TokenRequestType
        /\ committed' \in SUBSET [user : Users, write : Writes]
    <3>1. CASE DropCall /\ FillWritePipeline(<<>>, queue[u], s, NoCall, Env)
      <4>1. <<>> \in Seq(Batch)
        BY EmptySeq
      <4> QED
        BY <3>1, <4>1, <2>1, <2>3, NoCallType, RefillType, DropCallType
    <3>2. CASE UNCHANGED <<committed, pipeline, stream, rpc, tokenRequests>>
      BY <3>2 DEF TypeOK
    <3> QED
      BY <3>1, <3>2, <2>2
  <2>5. IdsInv' /\ nextBatchId' \in Nat \ {0}
    <3>1. CASE u # currentUser
      BY <3>1, <2>1, <2>2, LoadKeepsIds DEF ghosts, TypeOK, IdsInv
    <3>2. CASE u = currentUser
      BY <3>2, <2>2, RemovalKeepsIds DEF ghosts, TypeOK
    <3> QED
      BY <3>1, <3>2
  <2>6. TypeOK'
    BY <2>1, <2>2, <2>4, <2>5 DEF TypeOK, ghosts
  <2> QED
    BY <2>5, <2>6
<1>2. CASE MutationResult
  <2> DEFINE b == Head(pipeline)
             q == RemoveBatch(queue[currentUser], b.id)
             s == Received(stream)
             r == [rpc EXCEPT !.responses = Tail(@)]
  <2>1. /\ rpc.responses # <<>> /\ pipeline # <<>>
        /\ asserted' \in BOOLEAN
        /\ NotifyUser(b.id, "acked")
        /\ queue' = [queue EXCEPT ![currentUser] = q]
        /\ lastToken' = [lastToken EXCEPT ![currentUser] = rpc.user]
        /\ FillWritePipeline(Tail(pipeline), q, s, r, Env)
        /\ UNCHANGED <<currentUser, nextBatchId, networkEnabled, worker,
                       authUser, tokenCounter, committed, owner, rejected, used>>
    BY <1>2 DEF MutationResult, AcknowledgeBatch, Without, Holds, TypeOK
  <2>2. Tail(pipeline) \in Seq(Batch)
    BY <2>1, HeadTailProperties DEF TypeOK
  <2>3. q \in Seq(Batch)
    BY RemoveBatchProperties DEF TypeOK
  <2>4. rpc.user \in Users /\ rpc.user \in Tokens
    BY DEF TypeOK, CallType, Tokens
  <2>5. s \in StreamType
    BY <2>4 DEF Received, TypeOK, StreamType
  <2>6. r \in CallType
    <3>1. rpc.responses \in Seq(Message)
      BY DEF TypeOK, CallType
    <3>2. Tail(rpc.responses) \in Seq(Message)
      BY <2>1, <3>1, HeadTailProperties
    <3> QED
      BY <3>2 DEF TypeOK, CallType
  <2> HIDE DEF b, q, s, r
  <2>7. /\ pipeline' \in Seq(Batch)
        /\ rpc' \in CallType
        /\ stream' \in StreamType
        /\ tokenRequests' \in SUBSET TokenRequestType
    BY <2>1, <2>2, <2>3, <2>5, <2>6, EnvType, FillWritePipelineType
  <2>8. /\ fate' \in [Writes -> Fates]
        /\ released' \in SUBSET (SUBSET Writes)
        /\ callbacks' \in [Users -> SUBSET Batch]
        /\ waiters' \in SUBSET [id : Nat \ {0}, writes : SUBSET Writes]
    BY <2>1, NotifyUserType DEF Fates
  <2>9. TypeOK'
    BY <2>1, <2>3, <2>4, <2>7, <2>8 DEF TypeOK
  <2>10. IdsInv'
    BY <2>1, RemovalKeepsIds DEF q, Without
  <2> QED
    BY <2>9, <2>10
<1>3. CASE TokenFailed
  <2>1. Tail(worker) \in Seq(Task)
    BY <1>3, FirstTaskType DEF TokenFailed
  <2>2. CASE UNCHANGED <<client, remote, tokenRequests, fate, rejected, released,
                         asserted>>
    <3>1. TypeOK'
      BY <2>1, <2>2, <1>3 DEF TokenFailed, TypeOK, client, remote
    <3>2. IdsInv'
      BY <2>2, <1>3, RemovalKeepsIds DEF TokenFailed, client
    <3> QED
      BY <3>1, <3>2
  <2>3. CASE /\ CloseWithError("lost")
             /\ UNCHANGED <<currentUser, nextBatchId, networkEnabled>>
    <3>1. TypeOK'
      BY <2>1, <2>3, <1>3, CloseWithErrorType DEF TokenFailed, TypeOK
    <3>2. IdsInv'
      BY <2>3, <1>3, CloseWithErrorType, RemovalKeepsIds DEF TokenFailed
    <3> QED
      BY <3>1, <3>2
  <2> QED
    BY <2>2, <2>3, <1>3 DEF TokenFailed
<1>4. CASE StreamFinish
  <2>1. CASE rpc.status = "ok"
    <3>1. /\ asserted' \in BOOLEAN
          /\ stream' = StoppedWrite(stream)
          /\ rpc' = NoCall
          /\ UNCHANGED <<client, pipeline, tokenRequests, fate, rejected,
                         released>>
          /\ UNCHANGED <<networkEnabled, worker, authUser, tokenCounter,
                         committed, owner, used>>
      BY <2>1, <1>4 DEF StreamFinish, Holds, TypeOK
    <3>2. stream' \in StreamType /\ rpc' \in CallType
      BY <3>1, StreamTypes, NoCallType DEF TypeOK
    <3>3. TypeOK'
      BY <3>1, <3>2 DEF TypeOK, client
    <3>4. IdsInv'
      BY <3>1, RemovalKeepsIds DEF client
    <3> QED
      BY <3>3, <3>4
  <2>2. CASE rpc.status # "ok"
    <3>1. /\ CloseWithError(rpc.status)
          /\ UNCHANGED <<currentUser, nextBatchId, networkEnabled, worker,
                         authUser, tokenCounter, committed, owner, used>>
      BY <2>2, <1>4 DEF StreamFinish
    <3>2. TypeOK'
      BY <3>1, CloseWithErrorType, ZenonT(40) DEF TypeOK
    <3>3. IdsInv'
      BY <3>1, CloseWithErrorType, RemovalKeepsIds
    <3> QED
      BY <3>2, <3>3
  <2> QED
    BY <2>1, <2>2
<1>5. CASE CorruptResponse
  <2>1. /\ CloseWithError("permanent")
        /\ DropCall
        /\ used' = [used EXCEPT !.faults = @ + 1]
        /\ UNCHANGED <<currentUser, nextBatchId, networkEnabled, worker,
                       authUser, tokenCounter, owner>>
    BY <1>5 DEF CorruptResponse, Fault
  <2>2. TypeOK'
    BY <2>1, CloseWithErrorType, DropCallType, UsedType, ZenonT(40) DEF TypeOK
  <2>3. IdsInv'
    BY <2>1, CloseWithErrorType, RemovalKeepsIds
  <2> QED
    BY <2>2, <2>3
<1> QED
  BY <1>1, <1>2, <1>3, <1>4, <1>5

\* The handlers and calls that leave the queues and the callbacks alone.
LEMMA StreamEventsKeepIInv ==
    ASSUME IInv, RegisterPendingWritesCallback \/ EnableNetwork \/ DisableNetwork
                   \/ StreamOpen \/ HandshakeComplete \/ IdleTimeout
                   \/ BackoffElapsed
    PROVE  IInv'
PROOF
<1> USE DEF IInv
<1>1. IdsInv'
  <2>1. UNCHANGED <<queue, currentUser, nextBatchId, owner>>
    BY DEF RegisterPendingWritesCallback, EnableNetwork, DisableNetwork, StreamOpen,
           HandshakeComplete, IdleTimeout, BackoffElapsed, client
  <2> QED
    BY <2>1, RemovalKeepsIds
<1>2. CASE RegisterPendingWritesCallback
  <2> DEFINE q == queue[currentUser]
  <2>1. q \in Seq(Batch) /\ q # <<>>
    BY <1>2 DEF RegisterPendingWritesCallback, TypeOK
  <2>2. LastId(q) \in Nat \ {0}
    <3>1. Len(q) \in 1..Len(q)
      BY <2>1, EmptySeq
    <3>2. q[Len(q)] \in Batch
      BY <2>1, <3>1, ElementOfSeq
    <3> QED
      BY <2>1, <3>2 DEF LastId, Batch
  <2>3. WritesIn(q) \in SUBSET Writes
    <3>1. \A i \in DOMAIN q : q[i] \in Batch
      BY <2>1, LenProperties, ElementOfSeq
    <3> QED
      BY <3>1 DEF WritesIn, Batch
  <2>4. /\ waiters' = waiters \cup {[id |-> LastId(q), writes |-> WritesIn(q)]}
        /\ used' = [used EXCEPT !.waits = @ + 1]
        /\ UNCHANGED <<queue, lastToken, currentUser, nextBatchId, callbacks,
                       remote, auth, committed, owner, fate, rejected, released,
                       asserted>>
    BY <1>2 DEF RegisterPendingWritesCallback
  <2> HIDE DEF q
  <2>5. [id |-> LastId(q), writes |-> WritesIn(q)]
          \in [id : Nat \ {0}, writes : SUBSET Writes]
    BY <2>2, <2>3
  <2>6. waiters' \in SUBSET [id : Nat \ {0}, writes : SUBSET Writes]
    BY <2>4, <2>5 DEF TypeOK
  <2>7. TypeOK'
    BY <2>4, <2>6, UsedType DEF TypeOK, remote, auth
  <2> QED
    BY <2>7, <1>1
<1>3. CASE EnableNetwork
  <2> DEFINE s == [stream EXCEPT !.token = lastToken[currentUser]]
             e == [Env EXCEPT !.net = TRUE]
  <2>1. /\ used' = [used EXCEPT !.toggles = @ + 1]
        /\ networkEnabled' = TRUE
        /\ FillWritePipeline(pipeline, queue[currentUser], s, rpc, e)
        /\ UNCHANGED <<client, worker, authUser, tokenCounter, committed, owner,
                       fate, rejected, released, asserted>>
    BY <1>3 DEF EnableNetwork
  <2>2. s \in StreamType
    BY DEF TypeOK, StreamType
  <2>3. e \in Environments
    BY EnvType DEF Environments
  <2> HIDE DEF s, e
  <2>4. queue[currentUser] \in Seq(Batch) /\ pipeline \in Seq(Batch)
        /\ rpc \in CallType
    BY DEF TypeOK
  <2>5. /\ pipeline' \in Seq(Batch)
        /\ rpc' \in CallType
        /\ stream' \in StreamType
        /\ tokenRequests' \in SUBSET TokenRequestType
    BY <2>1, <2>2, <2>3, <2>4, FillWritePipelineType
  <2>6. TypeOK'
    BY <2>1, <2>5, UsedType DEF TypeOK, client
  <2> QED
    BY <2>6, <1>1
<1>4. CASE DisableNetwork
  <2>1. <<>> \in Seq(Batch) /\ StoppedWrite(stream) \in StreamType
    BY EmptySeq, StreamTypes DEF TypeOK
  <2>2. TypeOK'
    BY <2>1, <1>4, NoCallType, DropCallType, UsedType
       DEF DisableNetwork, TypeOK, client, auth
  <2> QED
    BY <2>2, <1>1
<1>5. CASE StreamOpen
  <2>1. Tail(worker) \in Seq(Task) /\ Head(worker).user \in Users
    BY <1>5, FirstTaskType DEF StreamOpen
  <2>2. stream' \in StreamType /\ rpc' \in CallType /\ asserted' \in BOOLEAN
    <3>1. CASE UNCHANGED <<stream, rpc, asserted>>
      BY <3>1 DEF TypeOK
    <3>2. CASE /\ Holds(stream.state = "Starting" /\ ~stream.handshake)
               /\ stream' = [Opened(stream) EXCEPT !.idle = FALSE]
               /\ rpc' = NewCall(Head(worker).user)
      <4>1. stream' \in StreamType
        BY <3>2 DEF TypeOK, StreamType, StreamStates, Opened
      <4>2. asserted' \in BOOLEAN
        BY <3>2 DEF Holds, TypeOK
      <4> QED
        BY <4>1, <4>2, <3>2, <2>1, NewCallType
    <3> QED
      BY <3>1, <3>2, <1>5 DEF StreamOpen
  <2>3. TypeOK'
    BY <2>1, <2>2, <1>5 DEF StreamOpen, TypeOK, client
  <2> QED
    BY <2>3, <1>1
<1>6. CASE HandshakeComplete
  <2>1. /\ rpc.user \in Users /\ rpc.user \in Tokens
        /\ rpc.responses \in Seq(Message) /\ rpc.requests \in Seq(Message)
    BY DEF TypeOK, CallType, Tokens
  <2>2. Tail(rpc.responses) \in Seq(Message)
    BY <1>6, <2>1, HeadTailProperties DEF HandshakeComplete
  <2>3. rpc.requests \o pipeline \in Seq(Message)
    <3>1. pipeline \in Seq(Message)
      BY SeqMonotonic DEF TypeOK, Message
    <3> QED
      BY <2>1, <3>1, ConcatProperties
  <2>4. rpc' \in CallType
    <3>1. rpc' = [rpc EXCEPT !.responses = Tail(@), !.requests = @ \o pipeline]
      BY <1>6 DEF HandshakeComplete
    <3> QED
      BY <3>1, <2>2, <2>3 DEF TypeOK, CallType
  <2>5. stream' \in StreamType
    BY <1>6, <2>1 DEF HandshakeComplete, Received, TypeOK, StreamType
  <2>6. lastToken' \in [Users -> Tokens] /\ asserted' \in BOOLEAN
    BY <1>6, <2>1 DEF HandshakeComplete, Holds, TypeOK
  <2>7. TypeOK'
    BY <1>6, <2>4, <2>5, <2>6 DEF HandshakeComplete, TypeOK, auth
  <2> QED
    BY <2>7, <1>1
<1>7. CASE IdleTimeout
  <2>1. StoppedWrite(stream) \in StreamType /\ asserted' \in BOOLEAN
    BY <1>7, StreamTypes DEF TypeOK, IdleTimeout, Holds
  <2>2. TypeOK'
    BY <2>1, <1>7, NoCallType, DropCallType DEF IdleTimeout, TypeOK, client, auth
  <2> QED
    BY <2>2, <1>1
<1>8. CASE BackoffElapsed
  <2>1. TokenRequest(stream, authUser, tokenCounter) \in TokenRequestType
    BY DEF TokenRequest, TokenRequestType, TypeOK, StreamType
  <2>2. stream' \in StreamType /\ asserted' \in BOOLEAN
    BY <1>8 DEF BackoffElapsed, Holds, TypeOK, StreamType, StreamStates,
                Restarted
  <2>3. TypeOK'
    BY <2>1, <2>2, <1>8 DEF BackoffElapsed, TypeOK, client
  <2> QED
    BY <2>3, <1>1
<1> QED
  BY <1>2, <1>3, <1>4, <1>5, <1>6, <1>7, <1>8

\* Auth, the backend and the network.
LEMMA EnvironmentKeepsIInv ==
    ASSUME IInv, AuthStateChanged \/ Authenticate \/ BackendReply \/ BackendRefuse
                   \/ BackendCloseOk \/ CallLost
    PROVE  IInv'
PROOF
<1> USE DEF IInv
<1>1. IdsInv'
  <2>1. UNCHANGED <<queue, currentUser, nextBatchId, owner>>
    BY DEF AuthStateChanged, Authenticate, BackendReply, BackendRefuse,
           BackendCloseOk, CallLost, client, ghosts
  <2> QED
    BY <2>1, RemovalKeepsIds
<1>2. rpc.requests \in Seq(Message) /\ rpc.responses \in Seq(Message)
  BY DEF TypeOK, CallType
<1>3. Len(rpc.requests) \in Nat /\ Len(rpc.responses) \in Nat
  BY <1>2, LenProperties
<1>4. CASE AuthStateChanged
  <2>1. PICK u \in Users :
          authUser' = u /\ worker' = Append(worker, [type |-> "cred", user |-> u])
    BY <1>4 DEF AuthStateChanged
  <2>2. [type |-> "cred", user |-> u] \in Task
    BY DEF Task
  <2>3. worker' \in Seq(Task)
    BY <2>1, <2>2, AppendProperties DEF TypeOK
  <2>4. tokenCounter' \in Nat
    <3>1. tokenCounter \in Nat /\ tokenCounter' = tokenCounter + 1
      BY <1>4 DEF AuthStateChanged, TypeOK
    <3> QED
      BY <3>1
  <2>5. TypeOK'
    BY <2>1, <2>3, <2>4, <1>4, UsedType
       DEF AuthStateChanged, TypeOK, client, remote
  <2> QED
    BY <2>5, <1>1
<1>5. CASE Authenticate
  <2>1. /\ worker' \in Seq(Task)
        /\ tokenRequests' \in SUBSET TokenRequestType
        /\ used' \in [waits : Nat, auth : Nat, toggles : Nat, restarts : Nat,
                      faults : Nat]
    <3>1. PICK r \in tokenRequests :
            \/ /\ tokenRequests' = (tokenRequests \ {r}) \cup
                    {[r EXCEPT !.user = authUser, !.counter = tokenCounter]}
               /\ UNCHANGED <<worker, used>>
            \/ /\ tokenRequests' = tokenRequests \ {r}
               /\ \E ok \in BOOLEAN :
                    /\ worker' = Append(worker, [type |-> "token",
                                    user |-> r.user, count |-> r.count,
                                    ok |-> ok])
                    /\ used' \in {used, [used EXCEPT !.faults = @ + 1]}
      BY <1>5 DEF Authenticate, GetTokenDone
    <3>2. r \in TokenRequestType
      BY DEF TypeOK
    <3>3. [r EXCEPT !.user = authUser, !.counter = tokenCounter]
            \in TokenRequestType
      BY <3>2 DEF TokenRequestType, TypeOK
    <3>4. \A ok \in BOOLEAN :
            [type |-> "token", user |-> r.user, count |-> r.count, ok |-> ok]
              \in Task
      BY <3>2 DEF TokenRequestType, Task
    <3>5. worker' \in Seq(Task)
      <4>1. worker \in Seq(Task)
        BY DEF TypeOK
      <4>2. CASE worker' = worker
        BY <4>1, <4>2
      <4>3. CASE \E t \in Task : worker' = Append(worker, t)
        BY <4>1, <4>3, AppendProperties
      <4> QED
        BY <4>2, <4>3, <3>1, <3>4
    <3>6. tokenRequests' \in SUBSET TokenRequestType
      BY <3>1, <3>3 DEF TypeOK
    <3>7. used' \in [waits : Nat, auth : Nat, toggles : Nat, restarts : Nat,
                     faults : Nat]
      BY <3>1, UsedType DEF TypeOK
    <3> QED
      BY <3>5, <3>6, <3>7
  <2>2. TypeOK'
    BY <2>1, <1>5 DEF Authenticate, TypeOK, client, remote
  <2> QED
    BY <2>2, <1>1
<1>6. CASE BackendReply
  <2>1. rpc.requests # <<>>
    BY <1>6 DEF BackendReply
  <2>2. /\ Head(rpc.requests) \in Message /\ Tail(rpc.requests) \in Seq(Message)
        /\ Append(rpc.responses, Head(rpc.requests)) \in Seq(Message)
    BY <2>1, <1>2, HeadTailProperties, AppendProperties
  <2>3. rpc' \in CallType
    BY <2>2, <1>6 DEF BackendReply, TypeOK, CallType
  <2>4. Executed(rpc, 1) \in SUBSET [user : Users, write : Writes]
    <3>1. 1 \in 0..Len(rpc.requests)
      BY <2>1, <1>2, EmptySeq
    <3> QED
      BY <3>1, ExecutedType DEF TypeOK
  <2>5. TypeOK'
    BY <2>3, <2>4, <1>6 DEF BackendReply, TypeOK, client, auth, ghosts
  <2> QED
    BY <2>5, <1>1
<1>7. CASE BackendRefuse
  <2>1. rpc.requests # <<>>
    BY <1>7 DEF BackendRefuse
  <2>2. /\ Tail(rpc.requests) \in Seq(Message)
        /\ Head(rpc.requests).write \in Writes \cup {0}
    <3>1. Head(rpc.requests) \in Message /\ Tail(rpc.requests) \in Seq(Message)
      BY <2>1, <1>2, HeadTailProperties
    <3> QED
      BY <3>1 DEF Message, Batch, Handshake
  <2>3. PICK kind \in {"aborted", "permanent"} :
          /\ used' = [used EXCEPT !.faults = @ + 1]
          /\ rpc' = [rpc EXCEPT !.requests = Tail(@), !.status = kind,
                                !.refused = Head(rpc.requests).write]
    BY <1>7 DEF BackendRefuse, Fault
  <2>4. rpc' \in CallType
    BY <2>2, <2>3 DEF TypeOK, CallType
  <2>5. TypeOK'
    BY <2>3, <2>4, <1>7, UsedType DEF BackendRefuse, TypeOK, client, auth
  <2> QED
    BY <2>5, <1>1
<1>8. CASE BackendCloseOk
  <2>1. rpc' \in CallType
    BY <1>8 DEF BackendCloseOk, TypeOK, CallType
  <2>2. TypeOK'
    BY <2>1, <1>8, UsedType DEF BackendCloseOk, Fault, TypeOK, client, auth
  <2> QED
    BY <2>2, <1>1
<1>9. CASE CallLost
  <2>1. PICK n \in 0..Len(rpc.requests), k \in 0..Len(rpc.responses) :
          /\ committed' = committed \cup Executed(rpc, n)
          /\ rpc' = [rpc EXCEPT !.status = "lost",
                       !.responses = SubSeq(@, 1, k),
                       !.requests = SubSeq(@, n + 1, Len(@))]
    BY <1>9 DEF CallLost
  <2>2. SubSeq(rpc.responses, 1, k) \in Seq(Message)
    <3>1. \A i \in 1..k : rpc.responses[i] \in Message
      BY <1>2, <1>3, ElementOfSeq
    <3> QED
      BY <3>1, <1>3, SubSeqProperties
  <2>3. SubSeq(rpc.requests, n + 1, Len(rpc.requests)) \in Seq(Message)
    <3>1. \A i \in n + 1..Len(rpc.requests) : rpc.requests[i] \in Message
      BY <1>2, <1>3, ElementOfSeq
    <3> QED
      BY <3>1, <1>3, SubSeqProperties
  <2>4. rpc' \in CallType
    BY <2>1, <2>2, <2>3 DEF TypeOK, CallType
  <2>5. Executed(rpc, n) \in SUBSET [user : Users, write : Writes]
    BY ExecutedType DEF TypeOK
  <2>6. TypeOK'
    BY <2>1, <2>4, <2>5, <1>9, UsedType DEF CallLost, Fault, TypeOK, client, auth
  <2> QED
    BY <2>6, <1>1
<1> QED
  BY <1>4, <1>5, <1>6, <1>7, <1>8, <1>9

\* The death of the process, between two handlers or inside one.
LEMMA DeathKeepsIInv ==
    ASSUME IInv, Death
    PROVE  IInv'
PROOF
<1> USE DEF IInv
<1>1. PICK q : /\ Initialize(q)
               /\ q \in [Users -> Seq(Batch)]
               /\ \A u \in Users :
                    Increasing(q[u]) /\ Below(q[u], Len(owner) + 1)
  <2>1. CASE Restart \/ DieBeforeAcknowledgeBatch
    BY <2>1 DEF Restart, DieBeforeAcknowledgeBatch, TypeOK, IdsInv
  <2>2. CASE DieBeforeNotifyUser
    BY <2>2, RemovalIds DEF DieBeforeNotifyUser
  <2> QED
    BY <2>1, <2>2 DEF Death
<1>2. currentUser' \in Users
  BY <1>1, UsersAssumption DEF Initialize, TypeOK
<1>3. /\ queue' = q
      /\ nextBatchId' = LoadNextBatchId(q)
      /\ UNCHANGED <<lastToken, owner, asserted>>
  BY <1>1 DEF Initialize
<1>4. IdsInv' /\ nextBatchId' \in Nat \ {0}
  BY <1>1, <1>2, <1>3, LoadKeepsIds
<1>5. /\ fate' \in [Writes -> Fates]
      /\ released' \in SUBSET (SUBSET Writes)
      /\ rejected' \in SUBSET Writes
  <2>1. CASE Restart
    BY <2>1 DEF Restart, TypeOK
  <2>2. CASE DieBeforeAcknowledgeBatch
    <3> DEFINE id == Head(pipeline).id
    <3>1. TellUser(id, "acked") /\ rejected' = rejected
      BY <2>2 DEF DieBeforeAcknowledgeBatch
    <3> HIDE DEF id
    <3>2. fate' \in [Writes -> Fates]
      BY <3>1 DEF TellUser, TypeOK, Fates
    <3>3. \A x \in Woken(id) : x.writes \in SUBSET Writes
      BY DEF TypeOK, Woken
    <3>4. released' \in SUBSET (SUBSET Writes)
      BY <3>1, <3>3 DEF TellUser, TypeOK
    <3> QED
      BY <3>1, <3>2, <3>4 DEF TypeOK
  <2>3. CASE DieBeforeNotifyUser
    <3>1. Head(pipeline) \in Batch
      BY <2>3, HeadTailProperties DEF DieBeforeNotifyUser, TypeOK
    <3> QED
      BY <2>3, <3>1 DEF DieBeforeNotifyUser, TypeOK, Batch
  <2> QED
    BY <2>1, <2>2, <2>3 DEF Death
<1>6. TypeOK'
  BY <1>1, <1>3, <1>4, <1>5, InitializeType DEF TypeOK
<1> QED
  BY <1>4, <1>6

\* The initial states.
LEMMA InitEstablishesIInv == Init => IInv
PROOF
<1> SUFFICES ASSUME Init PROVE IInv
  OBVIOUS
<1>1. queue = [u \in Users |-> <<>>]
  BY DEF Init
<1>2. /\ queue \in [Users -> Seq(Batch)]
      /\ \A u \in Users : queue[u] = <<>> /\ DOMAIN queue[u] = {}
  BY <1>1, EmptySeq
<1>3. \A u \in Users : Increasing(queue[u]) /\ \A n : Below(queue[u], n)
  BY <1>2 DEF Increasing, Below
<1>4. nextBatchId \in 1..1
  <2>1. nextBatchId = LoadNextBatchId(queue)
    BY DEF Init
  <2>2. 1 \in Nat \ {0} /\ \A u \in Users : Below(queue[u], 1)
    BY <1>3
  <2> QED
    BY <2>1, <2>2, <1>2, LoadNextBatchIdProperties
<1>5. currentUser \in Users
  BY DEF Init
<1>6. IdsInv
  <2>1. owner = <<>> /\ Len(owner) = 0
    BY EmptySeq DEF Init
  <2>2. nextBatchId \in 1..Len(owner) + 1
    BY <1>4, <2>1
  <2> QED
    BY <1>3, <1>5, <2>2 DEF IdsInv
<1>7. InitialStream(NoToken) \in StreamType
  BY DEF InitialStream, StreamType, StreamStates, Tokens
<1>8. <<>> \in Seq(Batch) /\ <<>> \in Seq(Task) /\ <<>> \in Seq(Users)
  BY EmptySeq
<1>9. nextBatchId \in Nat \ {0}
  BY <1>4
<1>10. TypeOK
  BY <1>2, <1>5, <1>7, <1>8, <1>9, NoCallType DEF Init, TypeOK, Tokens, Fates
<1> QED
  BY <1>6, <1>10 DEF IInv

\* Every step keeps the invariant.
LEMMA NextKeepsIInv == IInv /\ [Next]_vars => IInv'
PROOF
<1> SUFFICES ASSUME IInv, [Next]_vars PROVE IInv'
  OBVIOUS
<1>1. CASE Caller
  BY <1>1, WriteMutationsKeepsIInv, StreamEventsKeepIInv, EnvironmentKeepsIInv
     DEF Caller
<1>2. CASE Handler
  BY <1>2, HandlersKeepIInv, StreamEventsKeepIInv DEF Handler
<1>3. CASE Environment
  BY <1>3, HandlersKeepIInv, EnvironmentKeepsIInv DEF Environment
<1>4. CASE Death
  BY <1>4, DeathKeepsIInv
<1>5. CASE UNCHANGED vars
  BY <1>5 DEF IInv, TypeOK, IdsInv, Increasing, Below, vars, client, remote, auth,
              ghosts
<1> QED
  BY <1>1, <1>2, <1>3, <1>4, <1>5 DEF Next

\* Every variable of the write path keeps its type in every behaviour, whatever
\* the order of calls, handlers, faults and restarts.
THEOREM TypeCorrect == Spec => []TypeOK
PROOF
<1>1. IInv => TypeOK
  BY DEF IInv
<1> QED
  BY <1>1, InitEstablishesIInv, NextKeepsIInv, PTL DEF Spec

\* The ids of every user's mutation queue strictly increase in every behaviour:
\* AddMutationBatch never overwrites a batch, although user changes and restarts
\* make next_batch_id_ go back to ids that were used before.
THEOREM IdsIncrease == Spec => []BatchIdsIncrease
PROOF
<1>1. IInv => BatchIdsIncrease
  BY DEF IInv, IdsInv, Increasing, BatchIdsIncrease
<1> QED
  BY <1>1, InitEstablishesIInv, NextKeepsIInv, PTL DEF Spec
=============================================================================
