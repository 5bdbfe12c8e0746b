----------------------- MODULE WritePipelineSafetyProofs -----------------------
(***************************************************************************)
(* The inductive invariant of WritePipeline and the safety properties that  *)
(* follow from it, for every set of users, every pipeline limit and every    *)
(* value of the bounds.                                                     *)
(***************************************************************************)
EXTENDS WritePipelineRefinement, WritePipelineProofs

-----------------------------------------------------------------------------
(* The parts of the invariant                                              *)

\* p is the beginning of q.
Begins(p, q) == Len(p) <= Len(q) /\ \A i \in 1..Len(p) : p[i] = q[i]

\* The write stream s, its call r, the pipeline p and the network switch fit:
\* there is a call exactly while the stream is open, a stream that has yet to
\* complete its handshake has something to send, an idle one has not.
StreamFits(s, r, p, net) ==
    /\ s.handshake => s.state = "Open"
    /\ s.idle => s.state = "Open" /\ p = <<>>
    /\ s.backoff <=> s.state = "Backoff"
    /\ r.status = "none" <=> s.state # "Open"
    /\ r.status = "none" => r = NoCall
    /\ ~net => ~Started(s) /\ p = <<>>
    /\ Started(s) /\ ~s.handshake => p # <<>>

\* At most one token callback, asked for or queued, has the stream's close count,
\* and only while the stream waits for it.
TokensFit(s, requests, w) ==
    /\ \A r \in requests : r.count <= s.closeCount
    /\ \A i \in 1..Len(w) : w[i].type = "token" => w[i].count <= s.closeCount
    /\ \A r \in requests : r.count = s.closeCount =>
         /\ s.state = "Starting"
         /\ \A x \in requests : x.count = s.closeCount => x = r
         /\ \A i \in 1..Len(w) : w[i].type = "token" => w[i].count # s.closeCount
    /\ \A i \in 1..Len(w) : w[i].type = "token" /\ w[i].count = s.closeCount =>
         /\ s.state = "Starting"
         /\ \A j \in 1..Len(w) :
              w[j].type = "token" /\ w[j].count = s.closeCount => j = i

\* A request for a token that will not be asked again is Auth's user's.
RequestsFit(requests, u, counter) ==
    \A r \in requests : /\ r.counter <= counter
                        /\ r.counter = counter => r.user = u

\* What call r owes pipeline p: the responses are those of its first batches, and
\* while the call runs, responses and requests together are the pipeline.
CallFits(s, r, p) ==
    /\ s.handshake => Begins(r.responses, p)
    /\ s.handshake /\ r.status = "running" => r.responses \o r.requests = p
    /\ ~s.handshake => r.responses \in {<<>>, <<Handshake>>}
    /\ ~s.handshake /\ r.status = "running" =>
         \/ r.responses = <<>> /\ r.requests = <<Handshake>>
         \/ r.responses = <<Handshake>> /\ r.requests = <<>>

\* All of it for the pipeline p of queue q, stream s, call r, environment e and
\* worker queue w that a handler has reached.
Fits(p, q, s, r, e, w) ==
    /\ StreamFits(s, r, p, e.net)
    /\ TokensFit(s, e.requests, w)
    /\ RequestsFit(e.requests, e.user, e.counter)
    /\ Begins(p, q)
    /\ CallFits(s, r, p)

\* Nothing is left behind: the pipeline is filled and its stream is started, unless
\* an assertion has failed.
PathInv ==
    /\ Fits(pipeline, queue[currentUser], stream, rpc, Env, worker)
    /\ networkEnabled /\ queue[currentUser] # <<>> => pipeline # <<>>
    /\ asserted /\ networkEnabled /\ pipeline # <<>> => Started(stream)

\* The client's user once the first i tasks of w have been run, from user c.
UserAfter(w, c, i, u) ==
    \/ c = u /\ \A j \in 1..i : w[j].type # "cred"
    \/ \E j \in 1..i : /\ w[j].type = "cred" /\ w[j].user = u
                       /\ \A k \in 1..i : k > j => w[k].type # "cred"

\* Every token is its user's: the worker queue leads to Auth's user, a token in it
\* is the user's who will be current when it is run, and the call is the current
\* user's.
TasksFit(w, c, u) ==
    /\ UserAfter(w, c, Len(w), u)
    /\ \A i \in 1..Len(w) :
         w[i].type = "token" => UserAfter(w, c, i, w[i].user)

UserInv ==
    /\ TasksFit(worker, currentUser, authUser)
    /\ rpc.status # "none" => rpc.user = currentUser
    /\ TokensBelongToUser

\* The writes of a queue are its user's, in the order they were made.
OwnedBy(q, u, o) ==
    /\ \A i \in 1..Len(q) : q[i].write \in 1..Len(o) /\ o[q[i].write] = u
    /\ \A i, j \in 1..Len(q) : i < j => q[i].write < q[j].write

\* What has been committed is its owner's, and so are the responses.
OwnerInv ==
    /\ \A u \in Users : OwnedBy(queue[u], u, owner)
    /\ \A c \in committed : c.write \in 1..Len(owner) /\ owner[c.write] = c.user
    /\ \A i \in 1..Len(rpc.responses) : rpc.responses[i].write # 0 =>
         [user |-> rpc.user, write |-> rpc.responses[i].write] \in committed

\* Nobody waits for w any more.
Settled(w) == w \in rejected \/ \E c \in committed : c.write = w

\* Callbacks and waiters are those of writes that are still queued; a write that
\* was told is older than what is queued.
SettledInv ==
    /\ CallbacksHaveBatches
    /\ \A w \in Writes : fate[w] # "none" =>
         /\ w \in 1..Len(owner)
         /\ \A i \in 1..Len(queue[owner[w]]) : w <= queue[owner[w]][i].write
    /\ \A W \in released : \A w \in W : Settled(w)
    /\ \A x \in waiters : \A w \in x.writes :
         \/ Settled(w)
         \/ \E i \in 1..Len(queue[currentUser]) :
              /\ queue[currentUser][i].write = w
              /\ queue[currentUser][i].id <= x.id

\* An assertion only fails when the backend ends a call with OK.
AssertInv ==
    /\ rpc.status = "ok" => "ok" \in FaultKinds
    /\ asserted \/ "ok" \in FaultKinds

-----------------------------------------------------------------------------
(* Beginnings of sequences                                                 *)

\* Begins is the prefix relation of the properties.
LEMMA BeginsIsPrefix ==
    ASSUME NEW S, NEW p \in Seq(S), NEW q \in Seq(S), Begins(p, q)
    PROVE  IsPrefix(p, q)
PROOF
<1>1. Len(p) \in Nat /\ Len(q) \in Nat
  BY LenProperties
<1>2. \A i \in 1..Len(p) : p[i] \in S /\ q[i] \in S
  <2> SUFFICES ASSUME NEW i \in 1..Len(p) PROVE p[i] \in S /\ q[i] \in S
    OBVIOUS
  <2>1. i \in 1..Len(q)
    BY <1>1 DEF Begins
  <2> QED
    BY <2>1, ElementOfSeq
<1>3. /\ SubSeq(p, 1, Len(p)) \in Seq(S)
      /\ Len(SubSeq(p, 1, Len(p))) = Len(p)
      /\ \A i \in 1..Len(p) : SubSeq(p, 1, Len(p))[i] = p[i]
  BY <1>1, <1>2, SubSeqProperties
<1>4. /\ SubSeq(q, 1, Len(p)) \in Seq(S)
      /\ Len(SubSeq(q, 1, Len(p))) = Len(p)
      /\ \A i \in 1..Len(p) : SubSeq(q, 1, Len(p))[i] = q[i]
  BY <1>1, <1>2, SubSeqProperties
<1>5. SubSeq(p, 1, Len(p)) = SubSeq(q, 1, Len(p))
  BY <1>3, <1>4, SeqEqual DEF Begins
<1> QED
  BY <1>5 DEF IsPrefix, Begins

\* The rest of a beginning begins the rest.
LEMMA BeginsTail ==
    ASSUME NEW S, NEW p \in Seq(S), NEW q \in Seq(S), Begins(p, q), p # <<>>
    PROVE  /\ q # <<>> /\ 1 \in 1..Len(p) /\ 1 \in 1..Len(q)
           /\ Head(p) = p[1] /\ Head(p) = q[1] /\ Head(q) = q[1]
           /\ Begins(Tail(p), Tail(q))
PROOF
<1>1. Len(p) \in Nat \ {0} /\ Len(q) \in Nat
  BY EmptySeq, LenProperties
<1>2. q # <<>> /\ 1 \in 1..Len(p) /\ 1 \in 1..Len(q)
  BY <1>1, EmptySeq DEF Begins
<1>3. Head(p) = p[1] /\ Head(p) = q[1] /\ Head(q) = q[1]
  BY <1>2 DEF Begins
<1>4. /\ Len(Tail(p)) = Len(p) - 1 /\ Len(Tail(q)) = Len(q) - 1
      /\ \A i \in 1..Len(Tail(p)) : Tail(p)[i] = p[i + 1]
      /\ \A i \in 1..Len(Tail(q)) : Tail(q)[i] = q[i + 1]
  BY <1>2, HeadTailProperties
<1>5. \A i \in 1..Len(p) - 1 : i \in 1..Len(q) - 1 /\ i + 1 \in 1..Len(p)
  BY <1>1 DEF Begins
<1>6. Begins(Tail(p), Tail(q))
  BY <1>1, <1>4, <1>5 DEF Begins
<1> QED
  BY <1>2, <1>3, <1>6

\* A beginning stays one when something is added at the end.
LEMMA BeginsConcat ==
    ASSUME NEW S, NEW p \in Seq(S), NEW q \in Seq(S), NEW r \in Seq(S), Begins(p, q)
    PROVE  Begins(p, q \o r)
PROOF
<1>1. Len(p) \in Nat /\ Len(q) \in Nat /\ Len(r) \in Nat
  BY LenProperties
<1>2. /\ Len(q \o r) = Len(q) + Len(r)
      /\ \A i \in 1..Len(q) + Len(r) :
           (q \o r)[i] = IF i <= Len(q) THEN q[i] ELSE r[i - Len(q)]
  BY ConcatProperties
<1>3. \A i \in 1..Len(p) : i \in 1..Len(q) + Len(r) /\ i <= Len(q)
  BY <1>1 DEF Begins
<1>4. Len(p) <= Len(q) + Len(r)
  BY <1>1 DEF Begins
<1> QED
  BY <1>2, <1>3, <1>4 DEF Begins

\* And another element at its end.
LEMMA BeginsAppend ==
    ASSUME NEW S, NEW p \in Seq(S), NEW q \in Seq(S), NEW b \in S, Begins(p, q)
    PROVE  Begins(p, Append(q, b))
PROOF
<1>1. <<b>> \in Seq(S) /\ Append(q, b) = q \o <<b>>
  BY AppendIsConcat
<1> QED
  BY <1>1, BeginsConcat

\* Every sequence begins itself and its continuations; the empty one begins all.
LEMMA BeginsSelf ==
    ASSUME NEW S, NEW p \in Seq(S), NEW r \in Seq(S)
    PROVE  Begins(p, p) /\ Begins(p, p \o r) /\ Begins(<<>>, p)
PROOF
<1>1. Len(p) \in Nat /\ Len(<<>>) = 0
  BY LenProperties, EmptySeq
<1>2. Begins(p, p)
  BY <1>1 DEF Begins
<1>3. Begins(<<>>, p)
  BY <1>1 DEF Begins
<1> QED
  BY <1>2, <1>3, BeginsConcat

\* What is added to a beginning is a part of the whole.
LEMMA BeginsElement ==
    ASSUME NEW S, NEW r \in Seq(S), NEW s \in Seq(S), NEW q \in Seq(S),
           Begins(r \o s, q), NEW i \in 1..Len(s)
    PROVE  \E j \in 1..Len(q) : q[j] = s[i]
PROOF
<1>1. Len(r) \in Nat /\ Len(s) \in Nat /\ Len(q) \in Nat
  BY LenProperties
<1>2. /\ Len(r \o s) = Len(r) + Len(s)
      /\ \A k \in 1..Len(r) + Len(s) :
           (r \o s)[k] = IF k <= Len(r) THEN r[k] ELSE s[k - Len(r)]
  BY ConcatProperties
<1>3. /\ Len(r) + i \in 1..Len(r) + Len(s)
      /\ ~(Len(r) + i <= Len(r))
      /\ (Len(r) + i) - Len(r) = i
  BY <1>1
<1>4. (r \o s)[Len(r) + i] = s[i]
  BY <1>2, <1>3
<1>5. Len(r) + i \in 1..Len(q)
  BY <1>1, <1>2, <1>3 DEF Begins
<1> QED
  BY <1>2, <1>3, <1>4, <1>5 DEF Begins

\* The head can be taken off before or after something is added.
LEMMA ConcatTail ==
    ASSUME NEW S, NEW r \in Seq(S), NEW s \in Seq(S), r # <<>>
    PROVE  /\ Tail(r) \o s = Tail(r \o s)
           /\ r \o s # <<>>
PROOF
<1>1. Len(r) \in Nat \ {0} /\ Len(s) \in Nat
  BY EmptySeq, LenProperties
<1>2. /\ r \o s \in Seq(S) /\ Len(r \o s) = Len(r) + Len(s)
      /\ \A k \in 1..Len(r) + Len(s) :
           (r \o s)[k] = IF k <= Len(r) THEN r[k] ELSE s[k - Len(r)]
  BY ConcatProperties
<1>3. r \o s # <<>>
  BY <1>1, ConcatEqualIffEmpty
<1>4. /\ Tail(r) \in Seq(S) /\ Len(Tail(r)) = Len(r) - 1
      /\ \A i \in 1..Len(Tail(r)) : Tail(r)[i] = r[i + 1]
  BY HeadTailProperties
<1>5. /\ Tail(r \o s) \in Seq(S) /\ Len(Tail(r \o s)) = Len(r) + Len(s) - 1
      /\ \A i \in 1..Len(Tail(r \o s)) : Tail(r \o s)[i] = (r \o s)[i + 1]
  BY <1>2, <1>3, HeadTailProperties
<1>6. /\ Tail(r) \o s \in Seq(S) /\ Len(Tail(r) \o s) = Len(r) - 1 + Len(s)
      /\ \A k \in 1..Len(r) - 1 + Len(s) :
           (Tail(r) \o s)[k] = IF k <= Len(r) - 1 THEN Tail(r)[k]
                               ELSE s[k - (Len(r) - 1)]
  BY <1>4, ConcatProperties
<1>7. ASSUME NEW k \in 1..Len(r) - 1 + Len(s)
      PROVE  (Tail(r) \o s)[k] = Tail(r \o s)[k]
  <2>1. /\ k + 1 \in 1..Len(r) + Len(s) /\ k \in 1..Len(r) + Len(s) - 1
        /\ k <= Len(r) - 1 <=> k + 1 <= Len(r)
        /\ k - (Len(r) - 1) = (k + 1) - Len(r)
        /\ k <= Len(r) - 1 => k \in 1..Len(r) - 1
    BY <1>1
  <2>2. Tail(r \o s)[k] = IF k + 1 <= Len(r) THEN r[k + 1] ELSE s[(k + 1) - Len(r)]
    BY <1>2, <1>5, <2>1
  <2>3. (Tail(r) \o s)[k] = IF k <= Len(r) - 1 THEN r[k + 1] ELSE s[k - (Len(r) - 1)]
    BY <1>4, <1>6, <2>1
  <2> QED
    BY <2>1, <2>2, <2>3
<1>8. Len(Tail(r) \o s) = Len(Tail(r \o s))
  BY <1>1, <1>5, <1>6
<1>9. Tail(r) \o s = Tail(r \o s)
  BY <1>5, <1>6, <1>7, <1>8, SeqEqual
<1> QED
  BY <1>3, <1>9

\* A message may go from the front of one sequence to the end of the other.
LEMMA ConcatMove ==
    ASSUME NEW S, NEW r \in Seq(S), NEW s \in Seq(S), s # <<>>
    PROVE  Append(r, Head(s)) \o Tail(s) = r \o s
PROOF
<1>1. /\ Head(s) \in S /\ Tail(s) \in Seq(S)
  BY HeadTailProperties
<1>2. <<Head(s)>> \in Seq(S) /\ Append(r, Head(s)) = r \o <<Head(s)>>
  BY <1>1, AppendIsConcat
<1>3. (r \o <<Head(s)>>) \o Tail(s) = r \o (<<Head(s)>> \o Tail(s))
  BY <1>1, <1>2, ConcatAssociative, SMTT(30)
<1>4. <<Head(s)>> \o Tail(s) = s
  <2>1. Len(s) \in Nat \ {0}
    BY EmptySeq
  <2>2. 1 \in 1..Len(s) /\ Len(s) \in 1..Len(s)
    BY <2>1
  <2>3. SubSeq(s, 1, Len(s)) = <<s[1]>> \o SubSeq(s, 2, Len(s))
    BY <2>1, <2>2, SubSeqRecursiveFirst
  <2>4. SubSeq(s, 1, Len(s)) = s /\ Tail(s) = SubSeq(s, 2, Len(s))
    BY SubSeqFull, TailIsSubSeq
  <2> QED
    BY <2>3, <2>4
<1> QED
  BY <1>2, <1>3, <1>4

-----------------------------------------------------------------------------
(* The pipeline and the queue                                              *)

\* Removing the batch at the front leaves the rest.
LEMMA RemoveHead ==
    ASSUME NEW q \in Seq(Batch), Increasing(q), q # <<>>
    PROVE  HasBatch(q, q[1].id) /\ RemoveBatch(q, q[1].id) = Tail(q)
PROOF
<1>1. /\ Len(q) \in Nat \ {0} /\ DOMAIN q = 1..Len(q)
      /\ \A i \in 1..Len(q) : q[i] \in Batch
  BY EmptySeq, LenProperties, ElementOfSeq
<1>2. 1 \in DOMAIN q
  BY <1>1
<1>3. \A i \in DOMAIN q : q[i].id = q[1].id => i = 1
  <2>1. \A i \in DOMAIN q : q[i].id \in Nat
    BY <1>1 DEF Batch
  <2>2. \A i \in DOMAIN q : i # 1 => 1 < i
    BY <1>1
  <2> QED
    BY <1>2, <2>1, <2>2 DEF Increasing
<1>4. (CHOOSE i \in DOMAIN q : q[i].id = q[1].id) = 1
  BY <1>2, <1>3
<1>5. HasBatch(q, q[1].id)
  BY <1>2 DEF HasBatch
<1>6. SubSeq(q, 1, 1 - 1) = <<>>
  BY SubSeqEmpty
<1>7. SubSeq(q, 1 + 1, Len(q)) = Tail(q)
  BY TailIsSubSeq
<1>8. Tail(q) \in Seq(Batch)
  BY HeadTailProperties
<1>9. <<>> \o Tail(q) = Tail(q)
  BY <1>8, ConcatEmptySeq
<1>10. RemoveAt(q, 1) = Tail(q)
  BY <1>6, <1>7, <1>9 DEF RemoveAt
<1> QED
  BY <1>4, <1>5, <1>10 DEF RemoveBatch

\* As many batches of a queue as are in its beginning have ids up to the last one's.
LEMMA SkipIsLength ==
    ASSUME NEW p \in Seq(Batch), NEW q \in Seq(Batch), Increasing(q), Begins(p, q)
    PROVE  Cardinality({i \in DOMAIN q : q[i].id <= LastId(p)}) = Len(p)
PROOF
<1>1. /\ Len(p) \in Nat /\ Len(q) \in Nat /\ DOMAIN q = 1..Len(q)
      /\ \A i \in 1..Len(q) : q[i].id \in Nat \ {0}
  <2>1. \A i \in 1..Len(q) : q[i] \in Batch
    BY ElementOfSeq
  <2> QED
    BY <2>1, LenProperties DEF Batch
<1>2. {i \in DOMAIN q : q[i].id <= LastId(p)} = 1..Len(p)
  <2>1. CASE p = <<>>
    <3>1. LastId(p) = 0 /\ Len(p) = 0
      BY <2>1, EmptySeq DEF LastId
    <3> QED
      BY <1>1, <3>1
  <2>2. CASE p # <<>>
    <3>1. Len(p) \in 1..Len(p) /\ Len(p) \in 1..Len(q)
      BY <1>1, <2>2, EmptySeq DEF Begins
    <3>2. LastId(p) = q[Len(p)].id
      BY <2>2, <3>1 DEF LastId, Begins
    <3>3. ASSUME NEW i \in 1..Len(q)
          PROVE  q[i].id <= q[Len(p)].id <=> i <= Len(p)
      <4>1. CASE i < Len(p)
        BY <1>1, <3>1, <4>1, SMTT(30) DEF Increasing
      <4>2. CASE i = Len(p)
        BY <1>1, <3>1, <4>2
      <4>3. CASE i > Len(p)
        <5>1. q[Len(p)].id < q[i].id
          BY <1>1, <3>1, <4>3 DEF Increasing
        <5> QED
          BY <1>1, <3>1, <4>3, <5>1
      <4> QED
        BY <1>1, <4>1, <4>2, <4>3
    <3>4. \A i \in 1..Len(p) : i \in 1..Len(q)
      BY <1>1 DEF Begins
    <3> QED
      BY <1>1, <3>2, <3>3, <3>4
  <2> QED
    BY <2>1, <2>2
<1>3. Cardinality(1..Len(p)) = Len(p)
  <2>1. 1 \in Int /\ Len(p) \in Int
    BY <1>1
  <2>2. Cardinality(1..Len(p)) = IF 1 > Len(p) THEN 0 ELSE Len(p) - 1 + 1
    BY <2>1, FS_Interval
  <2> QED
    BY <1>1, <2>2
<1> QED
  BY <1>2, <1>3

\* The batches that FillWritePipeline adds continue the beginning, and leave nothing
\* out while there is room.
LEMMA NextBatchesContinue ==
    ASSUME NEW p \in Seq(Batch), NEW q \in Seq(Batch), NEW room \in Nat,
           Increasing(q), Begins(p, q)
    PROVE  LET added == NextBatches(q, LastId(p), room)
           IN  /\ added \in Seq(Batch)
               /\ p \o added \in Seq(Batch)
               /\ Begins(p \o added, q)
               /\ room # 0 /\ q # <<>> => p \o added # <<>>
               /\ room = 0 => added = <<>>
PROOF
<1> DEFINE added == NextBatches(q, LastId(p), room)
           last == IF Len(q) <= Len(p) + room THEN Len(q) ELSE Len(p) + room
<1>1. /\ Len(p) \in Nat /\ Len(q) \in Nat /\ Len(p) <= Len(q)
  BY LenProperties DEF Begins
<1>2. added = SubSeq(q, Len(p) + 1, last)
  BY SkipIsLength DEF NextBatches
<1>3. /\ last \in Nat /\ last <= Len(q) /\ Len(p) <= last
      /\ room = 0 => last = Len(p)
      /\ room # 0 /\ Len(q) # 0 => last # 0
  BY <1>1
<1> HIDE DEF last
<1>4. \A i \in Len(p) + 1..last : q[i] \in Batch
  <2> SUFFICES ASSUME NEW i \in Len(p) + 1..last PROVE q[i] \in Batch
    OBVIOUS
  <2>1. i \in 1..Len(q)
    BY <1>1, <1>3
  <2> QED
    BY <2>1, ElementOfSeq
<1>5. /\ added \in Seq(Batch)
      /\ Len(added) = last - Len(p)
      /\ \A i \in 1..last - Len(p) : added[i] = q[Len(p) + i]
  <2>1. Len(p) + 1 \in Int /\ last \in Int
    BY <1>1, <1>3
  <2>2. /\ SubSeq(q, Len(p) + 1, last) \in Seq(Batch)
        /\ Len(SubSeq(q, Len(p) + 1, last)) =
             IF Len(p) + 1 <= last THEN last - (Len(p) + 1) + 1 ELSE 0
        /\ \A i \in 1..last - (Len(p) + 1) + 1 :
             SubSeq(q, Len(p) + 1, last)[i] = q[(Len(p) + 1) + i - 1]
    BY ONLY q \in Seq(Batch), <1>4, <2>1, SubSeqProperties
  <2>3. /\ (IF Len(p) + 1 <= last THEN last - (Len(p) + 1) + 1 ELSE 0) = last - Len(p)
        /\ last - (Len(p) + 1) + 1 = last - Len(p)
        /\ \A i \in 1..last - Len(p) : (Len(p) + 1) + i - 1 = Len(p) + i
    BY <1>1, <1>3
  <2> QED
    BY <1>2, <2>2, <2>3
<1> HIDE DEF added
<1>6. /\ p \o added \in Seq(Batch)
      /\ Len(p \o added) = last
      /\ \A i \in 1..last :
           (p \o added)[i] = IF i <= Len(p) THEN p[i] ELSE added[i - Len(p)]
  <2>1. Len(p) + (last - Len(p)) = last
    BY <1>1, <1>3
  <2>2. /\ p \o added \in Seq(Batch)
        /\ Len(p \o added) = Len(p) + Len(added)
        /\ \A i \in 1..Len(p) + Len(added) :
             (p \o added)[i] = IF i <= Len(p) THEN p[i] ELSE added[i - Len(p)]
    BY <1>5, ConcatProperties
  <2> QED
    BY <1>5, <2>1, <2>2
<1>7. ASSUME NEW i \in 1..last
      PROVE  (p \o added)[i] = q[i]
  <2>1. CASE i <= Len(p)
    <3>1. i \in 1..Len(p)
      BY <1>1, <2>1
    <3> QED
      BY <1>6, <2>1, <3>1 DEF Begins
  <2>2. CASE ~(i <= Len(p))
    <3>1. i - Len(p) \in 1..last - Len(p) /\ Len(p) + (i - Len(p)) = i
      BY <1>1, <1>3, <2>2
    <3> QED
      BY <1>5, <1>6, <2>2, <3>1
  <2> QED
    BY <2>1, <2>2
<1>8. Begins(p \o added, q)
  BY <1>3, <1>6, <1>7 DEF Begins
<1>9. room # 0 /\ q # <<>> => p \o added # <<>>
  <2>1. q # <<>> => Len(q) # 0
    BY EmptySeq
  <2>2. p \o added = <<>> => Len(p \o added) = 0
    BY EmptySeq
  <2> QED
    BY <1>3, <1>6, <2>1, <2>2
<1>10. room = 0 => added = <<>>
  <2>1. room = 0 => Len(added) = 0
    BY <1>1, <1>3, <1>5
  <2> QED
    BY <1>5, <2>1, EmptySeq
<1> QED
  BY <1>5, <1>6, <1>8, <1>9, <1>10 DEF added

-----------------------------------------------------------------------------
(* Closing and starting the stream                                         *)

\* Stream t is s after Stop() or Close(error): callbacks of a start of s are stale.
Closes(s, t) ==
    /\ t.state \in {"Initial", "Error"}
    /\ ~t.handshake /\ ~t.idle /\ ~t.backoff
    /\ \/ t.closeCount = s.closeCount + 1
       \/ t.closeCount = s.closeCount /\ s.state # "Starting"

\* The streams that the handlers close.
LEMMA StopCloses ==
    ASSUME NEW s \in StreamType, NEW r, NEW p, NEW net, StreamFits(s, r, p, net),
           NEW x \in Tokens
    PROVE  /\ StoppedWrite(s) \in StreamType
           /\ Closes(s, StoppedWrite(s))
           /\ [StoppedWrite(s) EXCEPT !.token = x] \in StreamType
           /\ Closes(s, [StoppedWrite(s) EXCEPT !.token = x])
PROOF
<1>1. StoppedWrite(s) \in StreamType
  BY StreamTypes
<1>2. Closes(s, StoppedWrite(s))
  BY DEF StoppedWrite, Stopped, Started, StreamFits, Closes, StreamType, StreamStates
<1> HIDE DEF StoppedWrite
<1> QED
  BY <1>1, <1>2 DEF StreamType, Closes

\* A stream that fails is closed.
LEMMA FailureCloses ==
    ASSUME NEW s \in StreamType, NEW x \in Tokens
    PROVE  LET f == Failed(s)
           IN  /\ [f EXCEPT !.handshake = FALSE] \in StreamType
               /\ Closes(s, [f EXCEPT !.handshake = FALSE])
               /\ [f EXCEPT !.handshake = FALSE, !.token = x] \in StreamType
               /\ Closes(s, [f EXCEPT !.handshake = FALSE, !.token = x])
               /\ [f EXCEPT !.state = "Initial", !.handshake = FALSE] \in StreamType
               /\ Closes(s, [f EXCEPT !.state = "Initial", !.handshake = FALSE])
PROOF
<1> DEFINE f == Failed(s)
<1>1. f \in StreamType
  BY StreamTypes
<1>2. /\ f.state = "Error" /\ ~f.idle /\ ~f.backoff
      /\ f.closeCount = s.closeCount + 1
  BY DEF Failed, StreamType
<1> HIDE DEF f
<1> DEFINE a == [f EXCEPT !.handshake = FALSE]
           b == [f EXCEPT !.handshake = FALSE, !.token = x]
           c == [f EXCEPT !.state = "Initial", !.handshake = FALSE]
<1>3. a \in StreamType /\ Closes(s, a)
  BY <1>1, <1>2 DEF StreamType, Closes
<1>4. b \in StreamType /\ Closes(s, b)
  BY <1>1, <1>2 DEF StreamType, Closes
<1>5. c \in StreamType /\ Closes(s, c)
  BY <1>1, <1>2 DEF StreamType, StreamStates, Closes
<1> QED
  BY <1>3, <1>4, <1>5 DEF f

\* A token callback has a close count.
LEMMA TokenTaskType ==
    ASSUME NEW w \in Seq(Task)
    PROVE  /\ Len(w) \in Nat
           /\ \A i \in 1..Len(w) :
                w[i].type = "token" => w[i].count \in Nat /\ w[i].user \in Users
PROOF
<1>1. \A i \in 1..Len(w) : w[i] \in Task
  BY ElementOfSeq
<1> QED
  BY <1>1, LenProperties DEF Task

\* Once closed, no token is waited for and there is no call.
LEMMA CloseKeepsFit ==
    ASSUME NEW p \in Seq(Batch), NEW q \in Seq(Batch), NEW s \in StreamType,
           NEW t \in StreamType, NEW e \in Environments, NEW w \in Seq(Task),
           TokensFit(s, e.requests, w), RequestsFit(e.requests, e.user, e.counter),
           Closes(s, t), Begins(p, q), ~e.net => p = <<>>
    PROVE  Fits(p, q, t, NoCall, e, w)
PROOF
<1>1. StreamFits(t, NoCall, p, e.net)
  BY DEF StreamFits, Closes, NoCall, Started
<1>2. TokensFit(t, e.requests, w)
  <2>1. \A r \in e.requests : r.count \in Nat
    BY DEF Environments, TokenRequestType
  <2>2. \A i \in 1..Len(w) : w[i].type = "token" => w[i].count \in Nat
    BY TokenTaskType
  <2>3. s.closeCount \in Nat /\ t.closeCount \in Nat
    BY DEF StreamType
  <2>4. /\ \A r \in e.requests : r.count <= s.closeCount
        /\ \A i \in 1..Len(w) : w[i].type = "token" => w[i].count <= s.closeCount
    BY DEF TokensFit
  <2>5. CASE t.closeCount = s.closeCount + 1
    <3>1. \A r \in e.requests : r.count <= t.closeCount /\ r.count # t.closeCount
      BY <2>1, <2>3, <2>4, <2>5
    <3>2. \A i \in 1..Len(w) : w[i].type = "token" =>
            w[i].count <= t.closeCount /\ w[i].count # t.closeCount
      BY <2>2, <2>3, <2>4, <2>5
    <3> QED
      BY <3>1, <3>2 DEF TokensFit
  <2>6. CASE t.closeCount = s.closeCount /\ s.state # "Starting"
    BY <2>6 DEF TokensFit
  <2> QED
    BY <2>5, <2>6 DEF Closes
<1>3. CallFits(t, NoCall, p)
  BY DEF CallFits, Closes, NoCall
<1> QED
  BY <1>1, <1>2, <1>3 DEF Fits

\* Starting the stream if it has to be.
LEMMA StartKeepsFit ==
    ASSUME NEW p \in Seq(Batch), NEW q \in Seq(Batch), NEW s \in StreamType,
           NEW r \in CallType, NEW e \in Environments, NEW w \in Seq(Task),
           Fits(p, q, s, r, e, w), StartWriteStreamIfNeeded(p, s, e)
    PROVE  /\ Fits(p, q, stream', r, [e EXCEPT !.requests = tokenRequests'], w)
           /\ e.net /\ p # <<>> => Started(stream')
PROOF
<1>1. /\ StreamFits(s, r, p, e.net) /\ TokensFit(s, e.requests, w)
      /\ RequestsFit(e.requests, e.user, e.counter)
      /\ Begins(p, q) /\ CallFits(s, r, p)
  BY DEF Fits
<1> DEFINE e2 == [e EXCEPT !.requests = tokenRequests']
<1>2. /\ e2.net = e.net /\ e2.user = e.user /\ e2.counter = e.counter
      /\ e2.requests = tokenRequests'
  BY DEF Environments
<1> HIDE DEF e2
<1>3. CASE ~(e.net /\ ~Started(s) /\ p # <<>>)
  <2>1. stream' = s /\ tokenRequests' = e.requests
    BY <1>3 DEF StartWriteStreamIfNeeded
  <2>2. Fits(p, q, stream', r, e2, w)
    BY <1>1, <1>2, <2>1 DEF Fits
  <2> QED
    BY <1>3, <2>1, <2>2 DEF e2
<1>4. CASE e.net /\ ~Started(s) /\ p # <<>> /\ s.state = "Error"
  <2>1. /\ stream' = [s EXCEPT !.state = "Backoff", !.backoff = TRUE]
        /\ tokenRequests' = e.requests
    BY <1>4 DEF StartWriteStreamIfNeeded, StartStream
  <2>2. /\ stream'.state = "Backoff" /\ stream'.backoff
        /\ stream'.handshake = s.handshake /\ stream'.idle = s.idle
        /\ stream'.closeCount = s.closeCount
    BY <2>1 DEF StreamType
  <2>3. StreamFits(stream', r, p, e.net)
    BY <1>1, <1>4, <2>2 DEF StreamFits, Started
  <2>4. TokensFit(stream', e.requests, w)
    BY <1>1, <1>4, <2>2 DEF TokensFit
  <2>5. CallFits(stream', r, p)
    BY <1>1, <2>2 DEF CallFits
  <2>6. Fits(p, q, stream', r, e2, w)
    BY <1>1, <1>2, <2>1, <2>3, <2>4, <2>5 DEF Fits
  <2> QED
    BY <2>2, <2>6 DEF e2, Started
<1>5. CASE e.net /\ ~Started(s) /\ p # <<>> /\ s.state = "Initial"
  <2> DEFINE x == TokenRequest(s, e.user, e.counter)
  <2>1. /\ stream' = [s EXCEPT !.state = "Starting"]
        /\ tokenRequests' = e.requests \cup {x}
    BY <1>5 DEF StartWriteStreamIfNeeded, StartStream
  <2>2. /\ stream'.state = "Starting" /\ stream'.backoff = s.backoff
        /\ stream'.handshake = s.handshake /\ stream'.idle = s.idle
        /\ stream'.closeCount = s.closeCount
    BY <2>1 DEF StreamType
  <2>3. x.count = s.closeCount /\ x.user = e.user /\ x.counter = e.counter
    BY DEF TokenRequest
  <2>4. s.closeCount \in Nat /\ e.counter \in Nat
    BY DEF StreamType, Environments
  <2> HIDE DEF x
  <2>5. StreamFits(stream', r, p, e.net)
    BY <1>1, <1>5, <2>2 DEF StreamFits, Started
  <2>6. TokensFit(stream', tokenRequests', w)
    <3>1. /\ \A y \in e.requests : y.count <= s.closeCount /\ y.count # s.closeCount
          /\ \A i \in 1..Len(w) : w[i].type = "token" =>
               w[i].count <= s.closeCount /\ w[i].count # s.closeCount
      BY <1>1, <1>5 DEF TokensFit
    <3>2. x.count <= s.closeCount
      BY <2>3, <2>4
    <3> QED
      BY <2>1, <2>2, <2>3, <3>1, <3>2 DEF TokensFit
  <2>7. RequestsFit(tokenRequests', e.user, e.counter)
    BY <1>1, <2>1, <2>3, <2>4 DEF RequestsFit
  <2>8. CallFits(stream', r, p)
    BY <1>1, <2>2 DEF CallFits
  <2>9. Fits(p, q, stream', r, e2, w)
    BY <1>1, <1>2, <2>5, <2>6, <2>7, <2>8 DEF Fits
  <2> QED
    BY <2>2, <2>9 DEF e2, Started
<1> QED
  BY <1>3, <1>4, <1>5 DEF Started, StreamType, StreamStates

\* What a handler that ends in FillWritePipeline leaves behind.
LEMMA FillKeepsFit ==
    ASSUME NEW p \in Seq(Batch), NEW q \in Seq(Batch), NEW s \in StreamType,
           NEW r \in CallType, NEW e \in Environments, NEW w \in Seq(Task),
           Increasing(q), Fits(p, q, s, r, e, w), FillWritePipeline(p, q, s, r, e)
    PROVE  /\ Fits(pipeline', q, stream', rpc', [e EXCEPT !.requests = tokenRequests'],
                   w)
           /\ e.net /\ q # <<>> => pipeline' # <<>>
           /\ e.net /\ pipeline' # <<>> => Started(stream')
PROOF
<1>1. /\ StreamFits(s, r, p, e.net) /\ TokensFit(s, e.requests, w)
      /\ RequestsFit(e.requests, e.user, e.counter)
      /\ Begins(p, q) /\ CallFits(s, r, p)
  BY DEF Fits
<1> DEFINE room == IF e.net /\ Len(p) < MaxPending THEN MaxPending - Len(p) ELSE 0
           added == NextBatches(q, LastId(p), room)
           sent == MaySend(s) /\ added # <<>>
           idles == room > 0 /\ p \o added = <<>> /\ s.state = "Open"
           s2 == [s EXCEPT !.idle = (@ /\ ~sent) \/ idles]
           p2 == p \o added
<1>2. /\ room \in Nat
      /\ e.net /\ p = <<>> => room # 0
      /\ ~e.net => room = 0
  <2>1. Len(p) \in Nat /\ (p = <<>> => Len(p) = 0)
    BY LenProperties, EmptySeq
  <2> QED
    BY <2>1, PendingAssumption
<1>3. /\ pipeline' = p2
      /\ rpc' = IF sent THEN [r EXCEPT !.requests = @ \o added] ELSE r
      /\ StartWriteStreamIfNeeded(p2, s2, e)
  BY DEF FillWritePipeline
<1> HIDE DEF room
<1>4. /\ added \in Seq(Batch) /\ p2 \in Seq(Batch) /\ Begins(p2, q)
      /\ room # 0 /\ q # <<>> => p2 # <<>>
      /\ room = 0 => added = <<>>
  BY <1>1, <1>2, NextBatchesContinue
<1>5. (p2 = <<>> <=> p = <<>> /\ added = <<>>) /\ (added = <<>> => p2 = p)
  BY <1>4, ConcatEqualIffEmpty
<1>6. rpc' \in CallType
  BY FillWritePipelineType
<1>7. /\ s2 \in StreamType
      /\ s2.state = s.state /\ s2.handshake = s.handshake
      /\ s2.backoff = s.backoff /\ s2.closeCount = s.closeCount
      /\ s2.idle => p2 = <<>> /\ s.state = "Open"
  <2>1. s.idle => s.state = "Open" /\ p = <<>> /\ s.handshake
    BY <1>1 DEF StreamFits, Started
  <2>2. s.idle /\ ~sent => added = <<>>
    BY <2>1 DEF MaySend
  <2>3. idles => p2 = <<>> /\ s.state = "Open"
    OBVIOUS
  <2>4. ((s.idle /\ ~sent) \/ idles) \in BOOLEAN
    OBVIOUS
  <2> HIDE DEF sent, idles
  <2>5. s2 \in StreamType /\ s2.state = s.state /\ s2.handshake = s.handshake
        /\ s2.backoff = s.backoff /\ s2.closeCount = s.closeCount
        /\ s2.idle = ((s.idle /\ ~sent) \/ idles)
    BY <2>4 DEF StreamType
  <2> HIDE DEF s2, p2, added
  <2>6. s2.idle => p2 = <<>> /\ s.state = "Open"
    BY <1>5, <2>1, <2>2, <2>3, <2>5
  <2> QED
    BY <2>5, <2>6
<1>8. ~sent => rpc' = r
  BY <1>3
<1>9. sent => /\ rpc'.status = r.status /\ rpc'.responses = r.responses
              /\ rpc'.requests = r.requests \o added
  BY <1>3 DEF CallType
<1>10. sent => s.state = "Open" /\ s.handshake
  BY DEF MaySend
<1>11. ~sent => added = <<>> \/ ~(s.state = "Open" /\ s.handshake)
  BY DEF MaySend
<1> HIDE DEF added, sent, idles, s2
<1>12. StreamFits(s2, rpc', p2, e.net)
  <2>1. r.status = "none" <=> s.state # "Open"
    BY <1>1 DEF StreamFits
  <2>2. /\ rpc'.status = "none" <=> s.state # "Open"
        /\ rpc'.status = "none" => rpc' = NoCall
    BY <1>1, <1>8, <1>9, <1>10, <2>1 DEF StreamFits
  <2>3. Started(s2) <=> Started(s)
    BY <1>7 DEF Started
  <2> HIDE DEF p2
  <2> QED
    BY <1>1, <1>2, <1>4, <1>5, <1>7, <2>2, <2>3 DEF StreamFits
<1>13. TokensFit(s2, e.requests, w)
  BY <1>1, <1>7 DEF TokensFit
<1>14. CallFits(s2, rpc', p2)
  <2>0. /\ p \in Seq(Message) /\ added \in Seq(Message)
        /\ r.responses \in Seq(Message) /\ r.requests \in Seq(Message)
    BY <1>4, SeqMonotonic DEF Message, CallType
  <2>1. CASE ~s.handshake
    BY <1>1, <1>7, <1>8, <1>10, <2>1 DEF CallFits
  <2>2. CASE s.handshake
    <3>1. Begins(r.responses, p2)
      BY <1>1, <2>0, <2>2, BeginsConcat DEF CallFits
    <3>2. CASE sent
      <4>1. r.status = "running" => r.responses \o (r.requests \o added) = p2
        <5>1. \A a, b, c \in Seq(Message) : (a \o b) \o c = a \o (b \o c)
          BY ONLY ConcatAssociative, SMTT(30)
        <5>2. (r.responses \o r.requests) \o added = r.responses \o (r.requests \o added)
          BY ONLY <2>0, <5>1, ZenonT(40)
        <5> QED
          BY <1>1, <2>2, <5>2 DEF CallFits
      <4> QED
        BY <1>7, <1>9, <2>2, <3>1, <3>2, <4>1 DEF CallFits
    <3>3. CASE ~sent
      <4>1. p2 = p
        BY <1>1, <1>5, <1>11, <2>2, <3>3 DEF StreamFits
      <4> QED
        BY <1>1, <1>7, <1>8, <2>2, <3>3, <4>1 DEF CallFits
    <3> QED
      BY <3>2, <3>3
  <2> QED
    BY <2>1, <2>2
<1>15. Fits(p2, q, s2, rpc', e, w)
  BY <1>1, <1>4, <1>12, <1>13, <1>14 DEF Fits
<1> HIDE DEF p2
<1>16. /\ Fits(p2, q, stream', rpc', [e EXCEPT !.requests = tokenRequests'], w)
       /\ e.net /\ p2 # <<>> => Started(stream')
  BY <1>3, <1>4, <1>6, <1>7, <1>15, StartKeepsFit
<1> QED
  BY <1>2, <1>3, <1>4, <1>5, <1>16

-----------------------------------------------------------------------------
(* The state that the handlers start from                                  *)

\* The types of what they use.
LEMMA PathTypes ==
    ASSUME IInv
    PROVE  /\ pipeline \in Seq(Batch) /\ pipeline \in Seq(Message)
           /\ currentUser \in Users /\ queue[currentUser] \in Seq(Batch)
           /\ \A u \in Users : queue[u] \in Seq(Batch) /\ Increasing(queue[u])
           /\ Increasing(queue[currentUser])
           /\ stream \in StreamType
           /\ rpc \in CallType /\ rpc.user \in Users
           /\ rpc.requests \in Seq(Message) /\ rpc.responses \in Seq(Message)
           /\ Env \in Environments /\ Env.net = networkEnabled
           /\ Env.user = authUser /\ Env.counter = tokenCounter
           /\ Env.requests = tokenRequests
           /\ worker \in Seq(Task) /\ authUser \in Users /\ tokenCounter \in Nat
           /\ \A u \in Users : lastToken[u] \in Tokens
           /\ networkEnabled \in BOOLEAN /\ asserted \in BOOLEAN
PROOF
<1>1. Env \in Environments
  BY EnvType DEF IInv
<1>2. pipeline \in Seq(Message)
  BY SeqMonotonic DEF IInv, TypeOK, Message
<1> QED
  BY <1>1, <1>2 DEF IInv, IdsInv, TypeOK, CallType, Env

\* PathInv in its parts.
LEMMA PathParts ==
    ASSUME PathInv
    PROVE  /\ StreamFits(stream, rpc, pipeline, networkEnabled)
           /\ TokensFit(stream, tokenRequests, worker)
           /\ RequestsFit(tokenRequests, authUser, tokenCounter)
           /\ Begins(pipeline, queue[currentUser])
           /\ CallFits(stream, rpc, pipeline)
PROOF
  BY DEF PathInv, Fits, Env

\* While there is a pipeline, its front is the front of the current user's queue.
LEMMA HeadOfPipeline ==
    ASSUME IInv, PathInv, pipeline # <<>>
    PROVE  /\ queue[currentUser] # <<>> /\ 1 \in 1..Len(queue[currentUser])
           /\ 1 \in 1..Len(pipeline) /\ pipeline[1] = Head(pipeline)
           /\ Head(pipeline) = queue[currentUser][1]
           /\ Head(pipeline) \in Batch
           /\ HasBatch(queue[currentUser], Head(pipeline).id)
           /\ Without(Head(pipeline).id) =
                [queue EXCEPT ![currentUser] = Tail(queue[currentUser])]
           /\ Without(Head(pipeline).id)[currentUser] = Tail(queue[currentUser])
           /\ Begins(Tail(pipeline), Tail(queue[currentUser]))
           /\ Tail(pipeline) \in Seq(Batch)
           /\ Tail(queue[currentUser]) \in Seq(Batch)
           /\ Increasing(Tail(queue[currentUser]))
PROOF
<1> DEFINE q == queue[currentUser]
<1>1. Begins(pipeline, q)
  BY PathParts
<1>2. /\ q # <<>> /\ 1 \in 1..Len(pipeline) /\ 1 \in 1..Len(q)
      /\ Head(pipeline) = pipeline[1] /\ Head(pipeline) = q[1]
      /\ Begins(Tail(pipeline), Tail(q))
  BY <1>1, PathTypes, BeginsTail
<1>3. HasBatch(q, q[1].id) /\ RemoveBatch(q, q[1].id) = Tail(q)
  BY <1>2, PathTypes, RemoveHead
<1>4. Increasing(Tail(q))
  BY <1>3, PathTypes, RemoveBatchIds
<1>5. /\ Head(pipeline) \in Batch /\ Tail(pipeline) \in Seq(Batch)
      /\ Tail(q) \in Seq(Batch)
  BY <1>2, PathTypes, HeadTailProperties
<1>6. /\ Without(Head(pipeline).id) = [queue EXCEPT ![currentUser] = Tail(q)]
      /\ Without(Head(pipeline).id)[currentUser] = Tail(q)
  BY <1>2, <1>3, PathTypes DEF Without, IInv, TypeOK
<1> QED
  BY <1>2, <1>3, <1>4, <1>5, <1>6

\* What a refill establishes.
LEMMA RefillKeepsPath ==
    ASSUME NEW p \in Seq(Batch), NEW q \in Seq(Batch), NEW s \in StreamType,
           NEW r \in CallType, NEW e \in Environments, worker' \in Seq(Task),
           Increasing(q), Fits(p, q, s, r, e, worker'),
           FillWritePipeline(p, q, s, r, e),
           queue'[currentUser'] = q, networkEnabled' = e.net, authUser' = e.user,
           tokenCounter' = e.counter
    PROVE  PathInv'
PROOF
<1> DEFINE e2 == [e EXCEPT !.requests = tokenRequests']
<1>1. /\ Fits(pipeline', q, stream', rpc', e2, worker')
      /\ e.net /\ q # <<>> => pipeline' # <<>>
      /\ e.net /\ pipeline' # <<>> => Started(stream')
  BY FillKeepsFit
<1>2. Env' = e2
  <2>1. e = [net |-> e.net, user |-> e.user, counter |-> e.counter,
             requests |-> e.requests]
    BY DEF Environments
  <2>2. e2 = [net |-> e.net, user |-> e.user, counter |-> e.counter,
              requests |-> tokenRequests']
    BY <2>1
  <2> QED
    BY <2>2 DEF Env
<1> HIDE DEF e2
<1> QED
  BY <1>1, <1>2 DEF PathInv

\* A handler that leaves the queue and the pipeline as they are.
LEMMA RestKeepsPath ==
    ASSUME PathInv, UNCHANGED <<queue, currentUser, pipeline, networkEnabled>>,
           StreamFits(stream', rpc', pipeline, networkEnabled),
           TokensFit(stream', tokenRequests', worker'),
           RequestsFit(tokenRequests', authUser', tokenCounter'),
           CallFits(stream', rpc', pipeline),
           asserted' /\ networkEnabled /\ pipeline # <<>> => Started(stream')
    PROVE  PathInv'
PROOF
<1>1. Begins(pipeline', queue'[currentUser'])
  BY PathParts
<1>2. /\ Env'.net = networkEnabled /\ Env'.requests = tokenRequests'
      /\ Env'.user = authUser' /\ Env'.counter = tokenCounter'
  BY DEF Env
<1>3. Fits(pipeline', queue'[currentUser'], stream', rpc', Env', worker')
  BY <1>1, <1>2 DEF Fits
<1> QED
  BY <1>3 DEF PathInv

-----------------------------------------------------------------------------
(* The token callbacks on the worker queue                                 *)

\* The first task is taken off: if it is the token that the stream waits for, no
\* other one is.
LEMMA TokensTail ==
    ASSUME NEW s \in StreamType, NEW R \in SUBSET TokenRequestType,
           NEW w \in Seq(Task), w # <<>>, TokensFit(s, R, w)
    PROVE  /\ Tail(w) \in Seq(Task)
           /\ TokensFit(s, R, Tail(w))
           /\ Head(w).type = "token" /\ Head(w).count = s.closeCount =>
                /\ s.state = "Starting"
                /\ \A r \in R : r.count # s.closeCount
                /\ \A i \in 1..Len(Tail(w)) :
                     Tail(w)[i].type = "token" => Tail(w)[i].count # s.closeCount
PROOF
<1>1. Len(w) \in Nat \ {0}
  BY EmptySeq
<1>2. /\ Tail(w) \in Seq(Task) /\ Len(Tail(w)) = Len(w) - 1
      /\ \A i \in 1..Len(Tail(w)) : Tail(w)[i] = w[i + 1]
  BY HeadTailProperties
<1>3. /\ 1 \in 1..Len(w) /\ Head(w) = w[1]
      /\ \A i \in 1..Len(w) - 1 : i + 1 \in 1..Len(w) /\ i + 1 # 1
      /\ \A i, j \in 1..Len(w) - 1 : j + 1 = i + 1 => j = i
  BY <1>1
<1> DEFINE v == Tail(w)
<1>4. /\ Len(v) = Len(w) - 1
      /\ \A i \in 1..Len(v) : v[i] = w[i + 1] /\ i + 1 \in 1..Len(w) /\ i + 1 # 1
      /\ \A i, j \in 1..Len(v) : j + 1 = i + 1 => j = i
  BY <1>2, <1>3
<1> HIDE DEF v
<1>5. TokensFit(s, R, v)
  <2>1. \A i \in 1..Len(v) : i + 1 \in 1..Len(w) /\ v[i] = w[i + 1]
    BY ONLY <1>4
  <2>2. ASSUME NEW i \in 1..Len(v), v[i].type = "token"
        PROVE  /\ v[i].count <= s.closeCount
               /\ \A r \in R : r.count = s.closeCount => v[i].count # s.closeCount
               /\ v[i].count = s.closeCount => s.state = "Starting"
    <3>1. i + 1 \in 1..Len(w) /\ w[i + 1].type = "token" /\ v[i] = w[i + 1]
      BY ONLY <2>1, <2>2, i \in 1..Len(v)
    <3> QED
      BY ONLY TokensFit(s, R, w), <3>1 DEF TokensFit
  <2>3. ASSUME NEW i \in 1..Len(v), v[i].type = "token", v[i].count = s.closeCount,
               NEW j \in 1..Len(v), v[j].type = "token", v[j].count = s.closeCount
        PROVE  j = i
    <3>1. /\ i + 1 \in 1..Len(w) /\ v[i] = w[i + 1]
          /\ j + 1 \in 1..Len(w) /\ v[j] = w[j + 1]
      BY ONLY <2>1, i \in 1..Len(v), j \in 1..Len(v)
    <3>2. j + 1 = i + 1
      BY ONLY TokensFit(s, R, w), <2>3, <3>1 DEF TokensFit
    <3> QED
      BY ONLY <1>4, <3>2, i \in 1..Len(v), j \in 1..Len(v)
  <2>4. /\ \A r \in R : r.count <= s.closeCount
        /\ \A r \in R : r.count = s.closeCount =>
             /\ s.state = "Starting"
             /\ \A x \in R : x.count = s.closeCount => x = r
    BY ONLY TokensFit(s, R, w) DEF TokensFit
  <2> QED
    BY ONLY <2>2, <2>3, <2>4 DEF TokensFit
<1>6. Head(w).type = "token" /\ Head(w).count = s.closeCount =>
        /\ s.state = "Starting"
        /\ \A r \in R : r.count # s.closeCount
        /\ \A i \in 1..Len(v) : v[i].type = "token" => v[i].count # s.closeCount
  BY <1>3, <1>4 DEF TokensFit
<1> QED
  BY <1>2, <1>5, <1>6 DEF v

\* A credential change is queued.
LEMMA TokensAppendCred ==
    ASSUME NEW s \in StreamType, NEW R \in SUBSET TokenRequestType,
           NEW w \in Seq(Task), NEW b \in Task, b.type = "cred", TokensFit(s, R, w)
    PROVE  TokensFit(s, R, Append(w, b))
PROOF
<1> DEFINE v == Append(w, b)
<1>1. /\ Len(w) \in Nat /\ Len(v) = Len(w) + 1
      /\ \A i \in 1..Len(w) : v[i] = w[i]
      /\ v[Len(w) + 1] = b
  BY LenProperties, AppendProperties
<1>2. \A i \in 1..Len(v) : i \in 1..Len(w) \/ i = Len(w) + 1
  BY <1>1
<1>3. \A i \in 1..Len(v) : v[i].type = "token" => i \in 1..Len(w) /\ v[i] = w[i]
  BY <1>1, <1>2
<1> HIDE DEF v
<1>4. TokensFit(s, R, v)
  BY <1>3 DEF TokensFit
<1> QED
  BY <1>4 DEF v

\* A request is answered with a token or an error.
LEMMA TokensAppendToken ==
    ASSUME NEW s \in StreamType, NEW R \in SUBSET TokenRequestType,
           NEW w \in Seq(Task), NEW r \in R, NEW b \in Task, b.type = "token",
           b.count = r.count, TokensFit(s, R, w)
    PROVE  TokensFit(s, R \ {r}, Append(w, b))
PROOF
<1> DEFINE v == Append(w, b)
<1>1. /\ Len(w) \in Nat /\ Len(v) = Len(w) + 1
      /\ \A i \in 1..Len(w) : v[i] = w[i]
      /\ v[Len(w) + 1] = b
  BY LenProperties, AppendProperties
<1>2. \A i \in 1..Len(v) : i \in 1..Len(w) \/ i = Len(w) + 1
  BY <1>1
<1> HIDE DEF v
<1>3. CASE r.count = s.closeCount
  <2>1. /\ s.state = "Starting"
        /\ \A x \in R : x.count = s.closeCount => x = r
        /\ \A i \in 1..Len(w) : w[i].type = "token" => w[i].count # s.closeCount
    BY <1>3 DEF TokensFit
  <2>2. \A i \in 1..Len(v) :
          v[i].type = "token" /\ v[i].count = s.closeCount => i = Len(w) + 1
    BY <1>1, <1>2, <2>1
  <2>3. \A i \in 1..Len(v) : v[i].type = "token" => v[i].count <= s.closeCount
    BY <1>1, <1>2 DEF TokensFit
  <2> QED
    BY <2>1, <2>2, <2>3 DEF TokensFit, v
<1>4. CASE r.count # s.closeCount
  <2>1. r.count <= s.closeCount
    BY DEF TokensFit
  <2>2. \A i \in 1..Len(v) : v[i].type = "token" =>
          /\ v[i].count <= s.closeCount
          /\ v[i].count = s.closeCount => i \in 1..Len(w) /\ v[i] = w[i]
    BY <1>1, <1>2, <1>4, <2>1 DEF TokensFit
  <2> QED
    BY <2>2 DEF TokensFit, v
<1> QED
  BY <1>3, <1>4

-----------------------------------------------------------------------------
(* Every action keeps PathInv                                              *)

\* What a stream that is started again leaves behind.
LEMMA StartKeepsPath ==
    ASSUME IInv, PathInv, NEW s \in StreamType, worker' \in Seq(Task),
           Fits(pipeline, queue[currentUser], s, NoCall, Env, worker'),
           StartWriteStreamIfNeeded(pipeline, s, Env), rpc' = NoCall,
           UNCHANGED <<queue, currentUser, pipeline, networkEnabled, authUser,
                       tokenCounter>>
    PROVE  PathInv'
PROOF
<1> DEFINE e2 == [Env EXCEPT !.requests = tokenRequests']
<1>1. /\ Fits(pipeline, queue[currentUser], stream', NoCall, e2, worker')
      /\ networkEnabled /\ pipeline # <<>> => Started(stream')
  <2>1. NoCall \in CallType
    BY NoCallType
  <2> QED
    BY <2>1, PathTypes, StartKeepsFit
<1>2. Env' = e2
  BY DEF Env
<1> HIDE DEF e2
<1> QED
  BY <1>1, <1>2 DEF PathInv

\* A stream that closes with an error, once the worker queue is worker'.
LEMMA CloseWithErrorKeepsPath ==
    ASSUME IInv, PathInv, NEW status, CloseWithError(status), worker' \in Seq(Task),
           TokensFit(stream, tokenRequests, worker'),
           UNCHANGED <<currentUser, networkEnabled, authUser, tokenCounter>>
    PROVE  PathInv'
PROOF
<1> DEFINE f == Failed(stream)
           cu == currentUser
<1>1. /\ StreamFits(stream, rpc, pipeline, networkEnabled)
      /\ RequestsFit(tokenRequests, authUser, tokenCounter)
      /\ Begins(pipeline, queue[cu])
  BY PathParts
<1>2. ~networkEnabled => pipeline = <<>>
  BY <1>1 DEF StreamFits
<1>3. CASE HandleWriteError(f) /\ pipeline # <<>>
  <2> DEFINE t == [f EXCEPT !.state = "Initial", !.handshake = FALSE]
             p == Tail(pipeline)
             q == Tail(queue[cu])
  <2>1. t \in StreamType /\ Closes(stream, t)
    BY PathTypes, FailureCloses, UsersAssumption DEF Tokens
  <2>2. /\ p \in Seq(Batch) /\ q \in Seq(Batch) /\ Increasing(q) /\ Begins(p, q)
        /\ Without(Head(pipeline).id)[cu] = q
    BY <1>3, HeadOfPipeline
  <2>3. /\ FillWritePipeline(p, q, t, NoCall, Env)
        /\ queue'[currentUser'] = q
    BY <1>3, <2>2 DEF HandleWriteError, RejectBatch
  <2>4. NoCall \in CallType
    BY NoCallType
  <2> HIDE DEF t, p, q
  <2>5. Fits(p, q, t, NoCall, Env, worker')
    BY <1>1, <1>2, <1>3, <2>1, <2>2, PathTypes, CloseKeepsFit
  <2> QED
    BY <2>1, <2>2, <2>3, <2>4, <2>5, PathTypes, RefillKeepsPath
<1>4. ASSUME NEW t \in StreamType, Closes(stream, t), rpc' = NoCall,
             StartWriteStreamIfNeeded(pipeline, t, Env), UNCHANGED <<queue, pipeline>>
      PROVE  PathInv'
  <2>1. Fits(pipeline, queue[cu], t, NoCall, Env, worker')
    BY <1>1, <1>2, <1>4, PathTypes, CloseKeepsFit
  <2> QED
    BY <1>4, <2>1, StartKeepsPath
<1>5. CASE /\ HandleHandshakeError(f) /\ rpc' = NoCall /\ UNCHANGED <<queue, pipeline>>
  <2> DEFINE t == [f EXCEPT !.handshake = FALSE, !.token = NoToken]
  <2>1. t \in StreamType /\ Closes(stream, t)
    BY PathTypes, FailureCloses DEF Tokens
  <2>2. StartWriteStreamIfNeeded(pipeline, t, Env)
    BY <1>5 DEF HandleHandshakeError
  <2> QED
    BY <1>4, <1>5, <2>1, <2>2
<1>6. CASE /\ StartWriteStreamIfNeeded(pipeline, [f EXCEPT !.handshake = FALSE], Env)
           /\ rpc' = NoCall /\ UNCHANGED <<queue, pipeline>>
  <2> DEFINE t == [f EXCEPT !.handshake = FALSE]
  <2>1. t \in StreamType /\ Closes(stream, t)
    BY PathTypes, FailureCloses DEF Tokens
  <2> QED
    BY <1>4, <1>6, <2>1
<1> QED
  BY <1>3, <1>5, <1>6 DEF CloseWithError

-----------------------------------------------------------------------------
(* Every action keeps the path                                             *)

\* A write is made: the pipeline is filled from a queue one batch longer.
LEMMA WriteMutationsKeepsPath ==
    ASSUME IInv, PathInv, WriteMutations
    PROVE  PathInv'
PROOF
<1> DEFINE b == [id |-> nextBatchId, write |-> Len(owner) + 1]
           q == Append(queue[currentUser], b)
<1>1. IInv'
  BY WriteMutationsKeepsIInv
<1>2. /\ queue' = [queue EXCEPT ![currentUser] = q]
      /\ FillWritePipeline(pipeline, q, stream, rpc, Env)
      /\ UNCHANGED <<currentUser, networkEnabled, worker, authUser, tokenCounter>>
  BY DEF WriteMutations, WriteLocally
<1>3. queue'[currentUser'] = q
  BY <1>2, PathTypes DEF IInv, TypeOK
<1>4. q \in Seq(Batch) /\ Increasing(q)
  <2>1. queue'[currentUser'] \in Seq(Batch) /\ Increasing(queue'[currentUser'])
    BY <1>1 DEF IInv, IdsInv, TypeOK
  <2> QED
    BY <1>3, <2>1
<1>5. Fits(pipeline, queue[currentUser], stream, rpc, Env, worker)
  BY DEF PathInv
<1>6. b \in Batch
  <2>1. Len(owner) + 1 \in Writes
    <3>1. Len(owner) \in Nat /\ MaxWrites \in Nat
      BY LenProperties, BoundsAssumption DEF IInv, TypeOK
    <3> QED
      BY <3>1 DEF WriteMutations, Writes
  <2> QED
    BY <2>1 DEF IInv, TypeOK, Batch
<1>7. Begins(pipeline, q)
  BY <1>5, <1>6, PathTypes, BeginsAppend DEF Fits
<1> HIDE DEF q
<1>8. Fits(pipeline, q, stream, rpc, Env, worker')
  BY <1>2, <1>5, <1>7 DEF Fits
<1> QED
  BY <1>2, <1>3, <1>4, <1>8, PathTypes, RefillKeepsPath

\* The network is enabled: the pipeline is filled and the stream started.
LEMMA EnableNetworkKeepsPath ==
    ASSUME IInv, PathInv, EnableNetwork
    PROVE  PathInv'
PROOF
<1> DEFINE s == [stream EXCEPT !.token = lastToken[currentUser]]
           e == [Env EXCEPT !.net = TRUE]
<1>1. /\ FillWritePipeline(pipeline, queue[currentUser], s, rpc, e)
      /\ networkEnabled' = TRUE
      /\ UNCHANGED <<queue, currentUser, worker, authUser, tokenCounter>>
  BY DEF EnableNetwork, client
<1>2. /\ s \in StreamType /\ s.state = stream.state /\ s.handshake = stream.handshake
      /\ s.idle = stream.idle /\ s.backoff = stream.backoff
      /\ s.closeCount = stream.closeCount
  BY PathTypes DEF StreamType
<1>3. /\ e \in Environments /\ e.net = TRUE /\ e.user = authUser
      /\ e.counter = tokenCounter /\ e.requests = tokenRequests
  BY PathTypes DEF Environments
<1> HIDE DEF s, e
<1>4. StreamFits(s, rpc, pipeline, TRUE)
  BY <1>2, PathParts DEF StreamFits, Started
<1>5. TokensFit(s, tokenRequests, worker) /\ CallFits(s, rpc, pipeline)
  BY <1>2, PathParts DEF TokensFit, CallFits
<1>6. Fits(pipeline, queue[currentUser], s, rpc, e, worker')
  BY <1>1, <1>3, <1>4, <1>5, PathParts DEF Fits
<1> QED
  BY <1>1, <1>2, <1>3, <1>6, PathTypes, RefillKeepsPath

\* The network is disabled: the pipeline and the call go, and what was asked for the
\* stream is stale.
LEMMA DisableNetworkKeepsPath ==
    ASSUME IInv, PathInv, DisableNetwork
    PROVE  PathInv'
PROOF
<1> DEFINE t == StoppedWrite(stream)
<1>1. /\ stream' = t /\ rpc' = NoCall /\ pipeline' = <<>> /\ networkEnabled' = FALSE
      /\ UNCHANGED <<queue, currentUser, worker, authUser, tokenCounter, tokenRequests>>
  BY DEF DisableNetwork, client, auth
<1>2. t \in StreamType /\ Closes(stream, t)
  BY PathTypes, PathParts, StopCloses
<1>3. /\ Env' \in Environments /\ Env'.user = authUser /\ Env'.counter = tokenCounter
      /\ Env'.requests = tokenRequests
  <2>1. networkEnabled' \in BOOLEAN
    BY <1>1
  <2> QED
    BY <1>1, <2>1 DEF Env, Environments, IInv, TypeOK
<1>4. <<>> \in Seq(Batch) /\ Begins(<<>>, queue[currentUser])
  BY PathTypes, EmptySeq, BeginsSelf
<1> HIDE DEF t
<1>5. Fits(<<>>, queue[currentUser], t, NoCall, Env', worker)
  BY <1>2, <1>3, <1>4, PathTypes, PathParts, CloseKeepsFit
<1> QED
  BY <1>1, <1>5 DEF PathInv

\* A user change is queued; Auth's answers to earlier requests are stale.
LEMMA AuthStateChangedKeepsPath ==
    ASSUME IInv, PathInv, AuthStateChanged
    PROVE  PathInv'
PROOF
<1>1. PICK u \in Users : worker' = Append(worker, [type |-> "cred", user |-> u])
  BY DEF AuthStateChanged
<1>2. /\ tokenCounter' = tokenCounter + 1
      /\ UNCHANGED <<queue, currentUser, pipeline, networkEnabled, stream, rpc,
                     tokenRequests, asserted>>
  BY DEF AuthStateChanged, client, remote
<1>3. [type |-> "cred", user |-> u] \in Task
  BY DEF Task
<1>4. TokensFit(stream, tokenRequests, worker')
  BY <1>1, <1>3, PathTypes, PathParts, TokensAppendCred DEF IInv, TypeOK
<1>5. RequestsFit(tokenRequests, authUser', tokenCounter')
  <2>1. \A r \in tokenRequests : r.counter \in Nat /\ r.counter <= tokenCounter
    BY PathParts DEF RequestsFit, IInv, TypeOK, TokenRequestType
  <2>2. \A r \in tokenRequests : r.counter <= tokenCounter' /\ r.counter # tokenCounter'
    BY <1>2, <2>1, PathTypes
  <2> QED
    BY <2>2 DEF RequestsFit
<1> QED
  BY <1>2, <1>4, <1>5, PathParts, RestKeepsPath DEF PathInv

\* A credential change: RemoteStore starts over with the queue of that user.
LEMMA HandleCredentialChangeKeepsPath ==
    ASSUME IInv, PathInv, HandleCredentialChange
    PROVE  PathInv'
PROOF
<1> DEFINE u == Head(worker).user
           s == [StoppedWrite(stream) EXCEPT !.token = lastToken[u]]
<1>1. /\ worker # <<>> /\ worker' = Tail(worker) /\ currentUser' = u
      /\ RestartNetwork(u)
      /\ UNCHANGED <<queue, networkEnabled, authUser, tokenCounter>>
  BY DEF HandleCredentialChange
<1>2. u \in Users
  BY <1>1, FirstTaskType DEF HandleCredentialChange, IInv
<1>3. Tail(worker) \in Seq(Task) /\ TokensFit(stream, tokenRequests, Tail(worker))
  BY <1>1, PathTypes, PathParts, TokensTail DEF IInv, TypeOK
<1>4. <<>> \in Seq(Batch) /\ queue[u] \in Seq(Batch) /\ Begins(<<>>, queue[u])
      /\ Increasing(queue[u])
  BY <1>2, PathTypes, EmptySeq, BeginsSelf
<1> HIDE DEF u
<1>5. CASE networkEnabled
  <2>1. FillWritePipeline(<<>>, queue[u], s, NoCall, Env)
    BY <1>1, <1>5 DEF RestartNetwork
  <2>2. s \in StreamType /\ Closes(stream, s)
    BY <1>2, PathTypes, PathParts, StopCloses
  <2>3. NoCall \in CallType
    BY NoCallType
  <2> HIDE DEF s
  <2>4. Fits(<<>>, queue[u], s, NoCall, Env, Tail(worker))
    BY <1>3, <1>4, <2>2, PathTypes, PathParts, CloseKeepsFit
  <2> QED
    BY <1>1, <1>3, <1>4, <2>1, <2>2, <2>3, <2>4, PathTypes, RefillKeepsPath
<1>6. CASE ~networkEnabled
  <2>1. UNCHANGED <<pipeline, stream, rpc, tokenRequests>>
    BY <1>1, <1>6 DEF RestartNetwork
  <2>2. pipeline = <<>>
    BY <1>6, PathParts DEF StreamFits
  <2>3. /\ Env'.net = networkEnabled /\ Env'.requests = tokenRequests
        /\ Env'.user = authUser /\ Env'.counter = tokenCounter
    BY <1>1, <2>1 DEF Env
  <2>4. Begins(pipeline', queue'[currentUser'])
    BY <1>1, <1>4, <2>1, <2>2
  <2>5. Fits(pipeline', queue'[currentUser'], stream', rpc', Env', worker')
    BY <1>1, <1>3, <2>1, <2>3, <2>4, PathParts DEF Fits
  <2> QED
    BY <1>1, <1>6, <2>5 DEF PathInv
<1> QED
  BY <1>5, <1>6

\* A token arrives: it opens the stream that waits for it, and no other, so that its
\* assertion holds.
LEMMA StreamOpenKeepsPath ==
    ASSUME IInv, PathInv, StreamOpen
    PROVE  PathInv' /\ asserted' = asserted
PROOF
<1>1. /\ worker # <<>> /\ worker' = Tail(worker) /\ Head(worker).type = "token"
      /\ UNCHANGED <<queue, currentUser, pipeline, networkEnabled, tokenRequests,
                     authUser, tokenCounter>>
  BY DEF StreamOpen, client
<1>2. /\ TokensFit(stream, tokenRequests, Tail(worker))
      /\ Head(worker).count = stream.closeCount =>
           /\ stream.state = "Starting"
           /\ \A r \in tokenRequests : r.count # stream.closeCount
           /\ \A i \in 1..Len(Tail(worker)) : Tail(worker)[i].type = "token" =>
                Tail(worker)[i].count # stream.closeCount
  <2>1. /\ stream \in StreamType /\ tokenRequests \in SUBSET TokenRequestType
        /\ worker \in Seq(Task) /\ TokensFit(stream, tokenRequests, worker)
    BY PathTypes, PathParts DEF IInv, TypeOK
  <2> QED
    BY ONLY <1>1, <2>1, TokensTail
<1>3. CASE Head(worker).count # stream.closeCount
  <2>1. UNCHANGED <<stream, rpc, asserted>>
    BY <1>3 DEF StreamOpen
  <2>2. PathInv'
    BY <1>1, <1>2, <2>1, PathParts, RestKeepsPath DEF PathInv
  <2> QED
    BY <2>1, <2>2
<1>4. CASE Head(worker).count = stream.closeCount
  <2>1. /\ stream' = [Opened(stream) EXCEPT !.idle = FALSE]
        /\ rpc' = NewCall(Head(worker).user)
        /\ Holds(stream.state = "Starting" /\ ~stream.handshake)
    BY <1>4 DEF StreamOpen
  <2>2. /\ stream.state = "Starting" /\ ~stream.handshake /\ ~stream.backoff
        /\ pipeline # <<>> /\ networkEnabled
    BY <1>2, <1>4, PathParts DEF StreamFits, Started
  <2>3. /\ stream'.state = "Open" /\ ~stream'.idle /\ ~stream'.handshake
        /\ ~stream'.backoff /\ stream'.closeCount = stream.closeCount
    BY <2>1, <2>2, PathTypes DEF Opened, StreamType
  <2>4. /\ rpc'.status = "running" /\ rpc'.responses = <<>>
        /\ rpc'.requests = <<Handshake>>
    BY <2>1 DEF NewCall, NoCall
  <2>5. StreamFits(stream', rpc', pipeline, networkEnabled)
    BY <2>2, <2>3, <2>4 DEF StreamFits, Started
  <2>6. TokensFit(stream', tokenRequests', worker')
    BY <1>1, <1>2, <1>4, <2>3 DEF TokensFit
  <2>7. CallFits(stream', rpc', pipeline)
    BY <2>3, <2>4 DEF CallFits
  <2>8. asserted' = asserted
    BY <2>1, <2>2, PathTypes DEF Holds
  <2>9. Started(stream')
    BY <2>3 DEF Started
  <2>10. PathInv'
    BY <1>1, <2>5, <2>6, <2>7, <2>9, PathParts, RestKeepsPath
  <2> QED
    BY <2>8, <2>10
<1> QED
  BY <1>3, <1>4

\* An error arrives instead of the token.
LEMMA TokenFailedKeepsPath ==
    ASSUME IInv, PathInv, TokenFailed
    PROVE  PathInv'
PROOF
<1>1. /\ worker # <<>> /\ worker' = Tail(worker)
      /\ UNCHANGED <<authUser, tokenCounter>>
  BY DEF TokenFailed
<1>2. worker' \in Seq(Task) /\ TokensFit(stream, tokenRequests, worker')
  BY <1>1, PathTypes, PathParts, TokensTail DEF IInv, TypeOK
<1>3. CASE UNCHANGED <<client, remote, tokenRequests, asserted>>
  <2>1. UNCHANGED <<queue, currentUser, pipeline, networkEnabled, stream, rpc,
                    tokenRequests, asserted>>
    BY <1>3 DEF client, remote
  <2> QED
    BY <1>1, <1>2, <2>1, PathParts, RestKeepsPath DEF PathInv
<1>4. CASE CloseWithError("lost") /\ UNCHANGED <<currentUser, networkEnabled>>
  BY <1>1, <1>2, <1>4, CloseWithErrorKeepsPath
<1> QED
  BY <1>3, <1>4 DEF TokenFailed

\* While there is a response, or a handshake, there is an open call.
LEMMA ResponseMeansOpen ==
    ASSUME IInv, PathInv, rpc.responses # <<>> \/ stream.handshake \/ stream.idle
                          \/ rpc.status # "none"
    PROVE  stream.state = "Open" /\ rpc.status # "none"
PROOF
<1>1. rpc.responses # <<>> => rpc # NoCall
  BY DEF NoCall
<1> QED
  BY <1>1, PathParts DEF StreamFits

\* The whole pipeline is sent.
LEMMA HandshakeCompleteKeepsPath ==
    ASSUME IInv, PathInv, HandshakeComplete
    PROVE  PathInv' /\ asserted' = asserted
PROOF
<1>1. /\ rpc.responses # <<>> /\ ~stream.handshake
      /\ stream' = [Received(stream) EXCEPT !.idle = @ /\ pipeline = <<>>]
      /\ rpc' = [rpc EXCEPT !.responses = Tail(@), !.requests = @ \o pipeline]
      /\ Holds(Started(stream))
      /\ UNCHANGED <<queue, currentUser, pipeline, networkEnabled, tokenRequests,
                     worker, authUser, tokenCounter>>
  BY DEF HandshakeComplete, auth
<1>2. stream.state = "Open" /\ rpc.status # "none"
  BY <1>1, ResponseMeansOpen
<1>3. Started(stream) /\ asserted' = asserted
  BY <1>1, <1>2, PathTypes DEF Started, Holds
<1>4. ~stream.idle /\ pipeline # <<>> /\ networkEnabled /\ ~stream.backoff
  BY <1>1, <1>2, <1>3, PathParts DEF StreamFits, Started
<1>5. rpc.responses = <<Handshake>> /\ (rpc.status = "running" => rpc.requests = <<>>)
  BY <1>1, PathParts DEF CallFits
<1>6. /\ stream'.state = "Open" /\ ~stream'.idle /\ stream'.handshake
      /\ ~stream'.backoff /\ stream'.closeCount = stream.closeCount
  BY <1>1, <1>2, <1>4, PathTypes DEF Received, StreamType
<1>7. /\ rpc'.status = rpc.status /\ rpc'.responses = <<>>
      /\ rpc'.requests = rpc.requests \o pipeline
  <2>1. Tail(<<Handshake>>) = <<>>
    OBVIOUS
  <2> QED
    BY <1>1, <1>5, <2>1, PathTypes DEF CallType
<1>8. StreamFits(stream', rpc', pipeline, networkEnabled)
  BY <1>2, <1>4, <1>6, <1>7 DEF StreamFits, Started
<1>9. TokensFit(stream', tokenRequests, worker)
  BY <1>2, <1>6, PathParts DEF TokensFit
<1>10. CallFits(stream', rpc', pipeline)
  <2>1. Begins(<<>>, pipeline)
    BY PathTypes, BeginsSelf
  <2>2. <<>> \o (<<>> \o pipeline) = pipeline
    BY PathTypes, ConcatEmptySeq
  <2> QED
    BY <1>5, <1>6, <1>7, <2>1, <2>2 DEF CallFits
<1>11. Started(stream')
  BY <1>6 DEF Started
<1>12. PathInv'
  BY <1>1, <1>8, <1>9, <1>10, <1>11, PathParts, RestKeepsPath
<1> QED
  BY <1>3, <1>12

\* The front of the pipeline is acknowledged: the responses still match the rest of it,
\* and it is refilled from behind its last batch.
LEMMA MutationResultKeepsPath ==
    ASSUME IInv, PathInv, MutationResult
    PROVE  PathInv' /\ asserted' = asserted
PROOF
<1> DEFINE p == Tail(pipeline)
           q == Tail(queue[currentUser])
           s == Received(stream)
           r == [rpc EXCEPT !.responses = Tail(@)]
<1>1. /\ rpc.responses # <<>> /\ stream.handshake /\ pipeline # <<>>
      /\ Holds(/\ Started(stream)
               /\ HasBatch(queue[currentUser], Head(pipeline).id))
      /\ queue' = Without(Head(pipeline).id)
      /\ FillWritePipeline(p, Without(Head(pipeline).id)[currentUser], s, r, Env)
      /\ UNCHANGED <<currentUser, networkEnabled, worker, authUser, tokenCounter>>
  BY DEF MutationResult, AcknowledgeBatch
<1>2. /\ p \in Seq(Batch) /\ q \in Seq(Batch) /\ Increasing(q) /\ Begins(p, q)
      /\ HasBatch(queue[currentUser], Head(pipeline).id)
      /\ Without(Head(pipeline).id)[currentUser] = q
  BY <1>1, HeadOfPipeline
<1>3. stream.state = "Open" /\ rpc.status # "none"
  BY <1>1, ResponseMeansOpen
<1>4. asserted' = asserted
  BY <1>1, <1>2, <1>3, PathTypes DEF Holds, Started
<1>5. /\ s \in StreamType /\ s.state = "Open" /\ s.handshake
      /\ ~s.idle /\ ~s.backoff /\ s.closeCount = stream.closeCount
  <2>1. ~stream.idle /\ ~stream.backoff
    BY <1>1, <1>3, PathParts DEF StreamFits
  <2> QED
    BY <1>3, <2>1, PathTypes DEF Received, StreamType, Tokens
<1>6. /\ r \in CallType /\ r.status = rpc.status /\ r.responses = Tail(rpc.responses)
      /\ r.requests = rpc.requests
  <2>1. Tail(rpc.responses) \in Seq(Message)
    BY <1>1, PathTypes, HeadTailProperties
  <2> QED
    BY <2>1, PathTypes DEF CallType
<1> HIDE DEF s, r
<1>7. StreamFits(s, r, p, networkEnabled)
  <2>1. networkEnabled
    BY <1>1, PathParts DEF StreamFits
  <2> QED
    BY <1>3, <1>5, <1>6, <2>1 DEF StreamFits, Started
<1>8. TokensFit(s, tokenRequests, worker)
  BY <1>3, <1>5, PathParts DEF TokensFit
<1>9. CallFits(s, r, p)
  <2>1. Begins(Tail(rpc.responses), p)
    BY <1>1, PathTypes, PathParts, BeginsTail DEF CallFits
  <2>2. rpc.status = "running" => Tail(rpc.responses) \o rpc.requests = p
    <3>1. \A a, b \in Seq(Message) : a # <<>> => Tail(a) \o b = Tail(a \o b)
      BY ConcatTail
    <3> QED
      BY <1>1, <3>1, PathTypes, PathParts DEF CallFits
  <2> QED
    BY <1>5, <1>6, <2>1, <2>2 DEF CallFits
<1>10. Fits(p, q, s, r, Env, worker')
  BY <1>1, <1>2, <1>7, <1>8, <1>9, PathTypes, PathParts DEF Fits
<1>11. queue'[currentUser'] = q
  BY <1>1, <1>2
<1>12. PathInv'
  BY <1>1, <1>2, <1>5, <1>6, <1>10, <1>11, PathTypes, RefillKeepsPath, ZenonT(40)
<1> QED
  BY <1>4, <1>12

\* The call ends, with OK or with an error.
LEMMA StreamFinishKeepsPath ==
    ASSUME IInv, PathInv, StreamFinish
    PROVE  PathInv'
PROOF
<1>1. UNCHANGED <<networkEnabled, worker, authUser, tokenCounter>>
  BY DEF StreamFinish
<1>2. CASE CloseWithError(rpc.status) /\ UNCHANGED currentUser
  BY <1>1, <1>2, PathTypes, PathParts, CloseWithErrorKeepsPath
<1>3. CASE /\ Holds(Started(stream) /\ MayStopGracefully)
           /\ stream' = StoppedWrite(stream) /\ rpc' = NoCall
           /\ UNCHANGED <<client, pipeline, tokenRequests>>
  <2> DEFINE t == StoppedWrite(stream)
  <2>1. t \in StreamType /\ Closes(stream, t)
    BY PathTypes, PathParts, StopCloses
  <2>2. /\ stream' = t /\ rpc' = NoCall
        /\ asserted' => ~(networkEnabled /\ pipeline # <<>>)
        /\ UNCHANGED <<queue, currentUser, pipeline, tokenRequests>>
    BY <1>3 DEF client, Holds, MayStopGracefully
  <2> HIDE DEF t
  <2>3. ~networkEnabled => pipeline = <<>>
    BY PathParts DEF StreamFits
  <2>4. Fits(pipeline, queue[currentUser], t, NoCall, Env, worker)
    BY <2>1, <2>3, PathTypes, PathParts, CloseKeepsFit
  <2>5. StreamFits(t, NoCall, pipeline, networkEnabled) /\ CallFits(t, NoCall, pipeline)
        /\ TokensFit(t, tokenRequests, worker)
    BY <2>4 DEF Fits, Env
  <2> QED
    BY <1>1, <2>2, <2>5, PathParts, RestKeepsPath
<1> QED
  BY <1>2, <1>3 DEF StreamFinish

\* The idle timer stops a stream that has nothing to send.
LEMMA IdleTimeoutKeepsPath ==
    ASSUME IInv, PathInv, IdleTimeout
    PROVE  PathInv' /\ asserted' = asserted
PROOF
<1> DEFINE t == StoppedWrite(stream)
<1>1. /\ stream.idle /\ stream' = t /\ rpc' = NoCall
      /\ Holds(MayStopGracefully)
      /\ UNCHANGED <<queue, currentUser, networkEnabled, pipeline, worker, authUser,
                     tokenCounter, tokenRequests>>
  BY DEF IdleTimeout, client, auth
<1>2. pipeline = <<>>
  BY <1>1, PathParts DEF StreamFits
<1>3. asserted' = asserted
  BY <1>1, <1>2, PathTypes DEF Holds, MayStopGracefully
<1>4. t \in StreamType /\ Closes(stream, t)
  BY PathTypes, PathParts, StopCloses
<1> HIDE DEF t
<1>5. Fits(pipeline, queue[currentUser], t, NoCall, Env, worker)
  BY <1>2, <1>4, PathTypes, PathParts, CloseKeepsFit
<1>6. PathInv'
  BY <1>1, <1>2, <1>5, PathParts, RestKeepsPath DEF Fits, PathInv, Env
<1> QED
  BY <1>3, <1>6

\* The backoff timer starts the stream and asks for a token.
LEMMA BackoffElapsedKeepsPath ==
    ASSUME IInv, PathInv, BackoffElapsed
    PROVE  PathInv' /\ asserted' = asserted
PROOF
<1> DEFINE x == TokenRequest(stream, authUser, tokenCounter)
<1>1. /\ stream.backoff /\ stream' = Restarted(stream)
      /\ Holds(stream.state = "Backoff")
      /\ tokenRequests' = tokenRequests \cup {x}
      /\ UNCHANGED <<queue, currentUser, pipeline, networkEnabled, rpc, worker,
                     authUser, tokenCounter>>
  BY DEF BackoffElapsed, client
<1>2. stream.state = "Backoff"
  BY <1>1, PathParts DEF StreamFits
<1>3. asserted' = asserted
  BY <1>1, <1>2, PathTypes DEF Holds
<1>4. /\ stream'.state = "Starting" /\ ~stream'.backoff
      /\ stream'.handshake = stream.handshake /\ stream'.idle = stream.idle
      /\ stream'.closeCount = stream.closeCount
  BY <1>1, PathTypes DEF Restarted, StreamType
<1>5. x.count = stream.closeCount /\ x.user = authUser /\ x.counter = tokenCounter
  BY DEF TokenRequest
<1>6. stream.closeCount \in Nat
  BY PathTypes DEF StreamType
<1> HIDE DEF x
<1>7. StreamFits(stream', rpc, pipeline, networkEnabled)
  BY <1>2, <1>4, PathParts DEF StreamFits, Started
<1>8. TokensFit(stream', tokenRequests', worker)
  <2>1. /\ \A y \in tokenRequests :
             y.count <= stream.closeCount /\ y.count # stream.closeCount
        /\ \A i \in 1..Len(worker) : worker[i].type = "token" =>
             worker[i].count <= stream.closeCount /\ worker[i].count # stream.closeCount
    BY <1>2, PathParts DEF TokensFit
  <2>2. x.count <= stream.closeCount
    BY <1>5, <1>6
  <2> QED
    BY <1>1, <1>4, <1>5, <2>1, <2>2 DEF TokensFit
<1>9. RequestsFit(tokenRequests', authUser, tokenCounter)
  BY <1>1, <1>5, PathTypes, PathParts DEF RequestsFit
<1>10. CallFits(stream', rpc, pipeline)
  BY <1>4, PathParts DEF CallFits
<1>11. Started(stream')
  BY <1>4 DEF Started
<1>12. PathInv'
  BY <1>1, <1>7, <1>8, <1>9, <1>10, <1>11, RestKeepsPath
<1> QED
  BY <1>3, <1>12

\* Auth answers a request or is asked again: the answer is the stream's only one.
LEMMA AuthenticateKeepsPath ==
    ASSUME IInv, PathInv, Authenticate
    PROVE  PathInv'
PROOF
<1>1. UNCHANGED <<queue, currentUser, pipeline, networkEnabled, stream, rpc, authUser,
                  tokenCounter, asserted>>
  BY DEF Authenticate, client, remote
<1>2. PICK r \in tokenRequests :
        \/ /\ r.counter # tokenCounter
           /\ tokenRequests' = (tokenRequests \ {r}) \cup
                {[r EXCEPT !.user = authUser, !.counter = tokenCounter]}
           /\ UNCHANGED worker
        \/ /\ r.counter = tokenCounter
           /\ tokenRequests' = tokenRequests \ {r}
           /\ \E ok \in BOOLEAN :
                worker' = Append(worker, [type |-> "token", user |-> r.user,
                                          count |-> r.count, ok |-> ok])
  BY DEF Authenticate, GetTokenDone
<1>3. tokenRequests \in SUBSET TokenRequestType /\ r \in TokenRequestType
  BY DEF IInv, TypeOK
<1>4. CASE worker' = worker
  <2> DEFINE x == [r EXCEPT !.user = authUser, !.counter = tokenCounter]
  <2>1. tokenRequests' = (tokenRequests \ {r}) \cup {x}
    <3>1. \A b : Append(worker, b) # worker
      BY PathTypes DEF Task
    <3> QED
      BY <1>2, <1>4, <3>1
  <2>2. x.count = r.count /\ x.user = authUser /\ x.counter = tokenCounter
    BY <1>3 DEF TokenRequestType
  <2> HIDE DEF x
  <2>3. TokensFit(stream, tokenRequests', worker)
    BY <2>1, <2>2, PathParts DEF TokensFit
  <2>4. RequestsFit(tokenRequests', authUser, tokenCounter)
    BY <2>1, <2>2, PathTypes, PathParts DEF RequestsFit
  <2> QED
    BY <1>1, <1>4, <2>3, <2>4, PathParts, RestKeepsPath DEF PathInv
<1>5. ASSUME NEW ok \in BOOLEAN, tokenRequests' = tokenRequests \ {r},
             worker' = Append(worker, [type |-> "token", user |-> r.user,
                                       count |-> r.count, ok |-> ok])
      PROVE  PathInv'
  <2> DEFINE b == [type |-> "token", user |-> r.user, count |-> r.count, ok |-> ok]
  <2>1. b \in Task /\ b.type = "token" /\ b.count = r.count
    BY <1>3 DEF Task, TokenRequestType
  <2>2. TokensFit(stream, tokenRequests', worker')
    BY <1>3, <1>5, <2>1, PathTypes, PathParts, TokensAppendToken
  <2>3. RequestsFit(tokenRequests', authUser, tokenCounter)
    BY <1>5, PathParts DEF RequestsFit
  <2> QED
    BY <1>1, <2>2, <2>3, PathParts, RestKeepsPath DEF PathInv
<1> QED
  BY <1>2, <1>4, <1>5

\* At most the call changes.
LEMMA CallKeepsPath ==
    ASSUME IInv, PathInv, UNCHANGED <<client, networkEnabled, pipeline, stream, auth,
                                      asserted>>,
           rpc'.status = "none" <=> rpc.status = "none",
           rpc.status # "none",
           CallFits(stream, rpc', pipeline)
    PROVE  PathInv'
PROOF
<1>1. UNCHANGED <<queue, currentUser, tokenRequests, worker, authUser, tokenCounter>>
  BY DEF client, auth
<1>2. StreamFits(stream, rpc', pipeline, networkEnabled)
  BY PathParts DEF StreamFits
<1> QED
  BY <1>1, <1>2, PathParts, RestKeepsPath DEF PathInv

\* The backend answers the next request: a request becomes a response, in order.
LEMMA BackendReplyKeepsPath ==
    ASSUME IInv, PathInv, BackendReply
    PROVE  PathInv'
PROOF
<1> DEFINE res == Append(rpc.responses, Head(rpc.requests))
           req == Tail(rpc.requests)
<1>1. /\ rpc.status = "running" /\ rpc.requests # <<>>
      /\ rpc'.status = rpc.status /\ rpc'.responses = res /\ rpc'.requests = req
      /\ UNCHANGED <<client, networkEnabled, pipeline, stream, auth, asserted>>
  BY PathTypes DEF BackendReply, CallType, ghosts
<1>2. /\ Head(rpc.requests) \in Message /\ req \in Seq(Message)
  BY <1>1, PathTypes, HeadTailProperties
<1>3. res \in Seq(Message)
  BY <1>2, PathTypes, AppendProperties
<1>4. CASE stream.handshake
  <2>1. res \o req = rpc.responses \o rpc.requests
    BY <1>1, PathTypes, ConcatMove
  <2>2. res \o req = pipeline
    BY <1>1, <1>4, <2>1, PathParts DEF CallFits
  <2>3. Begins(res, res \o req)
    BY <1>2, <1>3, BeginsSelf
  <2> HIDE DEF res, req
  <2>4. CallFits(stream, rpc', pipeline)
    BY <1>1, <1>4, <2>2, <2>3 DEF CallFits
  <2> QED
    BY <1>1, <2>4, CallKeepsPath
<1>5. CASE ~stream.handshake
  <2>1. rpc.responses = <<>> /\ rpc.requests = <<Handshake>>
    BY <1>1, <1>5, PathParts DEF CallFits
  <2>2. res = <<Handshake>> /\ req = <<>>
    BY <2>1
  <2> HIDE DEF res, req
  <2>3. CallFits(stream, rpc', pipeline)
    BY <1>1, <1>5, <2>2 DEF CallFits
  <2> QED
    BY <1>1, <2>3, CallKeepsPath
<1> QED
  BY <1>4, <1>5

\* The call is refused, ended or lost: the responses are still those that were sent.
LEMMA BackendFaultsKeepPath ==
    ASSUME IInv, PathInv, BackendRefuse \/ BackendCloseOk \/ CallLost
    PROVE  PathInv'
PROOF
<1>1. /\ rpc.status = "running"
      /\ UNCHANGED <<client, networkEnabled, pipeline, stream, auth, asserted>>
  BY DEF BackendRefuse, BackendCloseOk, CallLost
<1>2. CASE BackendRefuse \/ BackendCloseOk
  <2>1. /\ rpc'.responses = rpc.responses
        /\ rpc'.status \in {"ok", "aborted", "permanent"}
    BY <1>2, PathTypes DEF BackendRefuse, BackendCloseOk, CallType
  <2>2. CallFits(stream, rpc', pipeline)
    BY <2>1, PathParts DEF CallFits
  <2> QED
    BY <1>1, <2>1, <2>2, CallKeepsPath
<1>3. CASE CallLost
  <2>1. PICK n \in 0..Len(rpc.requests), k \in 0..Len(rpc.responses) :
          rpc' = [rpc EXCEPT !.status = "lost",
                    !.responses = SubSeq(@, 1, k),
                    !.requests = SubSeq(@, n + 1, Len(@))]
    BY <1>3 DEF CallLost
  <2>2. rpc'.status = "lost" /\ rpc'.responses = SubSeq(rpc.responses, 1, k)
    BY <2>1, PathTypes DEF CallType
  <2>3. k \in 0..Len(rpc.responses)
    OBVIOUS
  <2>4. /\ Len(rpc.responses) \in Nat /\ k \in Nat /\ k <= Len(rpc.responses)
        /\ \A i \in 1..k : i \in 1..Len(rpc.responses)
    BY <2>3, PathTypes, LenProperties
  <2>5. \A i \in 1..k : rpc.responses[i] \in Message
    BY <2>4, PathTypes, ElementOfSeq
  <2>6. /\ SubSeq(rpc.responses, 1, k) \in Seq(Message)
        /\ Len(SubSeq(rpc.responses, 1, k)) = k
        /\ \A i \in 1..k : SubSeq(rpc.responses, 1, k)[i] = rpc.responses[i]
    BY <2>4, <2>5, SubSeqProperties
  <2>7. stream.handshake => Begins(rpc'.responses, pipeline)
    <3>1. Len(pipeline) \in Nat
      BY PathTypes, LenProperties
    <3>2. stream.handshake => Begins(rpc.responses, pipeline)
      BY PathParts DEF CallFits
    <3> QED
      BY <2>2, <2>4, <2>6, <3>1, <3>2 DEF Begins
  <2>8. ~stream.handshake => rpc'.responses \in {<<>>, <<Handshake>>}
    <3>1. CASE k = 0
      BY <2>2, <2>6, <3>1, EmptySeq
    <3>2. CASE k # 0 /\ ~stream.handshake
      <4>1. rpc.responses = <<>> \/ rpc.responses = <<Handshake>>
        BY <3>2, PathParts DEF CallFits
      <4>2. rpc.responses # <<>>
        BY <2>4, <3>2, EmptySeq
      <4>3. Len(rpc.responses) = 1
        <5>1. Len(<<Handshake>>) = 1
          OBVIOUS
        <5> QED
          BY <4>1, <4>2, <5>1
      <4>4. k = Len(rpc.responses)
        BY <2>4, <3>2, <4>3
      <4>5. SubSeq(rpc.responses, 1, k) = rpc.responses
        BY <4>4, PathTypes, SubSeqFull
      <4> QED
        BY <2>2, <4>1, <4>5
    <3> QED
      BY <3>1, <3>2
  <2>9. CallFits(stream, rpc', pipeline)
    BY <2>2, <2>7, <2>8 DEF CallFits
  <2> QED
    BY <1>1, <2>2, <2>9, CallKeepsPath
<1> QED
  BY <1>2, <1>3

\* A response that does not parse closes the stream.
LEMMA CorruptResponseKeepsPath ==
    ASSUME IInv, PathInv, CorruptResponse
    PROVE  PathInv'
PROOF
  BY PathTypes, PathParts, CloseWithErrorKeepsPath DEF CorruptResponse

\* A new process starts from the queues that the old one has left.
LEMMA InitializeKeepsPath ==
    ASSUME IInv, NEW q \in [Users -> Seq(Batch)], \A u \in Users : Increasing(q[u]),
           Initialize(q)
    PROVE  PathInv'
PROOF
<1> DEFINE E(u) == [net |-> TRUE, user |-> u, counter |-> 0, requests |-> {}]
<1>1. PICK u \in {authUser, NoUser} :
        /\ currentUser' = u /\ authUser' = u
        /\ FillWritePipeline(<<>>, q[u], InitialStream(lastToken[u]), NoCall, E(u))
  BY DEF Initialize
<1> DEFINE s == InitialStream(lastToken[u])
           e == E(u)
<1>2. u \in Users
  BY PathTypes, UsersAssumption
<1>3. /\ queue' = q /\ networkEnabled' = TRUE /\ worker' = <<>> /\ tokenCounter' = 0
  BY DEF Initialize
<1>4. /\ e \in Environments /\ e.net = TRUE /\ e.user = u /\ e.counter = 0
      /\ e.requests = {}
  BY <1>2 DEF Environments
<1>5. s \in StreamType /\ Closes(s, s)
  BY <1>2, PathTypes DEF InitialStream, StreamType, StreamStates, Closes
<1>6. <<>> \in Seq(Batch) /\ <<>> \in Seq(Task) /\ Begins(<<>>, q[u])
  BY <1>2, EmptySeq, BeginsSelf
<1>7. NoCall \in CallType
  BY NoCallType
<1> HIDE DEF s, e, E
<1>8. TokensFit(s, {}, <<>>) /\ RequestsFit({}, u, 0)
  <2>1. Len(<<>>) = 0
    BY EmptySeq
  <2>2. 1..Len(<<>>) = {}
    BY <2>1
  <2> QED
    BY <2>2 DEF TokensFit, RequestsFit
<1>9. Fits(<<>>, q[u], s, NoCall, e, <<>>)
  BY <1>2, <1>4, <1>5, <1>6, <1>8, CloseKeepsFit
<1> QED
  BY <1>1, <1>2, <1>3, <1>4, <1>5, <1>6, <1>7, <1>9, RefillKeepsPath DEF s, e

\* The process dies and starts from the queues, one batch shorter or not.
LEMMA DeathKeepsPath ==
    ASSUME IInv, PathInv, Death
    PROVE  PathInv'
PROOF
<1>1. CASE Restart \/ DieBeforeAcknowledgeBatch
  BY <1>1, InitializeKeepsPath DEF Restart, DieBeforeAcknowledgeBatch, IInv, TypeOK,
     IdsInv
<1>2. CASE DieBeforeNotifyUser
  <2>1. Initialize(Without(Head(pipeline).id))
    BY <1>2 DEF DieBeforeNotifyUser
  <2>2. /\ Without(Head(pipeline).id) \in [Users -> Seq(Batch)]
        /\ \A u \in Users : Increasing(Without(Head(pipeline).id)[u])
    BY RemovalIds DEF IInv
  <2> QED
    BY <2>1, <2>2, InitializeKeepsPath
<1> QED
  BY <1>1, <1>2 DEF Death

\* The initial states.
LEMMA InitEstablishesPath == Init => PathInv
PROOF
<1> SUFFICES ASSUME Init PROVE PathInv
  OBVIOUS
<1>1. IInv
  BY InitEstablishesIInv
<1>2. /\ stream = InitialStream(NoToken) /\ rpc = NoCall /\ pipeline = <<>>
      /\ tokenRequests = {} /\ worker = <<>> /\ queue[currentUser] = <<>>
  BY <1>1, PathTypes DEF Init
<1>3. stream \in StreamType /\ Closes(stream, stream)
  BY <1>1, <1>2, PathTypes DEF InitialStream, Closes
<1>4. TokensFit(stream, Env.requests, worker)
  <2>1. Len(<<>>) = 0
    BY EmptySeq
  <2>2. 1..Len(<<>>) = {} /\ Env.requests = {}
    BY <1>2, <2>1 DEF Env
  <2> QED
    BY <1>2, <2>2 DEF TokensFit
<1>5. RequestsFit(Env.requests, Env.user, Env.counter)
  BY <1>2 DEF Env, RequestsFit
<1>6. Begins(pipeline, queue[currentUser])
  BY <1>1, <1>2, PathTypes, BeginsSelf
<1>7. Fits(pipeline, queue[currentUser], stream, NoCall, Env, worker)
  BY <1>1, <1>2, <1>3, <1>4, <1>5, <1>6, PathTypes, CloseKeepsFit
<1> QED
  BY <1>2, <1>7 DEF PathInv

\* The pipeline, the stream, its call and its token callbacks fit after every step.
LEMMA NextKeepsPath == IInv /\ PathInv /\ [Next]_vars => PathInv'
PROOF
<1> SUFFICES ASSUME IInv, PathInv, [Next]_vars PROVE PathInv'
  OBVIOUS
<1>1. CASE UNCHANGED vars \/ RegisterPendingWritesCallback
  <2>1. UNCHANGED <<queue, currentUser, pipeline, networkEnabled, stream, rpc,
                    tokenRequests, worker, authUser, tokenCounter, asserted>>
    BY <1>1 DEF vars, client, remote, auth, ghosts, RegisterPendingWritesCallback
  <2> QED
    BY <2>1, PathParts, RestKeepsPath DEF PathInv
<1>2. CASE Caller
  BY <1>1, <1>2, WriteMutationsKeepsPath, EnableNetworkKeepsPath,
     DisableNetworkKeepsPath, AuthStateChangedKeepsPath DEF Caller
<1>3. CASE Handler
  BY <1>3, HandleCredentialChangeKeepsPath, StreamOpenKeepsPath, TokenFailedKeepsPath,
     HandshakeCompleteKeepsPath, MutationResultKeepsPath, StreamFinishKeepsPath,
     IdleTimeoutKeepsPath, BackoffElapsedKeepsPath DEF Handler
<1>4. CASE Environment
  BY <1>4, AuthenticateKeepsPath, BackendReplyKeepsPath, BackendFaultsKeepPath,
     CorruptResponseKeepsPath DEF Environment
<1>5. CASE Death
  BY <1>5, DeathKeepsPath
<1> QED
  BY <1>1, <1>2, <1>3, <1>4, <1>5 DEF Next

-----------------------------------------------------------------------------
(* What a step does to the call                                            *)

\* Call r is the one that runs, with no other responses than it had.
Continues(r) ==
    /\ r.user = rpc.user
    /\ r.status = "none" <=> rpc.status = "none"
    /\ r.status = "ok" => rpc.status = "ok" \/ "ok" \in FaultKinds
    /\ \A i \in 1..Len(r.responses) : \E j \in 1..Len(rpc.responses) :
         r.responses[i] = rpc.responses[j]

\* Taking a response off does so.
LEMMA TailContinues ==
    ASSUME IInv, NEW r, rpc.responses # <<>>, r.user = rpc.user,
           r.status = rpc.status, r.responses = Tail(rpc.responses)
    PROVE  Continues(r)
PROOF
<1>1. Len(rpc.responses) \in Nat \ {0}
  BY PathTypes, EmptySeq
<1>2. /\ Len(r.responses) = Len(rpc.responses) - 1
      /\ \A i \in 1..Len(r.responses) : r.responses[i] = rpc.responses[i + 1]
  BY PathTypes, HeadTailProperties
<1>3. \A i \in 1..Len(r.responses) : i + 1 \in 1..Len(rpc.responses)
  BY <1>1, <1>2
<1> QED
  BY <1>2, <1>3 DEF Continues

\* FillWritePipeline only adds requests, and only to the call of an open stream.
LEMMA FillKeepsCall ==
    ASSUME NEW p, NEW q, NEW s, NEW r \in CallType, NEW e, FillWritePipeline(p, q, s, r, e)
    PROVE  /\ rpc'.user = r.user /\ rpc'.status = r.status
           /\ rpc'.responses = r.responses
           /\ s.state # "Open" => rpc' = r
PROOF
<1>1. \E added : \/ rpc' = r
                 \/ s.state = "Open" /\ rpc' = [r EXCEPT !.requests = @ \o added]
  BY DEF FillWritePipeline, MaySend
<1> QED
  BY <1>1 DEF CallType

\* A call ends, begins, answers or goes on.
LEMMA CallSteps ==
    ASSUME IInv, PathInv, [Next]_vars
    PROVE  \/ rpc' = NoCall /\ rpc'.responses = <<>>
           \/ /\ StreamOpen /\ rpc' = NewCall(Head(worker).user)
              /\ UNCHANGED currentUser
           \/ Continues(rpc') /\ (currentUser' = currentUser \/ rpc.status = "none")
           \/ BackendReply /\ UNCHANGED currentUser
PROOF
<1>1. CASE rpc' = NoCall
  BY <1>1 DEF NoCall
<1>2. CASE /\ rpc'.user = rpc.user /\ rpc'.status = rpc.status
           /\ rpc'.responses = rpc.responses
           /\ currentUser' = currentUser \/ rpc.status = "none"
  BY <1>2 DEF Continues
<1>3. ASSUME NEW p, NEW q, NEW e, NEW s, s.state # "Open",
             FillWritePipeline(p, q, s, NoCall, e)
      PROVE  rpc' = NoCall
  BY <1>3, NoCallType, FillKeepsCall
<1>4. ASSUME NEW status, CloseWithError(status) PROVE rpc' = NoCall
  <2>1. CASE HandleWriteError(Failed(stream))
    <3> DEFINE t == [Failed(stream) EXCEPT !.state = "Initial", !.handshake = FALSE]
    <3>1. t.state # "Open"
      BY PathTypes DEF Failed, StreamType
    <3>2. \E p, q : FillWritePipeline(p, q, t, NoCall, Env)
      BY <2>1 DEF HandleWriteError
    <3> HIDE DEF t
    <3> QED
      BY <1>3, <3>1, <3>2
  <2> QED
    BY <1>4, <2>1 DEF CloseWithError
<1>5. CASE UNCHANGED vars
  BY <1>2, <1>5 DEF vars, remote, client
<1>6. CASE Caller
  <2>1. CASE WriteMutations
    <3>1. UNCHANGED currentUser /\ \E q : FillWritePipeline(pipeline, q, stream, rpc, Env)
      BY <2>1 DEF WriteMutations
    <3> QED
      BY <1>2, <3>1, PathTypes, FillKeepsCall
  <2>2. CASE EnableNetwork
    <3>1. UNCHANGED currentUser
          /\ \E s, e : FillWritePipeline(pipeline, queue[currentUser], s, rpc, e)
      BY <2>2 DEF EnableNetwork, client
    <3> QED
      BY <1>2, <3>1, PathTypes, FillKeepsCall
  <2>3. CASE DisableNetwork
    BY <1>1, <2>3 DEF DisableNetwork
  <2>4. CASE RegisterPendingWritesCallback \/ AuthStateChanged
    BY <1>2, <2>4 DEF RegisterPendingWritesCallback, AuthStateChanged, client, remote
  <2> QED
    BY <1>6, <2>1, <2>2, <2>3, <2>4 DEF Caller
<1>7. CASE Handler
  <2>1. CASE HandleCredentialChange
    <3> DEFINE u == Head(worker).user
               s == [StoppedWrite(stream) EXCEPT !.token = lastToken[u]]
    <3>1. RestartNetwork(u) /\ worker # <<>>
      BY <2>1 DEF HandleCredentialChange
    <3>2. u \in Users
      BY <2>1, FirstTaskType DEF HandleCredentialChange, IInv
    <3>3. CASE networkEnabled
      <4>1. s.state # "Open"
        BY <3>2, PathTypes, PathParts, StopCloses DEF Closes
      <4>2. FillWritePipeline(<<>>, queue[u], s, NoCall, Env)
        BY <3>1, <3>3 DEF RestartNetwork
      <4> HIDE DEF s
      <4> QED
        BY <1>1, <1>3, <4>1, <4>2
    <3>4. CASE ~networkEnabled
      <4>1. rpc.status = "none"
        BY <3>4, PathParts DEF StreamFits, Started
      <4> QED
        BY <1>2, <3>1, <3>4, <4>1 DEF RestartNetwork
    <3> QED
      BY <3>3, <3>4
  <2>2. CASE StreamOpen
    BY <1>2, <2>2 DEF StreamOpen, client
  <2>3. CASE TokenFailed \/ StreamFinish \/ IdleTimeout
    BY <1>1, <1>2, <1>4, <2>3 DEF TokenFailed, StreamFinish, IdleTimeout, remote, client
  <2>4. CASE HandshakeComplete
    <3>1. /\ rpc.responses # <<>> /\ rpc'.user = rpc.user /\ rpc'.status = rpc.status
          /\ rpc'.responses = Tail(rpc.responses) /\ UNCHANGED currentUser
      BY <2>4, PathTypes DEF HandshakeComplete, CallType
    <3> QED
      BY <3>1, TailContinues
  <2>5. CASE MutationResult
    <3> DEFINE r == [rpc EXCEPT !.responses = Tail(@)]
    <3>1. /\ rpc.responses # <<>> /\ UNCHANGED currentUser
          /\ \E p, q, s : FillWritePipeline(p, q, s, r, Env)
      BY <2>5 DEF MutationResult
    <3>2. /\ r \in CallType /\ r.user = rpc.user /\ r.status = rpc.status
          /\ r.responses = Tail(rpc.responses)
      <4>1. Tail(rpc.responses) \in Seq(Message)
        BY <3>1, PathTypes, HeadTailProperties
      <4> QED
        BY <4>1, PathTypes DEF CallType
    <3> HIDE DEF r
    <3>3. /\ rpc'.user = rpc.user /\ rpc'.status = rpc.status
          /\ rpc'.responses = Tail(rpc.responses)
      BY <3>1, <3>2, FillKeepsCall
    <3> QED
      BY <3>1, <3>3, TailContinues
  <2>6. CASE BackoffElapsed
    BY <1>2, <2>6 DEF BackoffElapsed, client
  <2> QED
    BY <1>7, <2>1, <2>2, <2>3, <2>4, <2>5, <2>6 DEF Handler
<1>8. CASE Environment
  <2>1. CASE Authenticate
    BY <1>2, <2>1 DEF Authenticate, client, remote
  <2>2. CASE BackendReply
    BY <2>2 DEF BackendReply, client
  <2>3. CASE BackendRefuse \/ BackendCloseOk
    <3>1. /\ rpc.status = "running" /\ rpc'.status \in {"ok", "aborted", "permanent"}
          /\ rpc'.status = "ok" => "ok" \in FaultKinds
          /\ rpc'.user = rpc.user /\ rpc'.responses = rpc.responses
          /\ UNCHANGED currentUser
      BY <2>3, PathTypes DEF BackendRefuse, BackendCloseOk, Fault, CallType, client
    <3> QED
      BY <3>1 DEF Continues
  <2>4. CASE CallLost
    <3>1. PICK n \in 0..Len(rpc.requests), k \in 0..Len(rpc.responses) :
            rpc' = [rpc EXCEPT !.status = "lost",
                      !.responses = SubSeq(@, 1, k),
                      !.requests = SubSeq(@, n + 1, Len(@))]
      BY <2>4 DEF CallLost
    <3>2. /\ rpc.status = "running" /\ rpc'.status = "lost" /\ rpc'.user = rpc.user
          /\ rpc'.responses = SubSeq(rpc.responses, 1, k) /\ UNCHANGED currentUser
      BY <2>4, <3>1, PathTypes DEF CallLost, CallType, client
    <3>3. k \in 0..Len(rpc.responses)
      OBVIOUS
    <3>4. /\ Len(rpc.responses) \in Nat /\ k \in Nat
          /\ \A i \in 1..k : i \in 1..Len(rpc.responses)
      BY <3>3, PathTypes, LenProperties
    <3>5. \A i \in 1..k : rpc.responses[i] \in Message
      BY <3>4, PathTypes, ElementOfSeq
    <3>6. /\ Len(SubSeq(rpc.responses, 1, k)) = k
          /\ \A i \in 1..k : SubSeq(rpc.responses, 1, k)[i] = rpc.responses[i]
      BY <3>4, <3>5, SubSeqProperties
    <3> QED
      BY <3>2, <3>4, <3>6 DEF Continues
  <2>5. CASE CorruptResponse
    BY <1>1, <1>4, <2>5 DEF CorruptResponse
  <2> QED
    BY <1>8, <2>1, <2>2, <2>3, <2>4, <2>5 DEF Environment
<1>9. CASE Death
  <2>1. PICK u \in {authUser, NoUser} : \E q, e :
          FillWritePipeline(<<>>, q, InitialStream(lastToken[u]), NoCall, e)
    BY <1>9 DEF Death, Restart, DieBeforeAcknowledgeBatch, DieBeforeNotifyUser,
       Initialize
  <2>2. InitialStream(lastToken[u]).state # "Open"
    BY DEF InitialStream
  <2> QED
    BY <1>1, <1>3, <2>1, <2>2
<1> QED
  BY <1>5, <1>6, <1>7, <1>8, <1>9 DEF Next

-----------------------------------------------------------------------------
(* Whose the tokens are                                                    *)

\* The user once a task has been taken off the worker queue.
UserOf(task, c) == IF task.type = "cred" THEN task.user ELSE c

\* The user after the rest of the tasks is the same.
LEMMA UserAfterTail ==
    ASSUME NEW w \in Seq(Task), w # <<>>, NEW c, NEW u, NEW i \in 0..Len(w) - 1,
           UserAfter(w, c, i + 1, u)
    PROVE  UserAfter(Tail(w), UserOf(Head(w), c), i, u)
PROOF
<1>1. Len(w) \in Nat \ {0} /\ Head(w) = w[1]
  BY EmptySeq
<1>2. i \in Nat /\ i <= Len(w) - 1
  BY <1>1
<1>3. \A j \in 1..i : Tail(w)[j] = w[j + 1]
  <2>1. Len(Tail(w)) = Len(w) - 1
    BY HeadTailProperties
  <2>2. \A j \in 1..i : j \in 1..Len(Tail(w))
    BY <1>1, <1>2, <2>1
  <2> QED
    BY <2>2, HeadTailProperties
<1>4. /\ 1 \in 1..i + 1
      /\ \A j \in 1..i : j + 1 \in 1..i + 1 /\ j + 1 > 1
      /\ \A j \in 1..i + 1 : j = 1 \/ (j - 1 \in 1..i /\ (j - 1) + 1 = j)
      /\ \A j, k \in 1..i : k > j => k + 1 > j + 1
  BY <1>2
<1>5. CASE c = u /\ \A j \in 1..i + 1 : w[j].type # "cred"
  BY <1>1, <1>3, <1>4, <1>5 DEF UserAfter, UserOf
<1>6. ASSUME NEW j \in 1..i + 1, w[j].type = "cred", w[j].user = u,
             \A k \in 1..i + 1 : k > j => w[k].type # "cred"
      PROVE  UserAfter(Tail(w), UserOf(Head(w), c), i, u)
  <2>1. CASE j = 1
    BY <1>1, <1>3, <1>4, <1>6, <2>1 DEF UserAfter, UserOf
  <2>2. CASE j # 1
    <3> DEFINE m == j - 1
    <3>1. m \in 1..i /\ m + 1 = j
      BY <1>4, <2>2
    <3> HIDE DEF m
    <3>2. Tail(w)[m].type = "cred" /\ Tail(w)[m].user = u
      BY <1>3, <1>6, <3>1
    <3>3. \A k \in 1..i : k > m => Tail(w)[k].type # "cred"
      BY <1>3, <1>4, <1>6, <3>1
    <3> QED
      BY <3>1, <3>2, <3>3 DEF UserAfter
  <2> QED
    BY <2>1, <2>2
<1> QED
  BY <1>5, <1>6 DEF UserAfter

\* And that after a new task is the one before, or that of a credential change.
LEMMA UserAfterAppend ==
    ASSUME NEW w \in Seq(Task), NEW b \in Task, NEW c
    PROVE  /\ \A u : \A i \in 0..Len(w) :
                UserAfter(w, c, i, u) => UserAfter(Append(w, b), c, i, u)
           /\ b.type = "cred" => UserAfter(Append(w, b), c, Len(w) + 1, b.user)
           /\ \A u : b.type # "cred" /\ UserAfter(w, c, Len(w), u) =>
                UserAfter(Append(w, b), c, Len(w) + 1, u)
PROOF
<1> DEFINE v == Append(w, b)
           n == Len(w)
<1>1. /\ n \in Nat /\ v[n + 1] = b /\ \A i \in 1..n : v[i] = w[i]
  BY LenProperties, AppendProperties
<1> HIDE DEF v, n
<1>2. ASSUME NEW u, NEW i \in 0..n, UserAfter(w, c, i, u) PROVE UserAfter(v, c, i, u)
  <2>1. \A j \in 1..i : j \in 1..n
    BY <1>1
  <2> QED
    BY <1>1, <1>2, <2>1 DEF UserAfter
<1>3. /\ n + 1 \in 1..n + 1
      /\ \A k \in 1..n + 1 : ~(k > n + 1)
      /\ \A k \in 1..n + 1 : k \in 1..n \/ k = n + 1
      /\ \A k \in 1..n : k \in 1..n + 1
  BY <1>1
<1>4. b.type = "cred" => UserAfter(v, c, n + 1, b.user)
  BY <1>1, <1>3 DEF UserAfter
<1>5. ASSUME NEW u, b.type # "cred", UserAfter(w, c, n, u)
      PROVE  UserAfter(v, c, n + 1, u)
  BY <1>1, <1>3, <1>5 DEF UserAfter
<1> QED
  BY <1>2, <1>4, <1>5 DEF v, n

\* A task is run: a token in front of the queue is the current user's.
LEMMA TasksTail ==
    ASSUME NEW w \in Seq(Task), w # <<>>, NEW c, NEW u, TasksFit(w, c, u)
    PROVE  /\ TasksFit(Tail(w), UserOf(Head(w), c), u)
           /\ Head(w).type = "token" => Head(w).user = c
PROOF
<1>1. Len(w) \in Nat \ {0} /\ Head(w) = w[1]
  BY EmptySeq
<1>2. /\ Len(Tail(w)) = Len(w) - 1
      /\ \A i \in 1..Len(Tail(w)) : Tail(w)[i] = w[i + 1]
  BY HeadTailProperties
<1>3. /\ Len(w) - 1 \in 0..Len(w) - 1 /\ (Len(w) - 1) + 1 = Len(w)
      /\ 1 \in 1..Len(w) /\ 0 \in 0..Len(w) - 1
      /\ \A i \in 1..Len(w) - 1 : i \in 0..Len(w) - 1 /\ i + 1 \in 1..Len(w)
  BY <1>1
<1>4. UserAfter(w, c, Len(w), u)
  BY DEF TasksFit
<1>5. UserAfter(Tail(w), UserOf(Head(w), c), Len(Tail(w)), u)
  BY <1>2, <1>3, <1>4, UserAfterTail
<1>6. ASSUME NEW i \in 1..Len(Tail(w)), Tail(w)[i].type = "token"
      PROVE  UserAfter(Tail(w), UserOf(Head(w), c), i, Tail(w)[i].user)
  <2>1. /\ i \in 0..Len(w) - 1 /\ i + 1 \in 1..Len(w) /\ Tail(w)[i] = w[i + 1]
    BY <1>2, <1>3
  <2>2. UserAfter(w, c, i + 1, w[i + 1].user)
    BY <1>6, <2>1 DEF TasksFit
  <2> QED
    BY <2>1, <2>2, UserAfterTail
<1>7. Head(w).type = "token" => Head(w).user = c
  <2> SUFFICES ASSUME Head(w).type = "token" PROVE Head(w).user = c
    OBVIOUS
  <2>1. UserAfter(w, c, 1, w[1].user)
    BY <1>1, <1>3 DEF TasksFit
  <2>2. \A j \in 1..1 : j = 1
    OBVIOUS
  <2> QED
    BY <1>1, <2>1, <2>2 DEF UserAfter
<1> QED
  BY <1>5, <1>6, <1>7 DEF TasksFit

\* A credential change, or a token of Auth's user, is queued.
LEMMA TasksAppend ==
    ASSUME NEW w \in Seq(Task), NEW c, NEW u, NEW b \in Task, TasksFit(w, c, u),
           b.type = "cred" \/ b.user = u
    PROVE  TasksFit(Append(w, b), c, b.user)
PROOF
<1> DEFINE v == Append(w, b)
<1>1. /\ Len(w) \in Nat /\ Len(v) = Len(w) + 1 /\ v[Len(w) + 1] = b
      /\ \A i \in 1..Len(w) : v[i] = w[i]
  BY LenProperties, AppendProperties
<1>2. \A i \in 1..Len(v) : (i \in 1..Len(w) /\ i \in 0..Len(w)) \/ i = Len(w) + 1
  BY <1>1
<1>3. UserAfter(v, c, Len(w) + 1, b.user)
  BY UserAfterAppend DEF TasksFit
<1>4. \A i \in 1..Len(w) : v[i].type = "token" => UserAfter(v, c, i, v[i].user)
  <2> SUFFICES ASSUME NEW i \in 1..Len(w), v[i].type = "token"
               PROVE  UserAfter(v, c, i, v[i].user)
    OBVIOUS
  <2>1. i \in 0..Len(w) /\ v[i] = w[i]
    BY <1>1
  <2>2. UserAfter(w, c, i, w[i].user)
    BY <2>1 DEF TasksFit
  <2> QED
    BY <2>1, <2>2, UserAfterAppend
<1> HIDE DEF v
<1>5. TasksFit(v, c, b.user)
  BY <1>1, <1>2, <1>3, <1>4 DEF TasksFit
<1> QED
  BY <1>5 DEF v

\* The worker queue leads to Auth's user after every step.
LEMMA NextKeepsTasks ==
    ASSUME IInv, PathInv, UserInv, [Next]_vars
    PROVE  TasksFit(worker', currentUser', authUser')
PROOF
<1> USE DEF UserInv
<1>1. CASE UNCHANGED <<worker, currentUser, authUser>>
  BY <1>1
<1>2. CASE AuthStateChanged
  <2>1. PICK u \in Users : authUser' = u
                           /\ worker' = Append(worker, [type |-> "cred", user |-> u])
    BY <1>2 DEF AuthStateChanged
  <2>2. UNCHANGED currentUser
    BY <1>2 DEF AuthStateChanged, client
  <2> DEFINE b == [type |-> "cred", user |-> u]
  <2>3. b \in Task /\ b.type = "cred" /\ b.user = u
    BY DEF Task
  <2> HIDE DEF b
  <2> QED
    BY <2>1, <2>2, <2>3, PathTypes, TasksAppend DEF b
<1>3. CASE HandleCredentialChange \/ StreamOpen \/ TokenFailed
  <2>1. /\ worker # <<>> /\ worker' = Tail(worker) /\ UNCHANGED authUser
        /\ currentUser' = UserOf(Head(worker), currentUser)
    BY <1>3 DEF HandleCredentialChange, StreamOpen, TokenFailed, client, UserOf
  <2> QED
    BY <2>1, PathTypes, TasksTail
<1>4. CASE Authenticate
  <2>1. UNCHANGED <<currentUser, authUser>>
    BY <1>4 DEF Authenticate, client
  <2>2. PICK r \in tokenRequests :
          \/ UNCHANGED worker
          \/ /\ r.counter = tokenCounter
             /\ \E ok \in BOOLEAN :
                  worker' = Append(worker, [type |-> "token", user |-> r.user,
                                            count |-> r.count, ok |-> ok])
    BY <1>4 DEF Authenticate, GetTokenDone
  <2>3. ASSUME NEW ok \in BOOLEAN, r.counter = tokenCounter,
               worker' = Append(worker, [type |-> "token", user |-> r.user,
                                         count |-> r.count, ok |-> ok])
        PROVE  TasksFit(worker', currentUser', authUser')
    <3> DEFINE b == [type |-> "token", user |-> r.user, count |-> r.count, ok |-> ok]
    <3>1. r \in TokenRequestType /\ r.user = authUser
      BY <2>3, PathParts DEF RequestsFit, IInv, TypeOK
    <3>2. b \in Task /\ b.user = authUser
      BY <3>1 DEF Task, TokenRequestType
    <3> HIDE DEF b
    <3> QED
      BY <2>1, <2>3, <3>2, PathTypes, TasksAppend DEF b
  <2> QED
    BY <1>1, <2>1, <2>2, <2>3
<1>5. CASE Death
  <2>1. worker' = <<>> /\ currentUser' = authUser'
    BY <1>5 DEF Death, Restart, DieBeforeAcknowledgeBatch, DieBeforeNotifyUser,
       Initialize
  <2>2. Len(<<>>) = 0
    BY EmptySeq
  <2>3. 1..Len(<<>>) = {}
    BY <2>2
  <2> QED
    BY <2>1, <2>3 DEF TasksFit, UserAfter
<1>6. CASE Caller /\ ~AuthStateChanged
  BY <1>1, <1>6 DEF Caller, WriteMutations, RegisterPendingWritesCallback,
     EnableNetwork, DisableNetwork, client, auth
<1>7. CASE Handler /\ ~(HandleCredentialChange \/ StreamOpen \/ TokenFailed)
  BY <1>1, <1>7 DEF Handler, HandshakeComplete, MutationResult, StreamFinish,
     IdleTimeout, BackoffElapsed, client, auth
<1>8. CASE Environment /\ ~Authenticate
  BY <1>1, <1>8 DEF Environment, BackendReply, BackendRefuse, BackendCloseOk, CallLost,
     CorruptResponse, client, auth
<1>9. CASE UNCHANGED vars
  BY <1>1, <1>9 DEF vars, client, auth
<1> QED
  BY <1>2, <1>3, <1>4, <1>5, <1>6, <1>7, <1>8, <1>9 DEF Next

\* The call is the current user's after every step.
LEMMA NextKeepsCallUser ==
    ASSUME IInv, PathInv, UserInv, [Next]_vars, rpc'.status # "none"
    PROVE  rpc'.user = currentUser'
PROOF
<1>1. CASE /\ StreamOpen /\ rpc' = NewCall(Head(worker).user)
           /\ UNCHANGED currentUser
  <2>1. worker # <<>> /\ Head(worker).type = "token"
    BY <1>1 DEF StreamOpen
  <2>2. Head(worker).user = currentUser
    BY <2>1, PathTypes, TasksTail DEF UserInv
  <2> QED
    BY <1>1, <2>2 DEF NewCall, NoCall
<1>2. CASE BackendReply /\ UNCHANGED currentUser
  BY <1>2, PathTypes DEF BackendReply, CallType, UserInv
<1> QED
  BY <1>1, <1>2, CallSteps DEF Continues, UserInv, NoCall

\* The queue's token is the current user's after every step.
LEMMA NextKeepsTokens ==
    ASSUME IInv, PathInv, UserInv, [Next]_vars
    PROVE  TokensBelongToUser'
PROOF
<1>1. CASE UNCHANGED lastToken
  BY <1>1 DEF UserInv, TokensBelongToUser
<1>2. CASE lastToken' = [lastToken EXCEPT ![currentUser] = NoToken]
  BY <1>2 DEF UserInv, TokensBelongToUser, IInv, TypeOK
<1>3. CASE rpc.responses # <<>> /\ lastToken' = [lastToken EXCEPT ![currentUser] = rpc.user]
  <2>1. rpc.user = currentUser
    BY <1>3, ResponseMeansOpen DEF UserInv
  <2> QED
    BY <1>3, <2>1 DEF UserInv, TokensBelongToUser, IInv, TypeOK
<1>4. ASSUME NEW status, CloseWithError(status) PROVE TokensBelongToUser'
  BY <1>1, <1>2, <1>4 DEF CloseWithError, HandleWriteError, RejectBatch,
     HandleHandshakeError
<1>5. CASE Caller
  BY <1>1, <1>5 DEF Caller, WriteMutations, RegisterPendingWritesCallback,
     EnableNetwork, DisableNetwork, AuthStateChanged, client
<1>6. CASE Handler
  BY <1>1, <1>3, <1>4, <1>6 DEF Handler, HandleCredentialChange, StreamOpen,
     TokenFailed, HandshakeComplete, MutationResult, AcknowledgeBatch, StreamFinish,
     IdleTimeout, BackoffElapsed, client
<1>7. CASE Environment
  BY <1>1, <1>4, <1>7 DEF Environment, Authenticate, BackendReply, BackendRefuse,
     BackendCloseOk, CallLost, CorruptResponse, client
<1>8. CASE Death
  BY <1>1, <1>8 DEF Death, Restart, DieBeforeAcknowledgeBatch, DieBeforeNotifyUser,
     Initialize
<1>9. CASE UNCHANGED vars
  BY <1>1, <1>9 DEF vars, client
<1> QED
  BY <1>5, <1>6, <1>7, <1>8, <1>9 DEF Next

\* Every step keeps calls and tokens with their users.
LEMMA NextKeepsUser == IInv /\ PathInv /\ UserInv /\ [Next]_vars => UserInv'
PROOF
  BY NextKeepsTasks, NextKeepsCallUser, NextKeepsTokens DEF UserInv

-----------------------------------------------------------------------------
(* What a step does to the queues and their callbacks                       *)

\* The front of the pipeline is rejected: the batch goes, its callback is told.
Rejects ==
    /\ pipeline # <<>>
    /\ queue' = Without(Head(pipeline).id)
    /\ rejected' = rejected \cup {Head(pipeline).write}
    /\ NotifyUser(Head(pipeline).id, "rejected")
    /\ UNCHANGED <<currentUser, owner>>

\* Nothing happens to the queues: at most the user changes or the process dies.
Keeps ==
    /\ UNCHANGED <<queue, owner, fate, rejected, released>>
    /\ \/ /\ UNCHANGED callbacks
          /\ waiters' = {} \/ UNCHANGED <<waiters, currentUser>>
       \/ callbacks' = [u \in Users |-> {}] /\ waiters' = {}

\* Only a few steps touch the queues.
LEMMA SettleSteps ==
    ASSUME [Next]_vars
    PROVE  \/ WriteMutations \/ RegisterPendingWritesCallback \/ MutationResult
           \/ Rejects \/ Keeps
           \/ DieBeforeAcknowledgeBatch \/ DieBeforeNotifyUser
PROOF
<1>1. CASE UNCHANGED <<client, ghosts>>
  BY <1>1 DEF Keeps, client, ghosts
<1>2. ASSUME NEW status, CloseWithError(status), UNCHANGED <<currentUser, owner>>
      PROVE  Rejects \/ Keeps
  <2>1. CASE HandleWriteError(Failed(stream)) /\ pipeline # <<>>
    BY <1>2, <2>1 DEF HandleWriteError, RejectBatch, Rejects
  <2>2. CASE UNCHANGED <<queue, callbacks, waiters, pipeline, fate, rejected, released>>
    BY <1>2, <2>2 DEF Keeps
  <2> QED
    BY <1>2, <2>1, <2>2 DEF CloseWithError
<1>3. CASE Caller
  BY <1>3 DEF Caller, EnableNetwork, DisableNetwork, AuthStateChanged, client, Keeps
<1>4. CASE Handler
  <2>1. CASE HandleCredentialChange
    BY <2>1 DEF HandleCredentialChange, FailOutstandingPendingWriteCallbacks, ghosts,
       Keeps
  <2>2. CASE StreamOpen \/ HandshakeComplete \/ IdleTimeout \/ BackoffElapsed
    BY <2>2 DEF StreamOpen, HandshakeComplete, IdleTimeout, BackoffElapsed, client,
       Keeps
  <2>3. CASE TokenFailed
    BY <1>2, <2>3 DEF TokenFailed, client, Keeps
  <2>4. CASE StreamFinish
    BY <1>2, <2>4 DEF StreamFinish, client, Keeps
  <2> QED
    BY <1>4, <2>1, <2>2, <2>3, <2>4 DEF Handler
<1>5. CASE Environment
  <2>1. CASE CorruptResponse
    BY <1>2, <2>1 DEF CorruptResponse
  <2>2. CASE ~CorruptResponse
    BY <1>5, <2>2 DEF Environment, Authenticate, BackendReply, BackendRefuse,
       BackendCloseOk, CallLost, client, ghosts, Keeps
  <2> QED
    BY <2>1, <2>2
<1>6. CASE Restart
  BY <1>6 DEF Restart, Initialize, Keeps
<1>7. CASE UNCHANGED vars
  BY <1>1, <1>7 DEF vars
<1> QED
  BY <1>3, <1>4, <1>5, <1>6, <1>7 DEF Next, Death

\* The requests of a running call, but for the handshake, are batches of the current
\* user's queue.
LEMMA RequestsAreQueued ==
    ASSUME IInv, PathInv, rpc.status = "running",
           NEW i \in 1..Len(rpc.requests), rpc.requests[i].write # 0
    PROVE  \E j \in 1..Len(queue[currentUser]) :
             queue[currentUser][j] = rpc.requests[i]
PROOF
<1>1. /\ rpc.responses \in Seq(Message) /\ rpc.requests \in Seq(Message)
      /\ queue[currentUser] \in Seq(Message)
  BY PathTypes, SeqMonotonic DEF Message
<1>2. CallFits(stream, rpc, pipeline) /\ Begins(pipeline, queue[currentUser])
  BY DEF PathInv, Fits
<1>3. CASE stream.handshake
  <2>1. rpc.responses \o rpc.requests = pipeline
    BY <1>2, <1>3 DEF CallFits
  <2>2. Begins(rpc.responses \o rpc.requests, queue[currentUser])
    BY <1>2, <2>1
  <2>3. i \in 1..Len(rpc.requests)
    OBVIOUS
  <2> QED
    BY <1>1, <2>2, <2>3, BeginsElement
<1>4. CASE ~stream.handshake
  <2>1. rpc.requests = <<Handshake>> \/ rpc.requests = <<>>
    BY <1>2, <1>4 DEF CallFits
  <2>2. rpc.requests = <<>> => Len(rpc.requests) = 0
    BY EmptySeq
  <2>3. rpc.requests = <<Handshake>> /\ i = 1
    <3>1. rpc.requests # <<>>
      BY <2>2
    <3> QED
      BY <2>1, <3>1
  <2>4. rpc.requests[i] = Handshake
    BY <2>3
  <2> QED
    BY <2>4 DEF Handshake
<1> QED
  BY <1>3, <1>4

\* A set of commits of batches of the current user's queue, as that user.
Commits(W) ==
    \A c \in W : /\ c.user = currentUser
                 /\ \E j \in 1..Len(queue[currentUser]) :
                      queue[currentUser][j].write = c.write

\* The backend only ever executes such writes.
LEMMA ExecutedCommits ==
    ASSUME IInv, PathInv, UserInv, rpc.status = "running",
           NEW n \in 0..Len(rpc.requests)
    PROVE  Commits(Executed(rpc, n))
PROOF
<1> SUFFICES ASSUME NEW c \in Executed(rpc, n)
             PROVE  /\ c.user = currentUser
                    /\ \E j \in 1..Len(queue[currentUser]) :
                         queue[currentUser][j].write = c.write
  BY DEF Commits
<1>1. PICK i \in 1..n : c = [user |-> rpc.user, write |-> rpc.requests[i].write]
  BY DEF Executed
<1>2. c.user = rpc.user /\ c.write = rpc.requests[i].write
  BY <1>1
<1>3. rpc.requests[i].write # 0
  BY <1>1 DEF Executed
<1>4. i \in 1..Len(rpc.requests)
  <2>1. Len(rpc.requests) \in Nat
    BY PathTypes, LenProperties
  <2> QED
    BY <2>1
<1>5. rpc.user = currentUser
  BY DEF UserInv
<1> QED
  BY <1>2, <1>3, <1>4, <1>5, RequestsAreQueued

\* What a step commits.
LEMMA CommitSteps ==
    ASSUME IInv, PathInv, UserInv, [Next]_vars
    PROVE  \E W : Commits(W) /\ committed' = committed \cup W
PROOF
<1>1. CASE UNCHANGED committed
  <2>1. Commits({}) /\ committed' = committed \cup {}
    BY <1>1 DEF Commits
  <2> QED
    BY <2>1
<1>2. CASE DropCall
  <2>1. PICK n \in InFlight(rpc) : committed' = committed \cup Executed(rpc, n)
    BY <1>2 DEF DropCall
  <2>2. CASE rpc.status = "running"
    BY <2>1, <2>2, ExecutedCommits DEF InFlight
  <2>3. CASE rpc.status # "running"
    <3>1. n = 0
      BY <2>1, <2>3 DEF InFlight
    <3>2. Executed(rpc, n) = {}
      BY <3>1 DEF Executed
    <3> QED
      BY <1>1, <2>1, <3>2
  <2> QED
    BY <2>2, <2>3
<1>3. CASE /\ rpc.status = "running"
           /\ \E n \in 0..Len(rpc.requests) :
                committed' = committed \cup Executed(rpc, n)
  BY <1>3, ExecutedCommits
<1>4. CASE Caller
  BY <1>1, <1>2, <1>4 DEF Caller, WriteMutations, RegisterPendingWritesCallback,
     EnableNetwork, DisableNetwork, AuthStateChanged
<1>5. CASE Handler
  BY <1>1, <1>2, <1>5 DEF Handler, HandleCredentialChange, RestartNetwork, StreamOpen,
     TokenFailed, HandshakeComplete, MutationResult, StreamFinish, IdleTimeout,
     BackoffElapsed
<1>6. CASE Environment
  <2>1. CASE BackendReply
    <3>1. rpc.status = "running" /\ rpc.requests # <<>>
          /\ committed' = committed \cup Executed(rpc, 1)
      BY <2>1 DEF BackendReply
    <3>2. 1 \in 0..Len(rpc.requests)
      <4>1. Len(rpc.requests) \in Nat \ {0}
        BY <3>1, PathTypes, EmptySeq
      <4> QED
        BY <4>1
    <3> QED
      BY <1>3, <3>1, <3>2
  <2>2. CASE CallLost
    BY <1>3, <2>2 DEF CallLost
  <2>3. CASE ~(BackendReply \/ CallLost)
    BY <1>1, <1>2, <1>6, <2>3 DEF Environment, Authenticate, BackendRefuse,
       BackendCloseOk, CorruptResponse
  <2> QED
    BY <2>1, <2>2, <2>3
<1>7. CASE Death
  BY <1>2, <1>7 DEF Death, Restart, DieBeforeAcknowledgeBatch, DieBeforeNotifyUser,
     Initialize
<1>8. CASE UNCHANGED vars
  BY <1>1, <1>8 DEF vars
<1> QED
  BY <1>4, <1>5, <1>6, <1>7, <1>8 DEF Next

-----------------------------------------------------------------------------
(* Whose the writes are                                                    *)

\* Whose the batches of a queue are, when its head goes.
LEMMA OwnedTail ==
    ASSUME NEW q \in Seq(Batch), NEW u, NEW o, OwnedBy(q, u, o), q # <<>>
    PROVE  /\ OwnedBy(Tail(q), u, o)
           /\ \A i \in 1..Len(Tail(q)) : q[1].write < Tail(q)[i].write
           /\ \A i \in 1..Len(Tail(q)) : \E j \in 1..Len(q) : Tail(q)[i] = q[j]
           /\ \A j \in 1..Len(q) :
                j = 1 \/ \E i \in 1..Len(Tail(q)) : Tail(q)[i] = q[j]
PROOF
<1>1. Len(q) \in Nat \ {0}
  BY EmptySeq
<1>2. /\ Len(Tail(q)) = Len(q) - 1
      /\ \A i \in 1..Len(Tail(q)) : Tail(q)[i] = q[i + 1]
  BY HeadTailProperties
<1>3. \A i \in 1..Len(Tail(q)) : i + 1 \in 1..Len(q) /\ 1 < i + 1
  BY <1>1, <1>2
<1>4. \A i, j \in 1..Len(Tail(q)) : i < j => i + 1 < j + 1
  BY <1>1, <1>2
<1>5. 1 \in 1..Len(q)
  BY <1>1
<1>6. \A j \in 1..Len(q) :
        j = 1 \/ (j - 1 \in 1..Len(Tail(q)) /\ (j - 1) + 1 = j)
  BY <1>1, <1>2
<1>7. OwnedBy(Tail(q), u, o)
  BY <1>2, <1>3, <1>4 DEF OwnedBy
<1>8. \A i \in 1..Len(Tail(q)) : q[1].write < Tail(q)[i].write
  BY <1>2, <1>3, <1>5 DEF OwnedBy
<1>9. \A j \in 1..Len(q) :
        j = 1 \/ \E i \in 1..Len(Tail(q)) : Tail(q)[i] = q[j]
  BY <1>2, <1>6
<1> QED
  BY <1>2, <1>3, <1>7, <1>8, <1>9

\* And when a write is made.
LEMMA OwnedAppend ==
    ASSUME NEW q \in Seq(Batch), NEW u \in Users, NEW v \in Users, NEW o \in Seq(Users),
           OwnedBy(q, u, o)
    PROVE  /\ OwnedBy(q, u, Append(o, v))
           /\ \A b \in Batch : u = v /\ b.write = Len(o) + 1 =>
                OwnedBy(Append(q, b), u, Append(o, v))
PROOF
<1>1. /\ Len(o) \in Nat
      /\ Len(Append(o, v)) = Len(o) + 1
      /\ \A w \in 1..Len(o) : Append(o, v)[w] = o[w]
      /\ Append(o, v)[Len(o) + 1] = v
  BY LenProperties, AppendProperties
<1>2. \A w \in 1..Len(o) : w \in 1..Len(o) + 1 /\ w < Len(o) + 1
  BY <1>1
<1>3. OwnedBy(q, u, Append(o, v))
  BY <1>1, <1>2 DEF OwnedBy
<1>4. ASSUME NEW b \in Batch, u = v, b.write = Len(o) + 1
      PROVE  OwnedBy(Append(q, b), u, Append(o, v))
  <2>1. /\ Len(q) \in Nat
        /\ Len(Append(q, b)) = Len(q) + 1
        /\ \A i \in 1..Len(q) : Append(q, b)[i] = q[i]
        /\ Append(q, b)[Len(q) + 1] = b
    BY LenProperties, AppendProperties
  <2>2. \A i \in 1..Len(q) + 1 : i \in 1..Len(q) \/ i = Len(q) + 1
    BY <2>1
  <2>3. Len(o) + 1 \in 1..Len(o) + 1
    BY <1>1
  <2>4. \A i \in 1..Len(Append(q, b)) :
          /\ Append(q, b)[i].write \in 1..Len(Append(o, v))
          /\ Append(o, v)[Append(q, b)[i].write] = u
    BY <1>1, <1>2, <1>4, <2>1, <2>2, <2>3 DEF OwnedBy
  <2>5. \A i, j \in 1..Len(q) + 1 : i < j =>
          i \in 1..Len(q) /\ (j \in 1..Len(q) \/ j = Len(q) + 1)
    BY <2>1
  <2>6. \A i, j \in 1..Len(Append(q, b)) : i < j =>
          Append(q, b)[i].write < Append(q, b)[j].write
    BY <1>2, <1>4, <2>1, <2>5 DEF OwnedBy
  <2> QED
    BY <2>4, <2>6 DEF OwnedBy
<1> QED
  BY <1>3, <1>4

\* What a step does to the queues.
LEMMA QueueSteps ==
    ASSUME IInv, PathInv, [Next]_vars
    PROVE  \/ WriteMutations
           \/ UNCHANGED <<queue, owner>>
           \/ /\ queue[currentUser] # <<>> /\ UNCHANGED owner
              /\ queue' = [queue EXCEPT ![currentUser] = Tail(queue[currentUser])]
PROOF
<1>1. CASE /\ pipeline # <<>> /\ UNCHANGED owner
           /\ queue' = Without(Head(pipeline).id)
  BY <1>1, HeadOfPipeline
<1>2. CASE MutationResult \/ Rejects \/ DieBeforeNotifyUser
  BY <1>1, <1>2 DEF MutationResult, AcknowledgeBatch, Rejects, DieBeforeNotifyUser,
     Initialize
<1>3. CASE RegisterPendingWritesCallback \/ Keeps \/ DieBeforeAcknowledgeBatch
  BY <1>3 DEF RegisterPendingWritesCallback, Keeps, DieBeforeAcknowledgeBatch,
     Initialize
<1> QED
  BY <1>2, <1>3, SettleSteps

\* What a write is appended to.
LEMMA WriteMutationsEffect ==
    ASSUME IInv, WriteMutations
    PROVE  LET b == [id |-> nextBatchId, write |-> Len(owner) + 1]
           IN  /\ b \in Batch /\ b.id = nextBatchId /\ b.write = Len(owner) + 1
               /\ currentUser \in Users
               /\ queue' = [queue EXCEPT ![currentUser] =
                              Append(queue[currentUser], b)]
               /\ owner' = Append(owner, currentUser)
               /\ Len(owner) \in Nat /\ Len(owner') = Len(owner) + 1
               /\ \A w \in 1..Len(owner) : owner'[w] = owner[w]
               /\ owner'[Len(owner) + 1] = currentUser
               /\ UNCHANGED <<currentUser, waiters, committed, fate, rejected,
                              released>>
PROOF
<1>1. Len(owner) \in Nat /\ MaxWrites \in Nat
  BY LenProperties, BoundsAssumption DEF IInv, TypeOK
<1>2. Len(owner) + 1 \in Writes
  BY <1>1 DEF WriteMutations, Writes
<1>3. currentUser \in Users /\ owner \in Seq(Users)
  BY DEF IInv, TypeOK
<1>4. owner' = Append(owner, currentUser)
  BY DEF WriteMutations
<1>5. /\ Len(owner') = Len(owner) + 1
      /\ \A w \in 1..Len(owner) : owner'[w] = owner[w]
      /\ owner'[Len(owner) + 1] = currentUser
  BY <1>3, <1>4, AppendProperties
<1> QED
  BY <1>1, <1>2, <1>3, <1>4, <1>5 DEF WriteMutations, WriteLocally, IInv, TypeOK, Batch

\* Every step keeps the writes with their owners.
LEMMA NextKeepsOwner ==
    IInv /\ PathInv /\ UserInv /\ OwnerInv /\ [Next]_vars => OwnerInv'
PROOF
<1> SUFFICES ASSUME IInv, PathInv, UserInv, OwnerInv, [Next]_vars PROVE OwnerInv'
  OBVIOUS
<1>1. /\ queue \in [Users -> Seq(Batch)] /\ owner \in Seq(Users)
      /\ currentUser \in Users
  BY DEF IInv, TypeOK
<1>2. \A u \in Users : OwnedBy(queue[u], u, owner)
  BY DEF OwnerInv
<1>3. \A u \in Users : OwnedBy(queue'[u], u, owner')
  <2>1. CASE WriteMutations
    <3> DEFINE b == [id |-> nextBatchId, write |-> Len(owner) + 1]
    <3>1. /\ b \in Batch /\ b.write = Len(owner) + 1
          /\ queue' = [queue EXCEPT ![currentUser] = Append(queue[currentUser], b)]
          /\ owner' = Append(owner, currentUser)
      BY <2>1, WriteMutationsEffect
    <3> HIDE DEF b
    <3> SUFFICES ASSUME NEW u \in Users PROVE OwnedBy(queue'[u], u, owner')
      OBVIOUS
    <3>2. CASE u = currentUser
      BY <1>1, <1>2, <3>1, <3>2, OwnedAppend
    <3>3. CASE u # currentUser
      BY <1>1, <1>2, <3>1, <3>3, OwnedAppend
    <3> QED
      BY <3>2, <3>3
  <2>2. CASE UNCHANGED <<queue, owner>>
    BY <1>2, <2>2
  <2>3. CASE /\ queue[currentUser] # <<>> /\ UNCHANGED owner
             /\ queue' = [queue EXCEPT ![currentUser] = Tail(queue[currentUser])]
    BY <1>1, <1>2, <2>3, OwnedTail
  <2> QED
    BY <2>1, <2>2, <2>3, QueueSteps
<1>4. /\ \A w \in 1..Len(owner) : w \in 1..Len(owner') /\ owner'[w] = owner[w]
      /\ Len(owner) \in Nat
  <2>1. CASE WriteMutations
    BY <2>1, WriteMutationsEffect
  <2>2. CASE UNCHANGED owner
    BY <1>1, <2>2, LenProperties
  <2> QED
    BY <2>1, <2>2, QueueSteps
<1>5. PICK W : Commits(W) /\ committed' = committed \cup W
  BY CommitSteps
<1>6. \A c \in W : c.write \in 1..Len(owner) /\ owner[c.write] = c.user
  BY <1>1, <1>2, <1>5, SMTT(30) DEF Commits, OwnedBy
<1>7. \A c \in committed' : c.write \in 1..Len(owner') /\ owner'[c.write] = c.user
  BY <1>4, <1>5, <1>6 DEF OwnerInv
<1>8. \A i \in 1..Len(rpc'.responses) : rpc'.responses[i].write # 0 =>
        [user |-> rpc'.user, write |-> rpc'.responses[i].write] \in committed'
  <2>1. CASE rpc'.responses = <<>>
    <3>1. Len(rpc'.responses) = 0
      BY <2>1, EmptySeq
    <3> QED
      BY <3>1
  <2>2. CASE /\ rpc'.user = rpc.user
             /\ \A i \in 1..Len(rpc'.responses) : \E j \in 1..Len(rpc.responses) :
                  rpc'.responses[i] = rpc.responses[j]
    BY <1>5, <2>2 DEF OwnerInv
  <2>3. CASE StreamOpen /\ rpc' = NewCall(Head(worker).user)
    BY <2>1, <2>3 DEF NewCall, NoCall
  <2>4. CASE BackendReply
    <3> DEFINE m == Head(rpc.requests)
               n == Len(rpc.responses)
    <3>1. /\ rpc.requests # <<>>
          /\ rpc'.user = rpc.user /\ rpc'.responses = Append(rpc.responses, m)
          /\ committed' = committed \cup Executed(rpc, 1)
      BY <2>4, PathTypes DEF BackendReply, CallType
    <3>2. m \in Message /\ m = rpc.requests[1]
      <4>1. Len(rpc.requests) \in Nat \ {0}
        BY <3>1, PathTypes, EmptySeq
      <4> QED
        BY <3>1, <4>1, PathTypes, HeadTailProperties
    <3>3. m.write # 0 => [user |-> rpc.user, write |-> m.write] \in committed'
      BY <3>1, <3>2 DEF Executed
    <3> HIDE DEF m
    <3>4. /\ n \in Nat /\ Len(rpc'.responses) = n + 1
          /\ \A i \in 1..n : rpc'.responses[i] = rpc.responses[i]
          /\ rpc'.responses[n + 1] = m
      BY <3>1, <3>2, PathTypes, LenProperties, AppendProperties
    <3>5. \A i \in 1..n + 1 : i \in 1..n \/ i = n + 1
      BY <3>4
    <3> QED
      BY <3>1, <3>3, <3>4, <3>5 DEF OwnerInv
  <2> QED
    BY <2>1, <2>2, <2>3, <2>4, CallSteps DEF Continues
<1> QED
  BY <1>3, <1>7, <1>8 DEF OwnerInv, OwnedBy

-----------------------------------------------------------------------------
(* What callbacks and waiters are told                                     *)

\* What is settled stays settled.
LEMMA SettledStays ==
    ASSUME IInv, PathInv, UserInv, [Next]_vars, NEW w, Settled(w)
    PROVE  Settled(w)'
PROOF
<1>1. rejected \subseteq rejected'
  BY SettleSteps DEF WriteMutations, RegisterPendingWritesCallback, MutationResult,
     Rejects, Keeps, DieBeforeAcknowledgeBatch, DieBeforeNotifyUser
<1>2. committed \subseteq committed'
  BY CommitSteps
<1> QED
  BY <1>1, <1>2 DEF Settled

\* The front of the pipeline has the lowest id and the oldest write of the queue, and
\* the callback of its id is its own.
LEMMA FrontOfQueue ==
    ASSUME IInv, PathInv, OwnerInv, SettledInv, pipeline # <<>>,
           NEW h, h = Head(pipeline)
    PROVE  LET q == queue[currentUser]
           IN  /\ h \in Batch /\ h = q[1] /\ 1 \in 1..Len(q)
               /\ \A i \in 1..Len(q) : /\ q[i].id <= h.id => i = 1
                                       /\ h.write <= q[i].write
               /\ h.write \in 1..Len(owner) /\ owner[h.write] = currentUser
               /\ \A c \in Told(h.id) : c = h
PROOF
<1> DEFINE q == queue[currentUser]
<1>1. h \in Batch /\ h = q[1] /\ 1 \in 1..Len(q)
  BY HeadOfPipeline
<1>2. /\ \A i \in 1..Len(q) : q[i] \in Batch
      /\ DOMAIN q = 1..Len(q) /\ Len(q) \in Nat
  BY PathTypes, ElementOfSeq, LenProperties
<1>3. \A i \in 1..Len(q) : i = 1 \/ (1 < i /\ q[1].id < q[i].id)
  <2>1. \A i \in 1..Len(q) : i = 1 \/ 1 < i
    BY <1>2
  <2> QED
    BY <1>1, <1>2, <2>1, PathTypes DEF Increasing
<1>4. OwnedBy(q, currentUser, owner)
  BY PathTypes DEF OwnerInv
<1>5. \A i \in 1..Len(q) : q[i].id <= h.id => i = 1
  BY <1>1, <1>2, <1>3 DEF Batch
<1>6. \A i \in 1..Len(q) : h.write <= q[i].write
  <2>1. \A i \in 1..Len(q) : i = 1 \/ q[1].write < q[i].write
    BY <1>1, <1>3, <1>4 DEF OwnedBy
  <2>2. \A i \in 1..Len(q) : q[i].write \in Nat
    BY <1>2 DEF Batch, Writes
  <2> QED
    BY <1>1, <2>1, <2>2
<1>7. h.write \in 1..Len(owner) /\ owner[h.write] = currentUser
  BY <1>1, <1>4 DEF OwnedBy
<1>8. \A c \in Told(h.id) : c = h
  <2> SUFFICES ASSUME NEW c \in Told(h.id) PROVE c = h
    OBVIOUS
  <2>1. c \in callbacks[currentUser] /\ c.id = h.id
    BY DEF Told
  <2>2. PICK i \in DOMAIN q : q[i] = c
    BY <2>1, PathTypes DEF SettledInv, CallbacksHaveBatches
  <2>3. i \in 1..Len(q)
    BY <1>2
  <2>4. i = 1
    BY <1>1, <1>2, <1>5, <2>1, <2>2, <2>3 DEF Batch
  <2> QED
    BY <1>1, <2>2, <2>4
<1> QED
  BY <1>1, <1>5, <1>6, <1>7, <1>8

\* The first response is for the front of the pipeline, which is committed.
LEMMA ResponseSettlesFront ==
    ASSUME IInv, PathInv, UserInv, OwnerInv, rpc.responses # <<>>, stream.handshake,
           pipeline # <<>>, NEW h, h = Head(pipeline)
    PROVE  /\ Settled(h.write)
           /\ [user |-> currentUser, write |-> h.write] \in committed
PROOF
<1>1. Begins(rpc.responses, pipeline)
  BY PathParts DEF CallFits
<1>2. 1 \in 1..Len(rpc.responses) /\ rpc.responses[1] = pipeline[1]
  BY <1>1, PathTypes, BeginsTail
<1>3. h \in Batch /\ h = pipeline[1]
  BY HeadOfPipeline
<1>4. h.write # 0
  BY <1>3 DEF Batch, Writes
<1>5. rpc.user = currentUser
  BY ResponseMeansOpen DEF UserInv
<1>6. [user |-> currentUser, write |-> h.write] \in committed
  BY <1>2, <1>3, <1>4, <1>5 DEF OwnerInv
<1> QED
  BY <1>6 DEF Settled

\* A write that is told is not younger than what stays in its owner's queue.
LEMMA TellKeepsFates ==
    ASSUME IInv, PathInv, OwnerInv, SettledInv, pipeline # <<>>,
           NEW h, h = Head(pipeline), UNCHANGED owner,
           UNCHANGED fate \/ \E result : TellUser(h.id, result),
           UNCHANGED queue
             \/ queue' = [queue EXCEPT ![currentUser] = Tail(queue[currentUser])],
           NEW w \in Writes, fate'[w] # "none"
    PROVE  /\ w \in 1..Len(owner')
           /\ \A i \in 1..Len(queue'[owner'[w]]) : w <= queue'[owner'[w]][i].write
PROOF
<1> DEFINE q == queue[currentUser]
<1>1. /\ h = q[1] /\ 1 \in 1..Len(q)
      /\ \A i \in 1..Len(q) : h.write <= q[i].write
      /\ h.write \in 1..Len(owner) /\ owner[h.write] = currentUser
      /\ \A c \in Told(h.id) : c = h
  BY FrontOfQueue
<1>2. fate[w] # "none" \/ w = h.write
  BY <1>1 DEF TellUser
<1>3. w \in 1..Len(owner) /\ \A i \in 1..Len(queue[owner[w]]) : w <= queue[owner[w]][i].write
  BY <1>1, <1>2 DEF SettledInv
<1>4. owner[w] \in Users
  <2>1. w \in 1..Len(owner)
    BY <1>3
  <2> QED
    BY <2>1, ElementOfSeq DEF IInv, TypeOK
<1>5. \A i \in 1..Len(Tail(q)) : \E j \in 1..Len(q) : Tail(q)[i] = q[j]
  <2>1. q # <<>> /\ OwnedBy(q, currentUser, owner)
    BY PathTypes, HeadOfPipeline DEF OwnerInv
  <2> QED
    BY <2>1, PathTypes, OwnedTail
<1>6. \A i \in 1..Len(queue'[owner[w]]) : \E j \in 1..Len(queue[owner[w]]) :
        queue'[owner[w]][i] = queue[owner[w]][j]
  <2>1. CASE UNCHANGED queue
    BY <2>1
  <2>2. CASE /\ queue' = [queue EXCEPT ![currentUser] = Tail(q)]
             /\ owner[w] = currentUser
    <3>1. queue'[owner[w]] = Tail(q)
      BY <2>2, PathTypes DEF IInv, TypeOK
    <3> QED
      BY <1>5, <2>2, <3>1
  <2>3. CASE /\ queue' = [queue EXCEPT ![currentUser] = Tail(q)]
             /\ owner[w] # currentUser
    <3>1. queue'[owner[w]] = queue[owner[w]]
      BY <1>4, <2>3 DEF IInv, TypeOK
    <3> QED
      BY <3>1
  <2> QED
    BY <2>1, <2>2, <2>3
<1> QED
  BY <1>3, <1>6

\* The front of the pipeline goes and its callback is told, once it is settled.
LEMMA NotifyKeepsSettled ==
    ASSUME IInv, PathInv, UserInv, OwnerInv, SettledInv, [Next]_vars, pipeline # <<>>,
           NEW h, h = Head(pipeline), NEW result, NotifyUser(h.id, result),
           queue' = Without(Head(pipeline).id), UNCHANGED <<currentUser, owner>>,
           Settled(h.write)'
    PROVE  SettledInv'
PROOF
<1> DEFINE q == queue[currentUser]
           t == Tail(q)
<1>1. /\ h = q[1] /\ 1 \in 1..Len(q)
      /\ \A i \in 1..Len(q) : q[i].id <= h.id => i = 1
      /\ \A c \in Told(h.id) : c = h
  BY FrontOfQueue
<1>2. /\ queue' = [queue EXCEPT ![currentUser] = t]
      /\ queue'[currentUser] = t /\ t \in Seq(Batch)
  BY HeadOfPipeline
<1>3. \A j \in 1..Len(q) : j = 1 \/ \E i \in 1..Len(t) : t[i] = q[j]
  <2>1. q # <<>> /\ OwnedBy(q, currentUser, owner)
    BY PathTypes, HeadOfPipeline DEF OwnerInv
  <2> QED
    BY <2>1, PathTypes, OwnedTail
<1>4. TellUser(h.id, result)
  BY DEF NotifyUser
<1>5. CallbacksHaveBatches'
  <2> SUFFICES ASSUME NEW u \in Users, NEW c \in callbacks'[u]
               PROVE  \E i \in DOMAIN queue'[u] : queue'[u][i] = c
    BY DEF CallbacksHaveBatches
  <2>1. CASE u # currentUser
    <3>1. c \in callbacks[u] /\ queue'[u] = queue[u]
      BY <1>2, <2>1 DEF NotifyUser, IInv, TypeOK
    <3> QED
      BY <3>1 DEF SettledInv, CallbacksHaveBatches
  <2>2. CASE u = currentUser
    <3>1. c \in callbacks[u] /\ c \notin Told(h.id)
      BY <2>2 DEF NotifyUser, IInv, TypeOK
    <3>2. c.id # h.id
      BY <2>2, <3>1 DEF Told
    <3>3. PICK j \in DOMAIN q : q[j] = c
      BY <2>2, <3>1 DEF SettledInv, CallbacksHaveBatches
    <3>4. j \in 1..Len(q) /\ j # 1
      BY <1>1, <3>2, <3>3, PathTypes, LenProperties
    <3>5. \E i \in 1..Len(t) : t[i] = c
      BY <1>3, <3>3, <3>4
    <3>6. DOMAIN t = 1..Len(t)
      BY <1>2, LenProperties
    <3> QED
      BY <1>2, <2>2, <3>5, <3>6
  <2> QED
    BY <2>1, <2>2
<1>6. \A w \in Writes : fate'[w] # "none" =>
        /\ w \in 1..Len(owner')
        /\ \A i \in 1..Len(queue'[owner'[w]]) : w <= queue'[owner'[w]][i].write
  BY <1>2, <1>4, TellKeepsFates
<1>7. ASSUME NEW x \in waiters, NEW w \in x.writes
      PROVE  /\ x.id = h.id => Settled(w)'
             /\ \/ Settled(w)'
                \/ \E i \in 1..Len(t) : t[i].write = w /\ t[i].id <= x.id
  <2>1. CASE Settled(w)
    BY <2>1, SettledStays
  <2>2. CASE \E i \in 1..Len(q) : q[i].write = w /\ q[i].id <= x.id
    <3>1. PICK i \in 1..Len(q) : q[i].write = w /\ q[i].id <= x.id
      BY <2>2
    <3>2. CASE i = 1
      BY <1>1, <3>1, <3>2
    <3>3. CASE i # 1
      <4>1. i \in 1..Len(q)
        OBVIOUS
      <4>2. x.id # h.id
        BY <1>1, <3>1, <3>3, <4>1
      <4> QED
        BY <1>3, <3>1, <3>3, <4>1, <4>2
    <3> QED
      BY <3>2, <3>3
  <2> QED
    BY <2>1, <2>2 DEF SettledInv
<1>8. \A W \in released' : \A w \in W : Settled(w)'
  <2> SUFFICES ASSUME NEW W \in released', NEW w \in W PROVE Settled(w)'
    OBVIOUS
  <2>1. CASE W \in released
    BY <2>1, SettledStays DEF SettledInv
  <2>2. CASE \E x \in Woken(h.id) : W = x.writes
    BY <1>7, <2>2 DEF Woken
  <2> QED
    BY <1>4, <2>1, <2>2 DEF TellUser
<1>9. \A x \in waiters' : \A w \in x.writes :
        \/ Settled(w)'
        \/ \E i \in 1..Len(queue'[currentUser']) :
             /\ queue'[currentUser'][i].write = w
             /\ queue'[currentUser'][i].id <= x.id
  <2>1. waiters' \subseteq waiters
    BY DEF NotifyUser
  <2> QED
    BY <1>2, <1>7, <2>1
<1> QED
  BY <1>5, <1>6, <1>8, <1>9 DEF SettledInv, Settled

\* A write is appended to the queue, with its callback.
LEMMA WriteMutationsKeepsSettled ==
    ASSUME IInv, PathInv, UserInv, OwnerInv, SettledInv, WriteMutations
    PROVE  SettledInv'
PROOF
<1> DEFINE b == [id |-> nextBatchId, write |-> Len(owner) + 1]
           q == queue[currentUser]
<1>1. /\ b \in Batch /\ b.write = Len(owner) + 1
      /\ queue' = [queue EXCEPT ![currentUser] = Append(q, b)]
      /\ Len(owner) \in Nat /\ Len(owner') = Len(owner) + 1
      /\ \A w \in 1..Len(owner) : owner'[w] = owner[w]
      /\ UNCHANGED <<currentUser, waiters, committed, fate, rejected, released>>
  BY WriteMutationsEffect
<1>2. callbacks' = [callbacks EXCEPT ![currentUser] =
                      IF \E c \in @ : c.id = b.id THEN @ ELSE @ \cup {b}]
  BY DEF WriteMutations
<1> HIDE DEF b
<1>3. /\ Len(q) \in Nat
      /\ Append(q, b) \in Seq(Batch) /\ Len(Append(q, b)) = Len(q) + 1
      /\ \A i \in 1..Len(q) : Append(q, b)[i] = q[i]
      /\ Append(q, b)[Len(q) + 1] = b
      /\ DOMAIN Append(q, b) = 1..Len(q) + 1 /\ DOMAIN q = 1..Len(q)
  BY <1>1, PathTypes, AppendProperties, LenProperties
<1>4. /\ \A i \in 1..Len(q) + 1 : i \in 1..Len(q) \/ i = Len(q) + 1
      /\ \A i \in 1..Len(q) : i \in 1..Len(q) + 1
      /\ Len(q) + 1 \in 1..Len(q) + 1
  BY <1>3
<1>5. /\ queue'[currentUser] = Append(q, b)
      /\ \A u \in Users : u # currentUser => queue'[u] = queue[u]
  BY <1>1, PathTypes DEF IInv, TypeOK
<1>6. \A w : Settled(w) => Settled(w)'
  BY <1>1 DEF Settled
<1>7. CallbacksHaveBatches'
  <2> SUFFICES ASSUME NEW u \in Users, NEW c \in callbacks'[u]
               PROVE  \E i \in DOMAIN queue'[u] : queue'[u][i] = c
    BY DEF CallbacksHaveBatches
  <2>1. CASE u # currentUser
    <3>1. c \in callbacks[u] /\ queue'[u] = queue[u]
      BY <1>2, <1>5, <2>1 DEF IInv, TypeOK
    <3> QED
      BY <3>1 DEF SettledInv, CallbacksHaveBatches
  <2>2. CASE u = currentUser
    <3>1. c \in callbacks[u] \/ c = b
      BY <1>2, <2>2 DEF IInv, TypeOK
    <3>2. CASE c = b
      BY <1>3, <1>4, <1>5, <2>2, <3>2
    <3>3. CASE c \in callbacks[u]
      <4>1. PICK j \in DOMAIN q : q[j] = c
        BY <2>2, <3>3 DEF SettledInv, CallbacksHaveBatches
      <4>2. j \in 1..Len(q)
        BY <1>3
      <4> QED
        BY <1>3, <1>4, <1>5, <2>2, <4>1, <4>2
    <3> QED
      BY <3>1, <3>2, <3>3
  <2> QED
    BY <2>1, <2>2
<1>8. ASSUME NEW w \in Writes, fate'[w] # "none"
      PROVE  /\ w \in 1..Len(owner')
             /\ \A i \in 1..Len(queue'[owner'[w]]) : w <= queue'[owner'[w]][i].write
  <2>1. /\ w \in 1..Len(owner)
        /\ \A i \in 1..Len(queue[owner[w]]) : w <= queue[owner[w]][i].write
    BY <1>1, <1>8 DEF SettledInv
  <2>2. /\ w \in 1..Len(owner') /\ owner'[w] = owner[w] /\ w <= Len(owner) + 1
    BY <1>1, <2>1
  <2>3. owner[w] \in Users
    BY <2>1, ElementOfSeq DEF IInv, TypeOK
  <2>4. CASE owner[w] # currentUser
    BY <1>5, <2>1, <2>2, <2>3, <2>4
  <2>5. CASE owner[w] = currentUser
    <3>1. \A i \in 1..Len(q) + 1 : w <= Append(q, b)[i].write
      BY <1>1, <1>3, <1>4, <2>1, <2>2, <2>5
    <3> QED
      BY <1>3, <1>5, <2>2, <2>5, <3>1, ZenonT(40)
  <2> QED
    BY <2>4, <2>5
<1>9. \A W \in released' : \A w \in W : Settled(w)'
  BY <1>1, <1>6 DEF SettledInv
<1>10. ASSUME NEW x \in waiters', NEW w \in x.writes
       PROVE  \/ Settled(w)'
              \/ \E i \in 1..Len(queue'[currentUser']) :
                   /\ queue'[currentUser'][i].write = w
                   /\ queue'[currentUser'][i].id <= x.id
  <2>1. \/ Settled(w)
        \/ \E i \in 1..Len(q) : q[i].write = w /\ q[i].id <= x.id
    BY <1>1 DEF SettledInv
  <2> QED
    BY <1>1, <1>3, <1>4, <1>5, <1>6, <2>1
<1> QED
  BY <1>7, <1>8, <1>9, <1>10 DEF SettledInv, Settled

\* A waiter waits for what is queued, up to the last id.
LEMMA RegisterKeepsSettled ==
    ASSUME IInv, SettledInv, RegisterPendingWritesCallback
    PROVE  SettledInv'
PROOF
<1> DEFINE q == queue[currentUser]
           x == [id |-> LastId(q), writes |-> WritesIn(q)]
<1>1. /\ q # <<>> /\ waiters' = waiters \cup {x}
      /\ UNCHANGED <<queue, currentUser, callbacks, committed, owner, fate, rejected,
                     released>>
  BY DEF RegisterPendingWritesCallback
<1>2. /\ Len(q) \in Nat \ {0} /\ DOMAIN q = 1..Len(q) /\ Increasing(q)
      /\ \A i \in 1..Len(q) : q[i].id \in Nat
  <2>1. \A i \in 1..Len(q) : q[i] \in Batch
    BY PathTypes, ElementOfSeq
  <2> QED
    BY <1>1, <2>1, PathTypes, EmptySeq, LenProperties DEF Batch
<1>3. LastId(q) = q[Len(q)].id
  BY <1>1 DEF LastId
<1>4. \A i \in 1..Len(q) : q[i].id <= LastId(q)
  <2> SUFFICES ASSUME NEW i \in 1..Len(q) PROVE q[i].id <= q[Len(q)].id
    BY <1>3
  <2>1. Len(q) \in 1..Len(q) /\ (i = Len(q) \/ i < Len(q))
    BY <1>2
  <2>2. i < Len(q) => q[i].id < q[Len(q)].id
    BY <1>2, <2>1 DEF Increasing
  <2> QED
    BY <1>2, <2>1, <2>2
<1>5. \A w \in x.writes : \E i \in 1..Len(q) : q[i].write = w /\ q[i].id <= x.id
  BY <1>2, <1>4 DEF WritesIn
<1> HIDE DEF x
<1>6. \A w : Settled(w)' <=> Settled(w)
  BY <1>1 DEF Settled
<1>7. CallbacksHaveBatches'
  BY <1>1 DEF SettledInv, CallbacksHaveBatches
<1>8. \A y \in waiters' : \A w \in y.writes :
        \/ Settled(w)'
        \/ \E i \in 1..Len(queue'[currentUser']) :
             /\ queue'[currentUser'][i].write = w
             /\ queue'[currentUser'][i].id <= y.id
  BY <1>1, <1>5, <1>6 DEF SettledInv
<1>9. /\ \A W \in released' : \A w \in W : Settled(w)'
      /\ \A w \in Writes : fate'[w] # "none" =>
           /\ w \in 1..Len(owner')
           /\ \A i \in 1..Len(queue'[owner'[w]]) : w <= queue'[owner'[w]][i].write
  BY <1>1, <1>6 DEF SettledInv
<1> QED
  BY <1>7, <1>8, <1>9 DEF SettledInv, Settled

\* A process that dies leaves no callbacks and no waiters behind.
LEMMA DeathKeepsSettled ==
    ASSUME IInv, PathInv, UserInv, OwnerInv, SettledInv, [Next]_vars,
           DieBeforeAcknowledgeBatch \/ DieBeforeNotifyUser
    PROVE  SettledInv'
PROOF
<1>1. PICK h : h = Head(pipeline)
  OBVIOUS
<1>2. /\ pipeline # <<>> /\ waiters' = {} /\ UNCHANGED owner
      /\ callbacks' = [v \in Users |-> {}]
  BY DEF DieBeforeAcknowledgeBatch, DieBeforeNotifyUser, Initialize
<1>3. /\ UNCHANGED fate \/ \E result : TellUser(h.id, result)
      /\ \/ UNCHANGED queue
         \/ queue' = [queue EXCEPT ![currentUser] = Tail(queue[currentUser])]
  BY <1>1, <1>2, HeadOfPipeline DEF DieBeforeAcknowledgeBatch, DieBeforeNotifyUser,
     Initialize
<1>4. \A w \in Writes : fate'[w] # "none" =>
        /\ w \in 1..Len(owner')
        /\ \A i \in 1..Len(queue'[owner'[w]]) : w <= queue'[owner'[w]][i].write
  BY <1>1, <1>2, <1>3, TellKeepsFates
<1>5. ASSUME NEW W \in released', NEW w \in W PROVE Settled(w)'
  <2>1. CASE W \in released
    BY <2>1, SettledStays DEF SettledInv
  <2>2. CASE DieBeforeAcknowledgeBatch /\ \E x \in Woken(h.id) : W = x.writes
    <3>1. PICK x \in Woken(h.id) : W = x.writes
      BY <2>2
    <3>2. x \in waiters /\ x.id = h.id
      BY <3>1 DEF Woken
    <3>3. Settled(h.write)
      BY <1>1, <2>2, ResponseSettlesFront DEF DieBeforeAcknowledgeBatch
    <3>4. \A i \in 1..Len(queue[currentUser]) :
            queue[currentUser][i].id <= h.id => queue[currentUser][i] = h
      BY <1>1, <1>2, FrontOfQueue
    <3>5. Settled(w)
      BY <3>1, <3>2, <3>3, <3>4 DEF SettledInv
    <3> QED
      BY <3>5, SettledStays
  <2> QED
    BY <1>1, <2>1, <2>2 DEF DieBeforeAcknowledgeBatch, DieBeforeNotifyUser, TellUser
<1>6. CallbacksHaveBatches'
  BY <1>2 DEF CallbacksHaveBatches
<1> QED
  BY <1>2, <1>4, <1>5, <1>6 DEF SettledInv, Settled

\* Callbacks and waiters wait for what is queued after every step.
LEMMA NextKeepsSettled ==
    IInv /\ PathInv /\ UserInv /\ OwnerInv /\ SettledInv /\ [Next]_vars => SettledInv'
PROOF
<1> SUFFICES ASSUME IInv, PathInv, UserInv, OwnerInv, SettledInv, [Next]_vars
             PROVE  SettledInv'
  OBVIOUS
<1>1. PICK h : h = Head(pipeline)
  OBVIOUS
<1>2. CASE MutationResult
  <2>1. /\ pipeline # <<>> /\ rpc.responses # <<>> /\ stream.handshake
        /\ NotifyUser(h.id, "acked") /\ queue' = Without(Head(pipeline).id)
        /\ UNCHANGED <<currentUser, owner>>
    BY <1>1, <1>2 DEF MutationResult, AcknowledgeBatch
  <2>2. Settled(h.write)
    BY <1>1, <2>1, ResponseSettlesFront
  <2>3. Settled(h.write)'
    BY <2>2, SettledStays
  <2> QED
    BY <1>1, <2>1, <2>3, NotifyKeepsSettled
<1>3. CASE Rejects
  <2>1. Settled(h.write)'
    BY <1>1, <1>3 DEF Rejects, Settled
  <2> QED
    BY <1>1, <1>3, <2>1, NotifyKeepsSettled DEF Rejects
<1>4. CASE Keeps
  <2>1. /\ \A W \in released' : \A w \in W : Settled(w)'
        /\ \A w \in Writes : fate'[w] # "none" =>
             /\ w \in 1..Len(owner')
             /\ \A i \in 1..Len(queue'[owner'[w]]) : w <= queue'[owner'[w]][i].write
    BY <1>4, SettledStays DEF Keeps, SettledInv
  <2>2. CallbacksHaveBatches'
    BY <1>4 DEF Keeps, SettledInv, CallbacksHaveBatches
  <2>3. \A x \in waiters' : \A w \in x.writes :
          \/ Settled(w)'
          \/ \E i \in 1..Len(queue'[currentUser']) :
               /\ queue'[currentUser'][i].write = w
               /\ queue'[currentUser'][i].id <= x.id
    BY <1>4, SettledStays DEF Keeps, SettledInv
  <2> QED
    BY <2>1, <2>2, <2>3 DEF SettledInv, Settled
<1> QED
  BY <1>2, <1>3, <1>4, SettleSteps, WriteMutationsKeepsSettled, RegisterKeepsSettled,
     DeathKeepsSettled


-----------------------------------------------------------------------------
(* The assertions                                                          *)

\* An error closes a stream that is started, and rejects a batch that is queued.
LEMMA CloseWithErrorAsserts ==
    ASSUME IInv, PathInv, Started(stream), NEW status, CloseWithError(status)
    PROVE  asserted' = asserted
PROOF
<1>1. asserted \in BOOLEAN
  BY DEF IInv, TypeOK
<1>2. CASE pipeline # <<>> /\ HandleWriteError(Failed(stream))
  <2>1. HasBatch(queue[currentUser], Head(pipeline).id)
    BY <1>2, HeadOfPipeline
  <2> QED
    BY <1>1, <1>2, <2>1 DEF HandleWriteError, Holds
<1>3. CASE Holds(Started(stream))
  BY <1>1, <1>3 DEF Holds
<1> QED
  BY <1>2, <1>3 DEF CloseWithError

\* An assertion can only fail when the backend has ended the call with OK.
LEMMA NextKeepsAsserted ==
    ASSUME IInv, PathInv, [Next]_vars
    PROVE  asserted' = asserted \/ rpc.status = "ok"
PROOF
<1>2. CASE Caller
  BY <1>2 DEF Caller, WriteMutations, RegisterPendingWritesCallback, EnableNetwork,
     DisableNetwork, AuthStateChanged
<1>3. CASE HandleCredentialChange
  BY <1>3 DEF HandleCredentialChange, ghosts
<1>4. CASE StreamOpen \/ HandshakeComplete \/ MutationResult \/ IdleTimeout
           \/ BackoffElapsed
  BY <1>4, StreamOpenKeepsPath, HandshakeCompleteKeepsPath, MutationResultKeepsPath,
     IdleTimeoutKeepsPath, BackoffElapsedKeepsPath
<1>5. CASE TokenFailed
  <2>1. CASE Head(worker).count = stream.closeCount
    <3>1. worker # <<>> /\ Head(worker).type = "token"
      BY <1>5 DEF TokenFailed
    <3>2. /\ stream \in StreamType /\ tokenRequests \in SUBSET TokenRequestType
          /\ worker \in Seq(Task) /\ TokensFit(stream, tokenRequests, worker)
      BY PathTypes, PathParts DEF IInv, TypeOK
    <3>3. stream.state = "Starting"
      BY <2>1, <3>1, <3>2, TokensTail
    <3>4. Started(stream)
      BY <3>3 DEF Started
    <3> QED
      BY <1>5, <2>1, <3>4, CloseWithErrorAsserts DEF TokenFailed
  <2> QED
    BY <1>5, <2>1 DEF TokenFailed
<1>6. CASE StreamFinish
  <2>1. rpc.status # "none"
    BY <1>6 DEF StreamFinish, StatusArrives
  <2>2. Started(stream)
    BY <2>1, ResponseMeansOpen DEF Started
  <2> QED
    BY <1>6, <2>2, CloseWithErrorAsserts DEF StreamFinish
<1>7. CASE CorruptResponse
  <2>1. Started(stream)
    BY <1>7, ResponseMeansOpen DEF CorruptResponse, Started
  <2> QED
    BY <1>7, <2>1, CloseWithErrorAsserts DEF CorruptResponse
<1>8. CASE Authenticate \/ BackendReply \/ BackendRefuse \/ BackendCloseOk \/ CallLost
  BY <1>8 DEF Authenticate, BackendReply, BackendRefuse, BackendCloseOk, CallLost, ghosts
<1>9. CASE Death
  BY <1>9 DEF Death, Restart, DieBeforeAcknowledgeBatch, DieBeforeNotifyUser, Initialize
<1>10. CASE UNCHANGED vars
  BY <1>10 DEF vars, ghosts
<1> QED
  BY <1>2, <1>3, <1>4, <1>5, <1>6, <1>7, <1>8, <1>9, <1>10 DEF Next, Handler, Environment

\* As long as the backend ends no call with OK, no assertion fails.
LEMMA NextKeepsAssert == IInv /\ PathInv /\ AssertInv /\ [Next]_vars => AssertInv'
PROOF
<1> SUFFICES ASSUME IInv, PathInv, AssertInv, [Next]_vars PROVE AssertInv'
  OBVIOUS
<1>1. rpc'.status = "ok" => rpc.status = "ok" \/ "ok" \in FaultKinds
  <2>1. CASE BackendReply
    BY <2>1, PathTypes DEF BackendReply, CallType
  <2>2. CASE Continues(rpc')
    BY <2>2 DEF Continues
  <2>3. NoCall.status = "none" /\ \A u : NewCall(u).status = "running"
    BY DEF NoCall, NewCall
  <2>4. CASE rpc' = NoCall \/ rpc' = NewCall(Head(worker).user)
    BY <2>3, <2>4
  <2> QED
    BY <2>1, <2>2, <2>4, CallSteps
<1> QED
  BY <1>1, NextKeepsAsserted DEF AssertInv

-----------------------------------------------------------------------------
(* The theorems                                                            *)

\* The inductive invariant of the write path.
SafetyInv ==
    /\ IInv
    /\ PathInv
    /\ UserInv
    /\ OwnerInv
    /\ SettledInv
    /\ AssertInv
    /\ Len(owner) <= MaxWrites

\* The initial states.
LEMMA InitEstablishesSafety == Init => SafetyInv
PROOF
<1> SUFFICES ASSUME Init PROVE SafetyInv
  OBVIOUS
<1>1. IInv /\ PathInv
  BY InitEstablishesIInv, InitEstablishesPath
<1>2. /\ Len(worker) = 0 /\ Len(rpc.responses) = 0 /\ rpc.status = "none"
      /\ \A u \in Users : Len(queue[u]) = 0
  BY EmptySeq DEF Init, NoCall
<1>3. UserInv
  BY <1>2 DEF Init, UserInv, TasksFit, UserAfter, TokensBelongToUser
<1>4. OwnerInv
  BY <1>2 DEF Init, OwnerInv, OwnedBy
<1>5. SettledInv
  BY DEF Init, SettledInv, CallbacksHaveBatches
<1>6. AssertInv
  BY <1>2 DEF Init, AssertInv
<1>7. Len(owner) <= MaxWrites
  BY EmptySeq, BoundsAssumption DEF Init
<1> QED
  BY <1>1, <1>3, <1>4, <1>5, <1>6, <1>7 DEF SafetyInv

\* There are no more writes than the bound.
LEMMA NextKeepsCount ==
    ASSUME IInv, PathInv, [Next]_vars, Len(owner) <= MaxWrites
    PROVE  Len(owner') <= MaxWrites
PROOF
<1>1. CASE WriteMutations
  <2>1. Len(owner) \in Nat /\ Len(owner') = Len(owner) + 1
    BY <1>1, WriteMutationsEffect
  <2>2. Len(owner) < MaxWrites /\ MaxWrites \in Nat
    BY <1>1, BoundsAssumption DEF WriteMutations
  <2> QED
    BY <2>1, <2>2
<1> QED
  BY <1>1, QueueSteps

\* The invariant holds in every behaviour.
LEMMA SafetyHolds == Spec => []SafetyInv
PROOF
<1>1. SafetyInv /\ [Next]_vars => SafetyInv'
  BY NextKeepsIInv, NextKeepsPath, NextKeepsUser, NextKeepsOwner, NextKeepsSettled,
     NextKeepsAssert, NextKeepsCount DEF SafetyInv
<1> QED
  BY <1>1, InitEstablishesSafety, PTL DEF Spec

\* The pipeline holds the oldest batches of the current user's queue in every
\* behaviour: FillWritePipeline never skips a batch, sends one twice, or keeps one
\* of a user who is not current any more.
THEOREM PipelineInOrder == Spec => []PipelineIsQueuePrefix
PROOF
<1>1. SafetyInv => PipelineIsQueuePrefix
  <2> SUFFICES ASSUME SafetyInv PROVE PipelineIsQueuePrefix
    OBVIOUS
  <2>1. pipeline \in Seq(Batch) /\ queue[currentUser] \in Seq(Batch)
    BY PathTypes DEF SafetyInv
  <2>2. Begins(pipeline, queue[currentUser])
    BY PathParts DEF SafetyInv
  <2> QED
    BY <2>1, <2>2, BeginsIsPrefix DEF PipelineIsQueuePrefix
<1> QED
  BY <1>1, SafetyHolds, PTL

\* Every response is the one for the batch that OnWriteStreamMutationResult takes it
\* to be for, the front of the pipeline.
THEOREM ResponsesInOrder == Spec => []ResponsesMatchPipeline
PROOF
<1>1. SafetyInv => ResponsesMatchPipeline
  <2> SUFFICES ASSUME SafetyInv, stream.handshake
               PROVE  IsPrefix(rpc.responses, pipeline)
    BY DEF ResponsesMatchPipeline
  <2>1. pipeline \in Seq(Message) /\ rpc.responses \in Seq(Message)
    BY PathTypes DEF SafetyInv
  <2>2. Begins(rpc.responses, pipeline)
    BY PathParts DEF SafetyInv, CallFits
  <2> QED
    BY <2>1, <2>2, BeginsIsPrefix
<1> QED
  BY <1>1, SafetyHolds, PTL

\* While the network is enabled and no assertion has failed, the current user's queue
\* is being sent: some of it is in the pipeline, the write stream is started, its
\* backoff timer is set while it waits for it, and its idle timer is not.
THEOREM NothingStranded == Spec => []NoWriteIsStranded
PROOF
<1>1. SafetyInv => NoWriteIsStranded
  <2> SUFFICES ASSUME SafetyInv, asserted, networkEnabled, queue[currentUser] # <<>>
               PROVE  /\ pipeline # <<>>
                      /\ Started(stream)
                      /\ stream.state = "Backoff" => stream.backoff
                      /\ stream.state = "Open" => ~stream.idle
    BY DEF NoWriteIsStranded
  <2>1. pipeline # <<>> /\ Started(stream)
    BY DEF SafetyInv, PathInv
  <2> QED
    BY <2>1, PathParts DEF SafetyInv, StreamFits
<1> QED
  BY <1>1, SafetyHolds, PTL

\* The backend never executes a write under another user's credentials.
THEOREM CommittedAsOwner == Spec => []CommittedOnlyAsOwner
PROOF
<1>1. SafetyInv => CommittedOnlyAsOwner
  BY DEF SafetyInv, OwnerInv, CommittedOnlyAsOwner
<1> QED
  BY <1>1, SafetyHolds, PTL

\* The stream token kept with a user's queue comes from a stream opened as that user.
THEOREM TokensOfUser == Spec => []TokensBelongToUser
PROOF
<1>1. SafetyInv => TokensBelongToUser
  BY DEF SafetyInv, UserInv
<1> QED
  BY <1>1, SafetyHolds, PTL

\* No callback of mutation_callbacks_ outlives its batch or passes to another one.
THEOREM CallbacksOfBatches == Spec => []CallbacksHaveBatches
PROOF
<1>1. SafetyInv => CallbacksHaveBatches
  BY DEF SafetyInv, SettledInv
<1> QED
  BY <1>1, SafetyHolds, PTL

\* Once waitForPendingWrites has answered OK, every write it was waiting for has been
\* rejected or committed as its owner.
THEOREM WaitersSeeWrites == Spec => []WaitersSeeAllWrites
PROOF
<1>1. SafetyInv => WaitersSeeAllWrites
  <2> SUFFICES ASSUME SafetyInv, NEW W \in released, NEW w \in W, w \notin rejected
               PROVE  [user |-> owner[w], write |-> w] \in committed
    BY DEF WaitersSeeAllWrites
  <2>1. PICK c \in committed : c.write = w
    BY DEF SafetyInv, SettledInv, Settled
  <2>2. c \in [user : Users, write : Writes] /\ owner[c.write] = c.user
    BY DEF SafetyInv, IInv, TypeOK, OwnerInv
  <2>3. c = [user |-> owner[w], write |-> w]
    BY <2>1, <2>2
  <2> QED
    BY <2>3
<1> QED
  BY <1>1, SafetyHolds, PTL

\* The callbacks of one user's writes are told in the order the writes were made.
THEOREM SettlesInOrder == Spec => []SettledInOrder
PROOF
<1>1. SafetyInv => SettledInOrder
  <2> SUFFICES ASSUME SafetyInv, NEW u \in Users, NEW i \in DOMAIN queue[u],
                      NEW w \in 1..Len(owner), owner[w] = u, fate[w] # "none"
               PROVE  w <= queue[u][i].write
    BY DEF SettledInOrder
  <2>1. queue[u] \in Seq(Batch) /\ owner \in Seq(Users) /\ Len(owner) <= MaxWrites
    BY DEF SafetyInv, IInv, TypeOK
  <2>2. i \in 1..Len(queue[u])
    BY <2>1
  <2>3. w \in Writes
    <3>1. Len(owner) \in Nat /\ MaxWrites \in Nat
      BY <2>1, BoundsAssumption
    <3> QED
      BY <2>1, <3>1 DEF Writes
  <2> QED
    BY <2>2, <2>3 DEF SafetyInv, SettledInv
<1> QED
  BY <1>1, SafetyHolds, PTL

\* No HARD_ASSERT of the write path fails in any behaviour in which the backend ends no
\* call with status OK of its own accord: every result has its pending write, every
\* start finds a stream that is not started, and every batch to remove is queued.
THEOREM AssertionsHold ==
    ASSUME "ok" \notin FaultKinds
    PROVE  Spec => []NoAssertionFails
PROOF
<1>1. SafetyInv => NoAssertionFails
  <2> SUFFICES ASSUME SafetyInv PROVE NoAssertionFails
    OBVIOUS
  <2>1. asserted
    BY DEF SafetyInv, AssertInv
  <2>2. ASSUME rpc.responses # <<>>, stream.handshake PROVE pipeline # <<>>
    <3>1. pipeline \in Seq(Batch) /\ rpc.responses \in Seq(Message)
      BY PathTypes DEF SafetyInv
    <3>2. Begins(rpc.responses, pipeline)
      BY <2>2, PathParts DEF SafetyInv, CallFits
    <3> QED
      BY <2>2, <3>1, <3>2, EmptySeq DEF Begins
  <2> QED
    BY <2>1, <2>2 DEF NoAssertionFails
<1> QED
  BY <1>1, SafetyHolds, PTL


-----------------------------------------------------------------------------
(* The refinement: every step of the write path, the crash in the middle of *)
(* an acknowledgement included, is a step of the queue that setData promises *)
(* to its caller (UserWriteQueue), or changes nothing of it.                *)

\* The writes of a mutation queue, without their batch ids.
WritesOf(q) == [i \in DOMAIN q |-> q[i].write]

\* What WritePipelineRefinement substitutes for the variables of UserWriteQueue.
Pending == [u \in Users |-> WritesOf(queue[u])]
Live == {c.write : c \in UNION {callbacks[u] : u \in Users}}
Done == {c.write : c \in committed}

\* The writes of a queue lose their first, or get another, as the queue does.
LEMMA WritesOfProperties ==
    ASSUME NEW q \in Seq(Batch)
    PROVE  /\ WritesOf(q) \in Seq(Writes)
           /\ q = <<>> => WritesOf(q) = <<>>
           /\ q # <<>> => /\ WritesOf(q) # <<>>
                          /\ Head(WritesOf(q)) = Head(q).write
                          /\ WritesOf(Tail(q)) = Tail(WritesOf(q))
           /\ \A b \in Batch : WritesOf(Append(q, b)) = Append(WritesOf(q), b.write)
PROOF
<1> DEFINE w == WritesOf(q)
<1>1. /\ Len(q) \in Nat /\ DOMAIN q = 1..Len(q)
      /\ \A i \in 1..Len(q) : q[i] \in Batch /\ q[i].write \in Writes
  <2>1. \A b \in Batch : b.write \in Writes
    BY DEF Batch
  <2>2. /\ Len(q) \in Nat /\ DOMAIN q = 1..Len(q)
        /\ \A i \in 1..Len(q) : q[i] \in Batch
    BY LenProperties
  <2> QED
    BY <2>1, <2>2
<1>2. /\ w \in Seq(Writes) /\ Len(w) = Len(q) /\ DOMAIN w = 1..Len(q)
      /\ \A i \in 1..Len(q) : w[i] = q[i].write
  <2>1. w = [i \in 1..Len(q) |-> q[i].write]
    BY <1>1 DEF WritesOf
  <2> HIDE DEF w
  <2>2. w \in [1..Len(q) -> Writes]
    BY <1>1, <2>1
  <2>3. w \in Seq(Writes)
    BY <1>1, <2>2, SeqDef
  <2> QED
    BY <1>1, <2>1, <2>2, <2>3, LenProperties
<1> HIDE DEF w
<1>3. q = <<>> => w = <<>>
  BY <1>2, EmptySeq
<1>4. ASSUME q # <<>>
      PROVE  w # <<>> /\ Head(w) = Head(q).write /\ WritesOf(Tail(q)) = Tail(w)
  <2>1. Len(q) \in Nat \ {0} /\ w # <<>>
    BY <1>2, <1>4, EmptySeq
  <2>2. /\ Head(q) = q[1] /\ Tail(q) \in Seq(Batch) /\ Len(Tail(q)) = Len(q) - 1
        /\ \A i \in 1..Len(q) - 1 : Tail(q)[i] = q[i + 1]
    BY <1>4, <2>1, HeadTailProperties
  <2>3. /\ Head(w) = w[1] /\ Tail(w) \in Seq(Writes) /\ Len(Tail(w)) = Len(q) - 1
        /\ \A i \in 1..Len(q) - 1 : Tail(w)[i] = w[i + 1]
    BY <1>2, <2>1, HeadTailProperties
  <2>4. WritesOf(Tail(q)) = [i \in 1..Len(q) - 1 |-> Tail(q)[i].write]
    BY <2>2, LenProperties DEF WritesOf
  <2>5. Tail(w) = [i \in 1..Len(q) - 1 |-> Tail(w)[i]]
    BY <2>3, LenProperties
  <2>6. \A i \in 1..Len(q) - 1 : Tail(q)[i].write = Tail(w)[i]
    <3>1. \A i \in 1..Len(q) - 1 : i + 1 \in 1..Len(q)
      BY <2>1
    <3> QED
      BY <1>2, <2>2, <2>3, <3>1
  <2>7. WritesOf(Tail(q)) = Tail(w)
    <3> DEFINE f == [i \in 1..Len(q) - 1 |-> Tail(q)[i].write]
               g == [i \in 1..Len(q) - 1 |-> Tail(w)[i]]
    <3>1. f = g
      BY <2>6
    <3> HIDE DEF f, g
    <3>2. WritesOf(Tail(q)) = f /\ Tail(w) = g
      BY <2>4, <2>5 DEF f, g
    <3> QED
      BY <3>1, <3>2
  <2>8. 1 \in 1..Len(q)
    BY <2>1
  <2> QED
    BY <1>2, <2>1, <2>2, <2>3, <2>7, <2>8
<1>5. ASSUME NEW b \in Batch
      PROVE  WritesOf(Append(q, b)) = Append(w, b.write)
  <2> DEFINE p == Append(q, b)
             v == Append(w, b.write)
             n == Len(q) + 1
  <2>1. b.write \in Writes
    BY DEF Batch
  <2>2. /\ p \in Seq(Batch) /\ Len(p) = n /\ p[n] = b
        /\ \A i \in 1..Len(q) : p[i] = q[i]
    BY AppendProperties
  <2>3. /\ v \in Seq(Writes) /\ Len(v) = n /\ v[n] = b.write
        /\ \A i \in 1..Len(q) : v[i] = w[i]
    BY <1>2, <2>1, AppendProperties
  <2> HIDE DEF p, v
  <2>4. \A i \in 1..n : p[i].write = v[i]
    <3>1. \A i \in 1..n : i \in 1..Len(q) \/ i = n
      BY <1>1
    <3> QED
      BY <1>2, <2>2, <2>3, <3>1
  <2>5. WritesOf(p) = [i \in 1..n |-> p[i].write] /\ v = [i \in 1..n |-> v[i]]
    BY <2>2, <2>3, LenProperties DEF WritesOf
  <2>6. [i \in 1..n |-> p[i].write] = [i \in 1..n |-> v[i]]
    BY <2>4
  <2>7. WritesOf(p) = v
    BY <2>5, <2>6
  <2> QED
    BY <2>7 DEF p, v
<1> QED
  BY <1>2, <1>3, <1>4, <1>5 DEF w

-----------------------------------------------------------------------------
(* What the steps are to the queue                                         *)

\* What the backend commits is pending, and the current user's.
LEMMA StepCommits ==
    ASSUME IInv, PathInv, UserInv, [Next]_vars
    PROVE  Promise!BackendExecutes
PROOF
<1> DEFINE q == queue[currentUser]
           w == WritesOf(q)
<1>1. PICK W : Commits(W) /\ committed' = committed \cup W
  BY CommitSteps
<1> DEFINE V == {c.write : c \in W}
<1>2. Done' = Done \cup V
  BY <1>1 DEF Done
<1>3. DOMAIN w = 1..Len(q) /\ \A i \in 1..Len(q) : w[i] = q[i].write
  BY PathTypes, LenProperties DEF WritesOf
<1>4. Pending[currentUser] = w
  BY PathTypes DEF Pending
<1>5. V \in SUBSET {Pending[currentUser][i] : i \in DOMAIN Pending[currentUser]}
  <2> HIDE DEF w
  <2> SUFFICES ASSUME NEW c \in W PROVE \E i \in DOMAIN w : w[i] = c.write
    BY <1>4
  <2> QED
    BY <1>1, <1>3 DEF Commits
<1> HIDE DEF V, w
<1>6. \E X \in SUBSET {Pending[currentUser][i] : i \in DOMAIN Pending[currentUser]} :
        Done' = Done \cup X
  BY <1>2, <1>5
<1> QED
  BY <1>6 DEF Promise!BackendExecutes, Done, Pending, WritesOf

\* The head of the current user's queue, as the queue of writes sees it.
LEMMA PendingHead ==
    ASSUME IInv, PathInv, pipeline # <<>>, NEW h, h = Head(pipeline)
    PROVE  /\ Pending[currentUser] # <<>>
           /\ Head(Pending[currentUser]) = h.write
           /\ queue' = Without(Head(pipeline).id) =>
                Pending' = [Pending EXCEPT ![currentUser] = Tail(@)]
PROOF
<1> DEFINE q == queue[currentUser]
<1>1. /\ q \in Seq(Batch) /\ currentUser \in Users /\ Pending[currentUser] = WritesOf(q)
      /\ q # <<>>
  BY PathTypes, HeadOfPipeline DEF Pending
<1>2. h = Head(q)
  BY <1>1, HeadOfPipeline, HeadTailProperties
<1>3. ASSUME queue' = Without(Head(pipeline).id)
      PROVE  Pending' = [Pending EXCEPT ![currentUser] = Tail(@)]
  <2>1. queue' = [queue EXCEPT ![currentUser] = Tail(q)]
    BY <1>3, HeadOfPipeline
  <2>2. queue \in [Users -> Seq(Batch)]
    BY DEF IInv, TypeOK
  <2>3. Pending' = [u \in Users |-> WritesOf(queue'[u])]
    BY DEF Pending, WritesOf
  <2>4. \A u \in Users : WritesOf(queue'[u]) =
          IF u = currentUser THEN Tail(WritesOf(q)) ELSE WritesOf(queue[u])
    BY <1>1, <2>1, <2>2, WritesOfProperties
  <2>5. [Pending EXCEPT ![currentUser] = Tail(@)] =
          [u \in Users |-> IF u = currentUser THEN Tail(WritesOf(q))
                                             ELSE WritesOf(queue[u])]
    BY <1>1 DEF Pending
  <2> QED
    BY <2>3, <2>4, <2>5
<1> QED
  BY <1>1, <1>2, <1>3, WritesOfProperties

\* NotifyUser tells the callback of the head of the queue, if the process holds one.
LEMMA TellIsTold ==
    ASSUME IInv, PathInv, UserInv, OwnerInv, SettledInv, pipeline # <<>>,
           NEW h, h = Head(pipeline)
    PROVE  /\ h.write \in Live <=> \E c \in Told(h.id) : c.write = h.write
           /\ \A result : TellUser(h.id, result) => Promise!Tell(h.write, result)
           /\ \A result : NotifyUser(h.id, result) => Live' = Live \ {h.write}
PROOF
<1> DEFINE q == queue[currentUser]
<1>1. /\ q \in Seq(Batch) /\ currentUser \in Users
      /\ callbacks \in [Users -> SUBSET Batch]
      /\ \A u \in Users : queue[u] \in Seq(Batch)
      /\ fate \in [Writes -> Fates]
  BY PathTypes DEF IInv, TypeOK
<1>2. /\ h \in Batch /\ h = q[1] /\ 1 \in 1..Len(q)
      /\ owner[h.write] = currentUser
      /\ \A c \in Told(h.id) : c = h
  BY FrontOfQueue
<1>3. \A u \in Users : \A c \in callbacks[u] : \E i \in 1..Len(queue[u]) : queue[u][i] = c
  BY <1>1 DEF SettledInv, CallbacksHaveBatches
<1>4. ASSUME NEW u \in Users, NEW c \in callbacks[u], c.write = h.write
      PROVE  u = currentUser /\ c \in Told(h.id)
  <2>1. PICK i \in 1..Len(queue[u]) : queue[u][i] = c
    BY <1>3
  <2>2. u = currentUser
    BY <1>2, <1>4, <2>1 DEF OwnerInv, OwnedBy
  <2>3. i = 1
    <3>1. \A j \in 1..Len(q) : 1 < j => q[1].write < q[j].write
      BY <1>1, <1>2, ZenonT(40) DEF OwnerInv, OwnedBy
    <3>2. Len(q) \in Nat /\ h.write \in Nat
      <4>1. h.write \in Writes
        BY <1>2 DEF Batch
      <4>2. MaxWrites \in Nat
        BY BoundsAssumption
      <4> QED
        BY <1>1, <4>1, <4>2, LenProperties DEF Writes
    <3> QED
      BY <1>2, <1>4, <2>1, <2>2, <3>1, <3>2
  <2> QED
    BY <1>2, <2>1, <2>2, <2>3 DEF Told
<1>5. h.write \in Live <=> \E c \in Told(h.id) : c.write = h.write
  <2>1. h.write \in Live <=> \E u \in Users : \E c \in callbacks[u] : c.write = h.write
    BY DEF Live
  <2> QED
    BY <1>1, <1>4, <2>1 DEF Told
<1>6. ASSUME NEW result, TellUser(h.id, result)
      PROVE  Promise!Tell(h.write, result)
  <2>1. fate' = [w \in Writes |-> IF \E c \in Told(h.id) : c.write = w
                                 THEN result ELSE fate[w]]
    BY <1>6 DEF TellUser
  <2>2. \A w : (\E c \in Told(h.id) : c.write = w) <=> (w = h.write /\ h.write \in Live)
    BY <1>2, <1>5
  <2>3. fate' = IF h.write \in Live THEN [fate EXCEPT ![h.write] = result] ELSE fate
    <3>1. CASE h.write \in Live
      BY <1>1, <2>1, <2>2, <3>1
    <3>2. CASE h.write \notin Live
      BY <1>1, <2>1, <2>2, <3>2
    <3> QED
      BY <3>1, <3>2
  <2> QED
    BY <2>3 DEF Promise!Tell, Live
<1>7. ASSUME NEW result, NotifyUser(h.id, result)
      PROVE  Live' = Live \ {h.write}
  <2>1. callbacks' = [callbacks EXCEPT ![currentUser] = @ \ Told(h.id)]
    BY <1>7 DEF NotifyUser
  <2>2. \A w : w \in Live <=> \E u \in Users : \E c \in callbacks[u] : c.write = w
    BY DEF Live
  <2>3. \A w : w \in Live' <=> \E u \in Users : \E c \in callbacks'[u] : c.write = w
    BY DEF Live
  <2>4. \A u \in Users : \A c : c \in callbacks'[u] <=>
          c \in callbacks[u] /\ c.write # h.write
    BY <1>1, <1>2, <1>4, <2>1
  <2> QED
    BY <2>2, <2>3, <2>4
<1> QED
  BY <1>5, <1>6, <1>7

\* The front of the pipeline goes: the oldest pending write is settled.
LEMMA SettlesHead ==
    ASSUME IInv, PathInv, UserInv, OwnerInv, SettledInv, [Next]_vars, pipeline # <<>>,
           NEW h, h = Head(pipeline), NEW result, NotifyUser(h.id, result),
           queue' = Without(Head(pipeline).id), UNCHANGED <<currentUser, owner>>,
           \/ result = "rejected"
           \/ result = "acked" /\ h.write \in Done
    PROVE  Promise!Settle
PROOF
<1>1. /\ Pending[currentUser] # <<>> /\ Head(Pending[currentUser]) = h.write
      /\ Pending' = [Pending EXCEPT ![currentUser] = Tail(@)]
  BY PendingHead
<1>2. Promise!Tell(h.write, result) /\ Live' = Live \ {h.write}
  BY TellIsTold DEF NotifyUser
<1>3. Promise!BackendExecutes
  BY StepCommits
<1>4. /\ \/ h.write \in Done /\ Promise!Tell(h.write, "acked")
         \/ Promise!Tell(h.write, "rejected")
  BY <1>2
<1>5. Len(owner)' = Len(owner) /\ currentUser' = currentUser
  OBVIOUS
<1> QED
  BY <1>1, <1>2, <1>3, <1>4, <1>5 DEF Promise!Settle, Pending, Live, Done, WritesOf

\* A write is made: it is pending, and the process holds its callback.
LEMMA WriteMutationsSubmits ==
    ASSUME IInv, SettledInv, WriteMutations
    PROVE  Promise!Submit
PROOF
<1> DEFINE b == [id |-> nextBatchId, write |-> Len(owner) + 1]
           q == queue[currentUser]
<1>1. /\ b \in Batch /\ b.id = nextBatchId /\ b.write = Len(owner) + 1
      /\ currentUser \in Users
      /\ queue' = [queue EXCEPT ![currentUser] = Append(q, b)]
      /\ Len(owner') = Len(owner) + 1
      /\ UNCHANGED <<currentUser, committed, fate>>
  BY WriteMutationsEffect
<1> HIDE DEF b
<1>2. /\ Len(owner) < MaxWrites
      /\ callbacks' = [callbacks EXCEPT ![currentUser] =
                         IF \E c \in @ : c.id = b.id THEN @ ELSE @ \cup {b}]
  BY DEF WriteMutations, b
<1>3. /\ queue \in [Users -> Seq(Batch)] /\ callbacks \in [Users -> SUBSET Batch]
      /\ q \in Seq(Batch) /\ nextBatchId \in Nat
  BY <1>1 DEF IInv, TypeOK
<1>4. \A c \in callbacks[currentUser] : c.id # b.id
  <2> SUFFICES ASSUME NEW c \in callbacks[currentUser], c.id = b.id PROVE FALSE
    OBVIOUS
  <2>1. PICK i \in DOMAIN q : q[i] = c
    BY <1>1 DEF SettledInv, CallbacksHaveBatches
  <2>2. q[i].id < nextBatchId
    BY <2>1 DEF IInv, IdsInv, Below
  <2> QED
    BY <1>1, <1>3, <2>1, <2>2
<1>5. callbacks' = [callbacks EXCEPT ![currentUser] = callbacks[currentUser] \cup {b}]
  BY <1>1, <1>2, <1>3, <1>4
<1>6. Live' = Live \cup {Len(owner) + 1}
  <2>1. \A w : w \in Live <=> \E u \in Users : \E c \in callbacks[u] : c.write = w
    BY DEF Live
  <2>2. \A w : w \in Live' <=> \E u \in Users : \E c \in callbacks'[u] : c.write = w
    BY DEF Live
  <2>3. \A u \in Users : callbacks'[u] =
          IF u = currentUser THEN callbacks[u] \cup {b} ELSE callbacks[u]
    BY <1>1, <1>3, <1>5
  <2>4. \A w : w \in Live' <=> w \in Live \/ w = b.write
    <3>1. ASSUME NEW w, w \in Live' PROVE w \in Live \/ w = b.write
      <4>1. PICK u \in Users : \E c \in callbacks'[u] : c.write = w
        BY ONLY <2>2, <3>1
      <4>2. PICK c \in callbacks'[u] : c.write = w
        BY ONLY <4>1
      <4>3. c \in callbacks[u] \/ c = b
        BY ONLY <2>3, <4>2, u \in Users
      <4> QED
        BY ONLY <2>1, <4>2, <4>3, u \in Users
    <3>2. ASSUME NEW w, w \in Live PROVE w \in Live'
      <4>1. PICK u \in Users : \E c \in callbacks[u] : c.write = w
        BY ONLY <2>1, <3>2
      <4>2. PICK c \in callbacks[u] : c.write = w
        BY ONLY <4>1
      <4>3. c \in callbacks'[u]
        BY ONLY <2>3, <4>2, u \in Users
      <4> QED
        BY ONLY <2>2, <4>2, <4>3, u \in Users
    <3>3. b.write \in Live'
      <4>1. b \in callbacks'[currentUser] /\ currentUser \in Users
        BY ONLY <1>1, <2>3
      <4> QED
        BY ONLY <2>2, <4>1
    <3> QED
      BY ONLY <3>1, <3>2, <3>3
  <2>5. Live' = Live \cup {b.write}
    <3> HIDE DEF Live
    <3>1. /\ \A w \in Live' : w \in Live \cup {b.write}
          /\ \A w \in Live \cup {b.write} : w \in Live'
      BY <2>4
    <3>2. Live' \subseteq Live \cup {b.write} /\ Live \cup {b.write} \subseteq Live'
      BY <3>1
    <3> QED
      BY <3>2
  <2> QED
    BY <1>1, <2>5
<1>7. Pending' = [Pending EXCEPT ![currentUser] = Append(@, Len(owner) + 1)]
  <2>1. Pending' = [u \in Users |-> WritesOf(queue'[u])]
    BY DEF Pending, WritesOf
  <2>2. \A u \in Users : WritesOf(queue'[u]) =
          IF u = currentUser THEN Append(WritesOf(q), Len(owner) + 1)
                             ELSE WritesOf(queue[u])
    <3>1. WritesOf(Append(q, b)) = Append(WritesOf(q), Len(owner) + 1)
      <4>1. \A p \in Seq(Batch), c \in Batch :
              WritesOf(Append(p, c)) = Append(WritesOf(p), c.write)
        BY ONLY WritesOfProperties
      <4> QED
        BY ONLY <1>1, <1>3, <4>1
    <3>2. \A u \in Users : queue'[u] = IF u = currentUser THEN Append(q, b)
                                       ELSE queue[u]
      BY ONLY <1>1, <1>3
    <3> QED
      <4> SUFFICES ASSUME NEW u \in Users
                   PROVE  WritesOf(queue'[u]) =
                            IF u = currentUser THEN Append(WritesOf(q), Len(owner) + 1)
                                               ELSE WritesOf(queue[u])
        OBVIOUS
      <4>1. CASE u = currentUser
        BY ONLY <3>1, <3>2, <4>1, u \in Users
      <4>2. CASE u # currentUser
        BY ONLY <3>2, <4>2, u \in Users
      <4> QED
        BY ONLY <4>1, <4>2
  <2>3. [Pending EXCEPT ![currentUser] = Append(@, Len(owner) + 1)] =
          [u \in Users |-> IF u = currentUser
                           THEN Append(WritesOf(q), Len(owner) + 1)
                           ELSE WritesOf(queue[u])]
    BY <1>1 DEF Pending
  <2> QED
    BY <2>1, <2>2, <2>3
<1>8. UNCHANGED Done /\ Len(owner)' = Len(owner) + 1
  BY <1>1 DEF Done
<1> QED
  BY <1>1, <1>2, <1>6, <1>7, <1>8 DEF Promise!Submit, Pending, Live, Done, WritesOf

\* Nothing happens to the queues: at most the user changes or the process dies.
LEMMA KeepsSwitchesOrDies ==
    ASSUME IInv, PathInv, UserInv, [Next]_vars, currentUser' \in Users, Keeps
    PROVE  Promise!SwitchUser \/ Promise!Die
PROOF
<1>1. Promise!BackendExecutes
  BY StepCommits
<1>2. UNCHANGED <<Pending, fate>> /\ Len(owner)' = Len(owner)
  BY DEF Keeps, Pending, WritesOf
<1>3. CASE UNCHANGED callbacks
  <2>1. UNCHANGED Live
    BY <1>3 DEF Live
  <2> QED
    BY <1>1, <1>2, <2>1 DEF Promise!SwitchUser, Pending, Live, WritesOf
<1>4. CASE callbacks' = [u \in Users |-> {}]
  <2>1. Live' = {}
    BY <1>4 DEF Live
  <2> QED
    BY <1>1, <1>2, <2>1 DEF Promise!Die, Pending, Live, WritesOf
<1> QED
  BY <1>3, <1>4 DEF Keeps

\* The process dies while it settles the front of the pipeline.
LEMMA DeathDies ==
    ASSUME IInv, PathInv, UserInv, OwnerInv, SettledInv, [Next]_vars,
           currentUser' \in Users, DieBeforeAcknowledgeBatch \/ DieBeforeNotifyUser
    PROVE  Promise!Die
PROOF
<1>1. PICK h : h = Head(pipeline)
  OBVIOUS
<1>2. /\ pipeline # <<>> /\ UNCHANGED owner /\ Len(owner)' = Len(owner)
      /\ callbacks' = [v \in Users |-> {}]
  BY DEF DieBeforeAcknowledgeBatch, DieBeforeNotifyUser, Initialize
<1>3. Promise!BackendExecutes
  BY StepCommits
<1>4. Live' = {}
  BY <1>2 DEF Live
<1>5. /\ Pending[currentUser] # <<>> /\ Head(Pending[currentUser]) = h.write
      /\ queue' = Without(Head(pipeline).id) =>
           Pending' = [Pending EXCEPT ![currentUser] = Tail(@)]
  BY <1>1, <1>2, PendingHead
<1>6. CASE DieBeforeAcknowledgeBatch
  <2>1. rpc.responses # <<>> /\ stream.handshake /\ TellUser(h.id, "acked")
        /\ UNCHANGED queue
    BY <1>1, <1>6 DEF DieBeforeAcknowledgeBatch, Initialize
  <2>2. [user |-> currentUser, write |-> h.write] \in committed
    BY <1>1, <1>2, <2>1, ResponseSettlesFront
  <2>3. h.write \in Done
    BY <2>2 DEF Done
  <2>4. Promise!Tell(h.write, "acked")
    BY <1>1, <1>2, <2>1, TellIsTold
  <2>5. UNCHANGED Pending
    BY <2>1 DEF Pending, WritesOf
  <2> QED
    BY <1>2, <1>3, <1>4, <1>5, <2>3, <2>4, <2>5
       DEF Promise!Die, Pending, Live, Done, WritesOf
<1>7. CASE DieBeforeNotifyUser
  <2>1. queue' = Without(Head(pipeline).id) /\ UNCHANGED fate
    BY <1>7 DEF DieBeforeNotifyUser, Initialize
  <2> QED
    BY <1>2, <1>3, <1>4, <1>5, <2>1 DEF Promise!Die, Pending, Live, WritesOf
<1> QED
  BY <1>6, <1>7

\* Every step of the write path is one of the queue.
LEMMA NextImplements == SafetyInv /\ [Next]_vars => [Promise!UwqNext]_(Promise!uwqVars)
PROOF
<1> SUFFICES ASSUME SafetyInv, [Next]_vars PROVE Promise!UwqNext
  OBVIOUS
<1>1. IInv /\ PathInv /\ UserInv /\ OwnerInv /\ SettledInv
  BY DEF SafetyInv
<1>2. currentUser' \in Users
  BY <1>1, NextKeepsIInv DEF IInv, TypeOK
<1>3. PICK h : h = Head(pipeline)
  OBVIOUS
<1>4. CASE WriteMutations
  BY <1>1, <1>4, WriteMutationsSubmits DEF Promise!UwqNext
<1>5. CASE RegisterPendingWritesCallback
  <2>1. UNCHANGED <<Pending, Live, fate>> /\ Len(owner)' = Len(owner)
    BY <1>5 DEF RegisterPendingWritesCallback, Pending, Live, WritesOf
  <2>2. Promise!BackendExecutes
    BY <1>1, StepCommits
  <2> QED
    BY <1>2, <2>1, <2>2 DEF Promise!UwqNext, Promise!SwitchUser, Pending, Live, WritesOf
<1>6. CASE MutationResult
  <2>1. /\ pipeline # <<>> /\ rpc.responses # <<>> /\ stream.handshake
        /\ NotifyUser(h.id, "acked") /\ queue' = Without(Head(pipeline).id)
        /\ UNCHANGED <<currentUser, owner>>
    BY <1>3, <1>6 DEF MutationResult, AcknowledgeBatch
  <2>2. h.write \in Done
    <3>1. [user |-> currentUser, write |-> h.write] \in committed
      BY <1>1, <1>3, <2>1, ResponseSettlesFront
    <3> QED
      BY <3>1 DEF Done
  <2> QED
    BY <1>1, <1>3, <2>1, <2>2, SettlesHead DEF Promise!UwqNext
<1>7. CASE Rejects
  BY <1>1, <1>3, <1>7, SettlesHead DEF Rejects, Promise!UwqNext
<1>8. CASE Keeps
  BY <1>1, <1>2, <1>8, KeepsSwitchesOrDies DEF Promise!UwqNext
<1>9. CASE DieBeforeAcknowledgeBatch \/ DieBeforeNotifyUser
  BY <1>1, <1>2, <1>9, DeathDies DEF Promise!UwqNext
<1> QED
  BY <1>4, <1>5, <1>6, <1>7, <1>8, <1>9, SettleSteps

\* The initial states are those of the queue.
LEMMA InitImplements == Init => Promise!UwqInit
PROOF
<1> SUFFICES ASSUME Init PROVE Promise!UwqInit
  OBVIOUS
<1>1. \A u \in Users : queue[u] = <<>> /\ WritesOf(queue[u]) = <<>>
  <2>1. <<>> \in Seq(Batch)
    BY EmptySeq
  <2> QED
    BY <2>1, WritesOfProperties DEF Init
<1>2. Pending = [u \in Users |-> <<>>]
  BY <1>1 DEF Pending
<1>3. Live = {} /\ Done = {}
  BY DEF Init, Live, Done
<1>4. Len(owner) = 0 /\ currentUser \in Users /\ fate = [w \in 1..MaxWrites |-> "none"]
  BY EmptySeq DEF Init, Writes
<1> QED
  BY <1>2, <1>3, <1>4 DEF Promise!UwqInit, Pending, Live, Done, WritesOf

\* The write path implements the queue of writes that setData promises: durable, one
\* FIFO queue per user, of which only the signed-in user's is settled, head first; an
\* acknowledged write has been committed, and a callback runs at most once.
THEOREM ImplementsQueue == Spec => ImplementsUserWriteQueue
PROOF
  BY SafetyHolds, InitImplements, NextImplements, PTL
     DEF Spec, ImplementsUserWriteQueue, Promise!UwqSpec
=============================================================================
