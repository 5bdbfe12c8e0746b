------------------------ MODULE LimboResolutionProofs ------------------------
(***************************************************************************)
(* Limbo documents are tracked and resolved, for all sets of documents and  *)
(* queries, every limit and every bound.                                    *)
(***************************************************************************)
EXTENDS LimboResolution, SequenceTheorems, FiniteSetTheorems,
        WellFoundedInduction, TLAPS

-----------------------------------------------------------------------------
(* Folds over sequences.                                                   *)

\* The least of a set of numbers.
LEMMA LeastNumber ==
    ASSUME NEW T \in SUBSET Nat, T # {}
    PROVE  \E x \in T : \A y \in T : x <= y
PROOF
<1> DEFINE R == {ss \in Nat \X Nat : ss[1] < ss[2]}
<1>1. IsWellFoundedOn(R, Nat)
  BY NatLessThanWellFounded DEF OpToRel
<1>2. \A x, y \in Nat : <<y, x>> \in R <=> y < x
  OBVIOUS
<1> HIDE DEF R
<1>3. PICK x \in T : \A y \in T : ~ (<<y, x>> \in R)
  BY <1>1, WFMin
<1>4. x \in Nat
  OBVIOUS
<1>5. ASSUME NEW y \in T PROVE x <= y
  <2>1. y \in Nat /\ ~ (<<y, x>> \in R)
    BY <1>3
  <2> QED
    BY <1>2, <1>4, <2>1
<1> QED
  BY <1>5

\* A set of numbers that begins at 0 and goes on holds all of them.
LEMMA CountUp ==
    ASSUME NEW N \in Nat, NEW T \in SUBSET (0..N), 0 \in T,
           \A k \in 1..N : k - 1 \in T => k \in T
    PROVE  \A k \in 0..N : k \in T
PROOF
<1> DEFINE Rest == (0..N) \ T
<1>1. SUFFICES ASSUME Rest # {} PROVE FALSE
  OBVIOUS
<1>2. Rest \in SUBSET Nat
  OBVIOUS
<1>3. PICK x \in Rest : \A y \in Rest : x <= y
  BY <1>1, <1>2, LeastNumber
<1>4. x \in 1..N /\ x - 1 \in 0..N /\ ~ (x <= x - 1) /\ x \notin T
  <2>1. x \in 0..N /\ x \notin T
    BY <1>3
  <2>2. x # 0
    BY <2>1
  <2> QED
    BY <2>1, <2>2
<1>5. x - 1 \in T
  BY <1>3, <1>4
<1> QED
  BY <1>4, <1>5

\* What FoldLeft recurses on: the highest place of a set of places.
Highest(places) == CHOOSE x \in places : \A y \in places : x >= y

\* The highest of a set of places is one of them, and k of 1..k.
LEMMA HighestProperties ==
    ASSUME NEW N \in Nat
    PROVE  /\ \A places \in SUBSET (1..N) : places # {} =>
                 Highest(places) \in places /\ \A y \in places : Highest(places) >= y
           /\ \A k \in 1..N :
                 /\ 1..k \in SUBSET (1..N) /\ 1..k # {}
                 /\ Highest(1..k) = k /\ (1..k) \ {Highest(1..k)} = 1..(k - 1)
PROOF
<1>1. ASSUME NEW places \in SUBSET (1..N), places # {}
      PROVE  \E x \in places : \A y \in places : x >= y
  <2> DEFINE T == {N - x : x \in places}
  <2>1. \A x \in places : x \in Int /\ x <= N /\ N - x \in Nat /\ N - (N - x) = x
    OBVIOUS
  <2>2. T \in SUBSET Nat /\ T # {}
    BY <1>1, <2>1
  <2>3. PICK z \in T : \A w \in T : z <= w
    BY <2>2, LeastNumber
  <2>4. PICK x \in places : z = N - x
    BY <2>3
  <2>5. \A y \in places : N - x <= N - y
    BY <2>3, <2>4
  <2> HIDE DEF T
  <2>6. \A y \in places : x >= y
    BY <2>1, <2>5
  <2> QED
    BY <2>6
<1>2. \A places \in SUBSET (1..N) : places # {} =>
         Highest(places) \in places /\ \A y \in places : Highest(places) >= y
  BY <1>1 DEF Highest
<1>3. ASSUME NEW k \in 1..N
      PROVE  /\ 1..k \in SUBSET (1..N) /\ 1..k # {}
             /\ Highest(1..k) = k /\ (1..k) \ {Highest(1..k)} = 1..(k - 1)
  <2>1. 1..k \in SUBSET (1..N) /\ k \in 1..k
    OBVIOUS
  <2>2. Highest(1..k) \in 1..k /\ Highest(1..k) >= k
    BY <1>2, <2>1
  <2>3. Highest(1..k) = k
    BY <2>2
  <2>4. (1..k) \ {k} = 1..(k - 1)
    OBVIOUS
  <2> QED
    BY <2>1, <2>3, <2>4
<1> QED
  BY <1>2, <1>3

\* F is a fold over the sets of places up to k: g is one step, from a value in J
\* at a place.
IsFold(F, k, J, base, g) ==
    /\ F \in [SUBSET (1..k) -> J]
    /\ \A s \in SUBSET (1..k) :
          F[s] = IF s = {} THEN base ELSE g[<<F[s \ {Highest(s)}], Highest(s)>>]

\* The function that a fold over places recurses through exists.
LEMMA FoldExists ==
    ASSUME NEW N \in Nat, NEW J, NEW base \in J, NEW g \in [J \X (1..N) -> J]
    PROVE  \E F : IsFold(F, N, J, base, g)
PROOF
<1> DEFINE T == {k \in 0..N : \E F : IsFold(F, k, J, base, g)}
<1>1. 0 \in T
  <2>1. PICK F : F = [s \in SUBSET (1..0) |-> base]
    OBVIOUS
  <2>2. \A s \in SUBSET (1..0) : s = {}
    OBVIOUS
  <2>3. IsFold(F, 0, J, base, g)
    BY <2>1, <2>2 DEF IsFold
  <2> QED
    BY <2>3
<1>2. ASSUME NEW k \in 1..N, k - 1 \in T PROVE k \in T
  <2>1. PICK F : IsFold(F, k - 1, J, base, g)
    BY <1>2
  <2>2. k \in Nat /\ 1..(k - 1) \in SUBSET (1..k) /\ 1..k \in SUBSET (1..N)
    OBVIOUS
  <2> DEFINE H == [s \in SUBSET (1..k) |->
                     IF k \in s THEN g[<<F[s \ {k}], k>>] ELSE F[s]]
  <2>3. \A s \in SUBSET (1..k) : /\ k \in s => s \ {k} \in SUBSET (1..(k - 1))
                                 /\ k \notin s => s \in SUBSET (1..(k - 1))
    BY <2>2
  <2>4. H \in [SUBSET (1..k) -> J]
    BY <2>1, <2>3 DEF IsFold
  <2>5. ASSUME NEW s \in SUBSET (1..k)
        PROVE  H[s] = IF s = {} THEN base ELSE g[<<H[s \ {Highest(s)}], Highest(s)>>]
    <3>1. CASE s = {}
      <4>1. H[s] = F[s] /\ s \in SUBSET (1..(k - 1))
        BY <3>1
      <4> QED
        BY <2>1, <3>1, <4>1 DEF IsFold
    <3>2. CASE s # {}
      <4>1. /\ Highest(s) \in s /\ \A y \in s : Highest(s) >= y
        BY <2>2, <3>2, HighestProperties
      <4>2. s \ {Highest(s)} \in SUBSET (1..k)
        OBVIOUS
      <4>3. CASE k \in s
        <5>1. Highest(s) = k
          <6>1. Highest(s) \in 1..k /\ Highest(s) >= k
            BY <4>1, <4>3
          <6> QED
            BY <2>2, <6>1
        <5>2. H[s] = g[<<F[s \ {k}], k>>] /\ H[s \ {k}] = F[s \ {k}]
          BY <4>3
        <5> HIDE DEF H
        <5> QED
          BY <3>2, <5>1, <5>2
      <4>4. CASE k \notin s
        <5>1. H[s] = F[s] /\ H[s \ {Highest(s)}] = F[s \ {Highest(s)}]
          BY <4>2, <4>4
        <5>2. F[s] = g[<<F[s \ {Highest(s)}], Highest(s)>>]
          BY <2>1, <2>3, <3>2, <4>4 DEF IsFold
        <5> HIDE DEF H
        <5> QED
          BY <3>2, <5>1, <5>2
      <4> QED
        BY <4>3, <4>4
    <3> QED
      BY <3>1, <3>2
  <2> HIDE DEF H
  <2>6. IsFold(H, k, J, base, g)
    BY <2>4, <2>5 DEF IsFold
  <2> QED
    BY <2>6
<1>3. N \in T
  <2>1. T \in SUBSET (0..N)
    OBVIOUS
  <2> HIDE DEF T
  <2> QED
    BY <1>1, <1>2, <2>1, CountUp
<1> QED
  BY <1>3

\* f is the values of a fold from the base on, place after place.
IsRun(f, N, J, base, g) ==
    /\ f \in [0..N -> J] /\ f[0] = base
    /\ \A k \in 1..N : f[k] = g[<<f[k - 1], k>>]

\* C is a function that a fold over the places 1..N recurses through.
Recurses(C, N, J, base, g) ==
    /\ N \in Nat /\ base \in J /\ g \in [J \X (1..N) -> J]
    /\ DOMAIN C = SUBSET (1..N) /\ C[{}] = base
    /\ \A k \in 1..N : C[1..(k - 1)] \in J => C[1..k] = g[<<C[1..(k - 1)], k>>]

\* How a fold goes: from the base through the places in their order.
LEMMA FoldSteps ==
    ASSUME NEW N, NEW J, NEW base, NEW g, NEW C, Recurses(C, N, J, base, g)
    PROVE  \E f : IsRun(f, N, J, base, g) /\ f[N] = C[1..N]
PROOF
<1>0. N \in Nat /\ base \in J /\ g \in [J \X (1..N) -> J]
  BY DEF Recurses
<1> DEFINE f == [k \in 0..N |-> C[1..k]]
           T == {k \in 0..N : f[k] \in J}
<1>1. f[0] = base /\ f[N] = C[1..N]
  <2>1. 1..0 = {} /\ 0 \in 0..N /\ N \in 0..N
    BY <1>0
  <2> QED
    BY <2>1 DEF Recurses
<1>2. \A k \in 1..N : /\ k - 1 \in 0..N /\ k \in 0..N
                      /\ f[k - 1] = C[1..(k - 1)] /\ f[k] = C[1..k]
  BY <1>0
<1>3. T \in SUBSET (0..N)
  OBVIOUS
<1> HIDE DEF f
<1>4. 0 \in T
  BY <1>0, <1>1
<1>5. ASSUME NEW k \in 1..N, k - 1 \in T PROVE k \in T
  BY <1>0, <1>2, <1>5, ZenonT(40) DEF Recurses
<1>6. \A k \in 0..N : k \in T
  <2> HIDE DEF T
  <2> QED
    BY <1>0, <1>3, <1>4, <1>5, CountUp
<1>7. f \in [0..N -> J]
  BY <1>6 DEF f
<1>8. \A k \in 1..N : f[k] = g[<<f[k - 1], k>>]
  BY <1>2, <1>7 DEF Recurses
<1> QED
  BY <1>1, <1>7, <1>8 DEF IsRun

-----------------------------------------------------------------------------
(* The orders in which documents and queries are visited.                  *)

\* Such an order visits every element once.
LEMMA OrderProperties ==
    ASSUME NEW S, IsFiniteSet(S), NEW order \in SetToSeqs(S)
    PROVE  /\ order \in Seq(S) /\ Len(order) \in Nat
           /\ DOMAIN order = 1..Len(order) /\ Len(order) = Cardinality(S)
           /\ \A i \in 1..Len(order) : order[i] \in S
           /\ \A i, j \in 1..Len(order) : order[i] = order[j] => i = j
           /\ \A x \in S : \E i \in 1..Len(order) : order[i] = x
PROOF
<1> DEFINE N == Cardinality(S)
<1>1. N \in Nat
  BY FS_CardinalityType
<1>2. order \in [1..N -> S] /\ \A i, j \in 1..N : i # j => order[i] # order[j]
  BY DEF SetToSeqs
<1> HIDE DEF N
<1>3. order \in Seq(S) /\ Len(order) = N /\ DOMAIN order = 1..N
  BY <1>1, <1>2, SeqDef, LenProperties
<1>4. order \in Injection(1..N, S)
  BY <1>2 DEF Injection, IsInjective
<1>5. IsFiniteSet(1..N) /\ Cardinality(1..N) = N
  BY <1>1, FS_Interval
<1>6. order \in Surjection(1..N, S)
  BY <1>4, <1>5, FS_Injection DEF N
<1>7. \A x \in S : \E i \in 1..N : order[i] = x
  BY <1>6 DEF Surjection
<1> QED
  BY <1>1, <1>2, <1>3, <1>7 DEF N

InOrder(s) == \A i, j \in DOMAIN s : i < j => s[i] < s[j]

\* Documents can be put in the order of their keys.
LEMMA KeysInOrder ==
    ASSUME NEW docs \in SUBSET Docs
    PROVE  \E s \in SetToSeqs(docs) : InOrder(s)
PROOF
<1> DEFINE Bad(S) == \A s \in SetToSeqs(S) : ~ InOrder(s)
           T == {n \in Nat : \E S \in SUBSET Docs : Cardinality(S) = n /\ Bad(S)}
<1>1. \A S \in SUBSET Docs : IsFiniteSet(S) /\ Cardinality(S) \in Nat
  BY LimboAssumption, FS_Subset, FS_CardinalityType
<1>2. SUFFICES ASSUME Bad(docs) PROVE FALSE
  OBVIOUS
<1> HIDE DEF Bad
<1>3. T # {}
  BY <1>1, <1>2
<1>4. PICK n \in T : \A m \in T : n <= m
  <2>1. T \in SUBSET Nat
    OBVIOUS
  <2> HIDE DEF T
  <2> QED
    BY <1>3, <2>1, LeastNumber
<1>5. PICK S \in SUBSET Docs : Cardinality(S) = n /\ Bad(S)
  BY <1>4
<1>6. n \in Nat
  BY <1>4
<1>7. \A S2 \in SUBSET Docs : Cardinality(S2) < n => ~ Bad(S2)
  BY <1>1, <1>4, <1>6
<1> HIDE DEF T
<1>8. S # {}
  <2>1. SUFFICES ASSUME S = {} PROVE FALSE
    OBVIOUS
  <2>2. Cardinality(S) = 0
    BY <2>1, FS_EmptySet
  <2>3. PICK e : e = [i \in 1..0 |-> 0]
    OBVIOUS
  <2>4. e \in SetToSeqs(S) /\ InOrder(e)
    BY <2>2, <2>3 DEF SetToSeqs, InOrder
  <2> QED
    BY <1>5, <2>4 DEF Bad
<1>9. PICK x \in S : \A y \in S : x <= y
  BY <1>8, LimboAssumption, LeastNumber
<1> DEFINE R == S \ {x}
<1>10. R \in SUBSET Docs /\ Cardinality(R) = n - 1 /\ n - 1 \in Nat
  <2>1. Cardinality(R) = n - 1
    BY <1>1, <1>5, FS_RemoveElement
  <2>2. R \in SUBSET Docs
    OBVIOUS
  <2> HIDE DEF R
  <2> QED
    BY <1>1, <2>1, <2>2
<1>11. PICK r \in SetToSeqs(R) : InOrder(r)
  BY <1>6, <1>7, <1>10 DEF Bad
<1>12. r \in [1..(n - 1) -> R] /\ \A i, j \in 1..(n - 1) : i # j => r[i] # r[j]
  BY <1>10 DEF SetToSeqs
<1> DEFINE s == [i \in 1..n |-> IF i = 1 THEN x ELSE r[i - 1]]
<1>13. \A i \in 1..n : i # 1 => i - 1 \in 1..(n - 1) /\ s[i] = r[i - 1]
  BY <1>6
<1>14. \A y \in R : y \in Nat /\ x \in Nat /\ x < y
  BY <1>9, LimboAssumption
<1>15. s \in [1..n -> S]
  <2>1. \A i \in 1..n : s[i] \in S
    BY <1>12, <1>13
  <2> QED
    BY <2>1
<1>16. 1 \in 1..n => s[1] = x
  OBVIOUS
<1>17. DOMAIN s = 1..n
  OBVIOUS
<1> HIDE DEF s, R
<1>18. ASSUME NEW i \in 1..n, NEW j \in 1..n, i < j PROVE s[i] < s[j]
  <2>1. i \in Int /\ j \in Int /\ j # 1
    BY <1>6, <1>18
  <2>2. s[j] = r[j - 1] /\ j - 1 \in 1..(n - 1)
    BY <1>13, <2>1
  <2>3. CASE i = 1
    BY <1>12, <1>14, <1>16, <2>2, <2>3
  <2>4. CASE i # 1
    <3>1. s[i] = r[i - 1] /\ i - 1 \in 1..(n - 1) /\ i - 1 < j - 1
      BY <1>13, <1>18, <2>1, <2>4
    <3>2. DOMAIN r = 1..(n - 1)
      BY <1>12
    <3> QED
      BY <1>11, <2>2, <3>1, <3>2 DEF InOrder
  <2> QED
    BY <2>3, <2>4
<1>19. \A i, j \in 1..n : i # j => s[i] # s[j]
  <2> SUFFICES ASSUME NEW i \in 1..n, NEW j \in 1..n, i # j, s[i] = s[j] PROVE FALSE
    OBVIOUS
  <2>1. i < j \/ j < i
    BY <1>6
  <2>2. s[i] \in Nat /\ s[j] \in Nat
    BY <1>15, LimboAssumption
  <2> QED
    BY <1>18, <2>1, <2>2
<1>20. s \in SetToSeqs(S) /\ InOrder(s)
  BY <1>5, <1>15, <1>17, <1>18, <1>19 DEF SetToSeqs, InOrder
<1> QED
  BY <1>5, <1>20 DEF Bad

\* The order of their keys is one in which documents are visited.
LEMMA InKeyOrderProperties ==
    ASSUME NEW docs \in SUBSET Docs
    PROVE  InKeyOrder(docs) \in SetToSeqs(docs) /\ IsFiniteSet(docs)
PROOF
  BY KeysInOrder, LimboAssumption, FS_Subset DEF InKeyOrder, InOrder

-----------------------------------------------------------------------------
(* The folds of the model, one step after the other.                       *)

\* What one step of PumpEnqueuedLimboResolutions makes of the limbo members.
PumpStep(m) ==
    IF m.enqueued # <<>> /\ Cardinality(DOMAIN m.byKey) < limit
    THEN StartResolution(m) ELSE m

\* ... and one step of RemoveUnreferenced.
CleanupStep(m, d) == IF Referenced(m, d) THEN m ELSE RemoveLimboTarget(m, d)

\* ... and one step of TrackViews.
TrackStep(m, q, old, new) == UpdateTrackedLimboDocuments(m, q, old[q], new[q])

\* A set of limbo members that a step of the pump does not leave.
PumpKeeps(l, N, J) ==
    /\ N \in Nat /\ DOMAIN l.enqueued = 1..N /\ l \in J
    /\ \A m \in J : \A k \in 1..N : PumpStep(m) \in J

\* PumpEnqueuedLimboResolutions goes round once for every document that waits.
LEMMA PumpRun ==
    ASSUME NEW l, NEW N, NEW J, PumpKeeps(l, N, J)
    PROVE  \E f \in [0..N -> J] :
              /\ f[0] = l /\ f[N] = PumpEnqueuedLimboResolutions(l)
              /\ \A k \in 1..N : f[k] = PumpStep(f[k - 1])
PROOF
<1> USE DEF PumpKeeps
<1> DEFINE g == [p \in J \X (1..N) |-> PumpStep(p[1])]
           Step(F, s) ==
                IF s = {} THEN l
                ELSE PumpStep(F[s \ {Highest(s)}])
           C == CHOOSE F : F = [s \in SUBSET (1..N) |-> Step(F, s)]
<1>0. g \in [J \X (1..N) -> J]
  OBVIOUS
<1>1. \A m \in J : \A k \in 1..N : g[<<m, k>>] = PumpStep(m)
  OBVIOUS
<1> HIDE DEF g
<1>2. PICK F : IsFold(F, N, J, l, g)
  BY <1>0, FoldExists
<1>3. ASSUME NEW s \in SUBSET (1..N) PROVE F[s] = Step(F, s)
  <2>1. CASE s = {}
    BY <1>2, <2>1 DEF IsFold
  <2>2. CASE s # {}
    <3>1. Highest(s) \in 1..N
      BY <2>2, HighestProperties
    <3>2. F[s \ {Highest(s)}] \in J
      BY <1>2 DEF IsFold
    <3>3. F[s] = g[<<F[s \ {Highest(s)}], Highest(s)>>]
      BY <1>2, <2>2 DEF IsFold
    <3> QED
      BY <1>1, <2>2, <3>1, <3>2, <3>3
  <2> QED
    BY <2>1, <2>2
<1> HIDE DEF Step
<1>4. F = [s \in SUBSET (1..N) |-> Step(F, s)]
  BY <1>2, <1>3 DEF IsFold
<1>5. C = [s \in SUBSET (1..N) |-> Step(C, s)]
  BY <1>4
<1>6. PumpEnqueuedLimboResolutions(l) = C[1..N]
  BY DEF PumpEnqueuedLimboResolutions, PumpStep, FoldLeft, MapThenFoldSet, Max, Highest,
         Step
<1> HIDE DEF C
<1>7. DOMAIN C = SUBSET (1..N) /\ \A s \in SUBSET (1..N) : C[s] = Step(C, s)
  BY <1>5
<1>8. C[{}] = l
  BY <1>7 DEF Step
<1>9. ASSUME NEW k \in 1..N, C[1..(k - 1)] \in J
      PROVE  C[1..k] = g[<<C[1..(k - 1)], k>>]
  <2>1. 1..k \in SUBSET (1..N) /\ 1..k # {}
    BY HighestProperties
  <2>2. Highest(1..k) = k /\ (1..k) \ {Highest(1..k)} = 1..(k - 1)
    BY HighestProperties
  <2>3. C[1..k] = PumpStep(C[1..(k - 1)])
    BY <1>7, <2>1, <2>2 DEF Step
  <2> QED
    BY <1>1, <1>9, <2>3
<1>10. Recurses(C, N, J, l, g)
  BY <1>0, <1>7, <1>8, <1>9 DEF Recurses
<1>11. PICK f : IsRun(f, N, J, l, g) /\ f[N] = C[1..N]
  BY <1>10, FoldSteps
<1>12. \A k \in 1..N : f[k] = PumpStep(f[k - 1])
  <2>1. \A k \in 1..N : f[k - 1] \in J
    BY <1>11 DEF IsRun
  <2> QED
    BY <1>1, <1>11, <2>1 DEF IsRun
<1> QED
  BY <1>6, <1>11, <1>12 DEF IsRun

\* A set of limbo members that the end of a reference does not leave.
RemovalKeeps(l, q, docs, order, N, J) ==
    /\ N \in Nat /\ order = InKeyOrder(docs) /\ DOMAIN order = 1..N /\ l \in J
    /\ \A m \in J : \A k \in 1..N : RemoveReference(m, order[k], q) \in J

\* The references to some documents are removed one after the other.
LEMMA RemoveRun ==
    ASSUME NEW l, NEW q, NEW docs, NEW order,
           NEW N, NEW J, RemovalKeeps(l, q, docs, order, N, J)
    PROVE  \E f \in [0..N -> J] :
              /\ f[0] = l /\ f[N] = RemoveReferences(l, q, docs)
              /\ \A k \in 1..N : f[k] = RemoveReference(f[k - 1], order[k], q)
PROOF
<1> USE DEF RemovalKeeps
<1> DEFINE g == [p \in J \X (1..N) |-> RemoveReference(p[1], order[p[2]], q)]
           Step(F, s) ==
                IF s = {} THEN l
                ELSE RemoveReference(F[s \ {Highest(s)}], order[Highest(s)], q)
           C == CHOOSE F : F = [s \in SUBSET (1..N) |-> Step(F, s)]
<1>0. g \in [J \X (1..N) -> J]
  OBVIOUS
<1>1. \A m \in J : \A k \in 1..N : g[<<m, k>>] = RemoveReference(m, order[k], q)
  OBVIOUS
<1> HIDE DEF g
<1>2. PICK F : IsFold(F, N, J, l, g)
  BY <1>0, FoldExists
<1>3. ASSUME NEW s \in SUBSET (1..N) PROVE F[s] = Step(F, s)
  <2>1. CASE s = {}
    BY <1>2, <2>1 DEF IsFold
  <2>2. CASE s # {}
    <3>1. Highest(s) \in 1..N
      BY <2>2, HighestProperties
    <3>2. F[s \ {Highest(s)}] \in J
      BY <1>2 DEF IsFold
    <3>3. F[s] = g[<<F[s \ {Highest(s)}], Highest(s)>>]
      BY <1>2, <2>2 DEF IsFold
    <3> QED
      BY <1>1, <2>2, <3>1, <3>2, <3>3
  <2> QED
    BY <2>1, <2>2
<1> HIDE DEF Step
<1>4. F = [s \in SUBSET (1..N) |-> Step(F, s)]
  BY <1>2, <1>3 DEF IsFold
<1>5. C = [s \in SUBSET (1..N) |-> Step(C, s)]
  BY <1>4
<1>6. RemoveReferences(l, q, docs) = C[1..N]
  BY DEF RemoveReferences, FoldLeft, MapThenFoldSet, Max, Highest,
         Step
<1> HIDE DEF C
<1>7. DOMAIN C = SUBSET (1..N) /\ \A s \in SUBSET (1..N) : C[s] = Step(C, s)
  BY <1>5
<1>8. C[{}] = l
  BY <1>7 DEF Step
<1>9. ASSUME NEW k \in 1..N, C[1..(k - 1)] \in J
      PROVE  C[1..k] = g[<<C[1..(k - 1)], k>>]
  <2>1. 1..k \in SUBSET (1..N) /\ 1..k # {}
    BY HighestProperties
  <2>2. Highest(1..k) = k /\ (1..k) \ {Highest(1..k)} = 1..(k - 1)
    BY HighestProperties
  <2>3. C[1..k] = RemoveReference(C[1..(k - 1)], order[k], q)
    BY <1>7, <2>1, <2>2 DEF Step
  <2> QED
    BY <1>1, <1>9, <2>3
<1>10. Recurses(C, N, J, l, g)
  BY <1>0, <1>7, <1>8, <1>9 DEF Recurses
<1>11. PICK f : IsRun(f, N, J, l, g) /\ f[N] = C[1..N]
  BY <1>10, FoldSteps
<1>12. \A k \in 1..N : f[k] = RemoveReference(f[k - 1], order[k], q)
  <2>1. \A k \in 1..N : f[k - 1] \in J
    BY <1>11 DEF IsRun
  <2> QED
    BY <1>1, <1>11, <2>1 DEF IsRun
<1> QED
  BY <1>6, <1>11, <1>12 DEF IsRun

\* A set of limbo members that a new reference does not leave.
AdditionKeeps(l, q, docs, order, N, J) ==
    /\ N \in Nat /\ order = InKeyOrder(docs) /\ DOMAIN order = 1..N /\ l \in J
    /\ \A m \in J : \A k \in 1..N : AddReference(m, order[k], q) \in J

\* The references to some documents are added one after the other.
LEMMA AddRun ==
    ASSUME NEW l, NEW q, NEW docs, NEW order,
           NEW N, NEW J, AdditionKeeps(l, q, docs, order, N, J)
    PROVE  \E f \in [0..N -> J] :
              /\ f[0] = l /\ f[N] = AddReferences(l, q, docs)
              /\ \A k \in 1..N : f[k] = AddReference(f[k - 1], order[k], q)
PROOF
<1> USE DEF AdditionKeeps
<1> DEFINE g == [p \in J \X (1..N) |-> AddReference(p[1], order[p[2]], q)]
           Step(F, s) ==
                IF s = {} THEN l
                ELSE AddReference(F[s \ {Highest(s)}], order[Highest(s)], q)
           C == CHOOSE F : F = [s \in SUBSET (1..N) |-> Step(F, s)]
<1>0. g \in [J \X (1..N) -> J]
  OBVIOUS
<1>1. \A m \in J : \A k \in 1..N : g[<<m, k>>] = AddReference(m, order[k], q)
  OBVIOUS
<1> HIDE DEF g
<1>2. PICK F : IsFold(F, N, J, l, g)
  BY <1>0, FoldExists
<1>3. ASSUME NEW s \in SUBSET (1..N) PROVE F[s] = Step(F, s)
  <2>1. CASE s = {}
    BY <1>2, <2>1 DEF IsFold
  <2>2. CASE s # {}
    <3>1. Highest(s) \in 1..N
      BY <2>2, HighestProperties
    <3>2. F[s \ {Highest(s)}] \in J
      BY <1>2 DEF IsFold
    <3>3. F[s] = g[<<F[s \ {Highest(s)}], Highest(s)>>]
      BY <1>2, <2>2 DEF IsFold
    <3> QED
      BY <1>1, <2>2, <3>1, <3>2, <3>3
  <2> QED
    BY <2>1, <2>2
<1> HIDE DEF Step
<1>4. F = [s \in SUBSET (1..N) |-> Step(F, s)]
  BY <1>2, <1>3 DEF IsFold
<1>5. C = [s \in SUBSET (1..N) |-> Step(C, s)]
  BY <1>4
<1>6. AddReferences(l, q, docs) = C[1..N]
  BY DEF AddReferences, FoldLeft, MapThenFoldSet, Max, Highest,
         Step
<1> HIDE DEF C
<1>7. DOMAIN C = SUBSET (1..N) /\ \A s \in SUBSET (1..N) : C[s] = Step(C, s)
  BY <1>5
<1>8. C[{}] = l
  BY <1>7 DEF Step
<1>9. ASSUME NEW k \in 1..N, C[1..(k - 1)] \in J
      PROVE  C[1..k] = g[<<C[1..(k - 1)], k>>]
  <2>1. 1..k \in SUBSET (1..N) /\ 1..k # {}
    BY HighestProperties
  <2>2. Highest(1..k) = k /\ (1..k) \ {Highest(1..k)} = 1..(k - 1)
    BY HighestProperties
  <2>3. C[1..k] = AddReference(C[1..(k - 1)], order[k], q)
    BY <1>7, <2>1, <2>2 DEF Step
  <2> QED
    BY <1>1, <1>9, <2>3
<1>10. Recurses(C, N, J, l, g)
  BY <1>0, <1>7, <1>8, <1>9 DEF Recurses
<1>11. PICK f : IsRun(f, N, J, l, g) /\ f[N] = C[1..N]
  BY <1>10, FoldSteps
<1>12. \A k \in 1..N : f[k] = AddReference(f[k - 1], order[k], q)
  <2>1. \A k \in 1..N : f[k - 1] \in J
    BY <1>11 DEF IsRun
  <2> QED
    BY <1>1, <1>11, <2>1 DEF IsRun
<1> QED
  BY <1>6, <1>11, <1>12 DEF IsRun

\* A set of limbo members that a change of a view does not leave.
TrackingKeeps(l, order, old, new, N, J) ==
    /\ N \in Nat /\ DOMAIN order = 1..N /\ l \in J
    /\ \A m \in J : \A k \in 1..N : TrackStep(m, order[k], old, new) \in J

\* The views are tracked one after the other.
LEMMA TrackRun ==
    ASSUME NEW l, NEW order, NEW old, NEW new,
           NEW N, NEW J, TrackingKeeps(l, order, old, new, N, J)
    PROVE  \E f \in [0..N -> J] :
              /\ f[0] = l /\ f[N] = TrackViews(l, order, old, new)
              /\ \A k \in 1..N : f[k] = TrackStep(f[k - 1], order[k], old, new)
PROOF
<1> USE DEF TrackingKeeps
<1> DEFINE g == [p \in J \X (1..N) |-> TrackStep(p[1], order[p[2]], old, new)]
           Step(F, s) ==
                IF s = {} THEN l
                ELSE TrackStep(F[s \ {Highest(s)}], order[Highest(s)], old, new)
           C == CHOOSE F : F = [s \in SUBSET (1..N) |-> Step(F, s)]
<1>0. g \in [J \X (1..N) -> J]
  OBVIOUS
<1>1. \A m \in J : \A k \in 1..N : g[<<m, k>>] = TrackStep(m, order[k], old, new)
  OBVIOUS
<1> HIDE DEF g
<1>2. PICK F : IsFold(F, N, J, l, g)
  BY <1>0, FoldExists
<1>3. ASSUME NEW s \in SUBSET (1..N) PROVE F[s] = Step(F, s)
  <2>1. CASE s = {}
    BY <1>2, <2>1 DEF IsFold
  <2>2. CASE s # {}
    <3>1. Highest(s) \in 1..N
      BY <2>2, HighestProperties
    <3>2. F[s \ {Highest(s)}] \in J
      BY <1>2 DEF IsFold
    <3>3. F[s] = g[<<F[s \ {Highest(s)}], Highest(s)>>]
      BY <1>2, <2>2 DEF IsFold
    <3> QED
      BY <1>1, <2>2, <3>1, <3>2, <3>3
  <2> QED
    BY <2>1, <2>2
<1> HIDE DEF Step
<1>4. F = [s \in SUBSET (1..N) |-> Step(F, s)]
  BY <1>2, <1>3 DEF IsFold
<1>5. C = [s \in SUBSET (1..N) |-> Step(C, s)]
  BY <1>4
<1>6. TrackViews(l, order, old, new) = C[1..N]
  BY DEF TrackViews, TrackStep, FoldLeft, MapThenFoldSet, Max, Highest,
         Step
<1> HIDE DEF C
<1>7. DOMAIN C = SUBSET (1..N) /\ \A s \in SUBSET (1..N) : C[s] = Step(C, s)
  BY <1>5
<1>8. C[{}] = l
  BY <1>7 DEF Step
<1>9. ASSUME NEW k \in 1..N, C[1..(k - 1)] \in J
      PROVE  C[1..k] = g[<<C[1..(k - 1)], k>>]
  <2>1. 1..k \in SUBSET (1..N) /\ 1..k # {}
    BY HighestProperties
  <2>2. Highest(1..k) = k /\ (1..k) \ {Highest(1..k)} = 1..(k - 1)
    BY HighestProperties
  <2>3. C[1..k] = TrackStep(C[1..(k - 1)], order[k], old, new)
    BY <1>7, <2>1, <2>2 DEF Step
  <2> QED
    BY <1>1, <1>9, <2>3
<1>10. Recurses(C, N, J, l, g)
  BY <1>0, <1>7, <1>8, <1>9 DEF Recurses
<1>11. PICK f : IsRun(f, N, J, l, g) /\ f[N] = C[1..N]
  BY <1>10, FoldSteps
<1>12. \A k \in 1..N : f[k] = TrackStep(f[k - 1], order[k], old, new)
  <2>1. \A k \in 1..N : f[k - 1] \in J
    BY <1>11 DEF IsRun
  <2> QED
    BY <1>1, <1>11, <2>1 DEF IsRun
<1> QED
  BY <1>6, <1>11, <1>12 DEF IsRun

\* A set of limbo members that a step of the cleanup does not leave.
CleanupKeeps(l, docs, order, N, J) ==
    /\ N \in Nat /\ order = InKeyOrder(docs) /\ DOMAIN order = 1..N /\ l \in J
    /\ \A m \in J : \A k \in 1..N : CleanupStep(m, order[k]) \in J

\* The documents of a query that ends are looked at one after the other.
LEMMA CleanupRun ==
    ASSUME NEW l, NEW docs, NEW order, NEW N, NEW J, CleanupKeeps(l, docs, order, N, J)
    PROVE  \E f \in [0..N -> J] :
              /\ f[0] = l /\ f[N] = RemoveUnreferenced(l, docs)
              /\ \A k \in 1..N : f[k] = CleanupStep(f[k - 1], order[k])
PROOF
<1> USE DEF CleanupKeeps
<1> DEFINE g == [p \in J \X (1..N) |-> CleanupStep(p[1], order[p[2]])]
           Step(F, s) ==
                IF s = {} THEN l
                ELSE CleanupStep(F[s \ {Highest(s)}], order[Highest(s)])
           C == CHOOSE F : F = [s \in SUBSET (1..N) |-> Step(F, s)]
<1>0. g \in [J \X (1..N) -> J]
  OBVIOUS
<1>1. \A m \in J : \A k \in 1..N : g[<<m, k>>] = CleanupStep(m, order[k])
  OBVIOUS
<1> HIDE DEF g
<1>2. PICK F : IsFold(F, N, J, l, g)
  BY <1>0, FoldExists
<1>3. ASSUME NEW s \in SUBSET (1..N) PROVE F[s] = Step(F, s)
  <2>1. CASE s = {}
    BY <1>2, <2>1 DEF IsFold
  <2>2. CASE s # {}
    <3>1. Highest(s) \in 1..N
      BY <2>2, HighestProperties
    <3>2. F[s \ {Highest(s)}] \in J
      BY <1>2 DEF IsFold
    <3>3. F[s] = g[<<F[s \ {Highest(s)}], Highest(s)>>]
      BY <1>2, <2>2 DEF IsFold
    <3> QED
      BY <1>1, <2>2, <3>1, <3>2, <3>3
  <2> QED
    BY <2>1, <2>2
<1> HIDE DEF Step
<1>4. F = [s \in SUBSET (1..N) |-> Step(F, s)]
  BY <1>2, <1>3 DEF IsFold
<1>5. C = [s \in SUBSET (1..N) |-> Step(C, s)]
  BY <1>4
<1>6. RemoveUnreferenced(l, docs) = C[1..N]
  BY DEF RemoveUnreferenced, CleanupStep, FoldLeft, MapThenFoldSet, Max, Highest,
         Step
<1> HIDE DEF C
<1>7. DOMAIN C = SUBSET (1..N) /\ \A s \in SUBSET (1..N) : C[s] = Step(C, s)
  BY <1>5
<1>8. C[{}] = l
  BY <1>7 DEF Step
<1>9. ASSUME NEW k \in 1..N, C[1..(k - 1)] \in J
      PROVE  C[1..k] = g[<<C[1..(k - 1)], k>>]
  <2>1. 1..k \in SUBSET (1..N) /\ 1..k # {}
    BY HighestProperties
  <2>2. Highest(1..k) = k /\ (1..k) \ {Highest(1..k)} = 1..(k - 1)
    BY HighestProperties
  <2>3. C[1..k] = CleanupStep(C[1..(k - 1)], order[k])
    BY <1>7, <2>1, <2>2 DEF Step
  <2> QED
    BY <1>1, <1>9, <2>3
<1>10. Recurses(C, N, J, l, g)
  BY <1>0, <1>7, <1>8, <1>9 DEF Recurses
<1>11. PICK f : IsRun(f, N, J, l, g) /\ f[N] = C[1..N]
  BY <1>10, FoldSteps
<1>12. \A k \in 1..N : f[k] = CleanupStep(f[k - 1], order[k])
  <2>1. \A k \in 1..N : f[k - 1] \in J
    BY <1>11 DEF IsRun
  <2> QED
    BY <1>1, <1>11, <2>1 DEF IsRun
<1> QED
  BY <1>6, <1>11, <1>12 DEF IsRun

-----------------------------------------------------------------------------
(* The limbo members of SyncEngine: their types and how they fit together.  *)

KeyMaps == UNION {[S -> Nat] : S \in SUBSET Docs}
Resolution == [key : Docs, received : BOOLEAN]
TargetMaps == UNION {[S -> Resolution] : S \in SUBSET Nat}

LimboMembers == [refs : SUBSET (Docs \X Queries), enqueued : Seq(Docs),
                 byKey : KeyMaps, byTarget : TargetMaps, listens : SUBSET Nat,
                 nextId : Nat \ {0}, ok : BOOLEAN]

\* The documents that are being resolved, and those that wait for it.
Waiting(l) == DOMAIN l.byKey \cup Range(l.enqueued)

\* The maps agree: a document that is resolved has a target that is listened to
\* and is no other document's.  There may be targets besides these.
Resolving(l) ==
    /\ l.listens = DOMAIN l.byTarget
    /\ \A t \in DOMAIN l.byTarget : t \in 1..(l.nextId - 1)
    /\ \A d \in DOMAIN l.byKey : /\ l.byKey[d] \in DOMAIN l.byTarget
                                 /\ l.byTarget[l.byKey[d]].key = d

Ready(l) ==
    /\ l \in LimboMembers /\ Resolving(l)
    /\ Cardinality(DOMAIN l.byKey) <= limit

\* No document waits while a slot is free.
SlotsUsed(l) == l.enqueued # <<>> => Cardinality(DOMAIN l.byKey) = limit

\* Every document with a reference is waited for, but the excepted ones.
Tracked(l, excepted) ==
    \A d \in Docs : \A q \in Queries :
        <<d, q>> \in l.refs /\ d \notin excepted => d \in Waiting(l)

\* What every handler of SyncEngine finds and leaves behind.
Fine(l, excepted) == Ready(l) /\ SlotsUsed(l) /\ l.ok /\ Tracked(l, excepted)

\* The map of a document to its target: types, an entry more, an entry less.
LEMMA KeyMapType ==
    ASSUME NEW m \in KeyMaps
    PROVE  /\ DOMAIN m \in SUBSET Docs /\ IsFiniteSet(DOMAIN m)
           /\ Cardinality(DOMAIN m) \in Nat
           /\ \A d \in DOMAIN m : m[d] \in Nat
PROOF
<1>1. PICK S \in SUBSET Docs : m \in [S -> Nat]
  BY DEF KeyMaps
<1>2. IsFiniteSet(S) /\ Cardinality(S) \in Nat
  BY LimboAssumption, FS_Subset, FS_CardinalityType
<1> QED
  BY <1>1, <1>2

\* Emplacing a key leaves the other entries, and an entry that is there.
LEMMA EmplacedKey ==
    ASSUME NEW m \in KeyMaps, NEW d \in Docs, NEW t \in Nat,
           NEW n, n = Emplace(m, d, t)
    PROVE  /\ n \in KeyMaps /\ DOMAIN n = DOMAIN m \cup {d}
           /\ \A e \in DOMAIN m : n[e] = m[e]
           /\ d \notin DOMAIN m => n[d] = t
PROOF
<1>1. DOMAIN m \cup {d} \in SUBSET Docs /\ \A e \in DOMAIN m : m[e] \in Nat
  BY KeyMapType
<1>2. n \in [DOMAIN m \cup {d} -> Nat]
  BY <1>1 DEF Emplace
<1>3. n \in KeyMaps
  BY <1>1, <1>2 DEF KeyMaps
<1> QED
  BY <1>3 DEF Emplace

\* Erasing documents leaves the entries of the others.
LEMMA RestrictedKeys ==
    ASSUME NEW m \in KeyMaps, NEW S \in SUBSET (DOMAIN m), NEW n, n = Restrict(m, S)
    PROVE  /\ n \in KeyMaps /\ DOMAIN n = S
           /\ \A e \in DOMAIN n : n[e] = m[e]
PROOF
<1>1. S \in SUBSET Docs /\ \A e \in DOMAIN m : m[e] \in Nat
  BY KeyMapType
<1>2. n \in [S -> Nat]
  BY <1>1 DEF Restrict
<1>3. n \in KeyMaps
  BY <1>1, <1>2 DEF KeyMaps
<1> QED
  BY <1>3 DEF Restrict

\* The map of a target to its resolution likewise.
LEMMA TargetMapType ==
    ASSUME NEW m \in TargetMaps
    PROVE  DOMAIN m \in SUBSET Nat /\ \A t \in DOMAIN m : m[t] \in Resolution
PROOF
  BY DEF TargetMaps

\* Emplacing a target leaves the other entries, and an entry that is there.
LEMMA EmplacedTarget ==
    ASSUME NEW m \in TargetMaps, NEW t \in Nat, NEW r \in Resolution,
           NEW n, n = Emplace(m, t, r)
    PROVE  /\ n \in TargetMaps /\ DOMAIN n = DOMAIN m \cup {t}
           /\ \A u \in DOMAIN m : n[u] = m[u]
           /\ t \notin DOMAIN m => n[t] = r
PROOF
<1>1. DOMAIN m \cup {t} \in SUBSET Nat /\ \A u \in DOMAIN m : m[u] \in Resolution
  BY TargetMapType
<1>2. n \in [DOMAIN m \cup {t} -> Resolution]
  BY <1>1 DEF Emplace
<1>3. n \in TargetMaps
  BY <1>1, <1>2 DEF TargetMaps
<1> QED
  BY <1>3 DEF Emplace

\* Erasing targets leaves the entries of the others.
LEMMA RestrictedTargets ==
    ASSUME NEW m \in TargetMaps, NEW S \in SUBSET (DOMAIN m), NEW n, n = Restrict(m, S)
    PROVE  /\ n \in TargetMaps /\ DOMAIN n = S
           /\ \A u \in DOMAIN n : n[u] = m[u]
PROOF
<1>1. S \in SUBSET Nat /\ \A u \in DOMAIN m : m[u] \in Resolution
  BY TargetMapType
<1>2. n \in [S -> Resolution]
  BY <1>1 DEF Restrict
<1>3. n \in TargetMaps
  BY <1>1, <1>2 DEF TargetMaps
<1> QED
  BY <1>3 DEF Restrict

\* The members of a record of SyncEngine's limbo state, and their replacement.
LEMMA MemberTypes ==
    ASSUME NEW m \in LimboMembers
    PROVE  /\ m.refs \in SUBSET (Docs \X Queries) /\ m.enqueued \in Seq(Docs)
           /\ m.byKey \in KeyMaps /\ m.byTarget \in TargetMaps
           /\ m.listens \in SUBSET Nat /\ m.nextId \in Nat \ {0} /\ m.ok \in BOOLEAN
PROOF
  BY DEF LimboMembers

\* A set grows by at most one when an element joins it.
LEMMA GrowsByOne ==
    ASSUME NEW S, IsFiniteSet(S), NEW x
    PROVE  /\ Cardinality(S \cup {x}) \in Nat
           /\ Cardinality(S \cup {x}) <= Cardinality(S) + 1
PROOF
<1>1. /\ IsFiniteSet(S \cup {x})
      /\ Cardinality(S \cup {x}) =
            IF x \in S THEN Cardinality(S) ELSE Cardinality(S) + 1
  BY FS_AddElement
<1>2. Cardinality(S) \in Nat
  BY FS_CardinalityType
<1> QED
  BY <1>1, <1>2

\* A resolution is started for the first document that waits: it has a slot now.
LEMMA StartProperties ==
    ASSUME limit \in Nat, NEW m, Ready(m), m.enqueued # <<>>,
           Cardinality(DOMAIN m.byKey) < limit,
           NEW n, n = StartResolution(m)
    PROVE  /\ Ready(n) /\ n.refs = m.refs /\ n.ok = m.ok
           /\ Waiting(m) \subseteq Waiting(n)
           /\ Len(n.enqueued) = Len(m.enqueued) - 1
PROOF
<1> DEFINE key == Head(m.enqueued)
           t == m.nextId
           r == [key |-> key, received |-> FALSE]
<1>1. /\ m \in LimboMembers /\ m.refs \in SUBSET (Docs \X Queries)
      /\ m.enqueued \in Seq(Docs) /\ m.byKey \in KeyMaps
      /\ m.byTarget \in TargetMaps /\ m.listens \in SUBSET Nat
      /\ m.nextId \in Nat \ {0} /\ m.ok \in BOOLEAN
  BY MemberTypes DEF Ready
<1>2. /\ key \in Docs /\ t \in Nat /\ r \in Resolution
      /\ Tail(m.enqueued) \in Seq(Docs)
      /\ Len(Tail(m.enqueued)) = Len(m.enqueued) - 1
      /\ \A x \in Range(m.enqueued) : x = key \/ x \in Range(Tail(m.enqueued))
  <2>1. key \in Docs /\ Tail(m.enqueued) \in Seq(Docs)
    BY <1>1, HeadTailProperties
  <2>2. Len(Tail(m.enqueued)) = Len(m.enqueued) - 1
    BY <1>1, HeadTailProperties
  <2>3. r \in Resolution
    BY <2>1 DEF Resolution
  <2>4. ASSUME NEW i \in DOMAIN m.enqueued
        PROVE  m.enqueued[i] = key \/ m.enqueued[i] \in Range(Tail(m.enqueued))
    <3>1. i \in 1..Len(m.enqueued) /\ Len(m.enqueued) \in Nat
      BY <1>1
    <3>2. CASE i = 1
      BY <3>2
    <3>3. CASE i # 1
      <4>1. i - 1 \in DOMAIN Tail(m.enqueued)
        BY <1>1, <2>1, <2>2, <3>1, <3>3
      <4>2. Tail(m.enqueued)[i - 1] = m.enqueued[i]
        BY <1>1, <2>2, <3>1, <3>3
      <4> QED
        BY <4>1, <4>2 DEF Range
    <3> QED
      BY <3>2, <3>3
  <2>5. \A x \in Range(m.enqueued) : x = key \/ x \in Range(Tail(m.enqueued))
    BY <2>4 DEF Range
  <2> QED
    BY <1>1, <2>1, <2>2, <2>3, <2>5
<1> HIDE DEF key, r
<1>3. PICK K : K = Emplace(m.byKey, key, t)
  OBVIOUS
<1>4. PICK T : T = Emplace(m.byTarget, t, r)
  OBVIOUS
<1>5. t \notin DOMAIN m.byTarget /\ r.key = key
  BY <1>1 DEF Ready, Resolving, r
<1>6. PICK more : more = Tail(m.enqueued)
  OBVIOUS
<1>7. PICK ls, id : ls = m.listens \cup {t} /\ id = t + 1
  OBVIOUS
<1>8. n = [m EXCEPT !.enqueued = more, !.byTarget = T, !.byKey = K,
                    !.listens = ls, !.nextId = id]
  BY <1>3, <1>4, <1>6, <1>7 DEF StartResolution, key, r
<1> HIDE DEF t
<1>9. /\ K \in KeyMaps /\ DOMAIN K = DOMAIN m.byKey \cup {key}
      /\ \A e \in DOMAIN m.byKey : K[e] = m.byKey[e]
      /\ key \notin DOMAIN m.byKey => K[key] = t
  <2>1. PICK map \in KeyMaps, d \in Docs, i \in Nat : map = m.byKey /\ d = key /\ i = t
    BY <1>1, <1>2
  <2>2. K = Emplace(map, d, i)
    BY <1>3, <2>1
  <2>3. /\ K \in KeyMaps /\ DOMAIN K = DOMAIN map \cup {d}
        /\ \A e \in DOMAIN map : K[e] = map[e]
        /\ d \notin DOMAIN map => K[d] = i
    BY ONLY map \in KeyMaps, d \in Docs, i \in Nat, <2>2, EmplacedKey
  <2> QED
    BY <2>1, <2>3
<1>10. /\ T \in TargetMaps /\ DOMAIN T = DOMAIN m.byTarget \cup {t}
       /\ \A u \in DOMAIN m.byTarget : T[u] = m.byTarget[u]
       /\ t \notin DOMAIN m.byTarget => T[t] = r
  <2>1. PICK map \in TargetMaps, i \in Nat, res \in Resolution :
           map = m.byTarget /\ i = t /\ res = r
    BY <1>1, <1>2
  <2>2. T = Emplace(map, i, res)
    BY <1>4, <2>1
  <2>3. /\ T \in TargetMaps /\ DOMAIN T = DOMAIN map \cup {i}
        /\ \A u \in DOMAIN map : T[u] = map[u]
        /\ i \notin DOMAIN map => T[i] = res
    BY ONLY map \in TargetMaps, i \in Nat, res \in Resolution, <2>2, EmplacedTarget
  <2> QED
    BY <2>1, <2>3
<1>11. more \in Seq(Docs) /\ ls \in SUBSET Nat /\ id \in Nat \ {0}
  BY <1>1, <1>2, <1>6, <1>7
<1>12. /\ n \in LimboMembers
       /\ n.refs = m.refs /\ n.ok = m.ok /\ n.enqueued = more
       /\ n.byKey = K /\ n.byTarget = T /\ n.listens = ls /\ n.nextId = id
  BY <1>1, <1>8, <1>9, <1>10, <1>11, ZenonT(40) DEF LimboMembers
<1>13. Resolving(n)
  <2>1. /\ m.listens = DOMAIN m.byTarget
        /\ \A u \in DOMAIN m.byTarget : u \in 1..(m.nextId - 1)
        /\ \A d \in DOMAIN m.byKey : /\ m.byKey[d] \in DOMAIN m.byTarget
                                     /\ m.byTarget[m.byKey[d]].key = d
    BY DEF Ready, Resolving
  <2>2. n.listens = DOMAIN n.byTarget
    BY <1>7, <1>10, <1>12, <2>1
  <2>3. ASSUME NEW u \in DOMAIN n.byTarget PROVE u \in 1..(n.nextId - 1)
    BY <1>1, <1>7, <1>10, <1>12, <2>1 DEF t
  <2>4. ASSUME NEW d \in DOMAIN n.byKey
        PROVE  n.byKey[d] \in DOMAIN n.byTarget /\ n.byTarget[n.byKey[d]].key = d
    <3>1. CASE d \in DOMAIN m.byKey
      BY <1>9, <1>10, <1>12, <2>1, <3>1
    <3>2. CASE d \notin DOMAIN m.byKey
      BY <1>5, <1>9, <1>10, <1>12, <3>2
    <3> QED
      BY <3>1, <3>2
  <2> QED
    BY <2>2, <2>3, <2>4 DEF Resolving
<1>14. Cardinality(DOMAIN n.byKey) <= limit
  <2>1. PICK S : S = DOMAIN m.byKey
    OBVIOUS
  <2>2. IsFiniteSet(S) /\ Cardinality(S) \in Nat
    BY <1>1, <2>1, KeyMapType
  <2>3. /\ Cardinality(S \cup {key}) \in Nat
        /\ Cardinality(S \cup {key}) <= Cardinality(S) + 1
    BY <2>2, GrowsByOne
  <2> QED
    BY <1>9, <1>12, <2>1, <2>2, <2>3
<1>15. Waiting(m) \subseteq Waiting(n)
  BY <1>2, <1>6, <1>9, <1>12 DEF Waiting
<1>16. Len(n.enqueued) = Len(m.enqueued) - 1
  BY <1>2, <1>6, <1>12
<1> QED
  BY <1>12, <1>13, <1>14, <1>15, <1>16 DEF Ready

\* PumpEnqueuedLimboResolutions fills the free slots and loses no document.
LEMMA PumpProperties ==
    ASSUME limit \in Nat, NEW l, Ready(l), NEW n, n = PumpEnqueuedLimboResolutions(l)
    PROVE  /\ Ready(n) /\ SlotsUsed(n) /\ n.refs = l.refs /\ n.ok = l.ok
           /\ Waiting(l) \subseteq Waiting(n)
PROOF
<1> DEFINE J == {m \in LimboMembers :
                   /\ Ready(m) /\ m.refs = l.refs /\ m.ok = l.ok
                   /\ Waiting(l) \subseteq Waiting(m)}
           N == Len(l.enqueued)
<1>1. \A m \in J : /\ m \in LimboMembers /\ Ready(m)
                   /\ m.refs = l.refs /\ m.ok = l.ok
                   /\ Waiting(l) \subseteq Waiting(m)
                   /\ m.enqueued \in Seq(Docs)
                   /\ Cardinality(DOMAIN m.byKey) \in Nat
  <2>1. \A m \in LimboMembers : m.enqueued \in Seq(Docs) /\ m.byKey \in KeyMaps
    BY MemberTypes
  <2> QED
    BY <2>1, KeyMapType
<1>2. l \in J
  BY DEF Ready
<1>3. ASSUME NEW m, Ready(m), m.refs = l.refs, m.ok = l.ok,
             Waiting(l) \subseteq Waiting(m)
      PROVE  m \in J
  BY <1>3 DEF Ready
<1> HIDE DEF J
<1>4. ASSUME NEW m \in J
      PROVE  \/ /\ m.enqueued # <<>> /\ Cardinality(DOMAIN m.byKey) < limit
                /\ Len(PumpStep(m).enqueued) = Len(m.enqueued) - 1
                /\ PumpStep(m) \in J
             \/ /\ m.enqueued = <<>> \/ Cardinality(DOMAIN m.byKey) = limit
                /\ PumpStep(m) = m
  <2>1. CASE m.enqueued # <<>> /\ Cardinality(DOMAIN m.byKey) < limit
    <3>1. PICK s : s = StartResolution(m)
      OBVIOUS
    <3>2. /\ Ready(s) /\ s.refs = m.refs /\ s.ok = m.ok
          /\ Waiting(m) \subseteq Waiting(s)
          /\ Len(s.enqueued) = Len(m.enqueued) - 1
      BY <1>1, <2>1, <3>1, StartProperties
    <3>3. s \in J
      BY <1>1, <1>3, <3>2
    <3> QED
      BY <2>1, <3>1, <3>2, <3>3 DEF PumpStep
  <2>2. CASE ~ (m.enqueued # <<>> /\ Cardinality(DOMAIN m.byKey) < limit)
    <3>1. Cardinality(DOMAIN m.byKey) <= limit /\ Cardinality(DOMAIN m.byKey) \in Nat
      BY <1>1 DEF Ready
    <3>2. PumpStep(m) = m
      BY <2>2 DEF PumpStep
    <3> QED
      BY <2>2, <3>1, <3>2
  <2> QED
    BY <2>1, <2>2
<1>5. N \in Nat /\ DOMAIN l.enqueued = 1..N
  BY <1>1, <1>2
<1> HIDE DEF N
<1>6. PumpKeeps(l, N, J)
  BY <1>2, <1>4, <1>5 DEF PumpKeeps
<1>7. PICK f \in [0..N -> J] :
         /\ f[0] = l /\ f[N] = PumpEnqueuedLimboResolutions(l)
         /\ \A k \in 1..N : f[k] = PumpStep(f[k - 1])
  BY <1>6, PumpRun
<1> DEFINE Done(m, k) == \/ Len(m.enqueued) <= N - k
                         \/ Cardinality(DOMAIN m.byKey) = limit
           T == {k \in 0..N : Done(f[k], k)}
<1>8. \A k \in 0..N : f[k] \in J /\ f[k].enqueued \in Seq(Docs)
                      /\ Len(f[k].enqueued) \in Nat
  BY <1>1, <1>7
<1>9. T \in SUBSET (0..N) /\ 0 \in T
  BY <1>5, <1>7 DEF N
<1>10. ASSUME NEW k \in 1..N, k - 1 \in T PROVE k \in T
  <2>1. k - 1 \in 0..N /\ k \in 0..N /\ Done(f[k - 1], k - 1)
    BY <1>5, <1>10
  <2>2. f[k] = PumpStep(f[k - 1])
    BY <1>7
  <2>3. CASE f[k - 1].enqueued # <<>> /\ Cardinality(DOMAIN f[k - 1].byKey) < limit
    <3>1. Len(f[k].enqueued) = Len(f[k - 1].enqueued) - 1
      BY <1>4, <1>8, <2>1, <2>2, <2>3
    <3>2. Cardinality(DOMAIN f[k - 1].byKey) \in Nat
      BY <1>1, <1>8, <2>1
    <3>3. Len(f[k - 1].enqueued) <= N - (k - 1)
      BY <2>1, <2>3, <3>2
    <3>4. Done(f[k], k)
      BY <1>5, <1>8, <2>1, <3>1, <3>3
    <3> QED
      BY <2>1, <3>4
  <2>4. CASE /\ f[k - 1].enqueued = <<>> \/ Cardinality(DOMAIN f[k - 1].byKey) = limit
             /\ f[k] = f[k - 1]
    <3>1. Len(f[k].enqueued) = 0 \/ Cardinality(DOMAIN f[k].byKey) = limit
      BY <2>4
    <3>2. Done(f[k], k)
      BY <1>5, <2>1, <3>1
    <3> QED
      BY <2>1, <3>2
  <2> QED
    BY <1>4, <1>8, <2>1, <2>2, <2>3, <2>4
<1> HIDE DEF T
<1>11. N \in T /\ n \in J /\ n = f[N]
  <2>1. \A k \in 0..N : k \in T
    BY <1>5, <1>9, <1>10, CountUp
  <2> QED
    BY <1>5, <1>7, <1>8, <2>1
<1>12. SlotsUsed(n)
  <2>1. Done(n, N)
    BY <1>11 DEF T
  <2>2. n.enqueued \in Seq(Docs)
    BY <1>1, <1>11
  <2>3. Len(n.enqueued) <= 0 => n.enqueued = <<>>
    BY <2>2
  <2> QED
    BY <1>5, <2>1, <2>3 DEF SlotsUsed
<1> QED
  BY <1>1, <1>11, <1>12

\* A document comes into limbo: it is resolved or it waits.
LEMMA TrackProperties ==
    ASSUME limit \in Nat, NEW l, Ready(l), SlotsUsed(l), NEW d \in Docs,
           NEW n, n = TrackLimboChange(l, d)
    PROVE  /\ Ready(n) /\ SlotsUsed(n) /\ n.refs = l.refs /\ n.ok = l.ok
           /\ Waiting(l) \subseteq Waiting(n) /\ d \in Waiting(n)
PROOF
<1>1. CASE d \in DOMAIN l.byKey
  BY <1>1 DEF TrackLimboChange, Waiting
<1>2. CASE d \notin DOMAIN l.byKey
  <2>1. l \in LimboMembers /\ l.enqueued \in Seq(Docs)
    BY MemberTypes DEF Ready
  <2>2. PICK more : more = Append(l.enqueued, d)
    OBVIOUS
  <2>3. /\ more \in Seq(Docs) /\ d \in Range(more)
        /\ Range(l.enqueued) \subseteq Range(more)
    <3>1. /\ more \in Seq(Docs) /\ Len(more) = Len(l.enqueued) + 1
          /\ DOMAIN more = 1..(Len(l.enqueued) + 1) /\ Len(l.enqueued) \in Nat
          /\ DOMAIN l.enqueued = 1..Len(l.enqueued)
          /\ more[Len(l.enqueued) + 1] = d
          /\ \A i \in 1..Len(l.enqueued) : more[i] = l.enqueued[i]
      BY <2>1, <2>2, AppendProperties
    <3> QED
      BY <3>1 DEF Range
  <2>4. PICK m : m = [l EXCEPT !.enqueued = more]
    OBVIOUS
  <2>5. /\ m \in LimboMembers /\ m.refs = l.refs /\ m.ok = l.ok /\ m.enqueued = more
        /\ m.byKey = l.byKey /\ m.byTarget = l.byTarget /\ m.listens = l.listens
        /\ m.nextId = l.nextId
    BY <2>1, <2>3, <2>4 DEF LimboMembers
  <2>6. Ready(m)
    BY <2>5 DEF Ready, Resolving
  <2>7. Waiting(l) \subseteq Waiting(m) /\ d \in Waiting(m)
    BY <2>3, <2>5 DEF Waiting
  <2>8. n = PumpEnqueuedLimboResolutions(m)
    BY <1>2, <2>2, <2>4 DEF TrackLimboChange
  <2>9. /\ Ready(n) /\ SlotsUsed(n) /\ n.refs = m.refs /\ n.ok = m.ok
        /\ Waiting(m) \subseteq Waiting(n)
    BY <2>6, <2>8, PumpProperties
  <2> QED
    BY <2>5, <2>7, <2>9
<1> QED
  BY <1>1, <1>2

\* A resolution ends: the document and the target leave the maps.
LEMMA ForgetProperties ==
    ASSUME NEW l, Ready(l), NEW d, NEW t,
           \A e \in DOMAIN l.byKey \ {d} : l.byKey[e] # t,
           limit \in Nat, NEW n, n = Forget(l, d, t)
    PROVE  /\ Ready(n) /\ n.refs = l.refs /\ n.ok = l.ok
           /\ n.enqueued = l.enqueued /\ DOMAIN n.byKey = DOMAIN l.byKey \ {d}
           /\ \A e \in Waiting(l) : e # d => e \in Waiting(n)
PROOF
<1>1. /\ l \in LimboMembers /\ l.byKey \in KeyMaps /\ l.byTarget \in TargetMaps
      /\ l.listens \in SUBSET Nat
  BY MemberTypes DEF Ready
<1>2. PICK K : K = Restrict(l.byKey, DOMAIN l.byKey \ {d})
  OBVIOUS
<1>3. PICK T : T = Restrict(l.byTarget, DOMAIN l.byTarget \ {t})
  OBVIOUS
<1>4. PICK ls : ls = l.listens \ {t}
  OBVIOUS
<1>5. n = [l EXCEPT !.byKey = K, !.byTarget = T, !.listens = ls]
  BY <1>2, <1>3, <1>4 DEF Forget
<1>6. /\ K \in KeyMaps /\ DOMAIN K = DOMAIN l.byKey \ {d}
      /\ \A e \in DOMAIN K : K[e] = l.byKey[e]
  <2>1. PICK map \in KeyMaps : map = l.byKey
    BY <1>1
  <2>2. PICK S \in SUBSET (DOMAIN map) : S = DOMAIN map \ {d}
    OBVIOUS
  <2>3. K = Restrict(map, S)
    BY <1>2, <2>1, <2>2
  <2>4. /\ K \in KeyMaps /\ DOMAIN K = S
        /\ \A e \in DOMAIN K : K[e] = map[e]
    BY ONLY map \in KeyMaps, S \in SUBSET (DOMAIN map), <2>3, RestrictedKeys
  <2> QED
    BY <2>1, <2>2, <2>4
<1>7. /\ T \in TargetMaps /\ DOMAIN T = DOMAIN l.byTarget \ {t}
      /\ \A u \in DOMAIN T : T[u] = l.byTarget[u]
  <2>1. PICK map \in TargetMaps : map = l.byTarget
    BY <1>1
  <2>2. PICK S \in SUBSET (DOMAIN map) : S = DOMAIN map \ {t}
    OBVIOUS
  <2>3. T = Restrict(map, S)
    BY <1>3, <2>1, <2>2
  <2>4. /\ T \in TargetMaps /\ DOMAIN T = S
        /\ \A u \in DOMAIN T : T[u] = map[u]
    BY ONLY map \in TargetMaps, S \in SUBSET (DOMAIN map), <2>3, RestrictedTargets
  <2> QED
    BY <2>1, <2>2, <2>4
<1>8. ls \in SUBSET Nat
  BY <1>1, <1>4
<1>9. /\ n \in LimboMembers /\ n.refs = l.refs /\ n.ok = l.ok
      /\ n.enqueued = l.enqueued /\ n.byKey = K /\ n.byTarget = T
      /\ n.listens = ls /\ n.nextId = l.nextId
  BY <1>1, <1>5, <1>6, <1>7, <1>8, ZenonT(40) DEF LimboMembers
<1>10. Resolving(n)
  <2>1. /\ l.listens = DOMAIN l.byTarget
        /\ \A u \in DOMAIN l.byTarget : u \in 1..(l.nextId - 1)
        /\ \A e \in DOMAIN l.byKey : /\ l.byKey[e] \in DOMAIN l.byTarget
                                     /\ l.byTarget[l.byKey[e]].key = e
    BY DEF Ready, Resolving
  <2>2. n.listens = DOMAIN n.byTarget
    BY <1>4, <1>7, <1>9, <2>1
  <2>3. \A u \in DOMAIN n.byTarget : u \in 1..(n.nextId - 1)
    BY <1>7, <1>9, <2>1
  <2>4. ASSUME NEW e \in DOMAIN n.byKey
        PROVE  n.byKey[e] \in DOMAIN n.byTarget /\ n.byTarget[n.byKey[e]].key = e
    BY <1>6, <1>7, <1>9, <2>1
  <2> QED
    BY <2>2, <2>3, <2>4 DEF Resolving
<1>11. Cardinality(DOMAIN n.byKey) <= limit
  <2>1. PICK S, R : S = DOMAIN l.byKey /\ R = DOMAIN n.byKey
    OBVIOUS
  <2>2. IsFiniteSet(S) /\ Cardinality(S) \in Nat /\ Cardinality(S) <= limit
    BY <1>1, <2>1, KeyMapType DEF Ready
  <2>3. R \subseteq S
    BY <1>6, <1>9, <2>1
  <2>4. Cardinality(R) <= Cardinality(S) /\ Cardinality(R) \in Nat
    BY <2>2, <2>3, FS_Subset, FS_CardinalityType
  <2> QED
    BY <2>1, <2>2, <2>4
<1>12. \A e \in Waiting(l) : e # d => e \in Waiting(n)
  BY <1>6, <1>9 DEF Waiting
<1> QED
  BY <1>6, <1>9, <1>10, <1>11, <1>12 DEF Ready

\* ... and the next one begins.
LEMMA RejectedProperties ==
    ASSUME limit \in Nat, NEW l, Ready(l), NEW d, NEW t,
           \A e \in DOMAIN l.byKey \ {d} : l.byKey[e] # t,
           NEW n, n = RejectedLimbo(l, d, t)
    PROVE  /\ Ready(n) /\ SlotsUsed(n) /\ n.refs = l.refs /\ n.ok = l.ok
           /\ \A e \in Waiting(l) : e # d => e \in Waiting(n)
PROOF
<1>1. PICK m : m = Forget(l, d, t)
  OBVIOUS
<1>2. /\ Ready(m) /\ m.refs = l.refs /\ m.ok = l.ok
      /\ \A e \in Waiting(l) : e # d => e \in Waiting(m)
  BY <1>1, ForgetProperties
<1>3. n = PumpEnqueuedLimboResolutions(m)
  BY <1>1 DEF RejectedLimbo
<1>4. /\ Ready(n) /\ SlotsUsed(n) /\ n.refs = m.refs /\ n.ok = m.ok
      /\ Waiting(m) \subseteq Waiting(n)
  BY <1>2, <1>3, PumpProperties
<1> QED
  BY <1>2, <1>4

\* RemoveLimboTarget stops a listen that RemoteStore knows.
LEMMA RemoveTargetProperties ==
    ASSUME limit \in Nat, NEW l, Ready(l), SlotsUsed(l), NEW d,
           NEW n, n = RemoveLimboTarget(l, d)
    PROVE  /\ Ready(n) /\ SlotsUsed(n) /\ n.refs = l.refs /\ n.ok = l.ok
           /\ \A e \in Waiting(l) : e # d => e \in Waiting(n)
PROOF
<1>1. CASE d \notin DOMAIN l.byKey
  BY <1>1 DEF RemoveLimboTarget
<1>2. CASE d \in DOMAIN l.byKey
  <2>1. PICK t : t = l.byKey[d]
    OBVIOUS
  <2>2. /\ l.byKey[d] \in l.listens
        /\ \A e \in DOMAIN l.byKey \ {d} : l.byKey[e] # t
    <3>1. /\ l.listens = DOMAIN l.byTarget
          /\ \A e \in DOMAIN l.byKey : /\ l.byKey[e] \in DOMAIN l.byTarget
                                       /\ l.byTarget[l.byKey[e]].key = e
      BY DEF Ready, Resolving
    <3>2. ASSUME NEW e \in DOMAIN l.byKey \ {d} PROVE l.byKey[e] # t
      <4>1. l.byTarget[l.byKey[e]].key = e /\ l.byTarget[l.byKey[d]].key = d
        BY <1>2, <3>1
      <4> QED
        BY <2>1, <4>1
    <3> QED
      BY <1>2, <3>1, <3>2
  <2>3. PICK m : m = Forget(l, d, t)
    OBVIOUS
  <2>4. /\ Ready(m) /\ m.refs = l.refs /\ m.ok = l.ok
        /\ \A e \in Waiting(l) : e # d => e \in Waiting(m)
    BY <2>2, <2>3, ForgetProperties
  <2>5. m \in LimboMembers /\ m.ok \in BOOLEAN
    BY <2>4, MemberTypes DEF Ready
  <2>6. [m EXCEPT !.ok = @ /\ l.byKey[d] \in l.listens] = m
    BY <2>2, <2>5 DEF LimboMembers
  <2>7. n = PumpEnqueuedLimboResolutions(m)
    BY <1>2, <2>1, <2>3, <2>6 DEF RemoveLimboTarget
  <2>8. /\ Ready(n) /\ SlotsUsed(n) /\ n.refs = m.refs /\ n.ok = m.ok
        /\ Waiting(m) \subseteq Waiting(n)
    BY <2>4, <2>7, PumpProperties
  <2> QED
    BY <2>4, <2>8
<1> QED
  BY <1>1, <1>2

-----------------------------------------------------------------------------
(* The references of the documents in limbo.                               *)

\* A reference ends; with the last one of a document, so does the resolution.
LEMMA RemoveReferenceProperties ==
    ASSUME limit \in Nat, NEW X, NEW l, Fine(l, X), NEW d \in Docs, NEW q \in Queries,
           NEW n, n = RemoveReference(l, d, q)
    PROVE  Fine(n, X) /\ n.refs = l.refs \ {<<d, q>>}
PROOF
<1>1. l \in LimboMembers /\ l.refs \in SUBSET (Docs \X Queries)
  BY MemberTypes DEF Fine, Ready
<1>2. PICK rs : rs = l.refs \ {<<d, q>>}
  OBVIOUS
<1>3. rs \in SUBSET (Docs \X Queries)
  BY <1>1, <1>2
<1>4. PICK m : m = [l EXCEPT !.refs = rs]
  OBVIOUS
<1>5. /\ m \in LimboMembers /\ m.refs = rs /\ m.ok = l.ok
      /\ m.enqueued = l.enqueued /\ m.byKey = l.byKey /\ m.byTarget = l.byTarget
      /\ m.listens = l.listens /\ m.nextId = l.nextId
  BY <1>1, <1>3, <1>4 DEF LimboMembers
<1>6. Ready(m) /\ SlotsUsed(m) /\ m.ok /\ Waiting(m) = Waiting(l)
  BY <1>5 DEF Fine, Ready, Resolving, SlotsUsed, Waiting
<1>7. \A e \in Docs : \A p \in Queries :
         <<e, p>> \in m.refs /\ e \notin X => e \in Waiting(m)
  BY <1>2, <1>5, <1>6 DEF Fine, Tracked
<1>8. CASE Referenced(m, d)
  <2>1. n = m
    BY <1>2, <1>4, <1>8 DEF RemoveReference
  <2> QED
    BY <1>2, <1>5, <1>6, <1>7, <2>1 DEF Fine, Tracked
<1>9. CASE ~ Referenced(m, d)
  <2>1. n = RemoveLimboTarget(m, d)
    BY <1>2, <1>4, <1>9 DEF RemoveReference
  <2>2. /\ Ready(n) /\ SlotsUsed(n) /\ n.refs = m.refs /\ n.ok = m.ok
        /\ \A e \in Waiting(m) : e # d => e \in Waiting(n)
    BY <1>6, <2>1, RemoveTargetProperties
  <2>3. ASSUME NEW e \in Docs, NEW p \in Queries, <<e, p>> \in n.refs, e \notin X
        PROVE  e \in Waiting(n)
    <3>1. <<e, p>> \in m.refs
      BY <2>2, <2>3
    <3>2. e # d
      BY <1>9, <3>1 DEF Referenced
    <3> QED
      BY <1>7, <2>2, <2>3, <3>1, <3>2
  <2> QED
    BY <1>2, <1>5, <1>6, <2>2, <2>3 DEF Fine, Tracked
<1> QED
  BY <1>8, <1>9

\* A reference begins.
LEMMA AddReferenceProperties ==
    ASSUME limit \in Nat, NEW X, NEW l, Fine(l, X), NEW d \in Docs, NEW q \in Queries,
           NEW n, n = AddReference(l, d, q)
    PROVE  Fine(n, X) /\ n.refs = l.refs \cup {<<d, q>>}
PROOF
<1>1. l \in LimboMembers /\ l.refs \in SUBSET (Docs \X Queries)
  BY MemberTypes DEF Fine, Ready
<1>2. PICK rs : rs = l.refs \cup {<<d, q>>}
  OBVIOUS
<1>3. rs \in SUBSET (Docs \X Queries)
  BY <1>1, <1>2
<1>4. PICK m : m = [l EXCEPT !.refs = rs]
  OBVIOUS
<1>5. /\ m \in LimboMembers /\ m.refs = rs /\ m.ok = l.ok
      /\ m.enqueued = l.enqueued /\ m.byKey = l.byKey /\ m.byTarget = l.byTarget
      /\ m.listens = l.listens /\ m.nextId = l.nextId
  BY <1>1, <1>3, <1>4 DEF LimboMembers
<1>6. Ready(m) /\ SlotsUsed(m) /\ m.ok /\ Waiting(m) = Waiting(l)
  BY <1>5 DEF Fine, Ready, Resolving, SlotsUsed, Waiting
<1>7. n = TrackLimboChange(m, d)
  BY <1>2, <1>4 DEF AddReference
<1>8. /\ Ready(n) /\ SlotsUsed(n) /\ n.refs = m.refs /\ n.ok = m.ok
      /\ Waiting(m) \subseteq Waiting(n) /\ d \in Waiting(n)
  BY <1>6, <1>7, TrackProperties
<1>9. ASSUME NEW e \in Docs, NEW p \in Queries, <<e, p>> \in n.refs, e \notin X
      PROVE  e \in Waiting(n)
  <2>1. CASE e = d
    BY <1>8, <2>1
  <2>2. CASE e # d
    <3>1. <<e, p>> \in l.refs
      BY <1>2, <1>5, <1>8, <1>9, <2>2
    <3>2. e \in Waiting(l)
      BY <1>9, <3>1 DEF Fine, Tracked
    <3> QED
      BY <1>6, <1>8, <3>2
  <2> QED
    BY <2>1, <2>2
<1> QED
  BY <1>2, <1>5, <1>6, <1>8, <1>9 DEF Fine, Tracked

\* The elements of an order that come up to a place.
Visited(s, k) == {s[i] : i \in 1..k}

\* Place by place, they become all elements.
LEMMA VisitedProperties ==
    ASSUME NEW S, IsFiniteSet(S), NEW s \in SetToSeqs(S), NEW N, N = Len(s)
    PROVE  /\ N \in Nat /\ DOMAIN s = 1..N
           /\ Visited(s, 0) = {} /\ Visited(s, N) = S
           /\ \A k \in 1..N : /\ s[k] \in S /\ s[k] \notin Visited(s, k - 1)
                              /\ Visited(s, k) = Visited(s, k - 1) \cup {s[k]}
PROOF
<1>1. /\ N \in Nat /\ DOMAIN s = 1..N
      /\ \A i \in 1..N : s[i] \in S
      /\ \A i, j \in 1..N : s[i] = s[j] => i = j
      /\ \A x \in S : \E i \in 1..N : s[i] = x
  BY OrderProperties
<1>2. Visited(s, 0) = {}
  BY DEF Visited
<1>3. Visited(s, N) = S
  BY <1>1 DEF Visited
<1>4. ASSUME NEW k \in 1..N
      PROVE  /\ s[k] \in S /\ s[k] \notin Visited(s, k - 1)
             /\ Visited(s, k) = Visited(s, k - 1) \cup {s[k]}
  <2>1. /\ 1..k = (1..(k - 1)) \cup {k} /\ k \notin 1..(k - 1)
        /\ \A i \in 1..(k - 1) : i \in 1..N
    BY <1>1
  <2>2. s[k] \notin Visited(s, k - 1)
    BY <1>1, <2>1 DEF Visited
  <2>3. Visited(s, k) = Visited(s, k - 1) \cup {s[k]}
    BY <2>1 DEF Visited
  <2> QED
    BY <1>1, <2>2, <2>3
<1> QED
  BY <1>1, <1>2, <1>3, <1>4

\* The references of m are those of l without, or with, those of S to q.
RefsWithout(m, l, q, S) ==
    \A e \in Docs : \A p \in Queries :
        <<e, p>> \in m.refs <=> <<e, p>> \in l.refs /\ ~ (p = q /\ e \in S)
RefsWith(m, l, q, S) ==
    \A e \in Docs : \A p \in Queries :
        <<e, p>> \in m.refs <=> <<e, p>> \in l.refs \/ (p = q /\ e \in S)

\* All references that are to be removed are, and nothing else changes.
LEMMA RemoveReferencesProperties ==
    ASSUME limit \in Nat, NEW X, NEW l, Fine(l, X), NEW docs \in SUBSET Docs,
           NEW q \in Queries, NEW n, n = RemoveReferences(l, q, docs)
    PROVE  Fine(n, X) /\ RefsWithout(n, l, q, docs)
PROOF
<1> DEFINE J == {m \in LimboMembers : Fine(m, X)}
<1>1. PICK s : s = InKeyOrder(docs)
  OBVIOUS
<1>2. s \in SetToSeqs(docs) /\ IsFiniteSet(docs)
  BY <1>1, InKeyOrderProperties
<1>3. PICK N : N = Len(s)
  OBVIOUS
<1>4. /\ N \in Nat /\ DOMAIN s = 1..N
      /\ Visited(s, 0) = {} /\ Visited(s, N) = docs
      /\ \A k \in 1..N : /\ s[k] \in docs /\ s[k] \notin Visited(s, k - 1)
                         /\ Visited(s, k) = Visited(s, k - 1) \cup {s[k]}
  BY <1>2, <1>3, VisitedProperties
<1>5. \A m : m \in J <=> Fine(m, X)
  BY DEF Fine, Ready
<1> HIDE DEF J
<1>6. ASSUME NEW m \in J, NEW k \in 1..N, NEW r, r = RemoveReference(m, s[k], q)
      PROVE  r \in J /\ r.refs = m.refs \ {<<s[k], q>>}
  <2>1. s[k] \in Docs
    BY <1>4
  <2>2. Fine(m, X)
    BY <1>5
  <2>3. Fine(r, X) /\ r.refs = m.refs \ {<<s[k], q>>}
    BY <1>6, <2>1, <2>2, RemoveReferenceProperties
  <2> QED
    BY <1>5, <2>3
<1>7. RemovalKeeps(l, q, docs, s, N, J)
  BY <1>1, <1>4, <1>5, <1>6 DEF RemovalKeeps
<1>8. PICK f \in [0..N -> J] :
         /\ f[0] = l /\ f[N] = RemoveReferences(l, q, docs)
         /\ \A k \in 1..N : f[k] = RemoveReference(f[k - 1], s[k], q)
  BY <1>7, RemoveRun
<1> DEFINE T == {k \in 0..N : RefsWithout(f[k], l, q, Visited(s, k))}
<1>9. T \in SUBSET (0..N) /\ 0 \in T
  BY <1>4, <1>8 DEF RefsWithout
<1>10. ASSUME NEW k \in 1..N, k - 1 \in T PROVE k \in T
  <2>1. k - 1 \in 0..N /\ k \in 0..N /\ f[k - 1] \in J
    BY <1>4
  <2>2. f[k].refs = f[k - 1].refs \ {<<s[k], q>>}
    BY <1>6, <1>8, <2>1
  <2>3. RefsWithout(f[k - 1], l, q, Visited(s, k - 1))
    BY <1>10
  <2>4. PICK v, A, B, R, S :
           /\ v = s[k] /\ A = Visited(s, k - 1) /\ B = Visited(s, k)
           /\ R = f[k - 1].refs /\ S = f[k].refs
    OBVIOUS
  <2>5. B = A \cup {v} /\ S = R \ {<<v, q>>}
    BY <1>4, <2>2, <2>4
  <2>6. \A e \in Docs : \A p \in Queries :
           /\ e \in B <=> e \in A \/ e = v
           /\ <<e, p>> \in S <=> <<e, p>> \in R /\ ~ (e = v /\ p = q)
    BY ONLY <2>5
  <2>7. RefsWithout(f[k], l, q, Visited(s, k))
    BY <2>3, <2>4, <2>6 DEF RefsWithout
  <2> QED
    BY <2>1, <2>7
<1> HIDE DEF T
<1>11. \A k \in 0..N : k \in T
  BY <1>4, <1>9, <1>10, CountUp
<1>12. N \in T /\ f[N] = n /\ f[N] \in J
  BY <1>4, <1>8, <1>11
<1>13. RefsWithout(n, l, q, docs)
  BY <1>4, <1>12 DEF T
<1> QED
  BY <1>5, <1>12, <1>13

\* All references that are to be added are.
LEMMA AddReferencesProperties ==
    ASSUME limit \in Nat, NEW X, NEW l, Fine(l, X), NEW docs \in SUBSET Docs,
           NEW q \in Queries, NEW n, n = AddReferences(l, q, docs)
    PROVE  Fine(n, X) /\ RefsWith(n, l, q, docs)
PROOF
<1> DEFINE J == {m \in LimboMembers : Fine(m, X)}
<1>1. PICK s : s = InKeyOrder(docs)
  OBVIOUS
<1>2. s \in SetToSeqs(docs) /\ IsFiniteSet(docs)
  BY <1>1, InKeyOrderProperties
<1>3. PICK N : N = Len(s)
  OBVIOUS
<1>4. /\ N \in Nat /\ DOMAIN s = 1..N
      /\ Visited(s, 0) = {} /\ Visited(s, N) = docs
      /\ \A k \in 1..N : /\ s[k] \in docs /\ s[k] \notin Visited(s, k - 1)
                         /\ Visited(s, k) = Visited(s, k - 1) \cup {s[k]}
  BY <1>2, <1>3, VisitedProperties
<1>5. \A m : m \in J <=> Fine(m, X)
  BY DEF Fine, Ready
<1> HIDE DEF J
<1>6. ASSUME NEW m \in J, NEW k \in 1..N, NEW r, r = AddReference(m, s[k], q)
      PROVE  r \in J /\ r.refs = m.refs \cup {<<s[k], q>>}
  <2>1. s[k] \in Docs
    BY <1>4
  <2>2. Fine(m, X)
    BY <1>5
  <2>3. Fine(r, X) /\ r.refs = m.refs \cup {<<s[k], q>>}
    BY <1>6, <2>1, <2>2, AddReferenceProperties
  <2> QED
    BY <1>5, <2>3
<1>7. AdditionKeeps(l, q, docs, s, N, J)
  BY <1>1, <1>4, <1>5, <1>6 DEF AdditionKeeps
<1>8. PICK f \in [0..N -> J] :
         /\ f[0] = l /\ f[N] = AddReferences(l, q, docs)
         /\ \A k \in 1..N : f[k] = AddReference(f[k - 1], s[k], q)
  BY <1>7, AddRun
<1> DEFINE T == {k \in 0..N : RefsWith(f[k], l, q, Visited(s, k))}
<1>9. T \in SUBSET (0..N) /\ 0 \in T
  BY <1>4, <1>8 DEF RefsWith
<1>10. ASSUME NEW k \in 1..N, k - 1 \in T PROVE k \in T
  <2>1. k - 1 \in 0..N /\ k \in 0..N /\ f[k - 1] \in J
    BY <1>4
  <2>2. f[k].refs = f[k - 1].refs \cup {<<s[k], q>>}
    BY <1>6, <1>8, <2>1
  <2>3. RefsWith(f[k - 1], l, q, Visited(s, k - 1))
    BY <1>10
  <2>4. PICK v, A, B, R, S :
           /\ v = s[k] /\ A = Visited(s, k - 1) /\ B = Visited(s, k)
           /\ R = f[k - 1].refs /\ S = f[k].refs
    OBVIOUS
  <2>5. B = A \cup {v} /\ S = R \cup {<<v, q>>}
    BY <1>4, <2>2, <2>4
  <2>6. \A e \in Docs : \A p \in Queries :
           /\ e \in B <=> e \in A \/ e = v
           /\ <<e, p>> \in S <=> <<e, p>> \in R \/ (e = v /\ p = q)
    BY ONLY <2>5
  <2>7. RefsWith(f[k], l, q, Visited(s, k))
    BY <2>3, <2>4, <2>6 DEF RefsWith
  <2> QED
    BY <2>1, <2>7
<1> HIDE DEF T
<1>11. \A k \in 0..N : k \in T
  BY <1>4, <1>9, <1>10, CountUp
<1>12. N \in T /\ f[N] = n /\ f[N] \in J
  BY <1>4, <1>8, <1>11
<1>13. RefsWith(n, l, q, docs)
  BY <1>4, <1>12 DEF T
<1> QED
  BY <1>5, <1>12, <1>13

\* The references of l to q were old, and those of n are new.
RefsReplaced(n, l, q, old, new) ==
    (\A e \in Docs : <<e, q>> \in l.refs <=> e \in old) =>
        \A e \in Docs : \A p \in Queries :
            <<e, p>> \in n.refs <=> IF p = q THEN e \in new ELSE <<e, p>> \in l.refs

\* The limbo documents of a view were old and are new: so are its references.
LEMMA UpdateTrackedProperties ==
    ASSUME limit \in Nat, NEW X, NEW l, Fine(l, X), NEW q \in Queries,
           NEW old \in SUBSET Docs, NEW new \in SUBSET Docs,
           NEW n, n = UpdateTrackedLimboDocuments(l, q, old, new)
    PROVE  Fine(n, X) /\ RefsReplaced(n, l, q, old, new)
PROOF
<1>1. PICK gone \in SUBSET Docs, come \in SUBSET Docs :
         gone = old \ new /\ come = new \ old
  OBVIOUS
<1>2. PICK m : m = RemoveReferences(l, q, gone)
  OBVIOUS
<1>3. n = AddReferences(m, q, come)
  BY <1>1, <1>2 DEF UpdateTrackedLimboDocuments
<1>4. Fine(m, X) /\ RefsWithout(m, l, q, gone)
  BY <1>2, RemoveReferencesProperties
<1>5. Fine(n, X) /\ RefsWith(n, m, q, come)
  BY <1>3, <1>4, AddReferencesProperties
<1>6. ASSUME \A e \in Docs : <<e, q>> \in l.refs <=> e \in old,
             NEW e \in Docs, NEW p \in Queries
      PROVE  <<e, p>> \in n.refs <=>
                 IF p = q THEN e \in new ELSE <<e, p>> \in l.refs
  <2>1. /\ <<e, p>> \in m.refs <=> <<e, p>> \in l.refs /\ ~ (p = q /\ e \in gone)
        /\ <<e, p>> \in n.refs <=> <<e, p>> \in m.refs \/ (p = q /\ e \in come)
    BY <1>4, <1>5 DEF RefsWithout, RefsWith
  <2>2. p = q => (<<e, p>> \in l.refs <=> e \in old)
    BY <1>6
  <2> QED
    BY <1>1, <2>1, <2>2
<1> QED
  BY <1>5, <1>6 DEF RefsReplaced

\* The references of l are the documents in limbo of the views.
RefsAre(l, inLimbo) ==
    \A e \in Docs : \A p \in Queries : <<e, p>> \in l.refs <=> e \in inLimbo[p]

\* ... those of the queries of A are new.
RefsMixed(l, A, old, new) ==
    \A e \in Docs : \A p \in Queries :
        <<e, p>> \in l.refs <=> IF p \in A THEN e \in new[p] ELSE e \in old[p]

\* All views are tracked.
LEMMA TrackViewsProperties ==
    ASSUME limit \in Nat, NEW X, NEW l, Fine(l, X),
           NEW old \in [Queries -> SUBSET Docs], NEW new \in [Queries -> SUBSET Docs],
           RefsAre(l, old),
           NEW qs \in SUBSET Queries, \A p \in Queries \ qs : old[p] = new[p],
           NEW order \in SetToSeqs(qs),
           NEW n, n = TrackViews(l, order, old, new)
    PROVE  Fine(n, X) /\ RefsAre(n, new)
PROOF
<1> DEFINE J == {m \in LimboMembers : Fine(m, X)}
<1>1. PICK N : N = Len(order)
  OBVIOUS
<1>2. IsFiniteSet(qs)
  BY LimboAssumption, FS_Subset
<1>3. /\ N \in Nat /\ DOMAIN order = 1..N
      /\ Visited(order, 0) = {} /\ Visited(order, N) = qs
      /\ \A k \in 1..N : /\ order[k] \in qs /\ order[k] \notin Visited(order, k - 1)
                         /\ Visited(order, k) = Visited(order, k - 1) \cup {order[k]}
  BY <1>1, <1>2, VisitedProperties
<1>4. \A m : m \in J <=> Fine(m, X)
  BY DEF Fine, Ready
<1> HIDE DEF J
<1>5. ASSUME NEW m \in J, NEW k \in 1..N, NEW r, r = TrackStep(m, order[k], old, new)
      PROVE  r \in J /\ RefsReplaced(r, m, order[k], old[order[k]], new[order[k]])
  <2>1. PICK q \in Queries : q = order[k]
    BY <1>3
  <2>2. PICK was \in SUBSET Docs, is \in SUBSET Docs : was = old[q] /\ is = new[q]
    OBVIOUS
  <2>3. r = UpdateTrackedLimboDocuments(m, q, was, is)
    BY <1>5, <2>1, <2>2 DEF TrackStep
  <2>4. Fine(m, X)
    BY <1>4
  <2>5. Fine(r, X) /\ RefsReplaced(r, m, q, was, is)
    BY ONLY limit \in Nat, q \in Queries, was \in SUBSET Docs, is \in SUBSET Docs,
            <2>3, <2>4, UpdateTrackedProperties
  <2> QED
    BY <1>4, <2>1, <2>2, <2>5
<1>6. TrackingKeeps(l, order, old, new, N, J)
  BY <1>3, <1>4, <1>5 DEF TrackingKeeps
<1>7. PICK f \in [0..N -> J] :
         /\ f[0] = l /\ f[N] = TrackViews(l, order, old, new)
         /\ \A k \in 1..N : f[k] = TrackStep(f[k - 1], order[k], old, new)
  BY <1>6, TrackRun
<1> DEFINE T == {k \in 0..N : RefsMixed(f[k], Visited(order, k), old, new)}
<1>8. T \in SUBSET (0..N) /\ 0 \in T
  BY <1>3, <1>7 DEF RefsMixed, RefsAre
<1>9. ASSUME NEW k \in 1..N, k - 1 \in T PROVE k \in T
  <2>1. k - 1 \in 0..N /\ k \in 0..N /\ f[k - 1] \in J
    BY <1>3
  <2>2. PICK q, A, B, m, r :
           /\ q = order[k] /\ A = Visited(order, k - 1) /\ B = Visited(order, k)
           /\ m = f[k - 1] /\ r = f[k]
    OBVIOUS
  <2>3. B = A \cup {q} /\ q \notin A /\ q \in Queries
    BY <1>3, <2>2
  <2>4. RefsMixed(m, A, old, new)
    BY <1>9, <2>2
  <2>5. \A e \in Docs : <<e, q>> \in m.refs <=> e \in old[q]
    BY <2>3, <2>4 DEF RefsMixed
  <2>6. r = TrackStep(m, order[k], old, new) /\ m \in J
    BY <1>7, <2>1, <2>2
  <2>7. \A e \in Docs : \A p \in Queries :
           <<e, p>> \in r.refs <=> IF p = q THEN e \in new[q] ELSE <<e, p>> \in m.refs
    <3>1. RefsReplaced(r, m, q, old[q], new[q])
      BY <1>5, <2>2, <2>6
    <3> QED
      BY <2>5, <3>1 DEF RefsReplaced
  <2>8. RefsMixed(r, B, old, new)
    BY ONLY <2>3, <2>4, <2>7 DEF RefsMixed
  <2> QED
    BY <2>1, <2>2, <2>8
<1> HIDE DEF T
<1>10. \A k \in 0..N : k \in T
  BY <1>3, <1>8, <1>9, CountUp
<1>11. N \in T /\ f[N] = n /\ f[N] \in J
  BY <1>3, <1>7, <1>10
<1>12. RefsMixed(n, qs, old, new)
  BY <1>3, <1>11 DEF T
<1>13. RefsAre(n, new)
  BY <1>12 DEF RefsAre, RefsMixed
<1> QED
  BY <1>4, <1>11, <1>13

\* A query ends: its references go, and nothing is tracked less for the others.
LEMMA CleanupProperties ==
    ASSUME limit \in Nat, NEW X, NEW l, Fine(l, X), NEW q \in Queries,
           NEW n, n = RemoveAndCleanupTarget(l, q)
    PROVE  /\ Fine(n, X)
           /\ \A e \in Docs : \A p \in Queries :
                 <<e, p>> \in n.refs <=> p # q /\ <<e, p>> \in l.refs
PROOF
<1>1. l \in LimboMembers /\ l.refs \in SUBSET (Docs \X Queries)
  BY MemberTypes DEF Fine, Ready
<1>2. PICK rs : rs = {r \in l.refs : r[2] # q}
  OBVIOUS
<1>3. PICK docs : docs = {d \in Docs : <<d, q>> \in l.refs}
  OBVIOUS
<1>4. /\ rs \in SUBSET (Docs \X Queries) /\ docs \in SUBSET Docs
      /\ \A e \in Docs : \A p \in Queries :
            <<e, p>> \in rs <=> p # q /\ <<e, p>> \in l.refs
  BY <1>1, <1>2, <1>3
<1>5. PICK m : m = [l EXCEPT !.refs = rs]
  OBVIOUS
<1>6. /\ m \in LimboMembers /\ m.refs = rs /\ m.ok = l.ok
      /\ m.enqueued = l.enqueued /\ m.byKey = l.byKey /\ m.byTarget = l.byTarget
      /\ m.listens = l.listens /\ m.nextId = l.nextId
  BY <1>1, <1>4, <1>5 DEF LimboMembers
<1>7. Fine(m, X)
  <2>1. Ready(m) /\ SlotsUsed(m) /\ m.ok /\ Waiting(m) = Waiting(l)
    BY <1>6 DEF Fine, Ready, Resolving, SlotsUsed, Waiting
  <2>2. Tracked(m, X)
    BY <1>4, <1>6, <2>1 DEF Fine, Tracked
  <2> QED
    BY <2>1, <2>2 DEF Fine
<1>8. n = RemoveUnreferenced(m, docs)
  BY <1>2, <1>3, <1>5 DEF RemoveAndCleanupTarget
<1> DEFINE J == {c \in LimboMembers : Fine(c, X) /\ c.refs = rs}
<1>9. \A c : c \in J <=> Fine(c, X) /\ c.refs = rs
  BY DEF Fine, Ready
<1> HIDE DEF J
<1>10. PICK s : s = InKeyOrder(docs)
  OBVIOUS
<1>11. s \in SetToSeqs(docs) /\ IsFiniteSet(docs)
  BY <1>4, <1>10, InKeyOrderProperties
<1>12. PICK N : N = Len(s)
  OBVIOUS
<1>13. N \in Nat /\ DOMAIN s = 1..N /\ \A k \in 1..N : s[k] \in docs
  BY <1>11, <1>12, VisitedProperties
<1>14. ASSUME NEW c \in J, NEW k \in 1..N, NEW r, r = CleanupStep(c, s[k])
       PROVE  r \in J
  <2>1. PICK d \in Docs : d = s[k]
    BY <1>4, <1>13
  <2>2. Fine(c, X) /\ c.refs = rs
    BY <1>9
  <2>3. CASE Referenced(c, d)
    <3>1. r = c
      BY <1>14, <2>1, <2>3 DEF CleanupStep
    <3> QED
      BY <3>1
  <2>4. CASE ~ Referenced(c, d)
    <3>1. r = RemoveLimboTarget(c, d)
      BY <1>14, <2>1, <2>4 DEF CleanupStep
    <3>2. Ready(c) /\ SlotsUsed(c) /\ c.ok
      BY <2>2 DEF Fine
    <3>3. /\ Ready(r) /\ SlotsUsed(r) /\ r.refs = c.refs /\ r.ok = c.ok
          /\ \A e \in Waiting(c) : e # d => e \in Waiting(r)
      BY <3>1, <3>2, RemoveTargetProperties
    <3>4. ASSUME NEW e \in Docs, NEW p \in Queries, <<e, p>> \in r.refs, e \notin X
          PROVE  e \in Waiting(r)
      <4>1. <<e, p>> \in c.refs
        BY <3>3, <3>4
      <4>2. e # d
        BY <2>4, <4>1 DEF Referenced
      <4>3. e \in Waiting(c)
        BY <2>2, <3>4, <4>1 DEF Fine, Tracked
      <4> QED
        BY <3>3, <4>2, <4>3
    <3>5. Fine(r, X)
      BY <3>2, <3>3, <3>4 DEF Fine, Tracked
    <3> QED
      BY <1>9, <2>2, <3>3, <3>5
  <2> QED
    BY <2>3, <2>4
<1>15. m \in J
  BY <1>6, <1>7, <1>9
<1>16. CleanupKeeps(m, docs, s, N, J)
  BY <1>10, <1>13, <1>14, <1>15 DEF CleanupKeeps
<1>17. PICK f \in [0..N -> J] : f[N] = RemoveUnreferenced(m, docs)
  BY <1>16, CleanupRun
<1>18. n \in J
  BY <1>8, <1>13, <1>17
<1> QED
  BY <1>4, <1>9, <1>18

\* What the backend says of the documents of limbo targets: only `received` moves.
LEMMA ReceivedProperties ==
    ASSUME limit \in Nat, NEW X, NEW l, Fine(l, X), NEW E, NEW n, n = Received(l, E)
    PROVE  Fine(n, X) /\ n.refs = l.refs
PROOF
<1>1. l \in LimboMembers /\ l.byTarget \in TargetMaps
  BY MemberTypes DEF Fine, Ready
<1>2. DOMAIN l.byTarget \in SUBSET Nat /\ \A t \in DOMAIN l.byTarget :
                                             l.byTarget[t] \in Resolution
  <2>1. PICK map \in TargetMaps : map = l.byTarget
    BY <1>1
  <2> QED
    BY <2>1, TargetMapType
<1> DEFINE Lookup(r) == [r EXCEPT !.received = (server[r.key] # NoDoc)]
           T == [t \in DOMAIN l.byTarget |-> IF t \in E THEN Lookup(l.byTarget[t])
                                             ELSE l.byTarget[t]]
<1>3. n = [l EXCEPT !.byTarget = T]
  BY DEF Received
<1>4. \A r \in Resolution : Lookup(r) \in Resolution /\ Lookup(r).key = r.key
  BY DEF Resolution
<1> HIDE DEF Lookup
<1>5. T \in [DOMAIN l.byTarget -> Resolution]
  BY <1>2, <1>4
<1>6. \A t \in DOMAIN l.byTarget : T[t].key = l.byTarget[t].key
  BY <1>2, <1>4
<1> HIDE DEF T
<1>7. T \in TargetMaps /\ DOMAIN T = DOMAIN l.byTarget
  BY <1>2, <1>5 DEF TargetMaps
<1>8. /\ n \in LimboMembers /\ n.byTarget = T /\ n.refs = l.refs
      /\ n.ok = l.ok /\ n.enqueued = l.enqueued /\ n.byKey = l.byKey
      /\ n.listens = l.listens /\ n.nextId = l.nextId
  BY <1>1, <1>3, <1>7 DEF LimboMembers
<1>9. Resolving(n)
  BY <1>6, <1>7, <1>8 DEF Fine, Ready, Resolving
<1> QED
  BY <1>8, <1>9 DEF Fine, Ready, SlotsUsed, Tracked, Waiting

-----------------------------------------------------------------------------
(* The inductive invariant.                                                *)

View == [listening : BOOLEAN, synced : SUBSET Docs, current : BOOLEAN,
         limbo : SUBSET Docs]

\* The documents in limbo of the views vs.
LimbosOf(vs) == [q \in Queries |-> vs[q].limbo]

\* A view that is not listened to is empty; one that is current has in limbo what
\* the cache has and the backend has not.
IdleInv(v) == v.listening \/ (v.limbo = {} /\ ~ v.current)
CurrentInv(v, docs, q) == v.current => v.limbo = Results(docs, q) \ v.synced

LTypes ==
    /\ limit \in Limits
    /\ server \in [Docs -> Contents] /\ cache \in [Docs -> Contents]
    /\ views \in [Queries -> View]
    /\ caughtUp \subseteq ActiveTargets /\ denied \subseteq Docs

ViewsInv ==
    \A q \in Queries :
        /\ IdleInv(views[q]) /\ CurrentInv(views[q], cache, q)
        /\ q \in caughtUp => views[q].listening /\ views[q].current

LInv ==
    /\ LTypes /\ Fine(limbo, denied) /\ RefsAre(limbo, LimbosOf(views))
    /\ ViewsInv /\ asserted

\* The limit is a number, and the queries are no limbo targets.
LEMMA LimitIsNumber ==
    ASSUME LTypes
    PROVE  limit \in Nat /\ limit # 0
PROOF
  BY LimboAssumption DEF LTypes

\* What EmitNewSnapshots leaves behind: the references are those of the new views.
LEMMA EmitProperties ==
    ASSUME limit \in Nat, NEW vs \in [Queries -> View], NEW docs, NEW X,
           NEW l, Fine(l, X), RefsAre(l, LimbosOf(vs)),
           \A q \in Queries : IdleInv(vs[q]),
           EmitNewSnapshots(vs, docs, l), asserted
    PROVE  /\ cache' = docs /\ views' \in [Queries -> View] /\ asserted'
           /\ Fine(limbo', X) /\ RefsAre(limbo', LimbosOf(views'))
           /\ \A q \in Queries : /\ views'[q].listening = vs[q].listening
                                 /\ views'[q].current = vs[q].current
                                 /\ views'[q].synced = vs[q].synced
                                 /\ IdleInv(views'[q]) /\ CurrentInv(views'[q], docs, q)
PROOF
<1> DEFINE New(q) == IF vs[q].listening
                     THEN UpdateLimboDocuments(vs[q], Results(docs, q)) ELSE vs[q]
           qs == {q \in Queries : vs[q].listening}
<1>1. ASSUME NEW q \in Queries
      PROVE  /\ New(q) \in View /\ New(q).listening = vs[q].listening
             /\ New(q).current = vs[q].current /\ New(q).synced = vs[q].synced
             /\ q \notin qs => New(q).limbo = vs[q].limbo
             /\ IdleInv(New(q)) /\ CurrentInv(New(q), docs, q)
  <2>1. PICK v \in View : v = vs[q]
    OBVIOUS
  <2>2. PICK res \in SUBSET Docs : res = Results(docs, q)
    BY DEF Results
  <2>3. PICK u : u = [v EXCEPT !.limbo = res \ v.synced]
    OBVIOUS
  <2>4. /\ u \in View /\ u.listening = v.listening /\ u.current = v.current
        /\ u.synced = v.synced /\ u.limbo = res \ v.synced
    BY <2>3 DEF View
  <2>5. IdleInv(v)
    BY <2>1
  <2>6. CASE v.listening /\ v.current
    <3>1. New(q) = u
      BY <2>1, <2>2, <2>3, <2>6 DEF UpdateLimboDocuments
    <3> HIDE DEF New
    <3> QED
      BY <2>1, <2>2, <2>4, <2>6, <3>1 DEF IdleInv, CurrentInv
  <2>7. CASE ~ (v.listening /\ v.current)
    <3>1. New(q) = v
      BY <2>1, <2>7 DEF UpdateLimboDocuments
    <3> HIDE DEF New
    <3>2. ~ v.current
      BY <2>5, <2>7 DEF IdleInv
    <3> QED
      BY <2>1, <2>5, <3>1, <3>2 DEF CurrentInv
  <2> QED
    BY <2>6, <2>7
<1>2. /\ cache' = docs /\ views' = [q \in Queries |-> New(q)]
      /\ asserted' = (asserted /\ limbo'.ok)
      /\ \E order \in SetToSeqs(qs) :
            limbo' = TrackViews(l, order, [q \in Queries |-> vs[q].limbo],
                                [q \in Queries |-> New(q).limbo])
  BY DEF EmitNewSnapshots
<1> HIDE DEF New
<1>3. views' \in [Queries -> View] /\ \A q \in Queries : views'[q] = New(q)
  BY <1>1, <1>2
<1>4. PICK old \in [Queries -> SUBSET Docs] : old = [q \in Queries |-> vs[q].limbo]
  <2>1. \A q \in Queries : vs[q].limbo \in SUBSET Docs
    BY DEF View
  <2> QED
    BY <2>1
<1>5. PICK new \in [Queries -> SUBSET Docs] : new = [q \in Queries |-> New(q).limbo]
  <2>1. \A q \in Queries : New(q).limbo \in SUBSET Docs
    BY <1>1 DEF View
  <2> QED
    BY <2>1
<1>6. PICK order \in SetToSeqs(qs) : limbo' = TrackViews(l, order, old, new)
  BY <1>2, <1>4, <1>5
<1>7. PICK S \in SUBSET Queries : S = qs
  OBVIOUS
<1>8. order \in SetToSeqs(S)
  BY <1>7
<1>9. \A p \in Queries \ S : old[p] = new[p]
  BY <1>1, <1>4, <1>5, <1>7
<1>10. RefsAre(l, old)
  BY <1>4 DEF LimbosOf
<1>11. Fine(limbo', X) /\ RefsAre(limbo', new)
  BY <1>6, <1>8, <1>9, <1>10, TrackViewsProperties
<1>12. new = LimbosOf(views')
  BY <1>3, <1>5 DEF LimbosOf
<1>13. asserted'
  BY <1>2, <1>11 DEF Fine
<1> QED
  BY <1>1, <1>2, <1>3, <1>11, <1>12, <1>13

\* The parts of the invariant make the whole, in the next state.
LEMMA NextInv ==
    ASSUME limit' = limit, limit \in Limits, LTypes', Fine(limbo', denied'),
           RefsAre(limbo', LimbosOf(views')), ViewsInv', asserted'
    PROVE  LInv'
PROOF
<1>1. Fine(limbo, denied)'
  BY DEF Fine, Ready, Resolving, SlotsUsed, Tracked, Waiting
<1>2. RefsAre(limbo, LimbosOf(views))'
  BY DEF RefsAre, LimbosOf
<1> QED
  BY <1>1, <1>2 DEF LInv

\* Every target that is CURRENT is one of a query that is listened to, or a limbo
\* target.
LEMMA ActiveNext ==
    ASSUME LInv, LTypes, Fine(limbo', denied'), NEW C, C \subseteq ActiveTargets,
           \A q \in Queries : q \in C /\ views[q].listening => views'[q].listening,
           caughtUp' = C \cap (Queries \cup limbo'.listens)
    PROVE  caughtUp' \subseteq ActiveTargets'
PROOF
<1>1. limbo.listens \in SUBSET Nat
  BY MemberTypes DEF LInv, Fine, Ready
<1>2. ASSUME NEW x \in caughtUp' PROVE x \in ActiveTargets'
  <2>1. x \in C /\ (x \in Listened \/ x \in limbo.listens)
    BY <1>2 DEF ActiveTargets
  <2>2. CASE x \in limbo'.listens
    BY <2>2 DEF ActiveTargets
  <2>3. CASE x \in Queries
    <3>1. x \notin limbo.listens
      BY <1>1, <2>3, LimboAssumption
    <3>2. views[x].listening
      BY <2>1, <3>1 DEF Listened
    <3> QED
      BY <2>1, <2>3, <3>2 DEF ActiveTargets, Listened
  <2> QED
    BY <1>2, <2>2, <2>3
<1> QED
  BY <1>2

\* In the initial state nothing is listened to.
LEMMA LimboInit == Init => LInv
PROOF
<1> SUFFICES ASSUME Init PROVE LInv
  OBVIOUS
<1>1. NewView({}) \in View /\ NewView({}).limbo = {} /\ ~ NewView({}).current
      /\ ~ NewView({}).listening
  BY DEF NewView, View
<1>2. \A q \in Queries : views[q] = NewView({})
  BY DEF Init
<1>3. views \in [Queries -> View]
  BY <1>1 DEF Init
<1>4. LTypes
  BY <1>3, LimboAssumption DEF LTypes, Init
<1>5. ViewsInv
  BY <1>1, <1>2 DEF ViewsInv, IdleInv, CurrentInv, Init
<1>6. PICK none : none = <<>>
  OBVIOUS
<1>7. /\ DOMAIN none = {} /\ none \in Seq(Docs) /\ none \in KeyMaps
      /\ none \in TargetMaps
  <2>1. DOMAIN none = {} /\ none \in Seq(Docs)
    BY <1>6
  <2>2. none = [x \in {} |-> 0] /\ none = [x \in {} |-> {}]
    BY <1>6
  <2>3. none \in [{} -> Nat] /\ none \in [{} -> Resolution]
    BY <2>2
  <2> QED
    BY <2>1, <2>3 DEF KeyMaps, TargetMaps
<1>8. limbo = [refs |-> {}, enqueued |-> none, byKey |-> none, byTarget |-> none,
               listens |-> {}, nextId |-> 1, ok |-> TRUE]
  BY <1>6 DEF Init, NoLimbo
<1>9. limbo \in LimboMembers
  BY <1>7, <1>8 DEF LimboMembers
<1>10. Resolving(limbo)
  BY <1>7, <1>8 DEF Resolving
<1>11. Cardinality(DOMAIN limbo.byKey) <= limit
  <2>1. DOMAIN limbo.byKey = {}
    BY <1>7, <1>8
  <2>2. Cardinality(DOMAIN limbo.byKey) = 0
    BY <2>1, FS_EmptySet
  <2> QED
    BY <1>4, <2>2, LimitIsNumber
<1>12. SlotsUsed(limbo) /\ limbo.ok /\ limbo.refs = {}
  BY <1>6, <1>8 DEF SlotsUsed
<1>13. Fine(limbo, denied)
  BY <1>9, <1>10, <1>11, <1>12 DEF Fine, Ready, Tracked
<1>14. RefsAre(limbo, LimbosOf(views))
  BY <1>1, <1>2, <1>12 DEF RefsAre, LimbosOf
<1> QED
  BY <1>4, <1>5, <1>13, <1>14 DEF LInv, Init

\* Steps that leave the limbo members and the views alone.
LEMMA SameLimbo ==
    ASSUME LInv, UNCHANGED <<limit, cache, views, limbo, asserted, denied>>,
           server' \in [Docs -> Contents], caughtUp' \subseteq caughtUp
    PROVE  LInv'
PROOF
<1>1. LTypes'
  BY DEF LInv, LTypes, ActiveTargets, Listened
<1>2. ViewsInv'
  BY DEF LInv, ViewsInv
<1>3. Fine(limbo', denied') /\ RefsAre(limbo', LimbosOf(views'))
  BY DEF LInv
<1> QED
  BY <1>1, <1>2, <1>3, NextInv DEF LInv, LTypes

\* A call of Listen: the view begins empty.
LEMMA ListenStep ==
    ASSUME LInv, NEW q \in Queries, Listen(q)
    PROVE  LInv'
PROOF
<1> DEFINE v == [NewView(views[q].synced) EXCEPT !.listening = TRUE]
<1>1. /\ ~ views[q].listening /\ views' = [views EXCEPT ![q] = v]
      /\ UNCHANGED <<limit, server, cache, limbo, caughtUp, asserted, denied>>
  BY DEF Listen
<1>2. views \in [Queries -> View] /\ IdleInv(views[q]) /\ q \notin caughtUp
  BY <1>1 DEF LInv, LTypes, ViewsInv
<1>3. v \in View /\ v.listening /\ ~ v.current /\ v.limbo = {}
  BY <1>2 DEF NewView, View
<1> HIDE DEF v
<1>4. /\ views' \in [Queries -> View] /\ views'[q] = v
      /\ \A p \in Queries \ {q} : views'[p] = views[p]
  BY <1>1, <1>2, <1>3
<1>5. LTypes'
  BY <1>1, <1>3, <1>4 DEF LInv, LTypes, ActiveTargets, Listened
<1>6. ViewsInv'
  <2>1. ASSUME NEW p \in Queries
        PROVE  /\ IdleInv(views'[p]) /\ CurrentInv(views'[p], cache', p)
               /\ p \in caughtUp' => views'[p].listening /\ views'[p].current
    <3>1. CASE p = q
      BY <1>1, <1>2, <1>3, <1>4, <3>1 DEF IdleInv, CurrentInv
    <3>2. CASE p # q
      BY <1>1, <1>4, <3>2 DEF LInv, ViewsInv
    <3> QED
      BY <3>1, <3>2
  <2> QED
    BY <2>1 DEF ViewsInv, IdleInv, CurrentInv, Results
<1>7. RefsAre(limbo', LimbosOf(views'))
  <2>1. views[q].limbo = {}
    BY <1>1, <1>2 DEF IdleInv
  <2>2. \A p \in Queries : views'[p].limbo = views[p].limbo
    BY <1>3, <1>4, <2>1
  <2> QED
    BY <1>1, <2>2 DEF LInv, RefsAre, LimbosOf
<1>8. Fine(limbo', denied') /\ asserted'
  BY <1>1 DEF LInv
<1> QED
  BY <1>1, <1>5, <1>6, <1>7, <1>8, NextInv DEF LInv, LTypes

\* A query ends.
LEMMA RemoveQueryStep ==
    ASSUME LInv, NEW q \in Queries, RemoveQuery(q)
    PROVE  LInv'
PROOF
<1> DEFINE v == NewView(views[q].synced)
<1>1. /\ views' = [views EXCEPT ![q] = v]
      /\ limbo' = RemoveAndCleanupTarget(limbo, q)
      /\ asserted' = (asserted /\ limbo'.ok)
      /\ caughtUp' = (caughtUp \ {q}) \cap (Queries \cup limbo'.listens)
      /\ UNCHANGED <<limit, server, cache, denied>>
  BY DEF RemoveQuery
<1>2. LTypes /\ views \in [Queries -> View] /\ ViewsInv
  BY DEF LInv, LTypes
<1>3. v \in View /\ ~ v.listening /\ ~ v.current /\ v.limbo = {}
  BY <1>2 DEF NewView, View
<1> HIDE DEF v
<1>4. /\ views' \in [Queries -> View] /\ views'[q] = v
      /\ \A p \in Queries \ {q} : views'[p] = views[p]
  BY <1>1, <1>2, <1>3
<1>5. /\ Fine(limbo', denied)
      /\ \A e \in Docs : \A p \in Queries :
            <<e, p>> \in limbo'.refs <=> p # q /\ <<e, p>> \in limbo.refs
  <2>1. limit \in Nat /\ Fine(limbo, denied)
    BY <1>2, LimitIsNumber DEF LInv
  <2> QED
    BY <1>1, <2>1, CleanupProperties
<1>6. Fine(limbo', denied') /\ asserted'
  BY <1>1, <1>5 DEF LInv, Fine
<1>7. RefsAre(limbo', LimbosOf(views'))
  <2>1. \A p \in Queries : views'[p].limbo = IF p = q THEN {} ELSE views[p].limbo
    BY <1>3, <1>4
  <2> QED
    BY <1>5, <2>1 DEF LInv, RefsAre, LimbosOf
<1>8. LTypes'
  <2>1. caughtUp \ {q} \subseteq ActiveTargets
    BY <1>2 DEF LTypes
  <2>2. \A p \in Queries : p \in caughtUp \ {q} /\ views[p].listening =>
                              views'[p].listening
    BY <1>4
  <2>3. caughtUp' \subseteq ActiveTargets'
    BY <1>1, <1>2, <1>6, <2>1, <2>2, ActiveNext
  <2> QED
    BY <1>1, <1>2, <1>4, <2>3 DEF LTypes
<1>9. ViewsInv'
  <2>1. ASSUME NEW p \in Queries
        PROVE  /\ IdleInv(views'[p]) /\ CurrentInv(views'[p], cache', p)
               /\ p \in caughtUp' => views'[p].listening /\ views'[p].current
    <3>1. CASE p = q
      BY <1>1, <1>3, <1>4, <3>1 DEF IdleInv, CurrentInv
    <3>2. CASE p # q
      BY <1>1, <1>2, <1>4, <3>2 DEF ViewsInv
    <3> QED
      BY <3>1, <3>2
  <2> QED
    BY <2>1 DEF ViewsInv, IdleInv, CurrentInv, Results
<1> QED
  BY <1>1, <1>2, <1>6, <1>7, <1>8, <1>9, NextInv DEF LTypes

\* What the handlers that end in EmitNewSnapshots have in common: vs are the views
\* with their target changes, and the targets of C are CURRENT.
LEMMA EmitStep ==
    ASSUME LInv, NEW vs \in [Queries -> View], NEW docs \in [Docs -> Contents],
           NEW l, NEW C, EmitNewSnapshots(vs, docs, l),
           UNCHANGED <<limit, server>>, denied' \subseteq Docs, Fine(l, denied'),
           \A q \in Queries : /\ IdleInv(vs[q]) /\ vs[q].limbo = views[q].limbo
                              /\ vs[q].listening = views[q].listening
                              /\ q \in C => vs[q].listening /\ vs[q].current,
           \A e \in Docs : \A p \in Queries :
               <<e, p>> \in l.refs <=> <<e, p>> \in limbo.refs,
           C \subseteq ActiveTargets,
           caughtUp' = C \cap (Queries \cup limbo'.listens)
    PROVE  LInv'
PROOF
<1>1. LTypes /\ limit \in Nat /\ asserted /\ RefsAre(limbo, LimbosOf(views))
  BY LimitIsNumber DEF LInv
<1>2. RefsAre(l, LimbosOf(vs))
  BY <1>1 DEF RefsAre, LimbosOf
<1>3. PICK X : X = denied'
  OBVIOUS
<1>4. Fine(l, X) /\ \A q \in Queries : IdleInv(vs[q])
  BY <1>3
<1>5. /\ cache' = docs /\ views' \in [Queries -> View] /\ asserted'
      /\ Fine(limbo', X) /\ RefsAre(limbo', LimbosOf(views'))
      /\ \A q \in Queries : /\ views'[q].listening = vs[q].listening
                            /\ views'[q].current = vs[q].current
                            /\ views'[q].synced = vs[q].synced
                            /\ IdleInv(views'[q]) /\ CurrentInv(views'[q], docs, q)
  BY <1>1, <1>2, <1>4, EmitProperties
<1>6. Fine(limbo', denied')
  BY <1>3, <1>5
<1>7. caughtUp' \subseteq ActiveTargets'
  <2>1. \A q \in Queries : q \in C /\ views[q].listening => views'[q].listening
    BY <1>5
  <2> QED
    BY <1>1, <1>6, <2>1, ActiveNext
<1>8. LTypes'
  BY <1>1, <1>5, <1>7 DEF LTypes
<1>9. ViewsInv'
  <2>1. \A q \in Queries :
           /\ IdleInv(views'[q]) /\ CurrentInv(views'[q], cache', q)
           /\ q \in caughtUp' => views'[q].listening /\ views'[q].current
    BY <1>5
  <2> QED
    BY <2>1 DEF ViewsInv, IdleInv, CurrentInv, Results
<1> QED
  BY <1>1, <1>5, <1>6, <1>8, <1>9, NextInv DEF LTypes

\* A view with a target change.
LEMMA ChangedView ==
    ASSUME NEW v \in View, NEW synced \in SUBSET Docs, NEW current \in BOOLEAN,
           IdleInv(v), v.listening \/ ~ current,
           NEW u, u = ApplyTargetChange(v, synced, current)
    PROVE  /\ u \in View /\ IdleInv(u) /\ u.limbo = v.limbo
           /\ u.listening = v.listening /\ u.current = current
PROOF
  BY DEF View, IdleInv, ApplyTargetChange

\* An existence filter does not match.
LEMMA FilterMismatchStep ==
    ASSUME LInv, NEW q \in Queries, FilterMismatch(q)
    PROVE  LInv'
PROOF
<1>1. LTypes /\ views \in [Queries -> View] /\ ViewsInv /\ Fine(limbo, denied)
  BY DEF LInv, LTypes
<1>2. PICK u : u = ApplyTargetChange(views[q], {}, FALSE)
  OBVIOUS
<1>3. /\ u \in View /\ IdleInv(u) /\ u.limbo = views[q].limbo
      /\ u.listening = views[q].listening
  <2>1. PICK v \in View : v = views[q]
    BY <1>1
  <2>2. IdleInv(v)
    BY <1>1, <2>1 DEF ViewsInv
  <2>3. u = ApplyTargetChange(v, {}, FALSE)
    BY <1>2, <2>1
  <2>4. /\ u \in View /\ IdleInv(u) /\ u.limbo = v.limbo
        /\ u.listening = v.listening
    BY <2>2, <2>3, ChangedView
  <2> QED
    BY <2>1, <2>4
<1>4. PICK vs : vs = [views EXCEPT ![q] = u]
  OBVIOUS
<1>5. /\ vs \in [Queries -> View] /\ vs[q] = u
      /\ \A p \in Queries \ {q} : vs[p] = views[p]
  BY <1>1, <1>3, <1>4
<1>6. PICK C : C = caughtUp \ {q}
  OBVIOUS
<1>7. EmitNewSnapshots(vs, cache, limbo) /\ UNCHANGED <<limit, server, denied>>
      /\ caughtUp' = C \cap (Queries \cup limbo'.listens)
  BY <1>2, <1>4, <1>6 DEF FilterMismatch
<1>8. \A p \in Queries :
         /\ IdleInv(vs[p]) /\ vs[p].limbo = views[p].limbo
         /\ vs[p].listening = views[p].listening
         /\ p \in C => vs[p].listening /\ vs[p].current
  BY <1>1, <1>3, <1>5, <1>6 DEF ViewsInv
<1>9. C \subseteq ActiveTargets /\ cache \in [Docs -> Contents]
  BY <1>1, <1>6 DEF LTypes
<1>10. Fine(limbo, denied') /\ denied' \subseteq Docs
  BY <1>1, <1>7 DEF LTypes
<1>11. PICK docs \in [Docs -> Contents] : docs = cache
  BY <1>9
<1> QED
  BY <1>5, <1>7, <1>8, <1>9, <1>10, <1>11, EmitStep

\* A limbo target is rejected: its document is deleted, and counts as denied.
LEMMA RejectedLimboStep ==
    ASSUME LInv, NEW t \in limbo.listens, HandleRejectedListen(t), t \notin Queries
    PROVE  LInv'
PROOF
<1>1. LTypes /\ views \in [Queries -> View] /\ ViewsInv /\ Fine(limbo, denied)
      /\ limit \in Nat
  BY LimitIsNumber DEF LInv, LTypes
<1>2. PICK d : d = limbo.byTarget[t].key
  OBVIOUS
<1>3. /\ EmitNewSnapshots(views, [cache EXCEPT ![d] = NoDoc],
                          RejectedLimbo(limbo, d, t))
      /\ denied' = denied \cup {d} /\ UNCHANGED <<limit, server>>
      /\ caughtUp' = (caughtUp \ {t}) \cap (Queries \cup limbo'.listens)
  BY <1>2 DEF HandleRejectedListen
<1>4. limbo \in LimboMembers /\ limbo.byTarget \in TargetMaps /\ Resolving(limbo)
  BY <1>1, MemberTypes DEF Fine, Ready
<1>5. d \in Docs
  <2>1. PICK map \in TargetMaps : map = limbo.byTarget
    BY <1>4
  <2>2. t \in DOMAIN map
    BY <1>4, <2>1 DEF Resolving
  <2>3. map[t] \in Resolution
    BY <2>2, TargetMapType
  <2> QED
    BY <1>2, <2>1, <2>3 DEF Resolution
<1>6. \A e \in DOMAIN limbo.byKey \ {d} : limbo.byKey[e] # t
  BY <1>2, <1>4 DEF Resolving
<1>7. PICK l : l = RejectedLimbo(limbo, d, t)
  OBVIOUS
<1>8. /\ Ready(l) /\ SlotsUsed(l) /\ l.refs = limbo.refs /\ l.ok = limbo.ok
      /\ \A e \in Waiting(limbo) : e # d => e \in Waiting(l)
  <2>1. Ready(limbo)
    BY <1>1 DEF Fine
  <2>2. limit \in Nat
    BY <1>1
  <2> QED
    BY ONLY <1>6, <1>7, <2>1, <2>2, RejectedProperties
<1>9. Fine(l, denied')
  <2>1. ASSUME NEW e \in Docs, NEW p \in Queries, <<e, p>> \in l.refs, e \notin denied'
        PROVE  e \in Waiting(l)
    <3>1. e \notin denied /\ e # d /\ <<e, p>> \in limbo.refs
      BY <1>3, <1>8, <2>1
    <3>2. e \in Waiting(limbo)
      BY <1>1, <3>1 DEF Fine, Tracked
    <3> QED
      BY <1>8, <3>1, <3>2
  <2> QED
    BY <1>1, <1>8, <2>1 DEF Fine, Tracked
<1>10. PICK docs \in [Docs -> Contents] : docs = [cache EXCEPT ![d] = NoDoc]
  <2>1. cache \in [Docs -> Contents] /\ NoDoc \in Contents
    BY <1>1, LimboAssumption DEF LTypes
  <2> QED
    BY <2>1
<1>11. PICK C : C = caughtUp \ {t}
  OBVIOUS
<1>12. C \subseteq ActiveTargets /\ denied' \subseteq Docs
  BY <1>1, <1>3, <1>5, <1>11 DEF LTypes
<1>13. PICK vs \in [Queries -> View] : vs = views
  BY <1>1
<1>14. /\ EmitNewSnapshots(vs, docs, l) /\ UNCHANGED <<limit, server>>
       /\ caughtUp' = C \cap (Queries \cup limbo'.listens)
  BY <1>3, <1>7, <1>10, <1>11, <1>13
<1>15. \A q \in Queries :
          /\ IdleInv(vs[q]) /\ vs[q].limbo = views[q].limbo
          /\ vs[q].listening = views[q].listening
          /\ q \in C => vs[q].listening /\ vs[q].current
  BY <1>1, <1>11, <1>13 DEF ViewsInv
<1>16. \A e \in Docs : \A p \in Queries :
          <<e, p>> \in l.refs <=> <<e, p>> \in limbo.refs
  BY <1>8
<1> QED
  BY <1>9, <1>12, <1>14, <1>15, <1>16, EmitStep

\* A RemoteEvent.
LEMMA RemoteEventStep ==
    ASSUME LInv, RemoteEvent
    PROVE  LInv'
PROOF
<1>1. LTypes /\ views \in [Queries -> View] /\ ViewsInv /\ Fine(limbo, denied)
      /\ limit \in Nat
  BY LimitIsNumber DEF LInv, LTypes
<1>2. PICK reached \in SUBSET (ActiveTargets \ caughtUp) :
        \E part \in SUBSET (((ActiveTargets \ caughtUp) \ reached) \cap Queries) :
          \E told : ApplyRemoteEvent(reached, part, told)
  BY DEF RemoteEvent
<1>3. PICK part \in SUBSET (((ActiveTargets \ caughtUp) \ reached) \cap Queries) :
        \E told : ApplyRemoteEvent(reached, part, told)
  BY <1>2
<1>4. PICK told : ApplyRemoteEvent(reached, part, told)
  BY <1>3
<1> DEFINE following == (caughtUp \cap ActiveTargets) \cup reached
           full == Queries \cap following
           sent == UNION {Results(server, q) : q \in full \cup part}
           looked == {limbo.byTarget[t].key : t \in limbo.listens \cap following}
           after == [d \in Docs |-> IF d \in sent \cup looked \cup told
                                    THEN server[d] ELSE cache[d]]
           Changed(q) ==
               CASE q \in full ->
                      ApplyTargetChange(views[q], Results(server, q), TRUE)
                 [] q \in part ->
                      ApplyTargetChange(views[q],
                          views[q].synced \cup Results(server, q), FALSE)
                 [] OTHER -> views[q]
<1>5. /\ EmitNewSnapshots([q \in Queries |-> Changed(q)], after,
                          Received(limbo, following))
      /\ caughtUp' = following \cap (Queries \cup limbo'.listens)
      /\ UNCHANGED <<limit, server, denied>>
  BY <1>4 DEF ApplyRemoteEvent
<1>6. after \in [Docs -> Contents]
  BY <1>1 DEF LTypes
<1>7. following \subseteq ActiveTargets
  OBVIOUS
<1>8. \A q \in Queries : q \in ActiveTargets => views[q].listening
  <2>1. limbo.listens \in SUBSET Nat
    BY <1>1, MemberTypes DEF Fine, Ready
  <2> QED
    BY <2>1, LimboAssumption DEF ActiveTargets, Listened
<1>9. ASSUME NEW q \in Queries
      PROVE  /\ Changed(q) \in View /\ IdleInv(Changed(q))
             /\ Changed(q).limbo = views[q].limbo
             /\ Changed(q).listening = views[q].listening
             /\ q \in following => Changed(q).listening /\ Changed(q).current
  <2>1. PICK v \in View : v = views[q]
    BY <1>1
  <2>2. IdleInv(v) /\ v.synced \in SUBSET Docs
    BY <1>1, <2>1 DEF ViewsInv, View
  <2>3. PICK res \in SUBSET Docs : res = Results(server, q)
    BY DEF Results
  <2>4. CASE q \in full
    <3>1. Changed(q) = ApplyTargetChange(v, res, TRUE)
      BY <2>1, <2>3, <2>4
    <3> HIDE DEF Changed, full
    <3>2. v.listening
      BY <1>7, <1>8, <2>1, <2>4 DEF full
    <3>3. /\ Changed(q) \in View /\ IdleInv(Changed(q)) /\ Changed(q).limbo = v.limbo
          /\ Changed(q).listening = v.listening /\ Changed(q).current = TRUE
      BY <2>2, <3>1, <3>2, ChangedView
    <3> QED
      BY <2>1, <3>2, <3>3
  <2>5. CASE q \notin full /\ q \in part
    <3>1. PICK more \in SUBSET Docs : more = v.synced \cup res
      BY <2>2
    <3>2. Changed(q) = ApplyTargetChange(v, more, FALSE)
      BY <2>1, <2>3, <2>5, <3>1
    <3>3. q \notin following
      BY <2>5
    <3> HIDE DEF Changed, full, following
    <3>4. PICK u : u = Changed(q)
      OBVIOUS
    <3>5. IdleInv(v)
      BY <2>2
    <3>6. u = ApplyTargetChange(v, more, FALSE)
      BY <3>2, <3>4
    <3>7. /\ u \in View /\ IdleInv(u) /\ u.limbo = v.limbo
          /\ u.listening = v.listening
      BY ONLY v \in View, more \in SUBSET Docs, <3>5, <3>6, ChangedView
    <3> QED
      BY <2>1, <3>3, <3>4, <3>7
  <2>6. CASE q \notin full /\ q \notin part
    <3>1. Changed(q) = v
      BY <2>1, <2>6
    <3>2. q \notin following
      BY <2>6
    <3> HIDE DEF Changed, full, following
    <3> QED
      BY <2>1, <2>2, <3>1, <3>2
  <2> QED
    BY <2>4, <2>5, <2>6
<1> HIDE DEF Changed, after
<1>10. PICK vs \in [Queries -> View] : vs = [q \in Queries |-> Changed(q)]
  BY <1>9
<1>11. PICK l : l = Received(limbo, following)
  OBVIOUS
<1>12. PICK docs \in [Docs -> Contents] : docs = after
  BY <1>6
<1> DEFINE C == following
<1> HIDE DEF following
<1>13. Fine(l, denied) /\ l.refs = limbo.refs
  BY <1>1, <1>11, ReceivedProperties
<1>14. /\ EmitNewSnapshots(vs, docs, l) /\ UNCHANGED <<limit, server>>
       /\ caughtUp' = C \cap (Queries \cup limbo'.listens)
  BY <1>5, <1>10, <1>11, <1>12
<1>15. \A q \in Queries :
          /\ IdleInv(vs[q]) /\ vs[q].limbo = views[q].limbo
          /\ vs[q].listening = views[q].listening
          /\ q \in C => vs[q].listening /\ vs[q].current
  BY <1>9, <1>10, <1>12
<1>16. /\ C \subseteq ActiveTargets /\ denied' \subseteq Docs /\ Fine(l, denied')
       /\ \A e \in Docs : \A p \in Queries :
             <<e, p>> \in l.refs <=> <<e, p>> \in limbo.refs
  BY <1>1, <1>5, <1>7, <1>12, <1>13 DEF LTypes
<1> QED
  BY <1>14, <1>15, <1>16, EmitStep

\* The client goes offline: no view is current.
LEMMA WentOfflineStep ==
    ASSUME LInv, WentOffline
    PROVE  LInv'
PROOF
<1>1. LTypes /\ views \in [Queries -> View] /\ ViewsInv
  BY DEF LInv, LTypes
<1>2. /\ caughtUp' = {}
      /\ views' = [q \in Queries |-> [views[q] EXCEPT !.current = FALSE]]
      /\ UNCHANGED <<limit, server, cache, limbo, asserted, denied>>
  BY DEF WentOffline
<1>3. ASSUME NEW q \in Queries
      PROVE  /\ views'[q] \in View /\ ~ views'[q].current
             /\ views'[q].limbo = views[q].limbo
             /\ views'[q].listening = views[q].listening
  <2>1. PICK v \in View : v = views[q]
    BY <1>1
  <2>2. views'[q] = [v EXCEPT !.current = FALSE]
    BY <1>2, <2>1
  <2> QED
    BY <2>1, <2>2 DEF View
<1>4. views' \in [Queries -> View]
  BY <1>2, <1>3
<1>5. LTypes'
  BY <1>1, <1>2, <1>4 DEF LTypes
<1>6. ViewsInv'
  <2>1. \A q \in Queries :
           /\ IdleInv(views'[q]) /\ CurrentInv(views'[q], cache', q)
           /\ q \notin caughtUp'
    BY <1>1, <1>2, <1>3 DEF ViewsInv, IdleInv, CurrentInv
  <2> QED
    BY <2>1 DEF ViewsInv, IdleInv, CurrentInv, Results
<1>7. RefsAre(limbo', LimbosOf(views'))
  BY <1>2, <1>3 DEF LInv, RefsAre, LimbosOf
<1>8. Fine(limbo', denied') /\ asserted'
  BY <1>2 DEF LInv
<1> QED
  BY <1>1, <1>2, <1>5, <1>6, <1>7, <1>8, NextInv DEF LTypes

\* A listen is rejected.
LEMMA RejectedStep ==
    ASSUME LInv, NEW t \in ActiveTargets, HandleRejectedListen(t)
    PROVE  LInv'
PROOF
<1>1. CASE t \in Queries /\ RemoveQuery(t)
  BY <1>1, RemoveQueryStep
<1>2. CASE ~ (t \in Queries /\ RemoveQuery(t))
  <2>1. t \in limbo.listens
    BY <1>2 DEF HandleRejectedListen
  <2>2. limbo.listens \in SUBSET Nat
    BY MemberTypes DEF LInv, Fine, Ready
  <2>3. t \notin Queries
    BY <2>1, <2>2, LimboAssumption
  <2> QED
    BY <2>1, <2>3, RejectedLimboStep
<1> QED
  BY <1>1, <1>2

\* The invariant holds in every reachable state.
LEMMA LimboInvariant == Spec => []LInv
PROOF
<1>1. LInv /\ [Next]_vars => LInv'
  <2> SUFFICES ASSUME LInv, [Next]_vars PROVE LInv'
    OBVIOUS
  <2>1. ASSUME NEW q \in Queries, Listen(q) PROVE LInv'
    BY <2>1, ListenStep
  <2>2. ASSUME NEW q \in Queries, StopListening(q) PROVE LInv'
    <3>1. RemoveQuery(q)
      BY <2>2 DEF StopListening
    <3> QED
      BY <3>1, RemoveQueryStep
  <2>3. ASSUME NEW q \in Queries, FilterMismatch(q) PROVE LInv'
    BY <2>3, FilterMismatchStep
  <2>4. ASSUME NEW d \in Docs, ServerChange(d) PROVE LInv'
    <3>1. /\ UNCHANGED <<limit, cache, views, limbo, asserted, denied>>
          /\ caughtUp' = caughtUp
      BY <2>4 DEF ServerChange
    <3>2. server' \in [Docs -> Contents]
      BY <2>4 DEF ServerChange, LInv, LTypes
    <3> QED
      BY <3>1, <3>2, SameLimbo
  <2>5. CASE RemoteEvent
    BY <2>5, RemoteEventStep
  <2>6. ASSUME NEW t \in ActiveTargets, HandleRejectedListen(t) PROVE LInv'
    BY <2>6, RejectedStep
  <2>7. CASE ConnectionLost
    <3>1. /\ UNCHANGED <<limit, cache, views, limbo, asserted, denied>>
          /\ caughtUp' \subseteq caughtUp /\ server' = server
      BY <2>7 DEF ConnectionLost
    <3>2. server' \in [Docs -> Contents]
      BY <3>1 DEF LInv, LTypes
    <3> QED
      BY <3>1, <3>2, SameLimbo
  <2>8. CASE WentOffline
    BY <2>8, WentOfflineStep
  <2>9. CASE UNCHANGED vars
    <3>1. /\ UNCHANGED <<limit, cache, views, limbo, asserted, denied>>
          /\ caughtUp' \subseteq caughtUp /\ server' = server
      BY <2>9 DEF vars
    <3>2. server' \in [Docs -> Contents]
      BY <3>1 DEF LInv, LTypes
    <3> QED
      BY <3>1, <3>2, SameLimbo
  <2> QED
    BY <2>1, <2>2, <2>3, <2>4, <2>5, <2>6, <2>7, <2>8, <2>9 DEF Next
<1> QED
  BY <1>1, LimboInit, PTL DEF Spec

-----------------------------------------------------------------------------
\* Type correctness: in particular a document that is resolved has a target, and
\* every limbo target is listened to.
THEOREM LimboTypeCorrect == Spec => []TypeOK
PROOF
<1>1. LInv => TypeOK
  <2> SUFFICES ASSUME LInv PROVE TypeOK
    OBVIOUS
  <2>1. limbo \in LimboMembers /\ Resolving(limbo) /\ LTypes
    BY DEF LInv, Fine, Ready
  <2>2. /\ limbo.refs \subseteq Docs \X Queries /\ limbo.enqueued \in Seq(Docs)
        /\ limbo.byKey \in KeyMaps /\ limbo.byTarget \in TargetMaps
    BY <2>1, MemberTypes
  <2>3. DOMAIN limbo.byKey \subseteq Docs
    BY <2>2, KeyMapType
  <2>4. PICK map \in TargetMaps : map = limbo.byTarget
    BY <2>2
  <2>5. \A t \in DOMAIN map : map[t] \in Resolution
    BY TargetMapType
  <2>6. \A t \in DOMAIN limbo.byTarget :
           /\ t \in 1..(limbo.nextId - 1)
           /\ limbo.byTarget[t] \in [key : Docs, received : BOOLEAN]
    BY <2>1, <2>4, <2>5 DEF Resolving, Resolution
  <2>7. Range(limbo.byKey) \subseteq DOMAIN limbo.byTarget
    BY <2>1 DEF Resolving, Range
  <2>8. limbo.listens = DOMAIN limbo.byTarget
    BY <2>1 DEF Resolving
  <2> QED
    BY <2>1, <2>2, <2>3, <2>6, <2>7, <2>8 DEF TypeOK, LTypes, View
<1> QED
  BY <1>1, LimboInvariant, PTL

\* SyncEngine never stops a listen that RemoteStore does not know.
THEOREM NoLimboAssertFails == Spec => []NoLimboAssertionFails
PROOF
<1>1. LInv => NoLimboAssertionFails
  BY DEF LInv, NoLimboAssertionFails
<1> QED
  BY <1>1, LimboInvariant, PTL

\* The references are the limbo documents of the views, and what is in limbo is
\* resolved or waits, unless its resolution was rejected.
THEOREM LimboDocumentsAreTracked == Spec => []LimboIsTracked
PROOF
<1>1. LInv => LimboIsTracked
  <2> SUFFICES ASSUME LInv PROVE LimboIsTracked
    OBVIOUS
  <2>1. /\ limbo.refs \in SUBSET (Docs \X Queries)
        /\ views \in [Queries -> View] /\ Tracked(limbo, denied)
    BY MemberTypes DEF LInv, LTypes, Fine, Ready
  <2>2. \A e \in Docs : \A p \in Queries :
           <<e, p>> \in limbo.refs <=> e \in views[p].limbo
    BY DEF LInv, RefsAre, LimbosOf
  <2>3. \A p \in Queries : views[p].limbo \subseteq Docs
    BY <2>1 DEF View
  <2>4. limbo.refs = UNION {views[q].limbo \X {q} : q \in Queries}
    <3>1. ASSUME NEW r \in limbo.refs
          PROVE  r \in UNION {views[q].limbo \X {q} : q \in Queries}
      <4>1. PICK e \in Docs, p \in Queries : r = <<e, p>>
        BY <2>1
      <4>2. e \in views[p].limbo
        BY <2>2, <4>1
      <4> QED
        BY <4>1, <4>2
    <3>2. ASSUME NEW q \in Queries, NEW r \in views[q].limbo \X {q}
          PROVE  r \in limbo.refs
      <4>1. PICK e \in views[q].limbo : r = <<e, q>>
        OBVIOUS
      <4> QED
        BY <2>2, <2>3, <4>1
    <3> QED
      BY <3>1, <3>2
  <2>5. ASSUME NEW q \in Listened, NEW d \in views[q].limbo \ denied
        PROVE  d \in DOMAIN limbo.byKey \cup Range(limbo.enqueued)
    <3>1. q \in Queries
      BY DEF Listened
    <3>2. d \in Docs /\ <<d, q>> \in limbo.refs /\ d \notin denied
      BY <2>2, <2>3, <3>1
    <3> QED
      BY <2>1, <3>1, <3>2 DEF Tracked, Waiting
  <2> QED
    BY <2>4, <2>5 DEF LimboIsTracked
<1> QED
  BY <1>1, LimboInvariant, PTL

\* While a document waits, RemoteStore listens to at least as many different
\* documents as there are slots: every document that is resolved has a target of
\* its own (Resolving), and the pump leaves no slot free (SlotsUsed).
THEOREM SlotsFill == Spec => []SlotsAreUsed
PROOF
<1>1. LInv => SlotsAreUsed
  <2> SUFFICES ASSUME LInv, limbo.enqueued # <<>>
               PROVE  Cardinality(ResolvedDocs) >= limit
    BY DEF SlotsAreUsed
  <2> DEFINE S == DOMAIN limbo.byKey
  <2>1. /\ limbo \in LimboMembers /\ limbo.byKey \in KeyMaps
        /\ limbo.byTarget \in TargetMaps /\ Resolving(limbo) /\ SlotsUsed(limbo)
    BY MemberTypes DEF LInv, Fine, Ready
  <2>2. Cardinality(S) = limit /\ limit \in Nat
    BY <2>1, LimitIsNumber DEF LInv, SlotsUsed
  <2>3. S \subseteq ResolvedDocs
    BY <2>1 DEF Resolving, ResolvedDocs
  <2>4. ResolvedDocs \subseteq Docs
    <3>1. \A t \in limbo.listens : limbo.byTarget[t].key \in Docs
      BY <2>1, TargetMapType DEF Resolving, Resolution
    <3> QED
      BY <3>1 DEF ResolvedDocs
  <2>5. IsFiniteSet(ResolvedDocs) /\ Cardinality(ResolvedDocs) \in Nat
    BY <2>4, LimboAssumption, FS_Subset, FS_CardinalityType
  <2>6. Cardinality(S) <= Cardinality(ResolvedDocs)
    BY <2>3, <2>5, FS_Subset
  <2> HIDE DEF S
  <2> QED
    BY <2>2, <2>5, <2>6
<1> QED
  BY <1>1, LimboInvariant, PTL

\* Once the client is up to date with the backend, every view shows what the backend
\* has: with a slot for every document and no rejection nothing stays in limbo.
THEOREM SettledViews == Spec => []SettledViewsAreRight
PROOF
<1>1. LInv => SettledViewsAreRight
  <2> SUFFICES ASSUME LInv, UpToDate, limit >= Cardinality(Docs), denied = {},
                      NEW q \in Listened
               PROVE  views[q].limbo = {} /\ Results(cache, q) = Results(server, q)
    BY DEF SettledViewsAreRight
  <2>1. q \in Queries /\ views[q].current
    <3>1. q \in ActiveTargets /\ q \in Queries
      BY DEF ActiveTargets, Listened
    <3> QED
      BY <3>1 DEF UpToDate, LInv, ViewsInv
  <2>2. /\ views[q].limbo = Results(cache, q) \ views[q].synced
        /\ views[q].synced = Results(server, q)
        /\ \A d \in views[q].synced : cache[d] = server[d]
    BY <2>1 DEF LInv, ViewsInv, CurrentInv, UpToDate
  <2>3. /\ limbo \in LimboMembers /\ limbo.byKey \in KeyMaps
        /\ limbo.enqueued \in Seq(Docs)
        /\ Resolving(limbo) /\ SlotsUsed(limbo) /\ Tracked(limbo, denied)
        /\ Cardinality(DOMAIN limbo.byKey) <= limit
    BY MemberTypes DEF LInv, Fine, Ready
  <2>4. limit \in Nat
    BY LimitIsNumber DEF LInv
  <2>5. ASSUME NEW d \in views[q].limbo PROVE FALSE
    <3>1. d \in Docs /\ Matches(cache[d], q) /\ d \notin Results(server, q)
      BY <2>2 DEF Results
    <3>2. <<d, q>> \in limbo.refs
      BY <2>1, <3>1 DEF LInv, RefsAre, LimbosOf
    <3>3. d \in Waiting(limbo)
      BY <2>1, <2>3, <3>1, <3>2 DEF Tracked
    <3>4. d \in DOMAIN limbo.byKey
      <4>1. CASE limbo.enqueued = <<>>
        BY <3>3, <4>1 DEF Waiting, Range
      <4>2. CASE limbo.enqueued # <<>>
        <5>1. PICK S : S = DOMAIN limbo.byKey
          OBVIOUS
        <5>2. S \subseteq Docs /\ Cardinality(S) \in Nat
          BY <2>3, <5>1, KeyMapType
        <5>3. Cardinality(S) = limit
          BY <2>3, <4>2, <5>1 DEF SlotsUsed
        <5>4. /\ IsFiniteSet(Docs) /\ Cardinality(Docs) \in Nat
              /\ Cardinality(S) <= Cardinality(Docs)
              /\ Cardinality(S) = Cardinality(Docs) => S = Docs
          BY <5>2, LimboAssumption, FS_Subset, FS_CardinalityType
        <5>5. S = Docs
          BY <2>4, <5>2, <5>3, <5>4
        <5> QED
          BY <3>1, <5>1, <5>5
      <4> QED
        BY <4>1, <4>2
    <3>5. /\ limbo.byKey[d] \in limbo.listens
          /\ limbo.byTarget[limbo.byKey[d]].key = d
      BY <2>3, <3>4 DEF Resolving
    <3>6. cache[d] = server[d]
      BY <3>5 DEF UpToDate
    <3> QED
      BY <3>1, <3>6 DEF Results
  <2>6. views[q].limbo = {}
    BY <2>5
  <2>7. Results(cache, q) = Results(server, q)
    <3>1. Results(cache, q) \subseteq Results(server, q)
      BY <2>2, <2>6
    <3>2. ASSUME NEW d \in Results(server, q) PROVE d \in Results(cache, q)
      BY <2>2 DEF Results
    <3> QED
      BY <3>1, <3>2
  <2> QED
    BY <2>6, <2>7
<1> QED
  BY <1>1, LimboInvariant, PTL
=============================================================================
