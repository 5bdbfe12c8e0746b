------------------------ MODULE ClientLifecycleProofs ------------------------
(***************************************************************************)
(* Theorems about ClientLifecycle, for every set of threads, every set of   *)
(* calls and every value of the bounds: its types, that operations find     *)
(* their stores open, and that it implements SerialQueue.                   *)
(***************************************************************************)
EXTENDS ClientLifecycle, SequenceTheorems, TLAPS

-----------------------------------------------------------------------------
(* The inductive invariant                                                 *)

Places == {"idle", "verify", "enqueue", "restrict", "submit", "lock", "await",
           "close", "cancel"}
Call == [at : Places, call : Calls \cup {"none"}, n : 0..MaxCalls]

ClientType ==
    /\ mode \in {"running", "restricted", "disposed"}
    /\ doomed \subseteq 1..issued
    /\ mutex \in Threads \cup {NoThread} /\ configured \in BOOLEAN
    /\ engine \in {"none", "open", "shut"} /\ files \in {"absent", "present"}
    /\ signalled \in BOOLEAN /\ instance \in {"alive", "releasing", "gone"}
    /\ thread \in [Threads -> Call]
    /\ outside \subseteq 0..MaxCalls /\ answered \subseteq 0..MaxCalls
    /\ owed \subseteq Owing
    /\ made \in 0..MaxCalls

QueueType ==
    /\ queue \in Seq(Task) /\ schedule \subseteq Task
    /\ running \in Task \cup {NoTask} /\ issued \in Nat
    /\ \A i \in 1..Len(queue) : queue[i].id <= issued
    /\ \A k \in schedule : k.id <= issued
    /\ running.id <= issued

\* Every operation has an id of its own, until it has been executed.
UniqueIds ==
    /\ \A i, j \in 1..Len(queue) : queue[i].id = queue[j].id => i = j
    /\ \A k, l \in schedule : k.id = l.id => k = l
    /\ \A i \in 1..Len(queue) : \A k \in schedule : queue[i].id # k.id
    /\ \A i \in 1..Len(queue) : queue[i].id # running.id
    /\ \A k \in schedule : k.id # running.id

\* Where a call can be, and what holds of the client then.
Place(t) ==
    /\ thread[t].at = "idle" => thread[t].call = "none"
    /\ thread[t].at \in {"verify", "enqueue"} =>
           thread[t].call \in {"write", "transaction", "remove", "user"}
    /\ thread[t].at \in {"restrict", "submit"} =>
           thread[t].call \in {"terminate", "release"}
    /\ thread[t].at \in {"lock", "await", "close", "cancel"} => thread[t].call = "release"

ThreadInv(t) ==
    /\ Place(t)
    /\ thread[t].call \in {"write", "transaction", "terminate"} => instance = "alive"
    /\ thread[t].call = "release" => instance = "releasing"
    /\ thread[t].call = "release" /\ thread[t].at # "cancel" => mode # "disposed"
    /\ thread[t].at = "cancel" => mode = "disposed"
    /\ thread[t].at = "submit" => mode # "running"
    /\ thread[t].at \in {"verify", "enqueue", "restrict", "submit", "await"} => configured
    /\ thread[t].at = "close" /\ configured => signalled

ThreadsInv ==
    /\ \A t \in Threads : ThreadInv(t)
    /\ \A t, u \in Threads :
          thread[t].call = "release" /\ thread[u].call = "release" => t = u
    /\ instance = "alive" => mode # "disposed"

\* The operations that may be queued behind the termination, and those that end
\* the client.
LateOps == {"attempt", "gc", "terminate", "dispose", "clear"}
Ending == {"terminate", "dispose"}

\* There is one collector's timer.
OneCollection ==
    /\ \A i, j \in 1..Len(queue) :
          queue[i].op = "gc" /\ queue[j].op = "gc" => i = j
    /\ \A k, l \in schedule : k.op = "gc" /\ l.op = "gc" => k = l
    /\ \A i \in 1..Len(queue) : \A k \in schedule :
          ~(queue[i].op = "gc" /\ k.op = "gc")
    /\ running.op = "gc" => /\ \A i \in 1..Len(queue) : queue[i].op # "gc"
                            /\ \A k \in schedule : k.op # "gc"
    /\ \A k \in schedule : k.op \in {"attempt", "gc"}

\* Before Initialize has run, it is ahead of everything but the operations of
\* ClearPersistence.
NotOpened ==
    engine = "none" =>
        /\ schedule = {} /\ outside = {} /\ ~signalled
        /\ running.op \in {"none", "clear", "init"}
        /\ \A i \in 1..Len(queue) : queue[i].op \notin {"gc", "attempt"}
        /\ ~configured =>
              /\ mode # "restricted" /\ running.op # "init"
              /\ \A i \in 1..Len(queue) : queue[i].op = "clear"
        /\ configured =>
              /\ mode # "disposed"
              /\ \/ /\ running.op = "init"
                    /\ \A i \in 1..Len(queue) : queue[i].op # "init"
                 \/ /\ running.op # "init"
                    /\ \E i \in 1..Len(queue) :
                       /\ queue[i].op = "init"
                       /\ \A j \in 1..Len(queue) :
                            /\ j < i => queue[j].op = "clear"
                            /\ j > i => queue[j].op # "init"

\* Afterwards it does not come again.
Opened ==
    engine # "none" =>
        /\ configured /\ running.op # "init"
        /\ \A i \in 1..Len(queue) : queue[i].op # "init"

\* After TerminateInternal nothing is accepted or left that needs the stores,
\* but for the timers.
Ended ==
    engine = "shut" =>
        /\ mode # "running"
        /\ running.op \in LateOps \cup {"none"}
        /\ \A i \in 1..Len(queue) : queue[i].op \in LateOps
        /\ mode # "disposed" =>
              /\ running.op # "gc"
              /\ \A i \in 1..Len(queue) : queue[i].op # "gc"
              /\ \A k \in schedule : k.op # "gc"

\* A termination is behind everything that needs the stores.
EndsLast ==
    /\ \A i, j \in 1..Len(queue) :
          i < j /\ queue[i].op \in Ending => queue[j].op \in LateOps
    /\ running.op \in Ending => \A j \in 1..Len(queue) : queue[j].op \in LateOps
    /\ mode = "running" =>
          /\ running.op \notin Ending
          /\ \A i \in 1..Len(queue) : queue[i].op \notin Ending

\* Dispose has every task on its list that is still to be executed.
AllDoomed ==
    mode = "disposed" /\ instance # "gone" =>
        /\ \A i \in 1..Len(queue) : queue[i].id \in doomed
        /\ \A k \in schedule : k.id \in doomed
        /\ running = NoTask \/ running.id \in doomed

TasksInv == QueueType /\ UniqueIds /\ OneCollection
Stages == NotOpened /\ Opened /\ Ended /\ EndsLast

IInv == ClientType /\ TasksInv /\ ThreadsInv /\ Stages /\ AllDoomed

-----------------------------------------------------------------------------
(* The queue                                                               *)

\* A task at the end of the queue.
LEMMA AppendShape ==
    ASSUME queue \in Seq(Task), NEW k \in Task, queue' = Append(queue, k)
    PROVE  /\ queue' \in Seq(Task) /\ Len(queue) \in Nat
           /\ Len(queue') = Len(queue) + 1
           /\ \A i \in 1..Len(queue) : queue'[i] = queue[i]
           /\ queue'[Len(queue) + 1] = k
PROOF
  BY AppendProperties, LenProperties

\* The queue without its first task.
LEMMA TailShape ==
    ASSUME queue \in Seq(Task), queue # <<>>, queue' = Tail(queue)
    PROVE  /\ queue' \in Seq(Task) /\ Len(queue) \in Nat \ {0}
           /\ Head(queue) = queue[1] /\ queue[1] \in Task
           /\ Len(queue') = Len(queue) - 1
           /\ \A i \in 1..Len(queue') : queue'[i] = queue[i + 1]
PROOF
<1>1. /\ Tail(queue) \in Seq(Task) /\ Len(Tail(queue)) = Len(queue) - 1
      /\ \A i \in 1..Len(Tail(queue)) : Tail(queue)[i] = queue[i + 1]
  BY HeadTailProperties
<1>2. Len(queue) \in Nat \ {0}
  BY EmptySeq
<1>3. Head(queue) = queue[1]
  OBVIOUS
<1>4. queue[1] \in Task
  <2>1. 1 \in 1..Len(queue)
    BY ONLY <1>2
  <2> QED
    BY ONLY queue \in Seq(Task), <2>1, ElementOfSeq
<1> QED
  BY <1>1, <1>2, <1>3, <1>4

\* A sequence without its m-th element.
LEMMA RemoveAtShape ==
    ASSUME NEW S, NEW q \in Seq(S), NEW m \in 1..Len(q)
    PROVE  /\ RemoveAt(q, m) \in Seq(S) /\ Len(q) \in Nat
           /\ Len(RemoveAt(q, m)) = Len(q) - 1
           /\ \A i \in 1..Len(q) - 1 :
                  RemoveAt(q, m)[i] = IF i < m THEN q[i] ELSE q[i + 1]
PROOF
<1> DEFINE front == SubSeq(q, 1, m - 1)
           back == SubSeq(q, m + 1, Len(q))
<1>1. Len(q) \in Nat /\ q \in [1..Len(q) -> S]
  BY LenProperties
<1>2. /\ front \in Seq(S) /\ Len(front) = m - 1
      /\ \A i \in 1..m - 1 : front[i] = q[i]
  <2>1. \A i \in 1..m - 1 : q[i] \in S
    BY <1>1
  <2> QED
    BY <1>1, <2>1, SubSeqProperties
<1>3. /\ back \in Seq(S) /\ Len(back) = Len(q) - m
      /\ \A i \in 1..Len(q) - m : back[i] = q[m + i]
  <2>1. \A i \in m + 1..Len(q) : q[i] \in S
    BY <1>1
  <2>2. /\ back \in Seq(S)
        /\ Len(back) = IF m + 1 <= Len(q) THEN Len(q) - (m + 1) + 1 ELSE 0
        /\ \A i \in 1..Len(q) - (m + 1) + 1 : back[i] = q[(m + 1) + i - 1]
    BY <1>1, <2>1, SubSeqProperties
  <2> HIDE DEF back
  <2>3. Len(back) = Len(q) - m
    <3>1. Len(q) \in Nat /\ m \in Nat /\ m <= Len(q)
      BY <1>1
    <3>2. (IF m + 1 <= Len(q) THEN Len(q) - (m + 1) + 1 ELSE 0) = Len(q) - m
      BY <3>1
    <3> QED
      BY <2>2, <3>2
  <2>4. ASSUME NEW i \in 1..Len(q) - m PROVE back[i] = q[m + i]
    <3>1. i \in 1..Len(q) - (m + 1) + 1 /\ (m + 1) + i - 1 = m + i
      BY <1>1
    <3> QED
      BY <2>2, <3>1
  <2> QED
    BY <2>2, <2>3, <2>4
<1>4. RemoveAt(q, m) = front \o back
  BY DEF RemoveAt
<1> HIDE DEF front, back
<1>5. /\ front \o back \in Seq(S)
      /\ Len(front \o back) = Len(front) + Len(back)
      /\ \A i \in 1..Len(front) + Len(back) : (front \o back)[i] =
             IF i <= Len(front) THEN front[i] ELSE back[i - Len(front)]
  BY <1>2, <1>3, ConcatProperties
<1>6. Len(front) + Len(back) = Len(q) - 1
  BY <1>1, <1>2, <1>3
<1>7. ASSUME NEW i \in 1..Len(q) - 1
      PROVE  (front \o back)[i] = IF i < m THEN q[i] ELSE q[i + 1]
  <2>1. (front \o back)[i] = IF i <= m - 1 THEN front[i] ELSE back[i - (m - 1)]
    BY <1>2, <1>5, <1>6
  <2>2. CASE i < m
    BY <1>1, <1>2, <2>1, <2>2
  <2>3. CASE ~(i < m)
    <3>1. i - (m - 1) \in 1..Len(q) - m /\ m + (i - (m - 1)) = i + 1
          /\ ~(i <= m - 1)
      BY <1>1, <2>3
    <3> QED
      BY <1>3, <2>1, <2>3, <3>1
  <2> QED
    BY <2>2, <2>3
<1> QED
  BY <1>1, <1>4, <1>5, <1>6, <1>7

\* What Cancel leaves in the queue is what was there, in the same order.
LEMMA CancelShape ==
    ASSUME queue \in Seq(Task), NEW tasks, Cancel(tasks)
    PROVE  /\ queue' \in Seq(Task) /\ Len(queue) \in Nat /\ Len(queue') \in Nat
           /\ \A i \in 1..Len(queue') : \E j \in 1..Len(queue) :
                 queue'[i] = queue[j]
           /\ \A i1, i2 \in 1..Len(queue') : i1 < i2 =>
                 \E j1, j2 \in 1..Len(queue) :
                    j1 < j2 /\ queue'[i1] = queue[j1] /\ queue'[i2] = queue[j2]
           /\ \/ queue' = queue /\ QueuedTasks \cap tasks = {}
              \/ \E m \in 1..Len(queue) :
                    /\ queue[m] \in tasks /\ queue' = RemoveAt(queue, m)
                    /\ Len(queue') = Len(queue) - 1
                    /\ \A i \in 1..Len(queue') :
                          queue'[i] = IF i < m THEN queue[i] ELSE queue[i + 1]
PROOF
<1>1. Len(queue) \in Nat /\ DOMAIN queue = 1..Len(queue)
  BY LenProperties
<1>2. CASE queue' = queue /\ QueuedTasks \cap tasks = {}
  BY <1>1, <1>2
<1>3. CASE \E i \in DOMAIN queue : /\ queue[i] \in tasks
                                   /\ queue' = RemoveAt(queue, i)
  <2>1. PICK m \in 1..Len(queue) : /\ queue[m] \in tasks
                                   /\ queue' = RemoveAt(queue, m)
    BY <1>1, <1>3
  <2>2. /\ queue' \in Seq(Task) /\ Len(queue') = Len(queue) - 1
        /\ \A i \in 1..Len(queue') :
              queue'[i] = IF i < m THEN queue[i] ELSE queue[i + 1]
    BY <2>1, RemoveAtShape
  <2>3. Len(queue') \in Nat
    BY <1>1, <2>1, <2>2
  <2> DEFINE From(i) == IF i < m THEN i ELSE i + 1
  <2>4. \A i \in 1..Len(queue') : From(i) \in 1..Len(queue) /\ queue'[i] = queue[From(i)]
    BY <1>1, <2>1, <2>2, <2>3
  <2>5. \A i1, i2 \in 1..Len(queue') : i1 < i2 => From(i1) < From(i2)
    BY <1>1, <2>1, <2>2, <2>3
  <2> HIDE DEF From
  <2> QED
    BY <1>1, <2>1, <2>2, <2>3, <2>4, <2>5, ZenonT(40)
<1>4. \/ queue' = queue /\ QueuedTasks \cap tasks = {}
      \/ \E i \in DOMAIN queue : queue[i] \in tasks /\ queue' = RemoveAt(queue, i)
  BY DEF Cancel
<1> QED
  BY ONLY <1>2, <1>3, <1>4, ZenonT(30)

\* What is known of each task.
LEMMA EachTask ==
    ASSUME QueueType
    PROVE  /\ issued \in Nat /\ Len(queue) \in Nat
           /\ \A i \in 1..Len(queue) :
                 /\ queue[i] \in Task /\ queue[i].id \in Nat
                 /\ queue[i].id # 0 /\ queue[i].id < issued + 1
           /\ \A k \in schedule : /\ k \in Task /\ k.id \in Nat
                                  /\ k.id # 0 /\ k.id < issued + 1
           /\ running.id \in Nat /\ running.id < issued + 1
PROOF
<1>1. issued \in Nat /\ Len(queue) \in Nat
  BY LenProperties DEF QueueType
<1>2. ASSUME NEW i \in 1..Len(queue)
      PROVE  /\ queue[i] \in Task /\ queue[i].id \in Nat
             /\ queue[i].id # 0 /\ queue[i].id < issued + 1
  <2>1. queue[i] \in Task /\ queue[i].id <= issued
    BY ElementOfSeq DEF QueueType
  <2>2. queue[i].id \in Nat \ {0}
    BY <2>1 DEF Task
  <2> QED
    BY <1>1, <2>1, <2>2
<1>3. ASSUME NEW k \in schedule
      PROVE  /\ k \in Task /\ k.id \in Nat /\ k.id # 0 /\ k.id < issued + 1
  <2>1. k \in Task /\ k.id <= issued
    BY DEF QueueType
  <2>2. k.id \in Nat \ {0}
    BY <2>1 DEF Task
  <2> QED
    BY <1>1, <2>1, <2>2
<1>4. running.id \in Nat /\ running.id < issued + 1
  <2>1. running.id \in Nat
    BY DEF QueueType, Task, NoTask
  <2> QED
    BY <1>1, <2>1 DEF QueueType
<1> QED
  BY <1>1, <1>2, <1>3, <1>4

\* A new task is queued.
LEMMA AppendTasks ==
    ASSUME TasksInv, NEW k \in Task, k.id = issued + 1, k.op # "gc",
           queue' = Append(queue, k), issued' = issued + 1,
           schedule' = schedule, running' = running
    PROVE  TasksInv'
PROOF
<1>1. /\ queue' \in Seq(Task) /\ Len(queue) \in Nat
      /\ Len(queue') = Len(queue) + 1
      /\ \A i \in 1..Len(queue) : queue'[i] = queue[i]
      /\ queue'[Len(queue) + 1] = k
  BY AppendShape DEF TasksInv, QueueType
<1>2. \A i \in 1..Len(queue') :
         \/ i \in 1..Len(queue) /\ queue'[i] = queue[i]
         \/ i = Len(queue) + 1 /\ queue'[i] = k
  BY <1>1
<1>3. issued \in Nat /\ issued + 1 \in Nat
  BY DEF TasksInv, QueueType
<1>4. /\ \A i \in 1..Len(queue) : queue[i].id < k.id /\ queue[i].id \in Nat
      /\ \A x \in schedule : x.id < k.id /\ x.id \in Nat
      /\ running.id < k.id /\ running.id \in Nat
  BY EachTask DEF TasksInv
<1>5. QueueType'
  <2>1. ASSUME NEW i \in 1..Len(queue') PROVE queue'[i].id <= issued'
    <3>1. CASE i \in 1..Len(queue) /\ queue'[i] = queue[i]
      BY <1>3, <1>4, <3>1
    <3>2. CASE queue'[i] = k
      BY <1>3, <3>2
    <3> QED
      BY <1>2, <3>1, <3>2
  <2>2. ASSUME NEW x \in schedule PROVE x.id <= issued'
    BY <1>3, <1>4
  <2>3. running.id <= issued'
    BY <1>3, <1>4
  <2>4. /\ schedule' \subseteq Task /\ running' \in Task \cup {NoTask}
        /\ issued' \in Nat
    BY <1>3 DEF TasksInv, QueueType
  <2> QED
    BY <1>1, <2>1, <2>2, <2>3, <2>4 DEF QueueType
<1>6. UniqueIds'
  <2>1. \A i, j \in 1..Len(queue') : queue'[i].id = queue'[j].id => i = j
    BY <1>2, <1>4 DEF TasksInv, UniqueIds
  <2>2. \A i \in 1..Len(queue') : \A x \in schedule : queue'[i].id # x.id
    BY <1>2, <1>4 DEF TasksInv, UniqueIds
  <2>3. \A i \in 1..Len(queue') : queue'[i].id # running.id
    BY <1>2, <1>4 DEF TasksInv, UniqueIds
  <2> QED
    BY <2>1, <2>2, <2>3 DEF TasksInv, UniqueIds
<1>7. OneCollection'
  BY <1>2 DEF TasksInv, OneCollection
<1> QED
  BY <1>5, <1>6, <1>7 DEF TasksInv

\* The task that was being executed ends, or goes on.
LEMMA EndTask ==
    ASSUME TasksInv, running' \in {running, NoTask},
           UNCHANGED <<queue, schedule, issued>>
    PROVE  TasksInv'
PROOF
<1>1. QueueType'
  BY DEF TasksInv, QueueType, NoTask
<1>2. UniqueIds'
  <2>1. /\ \A i \in 1..Len(queue) : queue[i].id # 0
        /\ \A x \in schedule : x.id # 0
    BY EachTask DEF TasksInv
  <2> QED
    BY <2>1 DEF TasksInv, UniqueIds, NoTask
<1>3. OneCollection'
  BY DEF TasksInv, OneCollection, NoTask
<1> QED
  BY <1>1, <1>2, <1>3 DEF TasksInv

\* A delayed task is accepted by the one that ends.
LEMMA ScheduleTask ==
    ASSUME TasksInv, NEW k \in Task, k.id = issued + 1,
           k.op \in {"attempt", "gc"},
           k.op = "gc" => /\ \A i \in 1..Len(queue) : queue[i].op # "gc"
                          /\ \A x \in schedule : x.op # "gc",
           schedule' = schedule \cup {k}, issued' = issued + 1,
           queue' = queue, running' = NoTask
    PROVE  TasksInv'
PROOF
<1>1. issued \in Nat /\ issued + 1 \in Nat
  BY DEF TasksInv, QueueType
<1>2. /\ \A i \in 1..Len(queue) : queue[i].id < k.id /\ queue[i].id # 0
      /\ \A x \in schedule : x.id < k.id /\ x.id # 0
  BY EachTask DEF TasksInv
<1>3. QueueType'
  <2>1. ASSUME NEW i \in 1..Len(queue) PROVE queue[i].id <= issued + 1
    BY <1>1, EachTask DEF TasksInv
  <2>2. ASSUME NEW x \in schedule' PROVE x.id <= issued + 1
    <3>1. CASE x \in schedule
      BY <1>1, <3>1, EachTask DEF TasksInv
    <3>2. CASE x = k
      BY <1>1, <3>2
    <3> QED
      BY <3>1, <3>2
  <2> QED
    BY <1>1, <2>1, <2>2 DEF TasksInv, QueueType, NoTask
<1>4. UniqueIds'
  BY <1>1, <1>2 DEF TasksInv, UniqueIds, NoTask
<1>5. OneCollection'
  BY DEF TasksInv, OneCollection, NoTask
<1> QED
  BY <1>3, <1>4, <1>5 DEF TasksInv

\* The worker thread starts the first task.
LEMMA StartTask ==
    ASSUME TasksInv, Start
    PROVE  TasksInv'
PROOF
<1>1. /\ queue' \in Seq(Task) /\ Len(queue) \in Nat \ {0}
      /\ running' = queue[1] /\ queue[1] \in Task
      /\ Len(queue') = Len(queue) - 1
      /\ \A i \in 1..Len(queue') : queue'[i] = queue[i + 1]
      /\ schedule' = schedule /\ issued' = issued
  BY TailShape DEF TasksInv, QueueType, Start
<1>2. /\ 1 \in 1..Len(queue)
      /\ \A i \in 1..Len(queue') : i + 1 \in 1..Len(queue) /\ i + 1 # 1
  BY <1>1
<1>3. QueueType'
  BY <1>1, <1>2 DEF TasksInv, QueueType
<1>4. UniqueIds'
  <2>1. \A i, j \in 1..Len(queue') : queue'[i].id = queue'[j].id => i + 1 = j + 1
    BY <1>1, <1>2, SMTT(30) DEF TasksInv, UniqueIds
  <2>2. \A i, j \in 1..Len(queue') : i + 1 = j + 1 => i = j
    BY <1>1
  <2>3. /\ \A i \in 1..Len(queue') : \A x \in schedule : queue'[i].id # x.id
        /\ \A i \in 1..Len(queue') : queue'[i].id # running'.id
        /\ \A x \in schedule : x.id # running'.id
    BY <1>1, <1>2, SMTT(30) DEF TasksInv, UniqueIds
  <2> QED
    BY <1>1, <2>1, <2>2, <2>3 DEF TasksInv, UniqueIds
<1>5. OneCollection'
  <2>1. ASSUME NEW i \in 1..Len(queue'), NEW j \in 1..Len(queue'),
               queue'[i].op = "gc", queue'[j].op = "gc"
        PROVE  i + 1 = j + 1
    <3>1. queue[i + 1].op = "gc" /\ queue[j + 1].op = "gc"
      BY <1>1, <2>1
    <3> QED
      BY <1>2, <3>1 DEF TasksInv, OneCollection
  <2>2. \A i, j \in 1..Len(queue') : i + 1 = j + 1 => i = j
    BY <1>1
  <2>3. /\ \A i \in 1..Len(queue') : \A k \in schedule :
              ~(queue'[i].op = "gc" /\ k.op = "gc")
        /\ running'.op = "gc" =>
              /\ \A i \in 1..Len(queue') : queue'[i].op # "gc"
              /\ \A k \in schedule : k.op # "gc"
    BY <1>1, <1>2, SMTT(30) DEF TasksInv, OneCollection
  <2> QED
    BY <1>1, <2>1, <2>2, <2>3 DEF TasksInv, OneCollection
<1> QED
  BY <1>3, <1>4, <1>5 DEF TasksInv

\* A timer is due.
LEMMA ExpireTask ==
    ASSUME TasksInv, NEW k \in schedule,
           schedule' = schedule \ {k}, queue' = Append(queue, k),
           UNCHANGED <<running, issued>>
    PROVE  TasksInv'
PROOF
<1>0. k \in Task
  BY DEF TasksInv, QueueType
<1>1. /\ queue' \in Seq(Task) /\ Len(queue) \in Nat
      /\ Len(queue') = Len(queue) + 1
      /\ \A i \in 1..Len(queue) : queue'[i] = queue[i]
      /\ queue'[Len(queue) + 1] = k
  BY <1>0, AppendShape DEF TasksInv, QueueType
<1>2. \A i \in 1..Len(queue') :
         \/ i \in 1..Len(queue) /\ queue'[i] = queue[i]
         \/ i = Len(queue) + 1 /\ queue'[i] = k
  BY <1>1
<1>3. QueueType'
  BY <1>1, <1>2 DEF TasksInv, QueueType
<1>4. UniqueIds'
  <2>1. \A i, j \in 1..Len(queue') : queue'[i].id = queue'[j].id => i = j
    BY <1>2 DEF TasksInv, UniqueIds
  <2>2. \A i \in 1..Len(queue') : \A x \in schedule' : queue'[i].id # x.id
    BY <1>2 DEF TasksInv, UniqueIds
  <2>3. \A i \in 1..Len(queue') : queue'[i].id # running.id
    BY <1>2 DEF TasksInv, UniqueIds
  <2> QED
    BY <2>1, <2>2, <2>3 DEF TasksInv, UniqueIds
<1>5. OneCollection'
  <2>1. \A i, j \in 1..Len(queue') :
           queue'[i].op = "gc" /\ queue'[j].op = "gc" => i = j
    BY <1>2 DEF TasksInv, OneCollection
  <2>2. \A i \in 1..Len(queue') : \A x \in schedule' :
           ~(queue'[i].op = "gc" /\ x.op = "gc")
    BY <1>2 DEF TasksInv, OneCollection
  <2>3. running.op = "gc" => \A i \in 1..Len(queue') : queue'[i].op # "gc"
    BY <1>2 DEF TasksInv, OneCollection
  <2> QED
    BY <2>1, <2>2, <2>3 DEF TasksInv, OneCollection
<1> QED
  BY <1>3, <1>4, <1>5 DEF TasksInv

\* Tasks are cancelled.
LEMMA CancelTasks ==
    ASSUME TasksInv, NEW tasks, Cancel(tasks), running' \in {running, NoTask},
           issued' = issued
    PROVE  TasksInv'
PROOF
<1>1. /\ queue' \in Seq(Task) /\ Len(queue) \in Nat /\ Len(queue') \in Nat
      /\ \A i \in 1..Len(queue') : \E j \in 1..Len(queue) : queue'[i] = queue[j]
      /\ \A i1, i2 \in 1..Len(queue') : i1 < i2 =>
            \E j1, j2 \in 1..Len(queue) :
               j1 < j2 /\ queue'[i1] = queue[j1] /\ queue'[i2] = queue[j2]
  BY CancelShape DEF TasksInv, QueueType
<1>2. schedule' \subseteq schedule
  BY DEF Cancel
<1>3. /\ \A i \in 1..Len(queue) : queue[i].id # 0
      /\ \A x \in schedule : x.id # 0
  BY EachTask DEF TasksInv
<1>0. \A j1, j2 \in 1..Len(queue) : j1 < j2 => j1 # j2
  BY <1>1
<1>4. QueueType'
  <2>1. \A i \in 1..Len(queue') : \E j \in 1..Len(queue) : queue'[i] = queue[j]
    BY <1>1
  <2>2. \A i \in 1..Len(queue') : queue'[i].id <= issued
    BY <2>1 DEF TasksInv, QueueType
  <2>3. /\ running' \in Task \cup {NoTask} /\ issued \in Nat
        /\ running'.id <= issued
    BY DEF TasksInv, QueueType, NoTask
  <2>4. schedule' \subseteq Task /\ \A x \in schedule' : x.id <= issued
    BY <1>2 DEF TasksInv, QueueType
  <2> QED
    BY <1>1, <2>2, <2>3, <2>4 DEF QueueType
<1>5. UniqueIds'
  <2>1. ASSUME NEW i1 \in 1..Len(queue'), NEW i2 \in 1..Len(queue'), i1 < i2
        PROVE  queue'[i1].id # queue'[i2].id
    <3>1. PICK j1, j2 \in 1..Len(queue) :
             j1 < j2 /\ queue'[i1] = queue[j1] /\ queue'[i2] = queue[j2]
      BY <1>1, <2>1
    <3> QED
      BY <1>0, <3>1 DEF TasksInv, UniqueIds
  <2>2. \A i, j \in 1..Len(queue') : queue'[i].id = queue'[j].id => i = j
    <3> TAKE i, j \in 1..Len(queue')
    <3>1. i < j \/ j < i \/ i = j
      BY <1>1
    <3> QED
      BY <2>1, <3>1
  <2>3. /\ \A i \in 1..Len(queue') : \A x \in schedule' : queue'[i].id # x.id
        /\ \A i \in 1..Len(queue') : queue'[i].id # running'.id
        /\ \A x \in schedule' : x.id # running'.id
    BY <1>1, <1>2, <1>3 DEF TasksInv, UniqueIds, NoTask
  <2> QED
    BY <1>2, <2>2, <2>3 DEF TasksInv, UniqueIds
<1>6. OneCollection'
  <2>1. ASSUME NEW i1 \in 1..Len(queue'), NEW i2 \in 1..Len(queue'), i1 < i2
        PROVE  ~(queue'[i1].op = "gc" /\ queue'[i2].op = "gc")
    <3>1. PICK j1, j2 \in 1..Len(queue) :
             j1 < j2 /\ queue'[i1] = queue[j1] /\ queue'[i2] = queue[j2]
      BY <1>1, <2>1
    <3> QED
      BY <1>0, <3>1 DEF TasksInv, OneCollection
  <2>2. \A i, j \in 1..Len(queue') :
           queue'[i].op = "gc" /\ queue'[j].op = "gc" => i = j
    <3> TAKE i, j \in 1..Len(queue')
    <3>1. i < j \/ j < i \/ i = j
      BY <1>1
    <3> QED
      BY <2>1, <3>1
  <2>3. /\ \A i \in 1..Len(queue') : \A x \in schedule' :
              ~(queue'[i].op = "gc" /\ x.op = "gc")
        /\ running'.op = "gc" =>
              /\ \A i \in 1..Len(queue') : queue'[i].op # "gc"
              /\ \A x \in schedule' : x.op # "gc"
    BY <1>1, <1>2, SMTT(30) DEF TasksInv, OneCollection, NoTask
  <2> QED
    BY <1>2, <2>2, <2>3 DEF TasksInv, OneCollection
<1> QED
  BY <1>4, <1>5, <1>6 DEF TasksInv

-----------------------------------------------------------------------------
(* The threads                                                             *)

\* A call goes on to another place.
LEMMA AtShape ==
    ASSUME ClientType, NEW t \in Threads, NEW place \in Places, At(t, place)
    PROVE  /\ thread' \in [Threads -> Call]
           /\ thread'[t].at = place /\ thread'[t].call = thread[t].call
           /\ thread'[t].n = thread[t].n
           /\ \A u \in Threads \ {t} : thread'[u] = thread[u]
PROOF
<1>1. thread \in [Threads -> Call] /\ thread' = [thread EXCEPT ![t].at = place]
  BY DEF ClientType, At
<1>2. thread[t] \in Call /\ thread'[t] = [thread[t] EXCEPT !.at = place]
  BY <1>1
<1>3. thread'[t] \in Call /\ thread'[t].at = place
      /\ thread'[t].call = thread[t].call /\ thread'[t].n = thread[t].n
  BY <1>2 DEF Call
<1> QED
  BY <1>1, <1>3

\* A call returns.
LEMMA ReturnShape ==
    ASSUME ClientType, NEW t \in Threads, Return(t)
    PROVE  /\ thread' \in [Threads -> Call]
           /\ thread'[t].at = "idle" /\ thread'[t].call = "none"
           /\ \A u \in Threads \ {t} : thread'[u] = thread[u]
PROOF
<1>1. Idle \in Call
  BY LifecycleBoundsAssumption DEF Idle, Call, Places
<1> QED
  BY <1>1 DEF ClientType, Return, Idle

\* A call begins.
LEMMA BeginShape ==
    ASSUME ClientType, NEW t \in Threads, NEW call \in Calls,
           NEW place \in Places, Begin(t, call, place)
    PROVE  /\ thread' \in [Threads -> Call] /\ made' \in 0..MaxCalls
           /\ made + 1 \in 0..MaxCalls
           /\ thread[t].call = "none" /\ call \in allowed
           /\ thread'[t].at = place /\ thread'[t].call = call
           /\ \A u \in Threads \ {t} : thread'[u] = thread[u]
PROOF
<1>1. made + 1 \in 0..MaxCalls /\ made' = made + 1
  BY LifecycleBoundsAssumption DEF ClientType, Begin
<1> DEFINE k == [at |-> place, call |-> call, n |-> made + 1]
<1>2. k \in Call /\ k.at = place /\ k.call = call
  BY <1>1 DEF Call
<1>3. thread \in [Threads -> Call] /\ thread' = [thread EXCEPT ![t] = k]
  BY DEF ClientType, Begin
<1> HIDE DEF k
<1>4. thread[t].call = "none" /\ call \in allowed
  BY DEF Begin, Idle
<1> QED
  BY <1>1, <1>2, <1>3, <1>4

\* A step of one thread that leaves the others what they rely on.
Undisturbed(t) ==
    /\ \A u \in Threads \ {t} : thread'[u] = thread[u]
    /\ thread'[t].call = "release" => \/ thread[t].call = "release"
                                      \/ instance = "alive"
    /\ configured => configured'
    /\ configured' = configured \/ instance = "alive"
    /\ signalled => signalled'
    /\ mode' = mode \/ (mode # "disposed" /\ mode' # "running")
    /\ mode' = "disposed" => mode = "disposed" \/ thread[t].call = "release"
    /\ \/ instance' = instance
       \/ /\ instance = "alive" /\ instance' = "releasing"
          /\ \A u \in Threads : thread[u].call \in {"none", "remove", "user"}
       \/ instance' = "gone" /\ thread[t].call = "release"
    /\ instance' = "alive" => mode' # "disposed"

\* Then the threads' part of the invariant holds if it holds for that thread.
LEMMA ThreadStep ==
    ASSUME ThreadsInv, NEW t \in Threads, Undisturbed(t), ThreadInv(t)'
    PROVE  ThreadsInv'
PROOF
<1>1. ASSUME NEW u \in Threads \ {t} PROVE ThreadInv(u)'
  <2>1. /\ ThreadInv(u) /\ thread'[u] = thread[u]
        /\ thread[u].call = "release" => thread[t].call # "release"
    BY DEF ThreadsInv, Undisturbed
  <2>2. ThreadInv(t)
    BY DEF ThreadsInv
  <2>3. Place(u)'
    BY <2>1 DEF ThreadInv, Place
  <2>4. /\ thread[u].call \in {"write", "transaction", "terminate"} =>
               instance' = "alive"
        /\ thread[u].call = "release" => instance' = "releasing"
    BY <2>1, <2>2 DEF ThreadInv, Undisturbed
  <2>5. /\ thread[u].call = "release" /\ thread[u].at # "cancel" =>
               mode' # "disposed"
        /\ thread[u].at = "cancel" => mode' = "disposed"
        /\ thread[u].at = "submit" => mode' # "running"
    BY <2>1, <2>2 DEF ThreadInv, Undisturbed
  <2>6. /\ thread[u].at \in {"verify", "enqueue", "restrict", "submit", "await"}
               => configured'
        /\ thread[u].at = "close" /\ configured' => signalled'
    BY <2>1, <2>2 DEF ThreadInv, Place, Undisturbed
  <2> QED
    BY <2>1, <2>3, <2>4, <2>5, <2>6 DEF ThreadInv
<1>2. \A u, v \in Threads :
         thread'[u].call = "release" /\ thread'[v].call = "release" => u = v
  BY DEF ThreadsInv, ThreadInv, Undisturbed
<1> QED
  BY <1>1, <1>2 DEF ThreadsInv, Undisturbed

\* Steps of the worker thread, of timers and of transactions.
LEMMA OtherStep ==
    ASSUME ThreadsInv, UNCHANGED <<thread, mode, instance, configured>>,
           signalled => signalled'
    PROVE  ThreadsInv'
PROOF
  BY DEF ThreadsInv, ThreadInv, Place

-----------------------------------------------------------------------------
(* The stages of the client's life                                         *)

\* A task is added at the end of the queue.
LEMMA AppendStages ==
    ASSUME QueueType, Stages, NEW k \in Task, queue' = Append(queue, k),
           schedule' \subseteq schedule, k.op # "init",
           UNCHANGED <<running, mode, engine, configured, signalled>>,
           outside' \subseteq outside,
           engine = "none" => /\ k.op \notin {"gc", "attempt"}
                              /\ ~configured => k.op = "clear",
           engine = "shut" => /\ k.op \in LateOps
                              /\ k.op = "gc" => mode = "disposed",
           mode = "running" => k.op \notin Ending,
           mode # "running" => k.op \in LateOps
    PROVE  Stages'
PROOF
<1>1. /\ Len(queue) \in Nat /\ Len(queue') = Len(queue) + 1
      /\ \A i \in 1..Len(queue) : queue'[i] = queue[i]
      /\ queue'[Len(queue) + 1] = k
  BY AppendShape DEF QueueType
<1>2. /\ \A i \in 1..Len(queue') :
            \/ i \in 1..Len(queue) /\ queue'[i] = queue[i]
            \/ i = Len(queue) + 1 /\ queue'[i] = k
      /\ \A i \in 1..Len(queue) : i \in 1..Len(queue')
  BY <1>1
<1>3. NotOpened'
  <2> SUFFICES ASSUME engine = "none" PROVE NotOpened'
    BY DEF NotOpened
  <2>1. /\ schedule' = {} /\ outside' = {} /\ ~signalled
        /\ running.op \in {"none", "clear", "init"}
        /\ \A i \in 1..Len(queue') : queue'[i].op \notin {"gc", "attempt"}
    BY <1>2 DEF Stages, NotOpened
  <2>2. CASE ~configured
    BY <1>2, <2>1, <2>2 DEF Stages, NotOpened
  <2>3. CASE configured /\ running.op = "init"
    BY <1>2, <2>1, <2>3 DEF Stages, NotOpened
  <2>4. CASE configured /\ running.op # "init"
    <3>1. PICK i \in 1..Len(queue) :
             /\ queue[i].op = "init"
             /\ \A j \in 1..Len(queue) : /\ j < i => queue[j].op = "clear"
                                         /\ j > i => queue[j].op # "init"
      BY <2>4 DEF Stages, NotOpened
    <3>2. i \in 1..Len(queue') /\ queue'[i].op = "init"
      BY <1>1, <1>2, <3>1
    <3>3. \A j \in 1..Len(queue') : /\ j < i => queue'[j].op = "clear"
                                    /\ j > i => queue'[j].op # "init"
      <4> TAKE j \in 1..Len(queue')
      <4>1. CASE j \in 1..Len(queue)
        BY <1>1, <3>1, <4>1
      <4>2. CASE j = Len(queue) + 1
        BY <1>1, <3>1, <4>2
      <4> QED
        BY <1>2, <4>1, <4>2
    <3>4. mode # "disposed"
      BY <2>4 DEF Stages, NotOpened
    <3> QED
      BY <2>1, <2>4, <3>2, <3>3, <3>4 DEF NotOpened
  <2> QED
    BY <2>2, <2>3, <2>4
<1>4. Opened'
  BY <1>2 DEF Stages, Opened
<1>5. Ended'
  BY <1>2 DEF Stages, Ended
<1>6. EndsLast'
  <2>1. ASSUME NEW i \in 1..Len(queue'), NEW j \in 1..Len(queue'),
               i < j, queue'[i].op \in Ending
        PROVE  queue'[j].op \in LateOps
    <3>1. i \in 1..Len(queue) /\ queue'[i] = queue[i]
      BY <1>1, <1>2, <2>1
    <3>2. CASE j \in 1..Len(queue) /\ queue'[j] = queue[j]
      BY <2>1, <3>1, <3>2 DEF Stages, EndsLast
    <3>3. CASE queue'[j] = k
      <4>1. mode # "running"
        BY <2>1, <3>1 DEF Stages, EndsLast
      <4> QED
        BY <3>3, <4>1
    <3> QED
      BY <1>2, <3>2, <3>3
  <2>2. running.op \in Ending => \A j \in 1..Len(queue') : queue'[j].op \in LateOps
    <3>1. running.op \in Ending => mode # "running"
      BY DEF Stages, EndsLast
    <3> QED
      BY <1>2, <3>1 DEF Stages, EndsLast
  <2>3. mode = "running" => \A i \in 1..Len(queue') : queue'[i].op \notin Ending
    BY <1>2 DEF Stages, EndsLast
  <2> QED
    BY <2>1, <2>2, <2>3 DEF Stages, EndsLast
<1> QED
  BY <1>3, <1>4, <1>5, <1>6 DEF Stages

\* The task that was being executed ends, and may have scheduled another.
LEMMA EndStages ==
    ASSUME Stages, running' = NoTask, running.op # "init",
           \/ schedule' = schedule
           \/ engine # "none" /\ mode = "running",
           outside' \subseteq outside \/ engine # "none",
           UNCHANGED <<queue, mode, engine, configured, signalled>>
    PROVE  Stages'
PROOF
<1>1. running'.op = "none"
  BY DEF NoTask
<1>2. NotOpened'
  BY <1>1 DEF Stages, NotOpened
<1>3. Opened' /\ Ended'
  BY <1>1 DEF Stages, Opened, Ended
<1>4. EndsLast'
  BY <1>1 DEF Stages, EndsLast, Ending
<1> QED
  BY <1>2, <1>3, <1>4 DEF Stages

\* The worker thread starts the first task.
LEMMA StartStages ==
    ASSUME QueueType, Stages, Start
    PROVE  Stages'
PROOF
<1>1. /\ Len(queue) \in Nat \ {0} /\ running = NoTask
      /\ running' = queue[1]
      /\ Len(queue') = Len(queue) - 1
      /\ \A i \in 1..Len(queue') : queue'[i] = queue[i + 1]
      /\ schedule' = schedule /\ outside' = outside /\ mode' = mode
      /\ engine' = engine /\ configured' = configured /\ signalled' = signalled
  BY TailShape DEF QueueType, Start, clientVars, callVars
<1>2. /\ 1 \in 1..Len(queue)
      /\ \A i \in 1..Len(queue') : i + 1 \in 1..Len(queue) /\ 1 < i + 1
  BY <1>1
<1>3. NotOpened'
  <2> SUFFICES ASSUME engine = "none" PROVE NotOpened'
    BY <1>1 DEF NotOpened
  <2>0. running.op # "init"
    BY <1>1 DEF NoTask
  <2>1. CASE ~configured
    BY <1>1, <1>2, <2>1, SMTT(30) DEF Stages, NotOpened
  <2>2. CASE configured
    <3>1. PICK i \in 1..Len(queue) :
             /\ queue[i].op = "init"
             /\ \A j \in 1..Len(queue) : /\ j < i => queue[j].op = "clear"
                                         /\ j > i => queue[j].op # "init"
      BY <2>0, <2>2 DEF Stages, NotOpened
    <3>2. CASE i = 1
      <4>1. \A j \in 1..Len(queue') : queue'[j].op # "init"
        BY <1>1, <1>2, <3>1, <3>2
      <4>2. \A j \in 1..Len(queue') : queue'[j].op \notin {"gc", "attempt"}
        BY <1>1, <1>2 DEF Stages, NotOpened
      <4> QED
        BY <1>1, <2>2, <3>1, <3>2, <4>1, <4>2 DEF Stages, NotOpened
    <3>3. CASE i # 1
      <4>1. i - 1 \in 1..Len(queue') /\ (i - 1) + 1 = i /\ 1 < i
        BY <1>1, <3>3
      <4>2. queue'[i - 1].op = "init" /\ queue[1].op = "clear"
        BY <1>1, <1>2, <3>1, <4>1
      <4>3. \A j \in 1..Len(queue') : /\ j < i - 1 => queue'[j].op = "clear"
                                      /\ j > i - 1 => queue'[j].op # "init"
        <5> TAKE j \in 1..Len(queue')
        <5>1. /\ j < i - 1 => j + 1 < i
              /\ j > i - 1 => j + 1 > i
          BY <1>1
        <5> QED
          BY <1>1, <1>2, <3>1, <5>1
      <4>4. \A j \in 1..Len(queue') : queue'[j].op \notin {"gc", "attempt"}
        BY <1>1, <1>2 DEF Stages, NotOpened
      <4>5. schedule = {} /\ outside = {} /\ ~signalled /\ mode # "disposed"
        BY <2>2 DEF Stages, NotOpened
      <4> QED
        BY <1>1, <2>2, <4>1, <4>2, <4>3, <4>4, <4>5 DEF NotOpened
    <3> QED
      BY <3>2, <3>3
  <2> QED
    BY <2>1, <2>2
<1>4. Opened'
  BY <1>1, <1>2 DEF Stages, Opened
<1>5. Ended'
  BY <1>1, <1>2 DEF Stages, Ended
<1>6. EndsLast'
  <2>1. ASSUME NEW i \in 1..Len(queue'), NEW j \in 1..Len(queue'),
               i < j, queue'[i].op \in Ending
        PROVE  queue'[j].op \in LateOps
    <3>1. i + 1 < j + 1
      BY <1>1, <2>1
    <3> QED
      BY <1>1, <1>2, <2>1, <3>1 DEF Stages, EndsLast
  <2>2. queue[1].op \in Ending => \A j \in 1..Len(queue') : queue'[j].op \in LateOps
    BY <1>1, <1>2 DEF Stages, EndsLast
  <2>3. mode = "running" =>
           /\ queue[1].op \notin Ending
           /\ \A i \in 1..Len(queue') : queue'[i].op \notin Ending
    BY <1>1, <1>2 DEF Stages, EndsLast
  <2> QED
    BY <1>1, <2>1, <2>2, <2>3 DEF EndsLast
<1> QED
  BY <1>3, <1>4, <1>5, <1>6 DEF Stages

\* Tasks are cancelled while the instance is disposed of, or when the client has
\* ended.
LEMMA CancelStages ==
    ASSUME QueueType, Stages, NEW tasks, Cancel(tasks), mode # "running",
           UNCHANGED <<mode, configured, signalled, outside>>,
           running' \in {running, NoTask},
           \/ engine' = engine /\ mode = "disposed"
           \/ /\ engine = "open" /\ engine' = "shut" /\ running' = NoTask
              /\ \A i \in 1..Len(queue) : queue[i].op \in LateOps
              /\ \A i \in 1..Len(queue') : queue'[i].op # "gc"
              /\ \A k \in schedule' : k.op # "gc"
    PROVE  Stages'
PROOF
<1>1. /\ Len(queue) \in Nat /\ Len(queue') \in Nat
      /\ \A i \in 1..Len(queue') : \E j \in 1..Len(queue) : queue'[i] = queue[j]
      /\ \A i1, i2 \in 1..Len(queue') : i1 < i2 =>
            \E j1, j2 \in 1..Len(queue) :
               j1 < j2 /\ queue'[i1] = queue[j1] /\ queue'[i2] = queue[j2]
      /\ schedule' \subseteq schedule
  BY CancelShape DEF QueueType, Cancel
<1>2. running'.op \in {running.op, "none"}
  BY DEF NoTask
<1>3. NotOpened'
  <2> SUFFICES ASSUME engine' = "none" PROVE NotOpened'
    BY DEF NotOpened
  <2>1. engine = "none" /\ mode = "disposed" /\ ~configured
    BY DEF Stages, NotOpened
  <2> QED
    BY <1>1, <1>2, <2>1, ZenonT(40) DEF Stages, NotOpened
<1>4. Opened'
  BY <1>1, <1>2 DEF Stages, Opened
<1>5. Ended'
  BY <1>1, <1>2, SMTT(30) DEF Stages, Ended, NoTask
<1>6. EndsLast'
  <2>1. ASSUME NEW i \in 1..Len(queue'), NEW j \in 1..Len(queue'),
               i < j, queue'[i].op \in Ending
        PROVE  queue'[j].op \in LateOps
    <3>1. PICK j1, j2 \in 1..Len(queue) :
             j1 < j2 /\ queue'[i] = queue[j1] /\ queue'[j] = queue[j2]
      BY <1>1, <2>1
    <3> QED
      BY <2>1, <3>1 DEF Stages, EndsLast
  <2>2. running'.op \in Ending =>
           \A j \in 1..Len(queue') : queue'[j].op \in LateOps
    BY <1>1, <1>2 DEF Stages, EndsLast, Ending
  <2> QED
    BY <2>1, <2>2 DEF EndsLast
<1> QED
  BY <1>3, <1>4, <1>5, <1>6 DEF Stages

-----------------------------------------------------------------------------
(* The steps of the threads                                                *)

\* What Execute adds is a task with an id of its own.
LEMMA ExecuteTask ==
    ASSUME TasksInv, NEW op \in Ops, NEW call \in 0..MaxCalls
    PROVE  /\ NewTask(op, call) \in Task
           /\ NewTask(op, call).id = issued + 1 /\ NewTask(op, call).op = op
           /\ NewTask(op, call).call = call
PROOF
<1>1. issued + 1 \in Nat \ {0}
  BY DEF TasksInv, QueueType
<1> QED
  BY <1>1 DEF NewTask, Task

\* An operation is queued, in any of the ways in which threads do it.
LEMMA ExecuteStep ==
    ASSUME TasksInv, Stages, ClientType, AllDoomed,
           NEW op \in Ops \ {"init", "gc", "attempt"}, NEW call \in 0..MaxCalls,
           Execute(op, call),
           UNCHANGED <<mode, schedule, running, doomed, engine, configured,
                       signalled, instance>>,
           outside' \subseteq outside,
           mode # "disposed", ~configured => op = "clear",
           engine = "shut" => op \in LateOps,
           mode = "running" => op \notin Ending,
           mode # "running" => op \in LateOps
    PROVE  /\ TasksInv' /\ Stages' /\ AllDoomed'
           /\ doomed' \subseteq 1..issued'
PROOF
<1> DEFINE k == NewTask(op, call)
<1>1. k \in Task /\ k.id = issued + 1 /\ k.op = op
  BY ExecuteTask
<1>2. queue' = Append(queue, k) /\ issued' = issued + 1
  BY DEF Execute
<1> HIDE DEF k
<1>3. TasksInv'
  BY <1>1, <1>2, AppendTasks
<1>4. Stages'
  BY <1>1, <1>2, AppendStages DEF TasksInv
<1>5. AllDoomed'
  BY DEF AllDoomed
<1>6. doomed' \subseteq 1..issued'
  BY <1>2 DEF ClientType, TasksInv, QueueType
<1> QED
  BY <1>3, <1>4, <1>5, <1>6

\* Steps that leave the queue alone.
LEMMA QueueUntouched ==
    ASSUME TasksInv, Stages, AllDoomed,
           UNCHANGED <<queueVars, engine, configured, signalled>>,
           outside' \subseteq outside,
           instance' = instance \/ mode # "disposed" \/ instance' = "gone"
    PROVE  TasksInv' /\ Stages' /\ AllDoomed'
PROOF
<1>1. UNCHANGED <<mode, queue, schedule, running, doomed, issued>>
  BY DEF queueVars
<1>2. TasksInv'
  BY <1>1 DEF TasksInv, QueueType, UniqueIds, OneCollection
<1>3. Stages'
  BY <1>1 DEF Stages, NotOpened, Opened, Ended, EndsLast
<1>4. AllDoomed'
  BY <1>1 DEF AllDoomed
<1> QED
  BY <1>2, <1>3, <1>4

LEMMA CallFirestoreStep ==
    ASSUME IInv, NEW t \in Threads, NEW call \in Calls, CallFirestore(t, call)
    PROVE  IInv'
PROOF
<1> DEFINE place == IF call = "terminate" THEN "restrict" ELSE "verify"
<1>1. ClientType /\ TasksInv /\ ThreadsInv /\ Stages /\ AllDoomed
  BY DEF IInv
<1>2. /\ call \in {"write", "transaction", "terminate"} /\ instance = "alive"
      /\ Begin(t, call, place) /\ configured' = TRUE
      /\ UNCHANGED <<mode, schedule, running, doomed, mutex, engine, files,
                     signalled, instance, outside, owed, answered>>
      /\ IF configured THEN Dropped ELSE Enqueue("init", 0)
  BY DEF CallFirestore, clientVars, callVars
<1>3. place \in Places
  BY DEF Places
<1>4. /\ thread' \in [Threads -> Call] /\ made' \in 0..MaxCalls
      /\ thread[t].call = "none"
      /\ thread'[t].at = place /\ thread'[t].call = call
      /\ \A u \in Threads \ {t} : thread'[u] = thread[u]
  BY <1>1, <1>2, <1>3, BeginShape
<1>5. mode # "disposed"
  BY <1>1, <1>2 DEF ThreadsInv
<1>6. ThreadsInv'
  <2>1. ThreadInv(t)'
    BY <1>2, <1>4 DEF ThreadInv, Place
  <2>2. Undisturbed(t)
    BY <1>2, <1>4, <1>5 DEF Undisturbed
  <2> QED
    BY <1>1, <2>1, <2>2, ThreadStep
<1>7. CASE configured
  <2>1. queue' = queue /\ issued' = issued /\ configured' = configured
    BY <1>2, <1>7 DEF Dropped, ClientType
  <2>2. TasksInv' /\ Stages' /\ AllDoomed'
    BY <1>1, <1>2, <2>1, QueueUntouched DEF queueVars
  <2>3. ClientType'
    BY <1>1, <1>2, <1>4, <2>1 DEF ClientType
  <2> QED
    BY <1>6, <2>2, <2>3 DEF IInv
<1>8. CASE ~configured
  <2>1. engine = "none" /\ mode = "running"
    BY <1>1, <1>5, <1>8 DEF Stages, NotOpened, Opened, ClientType
  <2> DEFINE k == NewTask("init", 0)
  <2>2. "init" \in Ops /\ 0 \in 0..MaxCalls
    BY LifecycleBoundsAssumption DEF Ops
  <2>3. k \in Task /\ k.id = issued + 1 /\ k.op = "init"
    BY <1>1, <2>2, ExecuteTask
  <2>4. queue' = Append(queue, k) /\ issued' = issued + 1
    BY <1>2, <1>8, <2>1 DEF Enqueue, Execute
  <2> HIDE DEF k
  <2>5. TasksInv'
    BY <1>1, <1>2, <2>3, <2>4, AppendTasks
  <2>6. /\ Len(queue) \in Nat /\ Len(queue') = Len(queue) + 1
        /\ \A i \in 1..Len(queue) : queue'[i] = queue[i]
        /\ queue'[Len(queue) + 1] = k
    BY <1>1, <2>3, <2>4, AppendShape DEF TasksInv, QueueType
  <2>7. /\ schedule = {} /\ outside = {} /\ ~signalled
        /\ running.op \in {"none", "clear"}
        /\ \A i \in 1..Len(queue) : queue[i].op = "clear"
    BY <1>1, <1>8, <2>1 DEF Stages, NotOpened
  <2>8. /\ Len(queue) + 1 \in 1..Len(queue')
        /\ \A i \in 1..Len(queue') :
              \/ i < Len(queue) + 1 /\ queue'[i].op = "clear"
              \/ i = Len(queue) + 1 /\ queue'[i].op = "init"
    BY <2>3, <2>6, <2>7
  <2>9. NotOpened'
    <3>1. \A j \in 1..Len(queue') :
             /\ j < Len(queue) + 1 => queue'[j].op = "clear"
             /\ j > Len(queue) + 1 => queue'[j].op # "init"
      BY <2>6, <2>8
    <3>2. \A i \in 1..Len(queue') : queue'[i].op \notin {"gc", "attempt"}
      BY <2>8
    <3>3. queue'[Len(queue) + 1].op = "init"
      BY <2>3, <2>6
    <3> QED
      BY <1>2, <1>5, <2>7, <2>8, <3>1, <3>2, <3>3 DEF NotOpened
  <2>10. Opened' /\ Ended'
    BY <1>2, <2>1 DEF Opened, Ended
  <2>11. EndsLast'
    BY <1>2, <2>7, <2>8 DEF EndsLast, Ending
  <2>12. AllDoomed'
    BY <1>2, <1>5 DEF AllDoomed
  <2>13. ClientType'
    <3>1. doomed' \subseteq 1..issued'
      BY <1>1, <1>2, <2>4 DEF ClientType, TasksInv, QueueType
    <3> QED
      BY <1>1, <1>2, <1>4, <3>1 DEF ClientType
  <2> QED
    BY <1>6, <2>5, <2>9, <2>10, <2>11, <2>12, <2>13 DEF IInv, Stages
<1> QED
  BY <1>7, <1>8

\* Calls that do not go through EnsureClientConfigured.
LEMMA CallStepBegins ==
    ASSUME IInv, NEW t \in Threads, CallRemove(t) \/ ChangeUser(t)
    PROVE  IInv'
PROOF
<1>1. ClientType /\ TasksInv /\ ThreadsInv /\ Stages /\ AllDoomed
  BY DEF IInv
<1>2. PICK call \in {"remove", "user"}, place \in {"verify", "enqueue"} :
         Begin(t, call, place)
  BY DEF CallRemove, ChangeUser
<1>3. /\ configured
      /\ UNCHANGED <<queueVars, mutex, configured, engine, files, signalled,
                     instance, outside, owed, answered>>
  BY DEF CallRemove, ChangeUser, clientVars, callVars
<1>4. call \in Calls /\ place \in Places
  BY DEF Calls, Places
<1>5. /\ thread' \in [Threads -> Call] /\ made' \in 0..MaxCalls
      /\ thread[t].call = "none"
      /\ thread'[t].at = place /\ thread'[t].call = call
      /\ \A u \in Threads \ {t} : thread'[u] = thread[u]
  BY <1>1, <1>2, <1>4, BeginShape
<1>6. ThreadsInv'
  <2>1. ThreadInv(t)'
    BY <1>3, <1>5 DEF ThreadInv, Place
  <2>2. Undisturbed(t)
    BY <1>1, <1>3, <1>5 DEF Undisturbed, ThreadsInv, queueVars
  <2> QED
    BY <1>1, <2>1, <2>2, ThreadStep
<1>7. TasksInv' /\ Stages' /\ AllDoomed'
  BY <1>1, <1>3, QueueUntouched
<1>8. ClientType'
  BY <1>1, <1>3, <1>5 DEF ClientType, queueVars
<1> QED
  BY <1>6, <1>7, <1>8 DEF IInv

\* The last reference is dropped.
LEMMA ReleaseStep ==
    ASSUME IInv, NEW t \in Threads, Release(t)
    PROVE  IInv'
PROOF
<1>1. ClientType /\ TasksInv /\ ThreadsInv /\ Stages /\ AllDoomed
  BY DEF IInv
<1>2. /\ instance = "alive" /\ instance' = "releasing"
      /\ \A u \in Threads : thread[u].call \in {"none", "remove", "user"}
      /\ Begin(t, "release", "lock")
      /\ UNCHANGED <<queueVars, mutex, configured, engine, files, signalled,
                     outside, owed, answered>>
  BY DEF Release, callVars
<1>3. "release" \in Calls /\ "lock" \in Places
  BY DEF Calls, Places
<1>4. /\ thread' \in [Threads -> Call] /\ made' \in 0..MaxCalls
      /\ thread'[t].at = "lock" /\ thread'[t].call = "release"
      /\ \A u \in Threads \ {t} : thread'[u] = thread[u]
  BY <1>1, <1>2, <1>3, BeginShape
<1>5. mode' = mode /\ mode # "disposed"
  BY <1>1, <1>2 DEF ThreadsInv, queueVars
<1>6. ThreadsInv'
  <2>1. ThreadInv(t)'
    BY <1>2, <1>4, <1>5 DEF ThreadInv, Place
  <2>2. Undisturbed(t)
    BY <1>2, <1>4, <1>5 DEF Undisturbed
  <2> QED
    BY <1>1, <2>1, <2>2, ThreadStep
<1>7. TasksInv' /\ Stages' /\ AllDoomed'
  BY <1>1, <1>2, <1>5, QueueUntouched
<1>8. ClientType'
  BY <1>1, <1>2, <1>4 DEF ClientType, queueVars
<1> QED
  BY <1>6, <1>7, <1>8 DEF IInv

LEMMA ClearPersistenceStep ==
    ASSUME IInv, NEW t \in Threads, ClearPersistence(t)
    PROVE  IInv'
PROOF
<1>1. ClientType /\ TasksInv /\ ThreadsInv /\ Stages /\ AllDoomed
  BY DEF IInv
<1>2. /\ instance = "alive" /\ made < MaxCalls /\ made' = made + 1
      /\ EnqueueEvenWhileRestricted("clear", made + 1)
      /\ UNCHANGED <<mode, schedule, running, doomed, mutex, configured, engine,
                     files, signalled, instance, thread, outside, owed,
                     answered>>
  BY DEF ClearPersistence, clientVars, callVars
<1>3. mode # "disposed"
  BY <1>1, <1>2 DEF ThreadsInv
<1>4. made + 1 \in 0..MaxCalls
  BY <1>1, <1>2, LifecycleBoundsAssumption DEF ClientType
<1>5. Execute("clear", made + 1)
  BY <1>2, <1>3 DEF EnqueueEvenWhileRestricted
<1>6. "clear" \in Ops \ {"init", "gc", "attempt"} /\ "clear" \in LateOps
      /\ "clear" \notin Ending
  BY DEF Ops, Calls, LateOps, Ending
<1>7. TasksInv' /\ Stages' /\ AllDoomed' /\ doomed' \subseteq 1..issued'
  BY <1>1, <1>2, <1>3, <1>4, <1>5, <1>6, ExecuteStep
<1>8. ThreadsInv'
  BY <1>1, <1>2, OtherStep
<1>9. ClientType'
  BY <1>1, <1>2, <1>4, <1>7 DEF ClientType
<1> QED
  BY <1>7, <1>8, <1>9 DEF IInv

LEMMA VerifyStep ==
    ASSUME IInv, NEW t \in Threads, VerifyNotTerminated(t)
    PROVE  IInv'
PROOF
<1>1. ClientType /\ TasksInv /\ ThreadsInv /\ Stages /\ AllDoomed
  BY DEF IInv
<1>2. /\ thread[t].at = "verify"
      /\ At(t, "enqueue") \/ Return(t)
      /\ owed' \subseteq owed \cup ({thread[t]} \cap Owing)
      /\ UNCHANGED <<queueVars, mutex, configured, engine, files, signalled,
                     instance, outside, answered, made>>
  BY DEF VerifyNotTerminated, clientVars, bounds
<1>3. /\ thread' \in [Threads -> Call]
      /\ \/ thread'[t].at = "enqueue" /\ thread'[t].call = thread[t].call
         \/ thread'[t].at = "idle" /\ thread'[t].call = "none"
      /\ \A u \in Threads \ {t} : thread'[u] = thread[u]
  BY <1>1, <1>2, AtShape, ReturnShape DEF Places
<1>4. ThreadsInv'
  <2>1. ThreadInv(t)
    BY <1>1 DEF ThreadsInv
  <2>2. ThreadInv(t)'
    BY <1>2, <1>3, <2>1 DEF ThreadInv, Place, queueVars
  <2>3. Undisturbed(t)
    BY <1>1, <1>2, <1>3, <2>1 DEF Undisturbed, ThreadInv, Place, ThreadsInv, queueVars
  <2> QED
    BY <1>1, <2>2, <2>3, ThreadStep
<1>5. TasksInv' /\ Stages' /\ AllDoomed'
  BY <1>1, <1>2, QueueUntouched
<1>6. ClientType'
  BY <1>1, <1>2, <1>3 DEF ClientType, queueVars
<1> QED
  BY <1>4, <1>5, <1>6 DEF IInv

\* From here on only TerminateInternal and what may follow it is accepted.
LEMMA RestrictStep ==
    ASSUME IInv, NEW t \in Threads, EnterRestrictedMode(t)
    PROVE  IInv'
PROOF
<1>1. ClientType /\ TasksInv /\ ThreadsInv /\ Stages /\ AllDoomed
  BY DEF IInv
<1>2. /\ thread[t].at = "restrict" /\ At(t, "submit")
      /\ mode' = IF mode = "disposed" THEN mode ELSE "restricted"
      /\ UNCHANGED <<queue, schedule, running, doomed, issued, mutex,
                     configured, engine, files, signalled, instance, outside,
                     owed, answered, made>>
  BY DEF EnterRestrictedMode, clientVars, callVars, bounds
<1>3. /\ thread' \in [Threads -> Call]
      /\ thread'[t].at = "submit" /\ thread'[t].call = thread[t].call
      /\ \A u \in Threads \ {t} : thread'[u] = thread[u]
  BY <1>1, <1>2, AtShape DEF Places
<1>4. /\ ThreadInv(t) /\ configured /\ thread[t].call \in {"terminate", "release"}
      /\ mode # "disposed"
  BY <1>1, <1>2 DEF ThreadsInv, ThreadInv, Place
<1>5. mode' = "restricted"
  BY <1>2, <1>4
<1>6. ThreadsInv'
  <2>1. ThreadInv(t)'
    BY <1>2, <1>3, <1>4, <1>5 DEF ThreadInv, Place
  <2>2. Undisturbed(t)
    BY <1>2, <1>3, <1>4, <1>5 DEF Undisturbed
  <2> QED
    BY <1>1, <2>1, <2>2, ThreadStep
<1>7. TasksInv'
  BY <1>1, <1>2 DEF TasksInv, QueueType, UniqueIds, OneCollection
<1>8. Stages'
  BY <1>1, <1>2, <1>4, <1>5 DEF Stages, NotOpened, Opened, Ended, EndsLast
<1>9. AllDoomed'
  BY <1>5 DEF AllDoomed
<1>10. ClientType'
  BY <1>1, <1>2, <1>3, <1>5 DEF ClientType
<1> QED
  BY <1>6, <1>7, <1>8, <1>9, <1>10 DEF IInv

\* An operation is queued after a check that may be out of date.
LEMMA EnqueueCallStep ==
    ASSUME IInv, NEW t \in Threads, EnqueueCall(t)
    PROVE  IInv'
PROOF
<1>1. ClientType /\ TasksInv /\ ThreadsInv /\ Stages /\ AllDoomed
  BY DEF IInv
<1>2. /\ thread[t].at = "enqueue" /\ Return(t)
      /\ Enqueue(thread[t].call, thread[t].n)
      /\ UNCHANGED <<mode, schedule, running, doomed, mutex, configured, engine,
                     files, signalled, instance, outside, owed, answered, made>>
  BY DEF EnqueueCall, clientVars, callVars, bounds
<1>3. /\ thread' \in [Threads -> Call]
      /\ thread'[t].at = "idle" /\ thread'[t].call = "none"
      /\ \A u \in Threads \ {t} : thread'[u] = thread[u]
  BY <1>1, <1>2, ReturnShape
<1>4. /\ configured /\ thread[t].n \in 0..MaxCalls
      /\ thread[t].call \in {"write", "transaction", "remove", "user"}
  BY <1>1, <1>2 DEF ThreadsInv, ThreadInv, Place, ClientType, Call
<1>5. ThreadsInv'
  <2>1. ThreadInv(t)'
    BY <1>3 DEF ThreadInv, Place
  <2>2. Undisturbed(t)
    BY <1>1, <1>2, <1>3 DEF Undisturbed, ThreadsInv
  <2> QED
    BY <1>1, <2>1, <2>2, ThreadStep
<1>6. TasksInv' /\ Stages' /\ AllDoomed' /\ doomed' \subseteq 1..issued'
  <2>1. CASE mode = "running"
    <3>1. Execute(thread[t].call, thread[t].n)
      BY <1>2, <2>1 DEF Enqueue
    <3>2. /\ thread[t].call \in Ops \ {"init", "gc", "attempt"}
          /\ thread[t].call \notin Ending
      BY <1>4 DEF Ops, Calls, Ending
    <3>3. engine # "shut"
      BY <1>1, <2>1 DEF Stages, Ended
    <3> QED
      BY <1>1, <1>2, <1>4, <2>1, <3>1, <3>2, <3>3, ExecuteStep
  <2>2. CASE mode # "running"
    <3>1. UNCHANGED queueVars
      BY <1>2, <2>2 DEF Enqueue, Dropped, queueVars
    <3> QED
      BY <1>1, <1>2, <3>1, QueueUntouched DEF ClientType, queueVars
  <2> QED
    BY <2>1, <2>2
<1>7. ClientType'
  BY <1>1, <1>2, <1>3, <1>6 DEF ClientType
<1> QED
  BY <1>5, <1>6, <1>7 DEF IInv

LEMMA SubmitStep ==
    ASSUME IInv, NEW t \in Threads, SubmitTermination(t)
    PROVE  IInv'
PROOF
<1> DEFINE op == IF thread[t].call = "release" THEN "dispose" ELSE "terminate"
<1>1. ClientType /\ TasksInv /\ ThreadsInv /\ Stages /\ AllDoomed
  BY DEF IInv
<1>2. /\ thread[t].at = "submit"
      /\ EnqueueEvenWhileRestricted(op, thread[t].n)
      /\ IF thread[t].call = "release" THEN At(t, "await") ELSE Return(t)
      /\ owed' = owed \cup ({thread[t]} \cap Owing)
      /\ UNCHANGED <<mode, schedule, running, doomed, mutex, configured, engine,
                     files, signalled, instance, outside, answered, made>>
  BY DEF SubmitTermination, clientVars, bounds
<1>3. /\ thread' \in [Threads -> Call]
      /\ \/ /\ thread'[t].at = "await" /\ thread'[t].call = thread[t].call
            /\ thread[t].call = "release"
         \/ thread'[t].at = "idle" /\ thread'[t].call = "none"
      /\ \A u \in Threads \ {t} : thread'[u] = thread[u]
  <2>1. CASE thread[t].call = "release"
    BY <1>1, <1>2, <2>1, AtShape DEF Places
  <2>2. CASE thread[t].call # "release"
    BY <1>1, <1>2, <2>2, ReturnShape
  <2> QED
    BY <2>1, <2>2
<1>4. /\ ThreadInv(t) /\ configured /\ thread[t].n \in 0..MaxCalls
      /\ mode # "running" /\ mode # "disposed"
      /\ thread[t].call \in {"terminate", "release"}
  BY <1>1, <1>2 DEF ThreadsInv, ThreadInv, Place, ClientType, Call
<1>5. ThreadsInv'
  <2>1. ThreadInv(t)'
    BY <1>2, <1>3, <1>4 DEF ThreadInv, Place
  <2>2. Undisturbed(t)
    BY <1>2, <1>3, <1>4 DEF Undisturbed
  <2> QED
    BY <1>1, <2>1, <2>2, ThreadStep
<1>6. TasksInv' /\ Stages' /\ AllDoomed' /\ doomed' \subseteq 1..issued'
  <2>1. Execute(op, thread[t].n)
    BY <1>2, <1>4 DEF EnqueueEvenWhileRestricted
  <2>2. op \in Ops \ {"init", "gc", "attempt"} /\ op \in LateOps
    BY DEF Ops, Calls, LateOps
  <2> QED
    BY <1>1, <1>2, <1>4, <2>1, <2>2, ExecuteStep
<1>7. ClientType'
  BY <1>1, <1>2, <1>3, <1>6 DEF ClientType
<1> QED
  BY <1>5, <1>6, <1>7 DEF IInv

LEMMA LockStep ==
    ASSUME IInv, NEW t \in Threads, LockForDispose(t)
    PROVE  IInv'
PROOF
<1>1. ClientType /\ TasksInv /\ ThreadsInv /\ Stages /\ AllDoomed
  BY DEF IInv
<1>2. /\ thread[t].at = "lock"
      /\ \/ configured /\ mutex' = t /\ At(t, "restrict")
         \/ ~configured /\ UNCHANGED mutex /\ At(t, "close")
      /\ UNCHANGED <<queueVars, configured, engine, files, signalled, instance,
                     outside, owed, answered, made>>
  BY DEF LockForDispose, callVars, bounds
<1>3. /\ thread' \in [Threads -> Call]
      /\ thread'[t].call = thread[t].call
      /\ \/ configured /\ thread'[t].at = "restrict"
         \/ ~configured /\ thread'[t].at = "close"
      /\ \A u \in Threads \ {t} : thread'[u] = thread[u]
  BY <1>1, <1>2, AtShape DEF Places
<1>4. ThreadInv(t) /\ thread[t].call = "release" /\ mode' = mode
  BY <1>1, <1>2 DEF ThreadsInv, ThreadInv, Place, queueVars
<1>5. ThreadsInv'
  <2>1. ThreadInv(t)'
    BY <1>2, <1>3, <1>4 DEF ThreadInv, Place
  <2>2. Undisturbed(t)
    BY <1>1, <1>2, <1>3, <1>4 DEF Undisturbed, ThreadsInv
  <2> QED
    BY <1>1, <2>1, <2>2, ThreadStep
<1>6. TasksInv' /\ Stages' /\ AllDoomed'
  BY <1>1, <1>2, QueueUntouched
<1>7. ClientType'
  BY <1>1, <1>2, <1>3 DEF ClientType, queueVars
<1> QED
  BY <1>5, <1>6, <1>7 DEF IInv

LEMMA AwaitStep ==
    ASSUME IInv, NEW t \in Threads, AwaitTermination(t)
    PROVE  IInv'
PROOF
<1>1. ClientType /\ TasksInv /\ ThreadsInv /\ Stages /\ AllDoomed
  BY DEF IInv
<1>2. /\ thread[t].at = "await" /\ signalled /\ At(t, "close")
      /\ UNCHANGED <<queueVars, mutex, configured, engine, files, signalled,
                     instance, outside, owed, answered, made>>
  BY DEF AwaitTermination, clientVars, callVars, bounds
<1>3. /\ thread' \in [Threads -> Call]
      /\ thread'[t].at = "close" /\ thread'[t].call = thread[t].call
      /\ \A u \in Threads \ {t} : thread'[u] = thread[u]
  BY <1>1, <1>2, AtShape DEF Places
<1>4. ThreadInv(t) /\ thread[t].call = "release" /\ mode' = mode
  BY <1>1, <1>2 DEF ThreadsInv, ThreadInv, Place, queueVars
<1>5. ThreadsInv'
  <2>1. ThreadInv(t)'
    BY <1>2, <1>3, <1>4 DEF ThreadInv, Place
  <2>2. Undisturbed(t)
    BY <1>1, <1>2, <1>3, <1>4 DEF Undisturbed, ThreadsInv
  <2> QED
    BY <1>1, <2>1, <2>2, ThreadStep
<1>6. TasksInv' /\ Stages' /\ AllDoomed'
  BY <1>1, <1>2, QueueUntouched
<1>7. ClientType'
  BY <1>1, <1>2, <1>3 DEF ClientType, queueVars
<1> QED
  BY <1>5, <1>6, <1>7 DEF IInv

\* Nothing is accepted any more, and every task is on Dispose's list.
LEMMA CloseStep ==
    ASSUME IInv, NEW t \in Threads, CloseQueue(t)
    PROVE  IInv'
PROOF
<1>1. ClientType /\ TasksInv /\ ThreadsInv /\ Stages /\ AllDoomed
  BY DEF IInv
<1>2. /\ thread[t].at = "close" /\ mode' = "disposed" /\ At(t, "cancel")
      /\ doomed' = TaskIds(QueuedTasks \cup schedule \cup {running}) \ {0}
      /\ UNCHANGED <<queue, schedule, running, issued, mutex, configured, engine,
                     files, signalled, instance, outside, owed, answered, made>>
  BY DEF CloseQueue, clientVars, callVars, bounds
<1>3. /\ thread' \in [Threads -> Call]
      /\ thread'[t].at = "cancel" /\ thread'[t].call = thread[t].call
      /\ \A u \in Threads \ {t} : thread'[u] = thread[u]
  BY <1>1, <1>2, AtShape DEF Places
<1>4. /\ thread[t].call = "release" /\ instance = "releasing"
      /\ mode # "disposed" /\ configured => signalled
  BY <1>1, <1>2 DEF ThreadsInv, ThreadInv, Place
<1>5. ThreadsInv'
  <2>1. ThreadInv(t)'
    BY <1>2, <1>3, <1>4 DEF ThreadInv, Place
  <2>2. Undisturbed(t)
    BY <1>2, <1>3, <1>4 DEF Undisturbed
  <2> QED
    BY <1>1, <2>1, <2>2, ThreadStep
<1>6. TasksInv'
  BY <1>1, <1>2 DEF TasksInv, QueueType, UniqueIds, OneCollection
<1>7. Stages'
  <2>1. NotOpened'
    BY <1>1, <1>2, <1>4 DEF Stages, NotOpened
  <2>2. Ended' /\ EndsLast'
    BY <1>1, <1>2 DEF Stages, Ended, EndsLast
  <2> QED
    BY <1>1, <1>2, <2>1, <2>2 DEF Stages, Opened
<1>8. /\ \A i \in 1..Len(queue) : queue[i] \in QueuedTasks /\ queue[i].id # 0
      /\ \A k \in QueuedTasks : \E i \in 1..Len(queue) : k = queue[i]
  <2>1. DOMAIN queue = 1..Len(queue)
    BY <1>1, LenProperties DEF TasksInv, QueueType
  <2>2. \A i \in 1..Len(queue) : queue[i].id # 0
    BY <1>1, EachTask DEF TasksInv
  <2> QED
    BY <2>1, <2>2 DEF QueuedTasks, ToSet
<1>9. AllDoomed'
  <2>1. \A k \in schedule : k.id # 0
    BY <1>1, EachTask DEF TasksInv
  <2>2. running = NoTask \/ running.id # 0
    BY <1>1 DEF TasksInv, QueueType, Task
  <2> QED
    BY <1>2, <1>8, <2>1, <2>2 DEF AllDoomed, TaskIds
<1>10. doomed' \subseteq 1..issued'
  <2>1. ASSUME NEW id \in doomed' PROVE id \in 1..issued
    <3>1. PICK k \in QueuedTasks \cup schedule \cup {running} : id = k.id
      BY <1>2 DEF TaskIds
    <3>2. id # 0
      BY <1>2
    <3>3. issued \in Nat /\ id \in Nat /\ id < issued + 1
      BY <1>1, <1>8, <3>1, EachTask DEF TasksInv
    <3> QED
      BY <3>2, <3>3
  <2> QED
    BY <1>2, <2>1
<1>11. ClientType'
  BY <1>1, <1>2, <1>3, <1>10 DEF ClientType
<1> QED
  BY <1>5, <1>6, <1>7, <1>9, <1>11 DEF IInv

\* A task that is not being executed is taken off the list and the queues.
LEMMA CancelTaskStep ==
    ASSUME IInv, NEW t \in Threads, CancelTask(t)
    PROVE  IInv'
PROOF
<1>1. ClientType /\ TasksInv /\ ThreadsInv /\ Stages /\ AllDoomed
  BY DEF IInv
<1>2. PICK id \in doomed \ {running.id} :
         /\ doomed' = doomed \ {id}
         /\ Cancel({k \in QueuedTasks \cup schedule : k.id = id})
  BY DEF CancelTask
<1> DEFINE tasks == {k \in QueuedTasks \cup schedule : k.id = id}
<1>3. /\ thread[t].at = "cancel"
      /\ UNCHANGED <<mode, running, issued, mutex, configured, engine, files,
                     signalled, instance, thread, outside, owed, answered,
                     made>>
  BY DEF CancelTask, clientVars, callVars, bounds
<1>4. mode = "disposed"
  BY <1>1, <1>3 DEF ThreadsInv, ThreadInv
<1>5. ThreadsInv'
  BY <1>1, <1>3, OtherStep
<1>6. TasksInv'
  BY <1>1, <1>2, <1>3, CancelTasks
<1>7. Stages'
  BY <1>1, <1>2, <1>3, <1>4, CancelStages DEF TasksInv
<1>8. AllDoomed'
  <2> SUFFICES ASSUME instance # "gone" PROVE AllDoomed'
    BY <1>3 DEF AllDoomed
  <2>1. /\ \A i \in 1..Len(queue) : queue[i].id \in doomed
        /\ \A k \in schedule : k.id \in doomed
        /\ running = NoTask \/ running.id \in doomed
    BY <1>1, <1>4 DEF AllDoomed
  <2>2. \A i \in 1..Len(queue) : queue[i] \in QueuedTasks
    BY <1>1, LenProperties DEF TasksInv, QueueType, QueuedTasks, ToSet
  <2>3. \A k \in schedule' : k.id \in doomed'
    BY <1>2, <2>1 DEF Cancel
  <2>4. running = NoTask \/ running.id \in doomed'
    BY <1>2, <2>1
  <2>5. \A i \in 1..Len(queue') : queue'[i].id \in doomed'
    <3>1. CASE queue' = queue /\ QueuedTasks \cap tasks = {}
      BY <1>2, <2>1, <2>2, <3>1
    <3>2. CASE \E m \in 1..Len(queue) :
                 /\ queue[m] \in tasks /\ Len(queue') = Len(queue) - 1
                 /\ \A i \in 1..Len(queue') :
                       queue'[i] = IF i < m THEN queue[i] ELSE queue[i + 1]
      <4>1. PICK m \in 1..Len(queue) :
                 /\ queue[m] \in tasks /\ Len(queue') = Len(queue) - 1
                 /\ \A i \in 1..Len(queue') :
                       queue'[i] = IF i < m THEN queue[i] ELSE queue[i + 1]
        BY <3>2
      <4>2. queue[m].id = id
        BY <4>1
      <4>3. ASSUME NEW i \in 1..Len(queue') PROVE queue'[i].id \in doomed'
        <5>1. Len(queue) \in Nat
          BY <1>1, EachTask DEF TasksInv
        <5>2. PICK j \in 1..Len(queue) : j # m /\ queue'[i] = queue[j]
          <6>1. CASE i < m
            BY <4>1, <5>1, <6>1
          <6>2. CASE ~(i < m)
            <7>1. i + 1 \in 1..Len(queue) /\ i + 1 # m
              BY <4>1, <5>1, <6>2
            <7> QED
              BY <4>1, <6>2, <7>1
          <6> QED
            BY <6>1, <6>2
        <5>3. queue[j].id # id
          BY <1>1, <4>2, <5>2 DEF TasksInv, UniqueIds
        <5> QED
          BY <1>2, <2>1, <5>2, <5>3
      <4> QED
        BY <4>3
    <3> QED
      BY <1>1, <1>2, <3>1, <3>2, CancelShape DEF TasksInv, QueueType
  <2> QED
    BY <1>3, <2>3, <2>4, <2>5 DEF AllDoomed
<1>9. ClientType'
  BY <1>1, <1>2, <1>3 DEF ClientType
<1> QED
  BY <1>5, <1>6, <1>7, <1>8, <1>9 DEF IInv

\* The instance is gone.
LEMMA FinishStep ==
    ASSUME IInv, NEW t \in Threads, FinishDispose(t)
    PROVE  IInv'
PROOF
<1>1. ClientType /\ TasksInv /\ ThreadsInv /\ Stages /\ AllDoomed
  BY DEF IInv
<1>2. /\ thread[t].at = "cancel" /\ Return(t)
      /\ instance' = "gone" /\ mutex' = NoThread
      /\ UNCHANGED <<queueVars, configured, engine, files, signalled, outside,
                     owed, answered, made>>
  BY DEF FinishDispose, callVars, bounds
<1>3. /\ thread' \in [Threads -> Call]
      /\ thread'[t].at = "idle" /\ thread'[t].call = "none"
      /\ \A u \in Threads \ {t} : thread'[u] = thread[u]
  BY <1>1, <1>2, ReturnShape
<1>4. thread[t].call = "release" /\ mode' = mode
  BY <1>1, <1>2 DEF ThreadsInv, ThreadInv, Place, queueVars
<1>5. ThreadsInv'
  <2>1. ThreadInv(t)'
    BY <1>3 DEF ThreadInv, Place
  <2>2. Undisturbed(t)
    BY <1>2, <1>3, <1>4 DEF Undisturbed
  <2> QED
    BY <1>1, <2>1, <2>2, ThreadStep
<1>6. TasksInv' /\ Stages' /\ AllDoomed'
  BY <1>1, <1>2, QueueUntouched
<1>7. ClientType'
  BY <1>1, <1>2, <1>3 DEF ClientType, queueVars
<1> QED
  BY <1>5, <1>6, <1>7 DEF IInv

-----------------------------------------------------------------------------
(* The steps of the worker thread, of timers and of transactions           *)

\* An operation that starts no timer ends.
LEMMA RunStep ==
    ASSUME TasksInv, Stages, AllDoomed, ClientType,
           running.op # "init", running' = NoTask,
           UNCHANGED <<queue, schedule, issued, mode, doomed, engine, configured,
                       signalled, instance>>,
           outside' \subseteq outside \/ engine # "none"
    PROVE  /\ TasksInv' /\ Stages' /\ AllDoomed'
           /\ doomed' \subseteq 1..issued'
PROOF
<1>1. TasksInv'
  BY EndTask
<1>2. Stages'
  BY EndStages
<1> QED
  BY <1>1, <1>2 DEF AllDoomed, ClientType

\* An operation ends and starts a timer, or it is too late for that.
LEMMA RunDelayingStep ==
    ASSUME TasksInv, Stages, AllDoomed, ClientType,
           NEW op \in {"attempt", "gc"}, NEW call \in 0..MaxCalls,
           running.op # "init", engine # "none", op = "gc" => running.op = "gc",
           running' = NoTask, EnqueueAfterDelay(op, call),
           UNCHANGED <<queue, mode, doomed, engine, configured, signalled,
                       instance, outside>>
    PROVE  /\ TasksInv' /\ Stages' /\ AllDoomed'
           /\ doomed' \subseteq 1..issued'
PROOF
<1>1. CASE mode # "running"
  <2>1. schedule' = schedule /\ issued' = issued
    BY <1>1 DEF EnqueueAfterDelay
  <2> QED
    BY <2>1, RunStep
<1>2. CASE mode = "running"
  <2> DEFINE k == NewTask(op, call)
  <2>1. schedule' = schedule \cup {k} /\ issued' = issued + 1
    BY <1>2 DEF EnqueueAfterDelay
  <2>2. k \in Task /\ k.id = issued + 1 /\ k.op = op
    BY ExecuteTask DEF Ops
  <2>3. k.op = "gc" => /\ \A i \in 1..Len(queue) : queue[i].op # "gc"
                       /\ \A x \in schedule : x.op # "gc"
    BY <2>2 DEF TasksInv, OneCollection
  <2> HIDE DEF k
  <2>4. TasksInv'
    BY <2>1, <2>2, <2>3, ScheduleTask
  <2>5. Stages'
    BY <1>2, EndStages
  <2>6. AllDoomed'
    BY <1>2 DEF AllDoomed
  <2>7. doomed' \subseteq 1..issued'
    BY <2>1 DEF ClientType, TasksInv, QueueType
  <2> QED
    BY <2>4, <2>5, <2>6, <2>7
<1> QED
  BY <1>1, <1>2

\* What is executed has the number of a call, and finds Initialize done.
LEMMA RunningTask ==
    ASSUME TasksInv, Stages, running.op \notin {"none", "init", "clear"}
    PROVE  running.call \in 0..MaxCalls /\ engine # "none"
PROOF
<1>1. running \in Task
  BY DEF TasksInv, QueueType, NoTask
<1> QED
  BY <1>1 DEF Task, Stages, NotOpened

LEMMA StartStep ==
    ASSUME IInv, Start
    PROVE  IInv'
PROOF
<1>1. ClientType /\ TasksInv /\ ThreadsInv /\ Stages /\ AllDoomed
  BY DEF IInv
<1>2. /\ Len(queue) \in Nat \ {0} /\ running' = queue[1]
      /\ Len(queue') = Len(queue) - 1
      /\ \A i \in 1..Len(queue') : queue'[i] = queue[i + 1]
      /\ UNCHANGED <<mode, schedule, doomed, issued, mutex, configured, engine,
                     files, signalled, instance, thread, outside, owed,
                     answered, made>>
  BY <1>1, TailShape DEF Start, TasksInv, QueueType, clientVars, callVars, bounds
<1>3. TasksInv' /\ Stages'
  BY <1>1, StartTask, StartStages DEF TasksInv
<1>4. ThreadsInv'
  BY <1>1, <1>2, OtherStep
<1>5. AllDoomed'
  <2>1. \A i \in 1..Len(queue') : i + 1 \in 1..Len(queue)
    BY <1>2
  <2>2. 1 \in 1..Len(queue)
    BY <1>2
  <2> QED
    BY <1>1, <1>2, <2>1, <2>2 DEF AllDoomed
<1>6. ClientType'
  BY <1>1, <1>2 DEF ClientType
<1> QED
  BY <1>3, <1>4, <1>5, <1>6 DEF IInv

\* A delayed operation is due.
LEMMA ExpireStep ==
    ASSUME IInv, Expire
    PROVE  IInv'
PROOF
<1>1. ClientType /\ TasksInv /\ ThreadsInv /\ Stages /\ AllDoomed
  BY DEF IInv
<1>2. PICK k \in schedule :
         schedule' = schedule \ {k} /\ queue' = Append(queue, k)
  BY DEF Expire
<1>3. UNCHANGED <<mode, running, doomed, issued, mutex, configured, engine,
                  files, signalled, instance, thread, outside, owed, answered,
                  made>>
  BY DEF Expire, clientVars, callVars
<1>4. k \in Task /\ k.op \in {"attempt", "gc"}
  BY <1>1 DEF TasksInv, QueueType, OneCollection
<1>5. TasksInv'
  BY <1>1, <1>2, <1>3, ExpireTask
<1>6. Stages'
  <2>1. engine # "none"
    BY <1>1, <1>2 DEF Stages, NotOpened
  <2>2. engine = "shut" => k.op \in LateOps /\ (k.op = "gc" => mode = "disposed")
    BY <1>1, <1>4 DEF Stages, Ended, LateOps
  <2>3. k.op \notin Ending /\ k.op \in LateOps /\ k.op # "init"
    BY <1>4 DEF Ending, LateOps
  <2> QED
    BY <1>1, <1>2, <1>3, <1>4, <2>1, <2>2, <2>3, AppendStages DEF TasksInv
<1>7. ThreadsInv'
  BY <1>1, <1>3, OtherStep
<1>8. AllDoomed'
  <2>1. \A i \in 1..Len(queue') :
           \/ queue'[i] = k
           \/ i \in 1..Len(queue) /\ queue'[i] = queue[i]
    BY <1>1, <1>2, <1>4, AppendShape DEF TasksInv, QueueType
  <2> QED
    BY <1>1, <1>2, <1>3, <2>1 DEF AllDoomed
<1>9. ClientType'
  BY <1>1, <1>3 DEF ClientType
<1> QED
  BY <1>5, <1>6, <1>7, <1>8, <1>9 DEF IInv

LEMMA ResumeStep ==
    ASSUME IInv, Resume
    PROVE  IInv'
PROOF
<1>1. ClientType /\ TasksInv /\ ThreadsInv /\ Stages /\ AllDoomed
  BY DEF IInv
<1>2. PICK call \in outside : outside' = outside \ {call} /\ Enqueue("commit", call)
  BY DEF Resume
<1>3. UNCHANGED <<mode, schedule, running, doomed, mutex, configured, engine,
                  files, signalled, instance, thread, owed, answered, made>>
  BY DEF Resume, clientVars, bounds
<1>4. engine # "none" /\ configured /\ call \in 0..MaxCalls
  BY <1>1, <1>2 DEF Stages, NotOpened, Opened, ClientType
<1>5. TasksInv' /\ Stages' /\ AllDoomed' /\ doomed' \subseteq 1..issued'
  <2>1. CASE mode = "running"
    <3>1. Execute("commit", call) /\ engine # "shut"
      BY <1>1, <1>2, <2>1 DEF Enqueue, Stages, Ended
    <3>2. "commit" \in Ops \ {"init", "gc", "attempt"} /\ "commit" \notin Ending
      BY DEF Ops, Ending
    <3> QED
      BY <1>1, <1>2, <1>3, <1>4, <2>1, <3>1, <3>2, ExecuteStep
  <2>2. CASE mode # "running"
    <3>1. UNCHANGED queueVars
      BY <1>2, <1>3, <2>2 DEF Enqueue, Dropped, queueVars
    <3> QED
      BY <1>1, <1>2, <1>3, <3>1, QueueUntouched DEF ClientType, queueVars
  <2> QED
    BY <2>1, <2>2
<1>6. ThreadsInv'
  BY <1>1, <1>3, OtherStep
<1>7. ClientType'
  BY <1>1, <1>2, <1>3, <1>5 DEF ClientType
<1> QED
  BY <1>5, <1>6, <1>7 DEF IInv

\* Initialize opens the stores and starts the collector's timer.
LEMMA InitializeStep ==
    ASSUME IInv, RunInitialize
    PROVE  IInv'
PROOF
<1>1. ClientType /\ TasksInv /\ ThreadsInv /\ Stages /\ AllDoomed
  BY DEF IInv
<1>2. /\ running.op = "init" /\ running' = NoTask /\ EnqueueAfterDelay("gc", 0)
      /\ engine' = "open" /\ files' = "present"
      /\ UNCHANGED <<mode, queue, doomed, mutex, configured, signalled, instance,
                     thread, outside, owed, answered, made>>
  BY DEF RunInitialize, Executes, callVars, bounds
<1>3. /\ engine = "none" /\ configured /\ mode # "disposed" /\ schedule = {}
      /\ \A i \in 1..Len(queue) : queue[i].op \notin {"gc", "attempt", "init"}
  BY <1>1, <1>2 DEF Stages, Opened, NotOpened, ClientType
<1>4. TasksInv' /\ doomed' \subseteq 1..issued'
  <2>1. CASE mode = "running"
    <3> DEFINE k == NewTask("gc", 0)
    <3>1. schedule' = schedule \cup {k} /\ issued' = issued + 1
      BY <1>2, <2>1 DEF EnqueueAfterDelay
    <3>2. k \in Task /\ k.id = issued + 1 /\ k.op = "gc"
      BY <1>1, ExecuteTask, LifecycleBoundsAssumption DEF Ops
    <3> HIDE DEF k
    <3>3. TasksInv'
      BY <1>1, <1>2, <1>3, <3>1, <3>2, ScheduleTask
    <3>4. doomed' \subseteq 1..issued'
      BY <1>1, <1>2, <3>1 DEF ClientType, TasksInv, QueueType
    <3> QED
      BY <3>3, <3>4
  <2>2. CASE mode # "running"
    BY <1>1, <1>2, <2>2, EndTask DEF EnqueueAfterDelay, ClientType
  <2> QED
    BY <2>1, <2>2
<1>5. Stages'
  <2>1. NotOpened' /\ Opened' /\ Ended'
    BY <1>2, <1>3 DEF NotOpened, Opened, Ended, NoTask
  <2>2. EndsLast'
    BY <1>1, <1>2 DEF Stages, EndsLast, Ending, NoTask
  <2> QED
    BY <2>1, <2>2 DEF Stages
<1>6. ThreadsInv' /\ AllDoomed'
  BY <1>1, <1>2, <1>3, OtherStep DEF AllDoomed
<1>7. ClientType'
  BY <1>1, <1>2, <1>4 DEF ClientType
<1> QED
  BY <1>4, <1>5, <1>6, <1>7 DEF IInv

\* Operations that end without starting a timer.
LEMMA PlainSteps ==
    ASSUME IInv, RunCall \/ RunAttempt \/ RunClear
    PROVE  IInv'
PROOF
<1>1. ClientType /\ TasksInv /\ ThreadsInv /\ Stages /\ AllDoomed
  BY DEF IInv
<1>2. /\ running.op \in {"write", "remove", "user", "attempt", "clear"}
      /\ running' = NoTask /\ files' \in {files, "absent"}
      /\ \/ outside' = outside
         \/ outside' = outside \cup {running.call} /\ running.op = "attempt"
      /\ answered' \in {answered, answered \cup {running.call}}
      /\ UNCHANGED <<mode, queue, schedule, issued, doomed, mutex, configured,
                     engine, signalled, instance, thread, owed, made>>
  BY DEF RunCall, RunAttempt, RunClear, Executes, Answer, clientVars, bounds
<1>3. running.call \in 0..MaxCalls
  BY <1>1, <1>2 DEF TasksInv, QueueType, Task, NoTask
<1>4. TasksInv' /\ Stages' /\ AllDoomed' /\ doomed' \subseteq 1..issued'
  BY <1>1, <1>2, RunningTask, RunStep
<1>5. ThreadsInv'
  BY <1>1, <1>2, OtherStep
<1>6. ClientType'
  <2>1. outside' \subseteq 0..MaxCalls /\ answered' \subseteq 0..MaxCalls
    BY <1>1, <1>2, <1>3 DEF ClientType
  <2> QED
    BY <1>1, <1>2, <1>4, <2>1 DEF ClientType
<1> QED
  BY <1>4, <1>5, <1>6 DEF IInv

\* Operations that start a timer, or do not.
LEMMA DelayingSteps ==
    ASSUME IInv, RunTransaction \/ RunCommit \/ RunCollection
    PROVE  IInv'
PROOF
<1>1. ClientType /\ TasksInv /\ ThreadsInv /\ Stages /\ AllDoomed
  BY DEF IInv
<1>2. /\ running.op \in {"transaction", "commit", "gc"} /\ running' = NoTask
      /\ \/ UNCHANGED <<schedule, issued>>
         \/ EnqueueAfterDelay("attempt", running.call)
         \/ EnqueueAfterDelay("gc", 0) /\ running.op = "gc"
      /\ answered' \in {answered, answered \cup {running.call}}
      /\ UNCHANGED <<mode, queue, doomed, mutex, configured, engine, files,
                     signalled, instance, thread, outside, owed, made>>
  BY DEF RunTransaction, RunCommit, RunCollection, Executes, Answer, clientVars,
         callVars, bounds
<1>3. running.call \in 0..MaxCalls /\ engine # "none" /\ 0 \in 0..MaxCalls
  BY <1>1, <1>2, RunningTask, LifecycleBoundsAssumption
<1>4. TasksInv' /\ Stages' /\ AllDoomed' /\ doomed' \subseteq 1..issued'
  <2>1. CASE UNCHANGED <<schedule, issued>>
    BY <1>1, <1>2, <2>1, RunStep
  <2>2. CASE EnqueueAfterDelay("attempt", running.call)
    BY <1>1, <1>2, <1>3, <2>2, RunDelayingStep
  <2>3. CASE EnqueueAfterDelay("gc", 0) /\ running.op = "gc"
    BY <1>1, <1>2, <1>3, <2>3, RunDelayingStep
  <2> QED
    BY <1>2, <2>1, <2>2, <2>3
<1>5. ThreadsInv'
  BY <1>1, <1>2, OtherStep
<1>6. ClientType'
  <2>1. answered' \subseteq 0..MaxCalls
    BY <1>1, <1>2, <1>3 DEF ClientType
  <2> QED
    BY <1>1, <1>2, <1>4, <2>1 DEF ClientType
<1> QED
  BY <1>4, <1>5, <1>6 DEF IInv

LEMMA SignalStep ==
    ASSUME IInv, SignalDisposing
    PROVE  IInv'
PROOF
<1>1. ClientType /\ TasksInv /\ ThreadsInv /\ Stages /\ AllDoomed
  BY DEF IInv
<1>2. /\ running.op = "dispose" /\ signalled' = TRUE
      /\ UNCHANGED <<mode, queue, schedule, running, doomed, issued, mutex,
                     configured, engine, files, instance, thread, outside, owed,
                     answered, made>>
  BY DEF SignalDisposing, queueVars, callVars, bounds
<1>3. engine # "none"
  BY <1>1, <1>2, RunningTask
<1>4. TasksInv' /\ AllDoomed'
  BY <1>1, <1>2 DEF TasksInv, QueueType, UniqueIds, OneCollection, AllDoomed
<1>5. Stages'
  BY <1>1, <1>2, <1>3 DEF Stages, NotOpened, Opened, Ended, EndsLast
<1>6. ThreadsInv'
  BY <1>1, <1>2, OtherStep
<1>7. ClientType'
  BY <1>1, <1>2 DEF ClientType
<1> QED
  BY <1>4, <1>5, <1>6, <1>7 DEF IInv

\* TerminateInternal resets the stores and cancels the collector's timer.
LEMMA TerminateStep ==
    ASSUME IInv, RunTerminate
    PROVE  IInv'
PROOF
<1>1. ClientType /\ TasksInv /\ ThreadsInv /\ Stages /\ AllDoomed
  BY DEF IInv
<1>2. /\ running.op \in Ending /\ running' = NoTask
      /\ IF engine = "open" THEN engine' = "shut" /\ CancelCollection
                            ELSE UNCHANGED <<engine, queue, schedule>>
      /\ answered' \in {answered, answered \cup {running.call}}
      /\ UNCHANGED <<mode, issued, doomed, mutex, configured, files, signalled,
                     instance, thread, outside, owed, made>>
  BY DEF RunTerminate, Executes, Answer, Ending, bounds
<1>3. /\ running.call \in 0..MaxCalls /\ engine # "none" /\ mode # "running"
      /\ \A i \in 1..Len(queue) : queue[i].op \in LateOps
  BY <1>1, <1>2, RunningTask DEF Ending, Stages, EndsLast
<1>4. TasksInv' /\ Stages' /\ AllDoomed'
  <2>1. CASE engine # "open"
    BY <1>1, <1>2, <1>3, <2>1, RunStep DEF Ending
  <2>2. CASE engine = "open" /\ mode = "disposed"
    <3>1. UNCHANGED <<queue, schedule>> /\ engine' = "shut"
      BY <1>2, <2>2 DEF CancelCollection
    <3>2. TasksInv'
      BY <1>1, <1>2, <3>1, EndTask
    <3>3. NotOpened' /\ Opened' /\ Ended'
      BY <1>1, <1>2, <1>3, <2>2, <3>1
         DEF Stages, NotOpened, Opened, Ended, NoTask, LateOps
    <3>4. EndsLast'
      BY <1>1, <1>2, <3>1 DEF Stages, EndsLast, NoTask, Ending
    <3>5. AllDoomed'
      BY <1>1, <1>2, <3>1 DEF AllDoomed
    <3> QED
      BY <3>2, <3>3, <3>4, <3>5 DEF Stages
  <2>3. CASE engine = "open" /\ mode # "disposed"
    <3> DEFINE tasks == {k \in QueuedTasks \cup schedule : k.op = "gc"}
    <3>1. Cancel(tasks) /\ engine' = "shut"
      BY <1>2, <2>3 DEF CancelCollection
    <3>2. TasksInv'
      BY <1>1, <1>2, <3>1, CancelTasks
    <3>3. \A k \in schedule' : k.op # "gc"
      BY <3>1 DEF Cancel
    <3>4. \A i \in 1..Len(queue') : queue'[i].op # "gc"
      <4>1. CASE queue' = queue /\ QueuedTasks \cap tasks = {}
        <5>1. \A i \in 1..Len(queue) : queue[i] \in QueuedTasks
          BY <1>1, LenProperties DEF TasksInv, QueueType, QueuedTasks, ToSet
        <5> QED
          BY <4>1, <5>1
      <4>2. CASE \E m \in 1..Len(queue) :
                   /\ queue[m] \in tasks /\ Len(queue') = Len(queue) - 1
                   /\ \A i \in 1..Len(queue') :
                         queue'[i] = IF i < m THEN queue[i] ELSE queue[i + 1]
        <5>1. PICK m \in 1..Len(queue) :
                   /\ queue[m] \in tasks /\ Len(queue') = Len(queue) - 1
                   /\ \A i \in 1..Len(queue') :
                         queue'[i] = IF i < m THEN queue[i] ELSE queue[i + 1]
          BY <4>2
        <5>2. queue[m].op = "gc" /\ Len(queue) \in Nat
          BY <1>1, <5>1, EachTask DEF TasksInv
        <5>3. ASSUME NEW i \in 1..Len(queue') PROVE queue'[i].op # "gc"
          <6>1. PICK j \in 1..Len(queue) : j # m /\ queue'[i] = queue[j]
            <7>1. CASE i < m
              BY <5>1, <5>2, <7>1
            <7>2. CASE ~(i < m)
              <8>1. i + 1 \in 1..Len(queue) /\ i + 1 # m
                BY <5>1, <5>2, <7>2
              <8> QED
                BY <5>1, <7>2, <8>1
            <7> QED
              BY <7>1, <7>2
          <6> QED
            BY <1>1, <5>2, <6>1 DEF TasksInv, OneCollection
        <5> QED
          BY <5>3
      <4> QED
        BY <1>1, <3>1, <4>1, <4>2, CancelShape DEF TasksInv, QueueType
    <3>5. Stages'
      BY <1>1, <1>2, <1>3, <2>3, <3>1, <3>3, <3>4, CancelStages DEF TasksInv
    <3>6. AllDoomed'
      BY <1>2, <2>3 DEF AllDoomed
    <3> QED
      BY <3>2, <3>5, <3>6
  <2> QED
    BY <2>1, <2>2, <2>3
<1>5. ThreadsInv'
  BY <1>1, <1>2, OtherStep
<1>6. ClientType'
  <2>1. answered' \subseteq 0..MaxCalls
    BY <1>1, <1>2, <1>3 DEF ClientType
  <2>2. engine' \in {"none", "open", "shut"}
    BY <1>1, <1>2 DEF ClientType
  <2> QED
    BY <1>1, <1>2, <2>1, <2>2 DEF ClientType
<1> QED
  BY <1>4, <1>5, <1>6 DEF IInv

-----------------------------------------------------------------------------
(* The invariant                                                           *)

LEMMA InitInv ==
    ASSUME Init
    PROVE  IInv
PROOF
<1>1. queue = <<>> /\ Len(queue) = 0 /\ queue \in Seq(Task)
  BY EmptySeq DEF Init
<1>2. ClientType
  <2>1. Idle \in Call /\ 0 \in 0..MaxCalls
    BY LifecycleBoundsAssumption DEF Idle, Call, Places
  <2> QED
    BY <2>1 DEF Init, ClientType
<1>3. TasksInv
  BY <1>1 DEF Init, TasksInv, QueueType, UniqueIds, OneCollection, NoTask
<1>4. ThreadsInv
  BY DEF Init, ThreadsInv, ThreadInv, Place, Idle
<1>5. Stages /\ AllDoomed
  BY <1>1 DEF Init, Stages, NotOpened, Opened, Ended, EndsLast, AllDoomed,
              NoTask, Ending
<1> QED
  BY <1>2, <1>3, <1>4, <1>5 DEF IInv

LEMMA Unchanged ==
    ASSUME IInv, UNCHANGED vars
    PROVE  IInv'
PROOF
<1>1. UNCHANGED <<mode, queue, schedule, running, doomed, issued, mutex,
                  configured, engine, files, signalled, instance, thread,
                  outside, owed, answered, made>>
  BY DEF vars, queueVars, clientVars, callVars, bounds
<1>2. ClientType' /\ AllDoomed'
  BY <1>1 DEF IInv, ClientType, AllDoomed
<1>3. TasksInv'
  BY <1>1 DEF IInv, TasksInv, QueueType, UniqueIds, OneCollection
<1>4. ThreadsInv'
  BY <1>1, OtherStep DEF IInv
<1>5. Stages'
  BY <1>1 DEF IInv, Stages, NotOpened, Opened, Ended, EndsLast
<1> QED
  BY <1>2, <1>3, <1>4, <1>5 DEF IInv

LEMMA NextInv ==
    ASSUME IInv, [Next]_vars
    PROVE  IInv'
PROOF
<1>1. CASE \E t \in Threads, call \in Calls : CallFirestore(t, call)
  BY <1>1, CallFirestoreStep
<1>2. CASE \E t \in Threads : CallRemove(t) \/ ChangeUser(t)
  BY <1>2, CallStepBegins
<1>3. CASE \E t \in Threads : ClearPersistence(t)
  BY <1>3, ClearPersistenceStep
<1>4. CASE \E t \in Threads : Release(t)
  BY <1>4, ReleaseStep
<1>5. CASE \E t \in Threads : CallStep(t)
  BY <1>5, VerifyStep, EnqueueCallStep, RestrictStep, SubmitStep, LockStep,
     AwaitStep, CloseStep, CancelTaskStep, FinishStep DEF CallStep
<1>6. CASE WorkerStep
  BY <1>6, StartStep, InitializeStep, PlainSteps, DelayingSteps, SignalStep,
     TerminateStep DEF WorkerStep
<1>7. CASE Expire \/ Resume
  BY <1>7, ExpireStep, ResumeStep
<1>8. CASE UNCHANGED vars
  BY <1>8, Unchanged
<1> QED
  BY <1>1, <1>2, <1>3, <1>4, <1>5, <1>6, <1>7, <1>8 DEF Next

\* Whatever the threads, timers and transactions do: Initialize is ahead of
\* what needs the stores, a termination is behind it, and Dispose has every
\* task that is left on its list (AsyncQueue, FirestoreClient).
THEOREM Invariant == Spec => []IInv
PROOF
<1>1. Init => IInv
  BY InitInv
<1>2. IInv /\ [Next]_vars => IInv'
  BY NextInv
<1> QED
  BY <1>1, <1>2, PTL DEF Spec

\* Every variable keeps its type, and no operation has an id that was not given
\* out, whatever calls, timers and terminations interleave.
THEOREM LifecycleTypeCorrect == Spec => []TypeOK
PROOF
<1>1. IInv => TypeOK
  <2> SUFFICES ASSUME IInv PROVE TypeOK
    OBVIOUS
  <2>1. ClientType /\ QueueType
    BY DEF IInv, TasksInv
  <2>2. TaskIds(QueuedTasks \cup schedule \cup {running}) \subseteq 0..issued
    <3>1. ASSUME NEW k \in QueuedTasks \cup schedule \cup {running}
          PROVE  k.id \in 0..issued
      <4>1. \A x \in QueuedTasks : \E i \in 1..Len(queue) : x = queue[i]
        BY <2>1, LenProperties DEF QueueType, QueuedTasks, ToSet
      <4>2. k.id \in Nat /\ issued \in Nat /\ k.id < issued + 1
        BY <2>1, <4>1, EachTask
      <4> QED
        BY <4>2
    <3> QED
      BY <3>1 DEF TaskIds
  <2> QED
    BY <2>1, <2>2 DEF TypeOK, ClientType, QueueType, Call, Places
<1> QED
  BY <1>1, Invariant, PTL

\* An operation that uses the stores finds them open, but for the two timers
\* that outlive the termination (FirestoreClient::TerminateInternal).
THEOREM OperationsFindTheStores == Spec => []WorkUsesOpenEngine
PROOF
<1>1. IInv => WorkUsesOpenEngine
  <2> SUFFICES ASSUME IInv, running.op \in UsesEngine, engine # "open"
               PROVE  \/ running.op = "attempt"
                      \/ running.op = "gc" /\ mode = "disposed"
    BY DEF WorkUsesOpenEngine
  <2>1. ClientType /\ TasksInv /\ Stages
    BY DEF IInv
  <2>2. engine = "shut"
    BY <2>1, RunningTask DEF UsesEngine, ClientType
  <2>3. running.op \in LateOps \cup {"none"} /\ (mode # "disposed" => running.op # "gc")
    BY <2>1, <2>2 DEF Stages, Ended
  <2> QED
    BY <2>3 DEF UsesEngine, LateOps
<1> QED
  BY <1>1, Invariant, PTL

-----------------------------------------------------------------------------
(* The refinement: what the queue is to its users                          *)

Phase == IF mode # "disposed" THEN "open"
         ELSE IF instance # "gone" THEN "closing" ELSE "closed"
Waiting == [i \in DOMAIN queue |-> queue[i].id]
Delayed == TaskIds(schedule)
Timed == {k \in QueuedTasks \cup schedule : k.op \in {"gc", "attempt"}}
Timers == TaskIds(Timed)
Abstract == <<Phase, Waiting, Delayed, Timers, running.id, issued>>

\* The steps of SerialQueue.
LEMMA AbstractSubmit ==
    ASSUME Phase = "open", Phase' = "open", issued' = issued + 1,
           running'.id \in {running.id, 0},
           \/ Waiting' = Append(Waiting, issued + 1) /\ UNCHANGED <<Delayed, Timers>>
           \/ /\ Delayed' = Delayed \cup {issued + 1}
              /\ Timers' = Timers \cup {issued + 1}
              /\ Waiting' = Waiting
    PROVE  Promised!SqNext
PROOF
<1>1. Promised!Submit
  BY DEF Promised!Submit, Promised!MayEnd, Phase, Waiting, Delayed, Timers, Timed
<1> QED
  BY <1>1 DEF Promised!SqNext

LEMMA AbstractExpire ==
    ASSUME NEW n \in Delayed, Delayed' = Delayed \ {n},
           Waiting' = Append(Waiting, n),
           UNCHANGED <<Phase, Timers, running, issued>>
    PROVE  Promised!SqNext
PROOF
<1>1. Promised!Expire
  BY DEF Promised!Expire, Phase, Waiting, Delayed, Timers, Timed
<1> QED
  BY <1>1 DEF Promised!SqNext

LEMMA AbstractBegin ==
    ASSUME running.id = 0, Waiting # <<>>, running'.id = Head(Waiting),
           Waiting' = Tail(Waiting), Timers' = Timers \ {Head(Waiting)},
           UNCHANGED <<Phase, Delayed, issued>>
    PROVE  Promised!SqNext
PROOF
<1>1. Promised!Begin
  BY DEF Promised!Begin, Phase, Waiting, Delayed, Timers, Timed
<1> QED
  BY <1>1 DEF Promised!SqNext

LEMMA AbstractEnd ==
    ASSUME running.id # 0, running'.id = 0,
           UNCHANGED <<Phase, Waiting, Delayed, Timers, issued>>
    PROVE  Promised!SqNext
PROOF
<1>1. Promised!End
  BY DEF Promised!End, Phase, Waiting, Delayed, Timers, Timed
<1> QED
  BY <1>1 DEF Promised!SqNext

LEMMA AbstractDiscard ==
    ASSUME NEW n \in Delayed \cup ToSet(Waiting),
           Phase = "closing" \/ n \in Timers,
           Delayed' = Delayed \ {n}, Timers' = Timers \ {n},
           \/ n \notin ToSet(Waiting) /\ Waiting' = Waiting
           \/ \E i \in DOMAIN Waiting : /\ Waiting[i] = n
                                        /\ Waiting' = RemoveAt(Waiting, i),
           running'.id \in {running.id, 0}, UNCHANGED <<Phase, issued>>
    PROVE  Promised!SqNext
PROOF
<1>1. Promised!Discard
  <2>1. /\ Promised!ToSet(Waiting) = ToSet(Waiting)
        /\ \A i : Promised!RemoveAt(Waiting, i) = RemoveAt(Waiting, i)
    BY DEF Promised!ToSet, ToSet, Promised!RemoveAt, RemoveAt
  <2> QED
    BY <2>1 DEF Promised!Discard, Promised!MayEnd, Phase, Waiting, Delayed,
                Timers, Timed
<1> QED
  BY <1>1 DEF Promised!SqNext

LEMMA AbstractBeginClose ==
    ASSUME Phase = "open", Phase' = "closing",
           UNCHANGED <<Waiting, Delayed, Timers, running, issued>>
    PROVE  Promised!SqNext
PROOF
<1>1. Promised!BeginClose
  BY DEF Promised!BeginClose, Phase, Waiting, Delayed, Timers, Timed
<1> QED
  BY <1>1 DEF Promised!SqNext

LEMMA AbstractFinishClose ==
    ASSUME Phase = "closing", Phase' = "closed",
           Waiting = <<>>, Delayed = {}, running.id = 0,
           UNCHANGED <<Waiting, Delayed, Timers, running, issued>>
    PROVE  Promised!SqNext
PROOF
<1>1. Promised!FinishClose
  BY DEF Promised!FinishClose, Phase, Waiting, Delayed, Timers, Timed
<1> QED
  BY <1>1 DEF Promised!SqNext

\* Stuttering.
LEMMA AbstractStutter ==
    ASSUME UNCHANGED Abstract
    PROVE  UNCHANGED Promised!sqVars
PROOF
  BY DEF Abstract, Promised!sqVars, Phase, Waiting, Delayed, Timers, Timed

-----------------------------------------------------------------------------
(* How the steps of the queue look to its users                            *)

LEMMA TasksByIndex ==
    ASSUME QueueType
    PROVE  /\ DOMAIN queue = 1..Len(queue)
           /\ \A k \in QueuedTasks : \E i \in 1..Len(queue) : k = queue[i]
           /\ \A i \in 1..Len(queue) : queue[i] \in QueuedTasks
PROOF
  BY LenProperties DEF QueueType, QueuedTasks, ToSet

\* Two tasks that have an id or the collection in common are one.
LEMMA SameTask ==
    ASSUME TasksInv, NEW k \in QueuedTasks \cup schedule,
           NEW l \in QueuedTasks \cup schedule,
           k.id = l.id \/ (k.op = "gc" /\ l.op = "gc")
    PROVE  k = l
PROOF
<1>1. /\ \A x \in QueuedTasks : \E i \in 1..Len(queue) : x = queue[i]
      /\ UniqueIds /\ OneCollection
  BY TasksByIndex DEF TasksInv
<1>2. CASE k \in QueuedTasks /\ l \in QueuedTasks
  <2>1. PICK i, j \in 1..Len(queue) : k = queue[i] /\ l = queue[j]
    BY <1>1, <1>2
  <2>2. i = j
    BY <1>1, <2>1 DEF UniqueIds, OneCollection
  <2> QED
    BY <2>1, <2>2
<1>3. CASE k \in QueuedTasks /\ l \in schedule
  BY <1>1, <1>3 DEF UniqueIds, OneCollection
<1>4. CASE k \in schedule /\ l \in QueuedTasks
  BY <1>1, <1>4 DEF UniqueIds, OneCollection
<1>5. CASE k \in schedule /\ l \in schedule
  BY <1>1, <1>5 DEF UniqueIds, OneCollection
<1> QED
  BY <1>2, <1>3, <1>4, <1>5

\* A task joins the queue.
LEMMA AppendView ==
    ASSUME QueueType, NEW k \in Task, queue' = Append(queue, k)
    PROVE  /\ Waiting' = Append(Waiting, k.id)
           /\ QueuedTasks' = QueuedTasks \cup {k}
PROOF
<1>1. /\ queue' \in Seq(Task) /\ Len(queue) \in Nat
      /\ Len(queue') = Len(queue) + 1
      /\ \A i \in 1..Len(queue) : queue'[i] = queue[i]
      /\ queue'[Len(queue) + 1] = k
  BY AppendShape DEF QueueType
<1>2. DOMAIN queue = 1..Len(queue) /\ DOMAIN queue' = 1..Len(queue) + 1
  BY <1>1, LenProperties DEF QueueType
<1>3. Waiting' = Append(Waiting, k.id)
  <2>1. k.id \in Nat /\ \A i \in 1..Len(queue) : queue[i].id \in Nat
    BY EachTask DEF Task
  <2>2. Waiting \in [1..Len(queue) -> Nat]
    BY <1>2, <2>1 DEF Waiting
  <2>3. Waiting \in Seq(Nat) /\ Len(Waiting) = Len(queue)
    BY <1>1, <2>2, SeqDef, LenProperties
  <2>4. /\ Append(Waiting, k.id) \in Seq(Nat)
        /\ Len(Append(Waiting, k.id)) = Len(queue) + 1
        /\ \A i \in 1..Len(queue) : Append(Waiting, k.id)[i] = Waiting[i]
        /\ Append(Waiting, k.id)[Len(queue) + 1] = k.id
    BY <2>1, <2>3, AppendProperties
  <2>5. Waiting' = [i \in 1..Len(queue) + 1 |-> queue'[i].id]
    BY <1>2 DEF Waiting
  <2>6. Append(Waiting, k.id) \in [1..Len(queue) + 1 -> Nat]
    BY <2>4, LenProperties
  <2>7. \A i \in 1..Len(queue) + 1 : queue'[i].id = Append(Waiting, k.id)[i]
    <3> TAKE i \in 1..Len(queue) + 1
    <3>1. CASE i \in 1..Len(queue)
      BY <1>1, <1>2, <2>4, <3>1 DEF Waiting
    <3>2. CASE i = Len(queue) + 1
      BY <1>1, <2>4, <3>2
    <3>3. Len(queue) \in Nat
      BY <1>1
    <3>4. i \in 1..Len(queue) \/ i = Len(queue) + 1
      BY <3>3
    <3> QED
      BY <3>1, <3>2, <3>4
  <2> QED
    BY <2>5, <2>6, <2>7
<1>4. QueuedTasks' = QueuedTasks \cup {k}
  <2>1. /\ QueuedTasks = {queue[i] : i \in 1..Len(queue)}
        /\ QueuedTasks' = {queue'[i] : i \in 1..Len(queue) + 1}
    BY <1>2 DEF QueuedTasks, ToSet
  <2>2. \A i \in 1..Len(queue) + 1 : i \in 1..Len(queue) \/ i = Len(queue) + 1
    BY <1>1
  <2>3. /\ \A i \in 1..Len(queue) : i \in 1..Len(queue) + 1
        /\ Len(queue) + 1 \in 1..Len(queue) + 1
    BY <1>1
  <2> QED
    BY <1>1, <2>1, <2>2, <2>3
<1> QED
  BY <1>3, <1>4

\* Cancel discards one task, or finds none.
LEMMA CancelView ==
    ASSUME TasksInv, NEW tasks, Cancel(tasks),
           NEW n \in Nat, \A k \in QueuedTasks \cup schedule : k \in tasks <=> k.id = n
    PROVE  /\ \/ n \notin ToSet(Waiting) /\ Waiting' = Waiting
              \/ \E i \in DOMAIN Waiting : /\ Waiting[i] = n
                                           /\ Waiting' = RemoveAt(Waiting, i)
           /\ Delayed' = Delayed \ {n} /\ Timers' = Timers \ {n}
PROOF
<1>1. QueueType /\ schedule' = schedule \ tasks
  BY DEF TasksInv, Cancel
<1>2. /\ DOMAIN queue = 1..Len(queue) /\ Len(queue) \in Nat
      /\ \A k \in QueuedTasks : \E i \in 1..Len(queue) : k = queue[i]
      /\ \A i \in 1..Len(queue) : queue[i] \in QueuedTasks
  BY <1>1, TasksByIndex, EachTask
<1>3. Delayed' = Delayed \ {n}
  BY <1>1 DEF Delayed, TaskIds
<1>4. CASE queue' = queue /\ QueuedTasks \cap tasks = {}
  <2>1. QueuedTasks' = QueuedTasks
    BY <1>4 DEF QueuedTasks
  <2>2. Timers' = Timers \ {n}
    BY <1>1, <1>4, <2>1 DEF Timers, Timed, TaskIds
  <2>3. n \notin ToSet(Waiting) /\ Waiting' = Waiting
    BY <1>2, <1>4 DEF ToSet, Waiting
  <2> QED
    BY <1>3, <2>2, <2>3
<1>5. CASE \E m \in 1..Len(queue) :
             /\ queue[m] \in tasks /\ queue' = RemoveAt(queue, m)
  <2>1. PICK m \in 1..Len(queue) :
             /\ queue[m] \in tasks /\ queue' = RemoveAt(queue, m)
    BY <1>5
  <2>2. queue[m].id = n
    BY <1>2, <2>1
  <2>3. /\ queue' \in Seq(Task) /\ Len(queue') = Len(queue) - 1
        /\ \A i \in 1..Len(queue) - 1 :
              queue'[i] = IF i < m THEN queue[i] ELSE queue[i + 1]
    BY <1>1, <2>1, RemoveAtShape DEF QueueType
  <2>4. DOMAIN queue' = 1..Len(queue) - 1
    BY <2>3, LenProperties
  <2>5. Waiting' = RemoveAt(Waiting, m) /\ Waiting[m] = n /\ DOMAIN Waiting = DOMAIN queue
    <3>1. \A i \in 1..Len(queue) : queue[i].id \in Nat
      BY <1>1, EachTask
    <3>2. Waiting \in [1..Len(queue) -> Nat]
      BY <1>2, <3>1 DEF Waiting
    <3>3. Waiting \in Seq(Nat) /\ Len(Waiting) = Len(queue)
      BY <1>2, <3>2, SeqDef, LenProperties
    <3>4. /\ RemoveAt(Waiting, m) \in Seq(Nat)
          /\ Len(RemoveAt(Waiting, m)) = Len(queue) - 1
          /\ \A i \in 1..Len(queue) - 1 : RemoveAt(Waiting, m)[i] =
                IF i < m THEN Waiting[i] ELSE Waiting[i + 1]
      BY <3>3, RemoveAtShape
    <3>5. RemoveAt(Waiting, m) \in [1..Len(queue) - 1 -> Nat]
      BY <3>4, LenProperties
    <3>6. Waiting' = [i \in 1..Len(queue) - 1 |-> queue'[i].id]
      BY <2>4 DEF Waiting
    <3>7. \A i \in 1..Len(queue) - 1 : queue'[i].id = RemoveAt(Waiting, m)[i]
      <4> TAKE i \in 1..Len(queue) - 1
      <4>1. i \in 1..Len(queue) /\ i + 1 \in 1..Len(queue)
        BY <1>2
      <4>2. Waiting[i] = queue[i].id /\ Waiting[i + 1] = queue[i + 1].id
        BY <1>2, <4>1 DEF Waiting
      <4> QED
        BY <2>3, <3>4, <4>2
    <3>8. Waiting[m] = n /\ DOMAIN Waiting = DOMAIN queue
      BY <1>2, <2>2 DEF Waiting
    <3> QED
      BY <3>5, <3>6, <3>7, <3>8
  <2>6. QueuedTasks' = QueuedTasks \ tasks
    <3>1. QueuedTasks' = {queue'[i] : i \in 1..Len(queue) - 1}
      BY <2>4 DEF QueuedTasks, ToSet
    <3>2. ASSUME NEW i \in 1..Len(queue) - 1
          PROVE  queue'[i] \in QueuedTasks \ tasks
      <4>1. PICK j \in 1..Len(queue) : j # m /\ queue'[i] = queue[j]
        <5>1. CASE i < m
          BY <1>2, <2>3, <5>1
        <5>2. CASE ~(i < m)
          <6>1. i + 1 \in 1..Len(queue) /\ i + 1 # m
            BY <1>2, <5>2
          <6> QED
            BY <2>3, <5>2, <6>1
        <5> QED
          BY <5>1, <5>2
      <4>2. queue[j].id # n
        BY <2>2, <4>1 DEF TasksInv, UniqueIds
      <4> QED
        BY <1>2, <4>1, <4>2
    <3>3. ASSUME NEW k \in QueuedTasks \ tasks
          PROVE  \E i \in 1..Len(queue) - 1 : k = queue'[i]
      <4>1. PICK j \in 1..Len(queue) : k = queue[j]
        BY <1>2
      <4>2. j # m
        BY <2>1, <4>1
      <4>3. CASE j < m
        <5>1. j \in 1..Len(queue) - 1
          BY <1>2, <4>3
        <5> QED
          BY <2>3, <4>1, <4>3, <5>1
      <4>4. CASE ~(j < m)
        <5>1. j - 1 \in 1..Len(queue) - 1 /\ ~(j - 1 < m) /\ (j - 1) + 1 = j
          BY <1>2, <4>2, <4>4
        <5> QED
          BY <2>3, <4>1, <5>1
      <4> QED
        BY <4>3, <4>4
    <3> QED
      BY <3>1, <3>2, <3>3
  <2>7. Timers' = Timers \ {n}
    BY <1>1, <2>6 DEF Timers, Timed, TaskIds
  <2> QED
    BY <1>2, <1>3, <2>5, <2>7
<1> QED
  BY <1>1, <1>4, <1>5, CancelShape DEF QueueType

-----------------------------------------------------------------------------
(* Every step is a step of SerialQueue, or none                            *)

SimulatesQueue == Promised!SqNext \/ UNCHANGED Promised!sqVars

LEMMA StutterView ==
    ASSUME UNCHANGED <<queue, schedule, running, issued>>, Phase' = Phase
    PROVE  SimulatesQueue
PROOF
<1>1. QueuedTasks' = QueuedTasks
  BY DEF QueuedTasks
<1>2. UNCHANGED Abstract
  BY <1>1 DEF Abstract, Waiting, Delayed, Timers, Timed
<1> QED
  BY <1>2, AbstractStutter DEF SimulatesQueue

LEMMA ExecuteView ==
    ASSUME TasksInv, NEW op \in Ops \ {"gc", "attempt"}, NEW call \in 0..MaxCalls,
           Execute(op, call), UNCHANGED <<schedule, running, mode>>,
           mode # "disposed"
    PROVE  SimulatesQueue
PROOF
<1> DEFINE k == NewTask(op, call)
<1>1. k \in Task /\ k.id = issued + 1 /\ k.op = op
  BY ExecuteTask
<1>2. queue' = Append(queue, k) /\ issued' = issued + 1
  BY DEF Execute
<1> HIDE DEF k
<1>3. /\ Waiting' = Append(Waiting, issued + 1)
      /\ QueuedTasks' = QueuedTasks \cup {k}
  BY <1>1, <1>2, AppendView DEF TasksInv
<1>4. Timed' = Timed
  BY <1>1, <1>3 DEF Timed
<1>5. Delayed' = Delayed /\ Timers' = Timers
  BY <1>4 DEF Delayed, Timers
<1>6. Phase = "open" /\ Phase' = "open"
  BY DEF Phase
<1> QED
  BY <1>2, <1>3, <1>5, <1>6, AbstractSubmit DEF SimulatesQueue

LEMMA EndView ==
    ASSUME TasksInv, running.op # "none", running' = NoTask,
           UNCHANGED <<queue, schedule, issued, mode, instance>>
    PROVE  SimulatesQueue
PROOF
<1>1. running.id # 0 /\ running'.id = 0
  BY DEF TasksInv, QueueType, Task, NoTask
<1>2. QueuedTasks' = QueuedTasks
  BY DEF QueuedTasks
<1>3. UNCHANGED <<Phase, Waiting, Delayed, Timers, issued>>
  BY <1>2 DEF Phase, Waiting, Delayed, Timers, Timed
<1> QED
  BY <1>1, <1>3, AbstractEnd DEF SimulatesQueue

LEMMA DelayView ==
    ASSUME TasksInv, running.op # "none", running' = NoTask,
           NEW op \in {"attempt", "gc"}, NEW call \in 0..MaxCalls,
           EnqueueAfterDelay(op, call), UNCHANGED <<queue, mode, instance>>
    PROVE  SimulatesQueue
PROOF
<1>1. CASE mode # "running"
  BY <1>1, EndView DEF EnqueueAfterDelay
<1>2. CASE mode = "running"
  <2> DEFINE k == NewTask(op, call)
  <2>1. schedule' = schedule \cup {k} /\ issued' = issued + 1
    BY <1>2 DEF EnqueueAfterDelay
  <2>2. k.id = issued + 1 /\ k.op = op
    BY DEF NewTask
  <2> HIDE DEF k
  <2>3. QueuedTasks' = QueuedTasks /\ Waiting' = Waiting
    BY DEF QueuedTasks, Waiting
  <2>4. Delayed' = Delayed \cup {issued + 1}
    BY <2>1, <2>2 DEF Delayed, TaskIds
  <2>5. Timed' = Timed \cup {k}
    BY <2>1, <2>2, <2>3 DEF Timed
  <2>6. Timers' = Timers \cup {issued + 1}
    BY <2>2, <2>5 DEF Timers, TaskIds
  <2>7. Phase = "open" /\ Phase' = "open" /\ running'.id = 0
    BY <1>2 DEF Phase, NoTask
  <2> QED
    BY <2>1, <2>3, <2>4, <2>6, <2>7, AbstractSubmit DEF SimulatesQueue
<1> QED
  BY <1>1, <1>2

\* The calls of the application.
LEMMA CallsSimulate ==
    ASSUME IInv, NEW t \in Threads,
           \/ \E call \in Calls : CallFirestore(t, call)
           \/ CallRemove(t) \/ ChangeUser(t) \/ ClearPersistence(t) \/ Release(t)
    PROVE  SimulatesQueue
PROOF
<1>1. ClientType /\ TasksInv /\ ThreadsInv /\ Stages
  BY DEF IInv
<1>2. ASSUME NEW call \in Calls, CallFirestore(t, call) PROVE SimulatesQueue
  <2>1. /\ instance = "alive" /\ UNCHANGED <<mode, schedule, running, instance>>
        /\ IF configured THEN Dropped ELSE Enqueue("init", 0)
    BY <1>2 DEF CallFirestore
  <2>2. mode # "disposed" /\ Phase' = Phase
    BY <1>1, <2>1 DEF ThreadsInv, Phase
  <2>3. CASE UNCHANGED <<queue, issued>>
    BY <2>1, <2>2, <2>3, StutterView
  <2>4. CASE Execute("init", 0)
    <3>1. "init" \in Ops \ {"gc", "attempt"} /\ 0 \in 0..MaxCalls
      BY LifecycleBoundsAssumption DEF Ops
    <3> QED
      BY <1>1, <2>1, <2>2, <2>4, <3>1, ExecuteView
  <2> QED
    BY <2>1, <2>3, <2>4 DEF Dropped, Enqueue
<1>3. CASE CallRemove(t) \/ ChangeUser(t)
  <2>1. UNCHANGED <<mode, queue, schedule, running, issued, instance>>
    BY <1>3 DEF CallRemove, ChangeUser, queueVars, clientVars
  <2> QED
    BY <2>1, StutterView DEF Phase
<1>4. CASE ClearPersistence(t)
  <2>1. /\ instance = "alive" /\ made < MaxCalls
        /\ EnqueueEvenWhileRestricted("clear", made + 1)
        /\ UNCHANGED <<mode, schedule, running>>
    BY <1>4 DEF ClearPersistence
  <2>2. mode # "disposed" /\ made + 1 \in 0..MaxCalls
    BY <1>1, <2>1, LifecycleBoundsAssumption DEF ThreadsInv, ClientType
  <2>3. Execute("clear", made + 1) /\ "clear" \in Ops \ {"gc", "attempt"}
    BY <2>1, <2>2 DEF EnqueueEvenWhileRestricted, Ops, Calls
  <2> QED
    BY <1>1, <2>1, <2>2, <2>3, ExecuteView
<1>5. CASE Release(t)
  <2>1. /\ instance = "alive"
        /\ UNCHANGED <<mode, queue, schedule, running, issued>>
    BY <1>5 DEF Release, queueVars
  <2>2. mode # "disposed"
    BY <1>1, <2>1 DEF ThreadsInv
  <2> QED
    BY <2>1, <2>2, StutterView DEF Phase
<1> QED
  BY <1>2, <1>3, <1>4, <1>5

\* What happens inside a call, but for Dispose.
LEMMA CallStepsSimulate ==
    ASSUME IInv, NEW t \in Threads,
           \/ VerifyNotTerminated(t) \/ EnqueueCall(t) \/ EnterRestrictedMode(t)
           \/ SubmitTermination(t) \/ LockForDispose(t) \/ AwaitTermination(t)
    PROVE  SimulatesQueue
PROOF
<1>1. ClientType /\ TasksInv /\ ThreadsInv /\ ThreadInv(t)
      /\ thread[t].n \in 0..MaxCalls
  BY DEF IInv, ThreadsInv, ClientType, Call
<1>2. CASE VerifyNotTerminated(t) \/ LockForDispose(t) \/ AwaitTermination(t)
  <2>1. UNCHANGED <<mode, queue, schedule, running, issued, instance>>
    BY <1>2 DEF VerifyNotTerminated, LockForDispose, AwaitTermination, queueVars,
                clientVars
  <2> QED
    BY <2>1, StutterView DEF Phase
<1>3. CASE EnterRestrictedMode(t)
  <2>1. /\ UNCHANGED <<queue, schedule, running, issued, instance>>
        /\ mode' = IF mode = "disposed" THEN mode ELSE "restricted"
    BY <1>3 DEF EnterRestrictedMode, clientVars
  <2> QED
    BY <2>1, StutterView DEF Phase
<1>4. CASE EnqueueCall(t)
  <2>1. /\ thread[t].at = "enqueue" /\ Enqueue(thread[t].call, thread[t].n)
        /\ UNCHANGED <<mode, schedule, running, instance>>
    BY <1>4 DEF EnqueueCall, clientVars
  <2>2. CASE mode = "running"
    <3>1. thread[t].call \in Ops \ {"gc", "attempt"}
      BY <1>1, <2>1 DEF ThreadInv, Place, Ops, Calls
    <3>2. Execute(thread[t].call, thread[t].n)
      BY <2>1, <2>2 DEF Enqueue
    <3> QED
      BY <1>1, <2>1, <2>2, <3>1, <3>2, ExecuteView
  <2>3. CASE mode # "running"
    BY <2>1, <2>3, StutterView DEF Enqueue, Dropped, Phase
  <2> QED
    BY <2>2, <2>3
<1>5. CASE SubmitTermination(t)
  <2> DEFINE op == IF thread[t].call = "release" THEN "dispose" ELSE "terminate"
  <2>1. /\ thread[t].at = "submit"
        /\ EnqueueEvenWhileRestricted(op, thread[t].n)
        /\ UNCHANGED <<mode, schedule, running>>
    BY <1>5 DEF SubmitTermination
  <2>2. op \in Ops \ {"gc", "attempt"}
    BY DEF Ops, Calls
  <2>3. mode # "disposed"
    BY <1>1, <2>1 DEF ThreadInv, Place, ThreadsInv
  <2>4. Execute(op, thread[t].n)
    BY <2>1, <2>3 DEF EnqueueEvenWhileRestricted
  <2> QED
    BY <1>1, <2>1, <2>2, <2>3, <2>4, ExecuteView
<1> QED
  BY <1>2, <1>3, <1>4, <1>5

\* Dispose closes the queue, discards what is left, and returns.
LEMMA DisposeSimulates ==
    ASSUME IInv, NEW t \in Threads,
           CloseQueue(t) \/ CancelTask(t) \/ FinishDispose(t)
    PROVE  SimulatesQueue
PROOF
<1>1. ClientType /\ TasksInv /\ ThreadsInv /\ ThreadInv(t) /\ AllDoomed
  BY DEF IInv, ThreadsInv
<1>2. CASE CloseQueue(t)
  <2>1. /\ thread[t].at = "close" /\ mode' = "disposed"
        /\ UNCHANGED <<queue, schedule, running, issued, instance>>
    BY <1>2 DEF CloseQueue, clientVars
  <2>2. Phase = "open" /\ Phase' = "closing"
    BY <1>1, <2>1 DEF ThreadInv, Place, Phase
  <2>3. UNCHANGED <<Waiting, Delayed, Timers>>
    BY <2>1 DEF Waiting, Delayed, Timers, Timed, QueuedTasks
  <2> QED
    BY <2>1, <2>2, <2>3, AbstractBeginClose DEF SimulatesQueue
<1>3. CASE CancelTask(t)
  <2>1. PICK id \in doomed \ {running.id} :
           Cancel({k \in QueuedTasks \cup schedule : k.id = id})
    BY <1>3 DEF CancelTask
  <2> DEFINE tasks == {k \in QueuedTasks \cup schedule : k.id = id}
  <2>2. /\ thread[t].at = "cancel"
        /\ UNCHANGED <<mode, running, issued, instance>>
    BY <1>3 DEF CancelTask, clientVars
  <2>3. Phase = "closing" /\ Phase' = "closing"
    BY <1>1, <2>2 DEF ThreadInv, Place, Phase
  <2>4. id \in Nat
    BY <1>1 DEF ClientType, TasksInv, QueueType
  <2>5. /\ \/ id \notin ToSet(Waiting) /\ Waiting' = Waiting
           \/ \E i \in DOMAIN Waiting : /\ Waiting[i] = id
                                        /\ Waiting' = RemoveAt(Waiting, i)
        /\ Delayed' = Delayed \ {id} /\ Timers' = Timers \ {id}
    BY <1>1, <2>1, <2>4, CancelView
  <2>6. CASE id \in Delayed \cup ToSet(Waiting)
    BY <2>2, <2>3, <2>5, <2>6, AbstractDiscard DEF SimulatesQueue
  <2>7. CASE id \notin Delayed \cup ToSet(Waiting)
    <3>1. Waiting' = Waiting /\ Delayed' = Delayed
      BY <2>5, <2>7 DEF ToSet
    <3>2. tasks = {}
      <4>1. \A k \in schedule : k.id # id
        BY <2>7 DEF Delayed, TaskIds
      <4>2. \A k \in QueuedTasks : k.id # id
        <5>1. \A k \in QueuedTasks : \E i \in DOMAIN queue : k = queue[i]
          BY <1>1, TasksByIndex DEF TasksInv
        <5> QED
          BY <2>7, <5>1 DEF ToSet, Waiting
      <4> QED
        BY <4>1, <4>2
    <3>3. Timers' = Timers
      <4>1. id \notin Timers
        BY <3>2 DEF Timers, Timed, TaskIds
      <4> QED
        BY <2>5, <4>1
    <3> QED
      BY <2>2, <2>3, <3>1, <3>3, AbstractStutter DEF SimulatesQueue, Abstract
  <2> QED
    BY <2>6, <2>7
<1>4. CASE FinishDispose(t)
  <2>1. /\ thread[t].at = "cancel" /\ doomed = {} /\ instance' = "gone"
        /\ UNCHANGED <<mode, queue, schedule, running, issued>>
    BY <1>4 DEF FinishDispose, queueVars
  <2>2. mode = "disposed" /\ instance # "gone"
    BY <1>1, <2>1 DEF ThreadInv, Place
  <2>3. Phase = "closing" /\ Phase' = "closed"
    BY <2>1, <2>2 DEF Phase
  <2>4. /\ \A i \in 1..Len(queue) : queue[i].id \in {}
        /\ \A k \in schedule : k.id \in {}
        /\ running = NoTask
    BY <1>1, <2>1, <2>2 DEF AllDoomed
  <2>5. Waiting = <<>>
    <3>1. Len(queue) \in Nat /\ 1 \notin 1..Len(queue)
      BY <1>1, <2>4, EachTask DEF TasksInv
    <3>2. Len(queue) = 0
      BY <3>1
    <3>3. queue = <<>>
      BY <1>1, <3>2, EmptySeq DEF TasksInv, QueueType
    <3> QED
      BY <3>3 DEF Waiting
  <2>6. Delayed = {} /\ running.id = 0
    BY <2>4 DEF Delayed, TaskIds, NoTask
  <2>7. UNCHANGED <<Waiting, Delayed, Timers>>
    BY <2>1 DEF Waiting, Delayed, Timers, Timed, QueuedTasks
  <2> QED
    BY <2>1, <2>3, <2>5, <2>6, <2>7, AbstractFinishClose DEF SimulatesQueue
<1> QED
  BY <1>2, <1>3, <1>4

\* The worker thread begins with the first task.
LEMMA StartSimulates ==
    ASSUME IInv, Start
    PROVE  SimulatesQueue
PROOF
<1>1. TasksInv /\ QueueType
  BY DEF IInv, TasksInv
<1>2. /\ running = NoTask /\ queue # <<>>
      /\ running' = Head(queue) /\ queue' = Tail(queue)
      /\ UNCHANGED <<mode, schedule, issued, instance>>
  BY DEF Start, clientVars
<1>3. /\ queue' \in Seq(Task) /\ Len(queue) \in Nat \ {0}
      /\ Head(queue) = queue[1] /\ Len(queue') = Len(queue) - 1
      /\ \A i \in 1..Len(queue') : queue'[i] = queue[i + 1]
  BY <1>1, <1>2, TailShape DEF QueueType
<1>4. DOMAIN queue = 1..Len(queue) /\ DOMAIN queue' = 1..Len(queue) - 1
  BY <1>1, <1>3, LenProperties DEF QueueType
<1>5. /\ Waiting # <<>> /\ Head(Waiting) = queue[1].id
      /\ Waiting' = Tail(Waiting)
  <2>1. \A i \in 1..Len(queue) : queue[i].id \in Nat
    BY <1>1, EachTask
  <2>2. Waiting \in [1..Len(queue) -> Nat]
    BY <1>4, <2>1 DEF Waiting
  <2>3. Waiting \in Seq(Nat) /\ Len(Waiting) = Len(queue)
    BY <1>3, <2>2, SeqDef, LenProperties
  <2>4. Waiting # <<>>
    BY <1>3, <2>3
  <2>5. /\ Tail(Waiting) \in Seq(Nat) /\ Len(Tail(Waiting)) = Len(queue) - 1
        /\ \A i \in 1..Len(Tail(Waiting)) : Tail(Waiting)[i] = Waiting[i + 1]
    BY <2>3, <2>4, HeadTailProperties
  <2>6. Tail(Waiting) \in [1..Len(queue) - 1 -> Nat]
    BY <2>5, LenProperties
  <2>7. Waiting' = [i \in 1..Len(queue) - 1 |-> queue'[i].id]
    BY <1>4 DEF Waiting
  <2>8. \A i \in 1..Len(queue) - 1 : queue'[i].id = Tail(Waiting)[i]
    <3> TAKE i \in 1..Len(queue) - 1
    <3>1. i + 1 \in 1..Len(queue)
      BY <1>3
    <3>2. Waiting[i + 1] = queue[i + 1].id
      BY <1>4, <3>1 DEF Waiting
    <3> QED
      BY <1>3, <2>5, <3>2
  <2>9. Head(Waiting) = queue[1].id
    <3>1. 1 \in 1..Len(queue)
      BY <1>3
    <3>2. Head(Waiting) = Waiting[1]
      BY <2>3, <2>4
    <3> QED
      BY <1>4, <3>1, <3>2 DEF Waiting
  <2> QED
    BY <2>4, <2>6, <2>7, <2>8, <2>9
<1>6. Timers' = Timers \ {queue[1].id}
  <2>1. QueuedTasks = QueuedTasks' \cup {queue[1]}
    <3>1. /\ QueuedTasks = {queue[i] : i \in 1..Len(queue)}
          /\ QueuedTasks' = {queue[i + 1] : i \in 1..Len(queue) - 1}
      BY <1>3, <1>4 DEF QueuedTasks, ToSet
    <3>2. /\ \A i \in 1..Len(queue) - 1 : i + 1 \in 1..Len(queue)
          /\ 1 \in 1..Len(queue)
          /\ \A i \in 1..Len(queue) :
                i = 1 \/ (i - 1 \in 1..Len(queue) - 1 /\ (i - 1) + 1 = i)
      BY <1>3
    <3> QED
      BY <3>1, <3>2
  <2>2. \A k \in QueuedTasks' \cup schedule : k.id # queue[1].id
    <3>1. \A k \in QueuedTasks' : \E i \in 1..Len(queue) - 1 : k = queue[i + 1]
      BY <1>3, <1>4 DEF QueuedTasks, ToSet
    <3>2. 1 \in 1..Len(queue)
          /\ \A i \in 1..Len(queue) - 1 : i + 1 \in 1..Len(queue) /\ i + 1 # 1
      BY <1>3
    <3> QED
      BY <1>1, <3>1, <3>2 DEF TasksInv, UniqueIds
  <2> QED
    BY <1>2, <2>1, <2>2 DEF Timers, Timed, TaskIds
<1>7. UNCHANGED <<Phase, Delayed, issued>> /\ running.id = 0
  BY <1>2 DEF Phase, Delayed, NoTask
<1> QED
  BY <1>2, <1>3, <1>5, <1>6, <1>7, AbstractBegin DEF SimulatesQueue

\* A delayed task becomes due.
LEMMA ExpireSimulates ==
    ASSUME IInv, Expire
    PROVE  SimulatesQueue
PROOF
<1>1. TasksInv /\ QueueType
  BY DEF IInv, TasksInv
<1>2. PICK k \in schedule : schedule' = schedule \ {k} /\ queue' = Append(queue, k)
  BY DEF Expire
<1>3. UNCHANGED <<mode, running, issued, instance>>
  BY DEF Expire, clientVars
<1>4. Waiting' = Append(Waiting, k.id) /\ QueuedTasks' = QueuedTasks \cup {k}
  BY <1>1, <1>2, AppendView DEF QueueType
<1>5. k.id \in Delayed /\ Delayed' = Delayed \ {k.id}
  BY <1>1, <1>2 DEF Delayed, TaskIds, TasksInv, UniqueIds
<1>6. Timers' = Timers
  <2>1. (QueuedTasks \cup schedule)' = QueuedTasks \cup schedule
    BY <1>2, <1>4
  <2> QED
    BY <2>1 DEF Timers, Timed
<1>7. Phase' = Phase
  BY <1>3 DEF Phase
<1> QED
  BY <1>3, <1>4, <1>5, <1>6, <1>7, AbstractExpire DEF SimulatesQueue

LEMMA ResumeSimulates ==
    ASSUME IInv, Resume
    PROVE  SimulatesQueue
PROOF
<1>1. ClientType /\ TasksInv
  BY DEF IInv
<1>2. PICK call \in outside : Enqueue("commit", call)
  BY DEF Resume
<1>3. UNCHANGED <<mode, schedule, running, instance>>
  BY DEF Resume, clientVars
<1>4. CASE mode = "running"
  <2>1. Execute("commit", call) /\ "commit" \in Ops \ {"gc", "attempt"}
    BY <1>2, <1>4 DEF Enqueue, Ops
  <2>2. call \in 0..MaxCalls
    BY <1>1 DEF ClientType
  <2> QED
    BY <1>1, <1>3, <1>4, <2>1, <2>2, ExecuteView
<1>5. CASE mode # "running"
  BY <1>2, <1>3, <1>5, StutterView DEF Enqueue, Dropped, Phase
<1> QED
  BY <1>4, <1>5

\* Operations other than a termination end, and may leave a timer.
LEMMA OperationsSimulate ==
    ASSUME IInv,
           \/ RunInitialize \/ RunCall \/ RunTransaction \/ RunAttempt
           \/ RunCommit \/ RunCollection \/ SignalDisposing \/ RunClear
    PROVE  SimulatesQueue
PROOF
<1>1. TasksInv
  BY DEF IInv
<1>2. CASE SignalDisposing
  <2>1. UNCHANGED <<mode, queue, schedule, running, issued, instance>>
    BY <1>2 DEF SignalDisposing, queueVars
  <2> QED
    BY <2>1, StutterView DEF Phase
<1>3. CASE RunCall \/ RunAttempt \/ RunClear
  <2>1. /\ running.op # "none" /\ running' = NoTask
        /\ UNCHANGED <<mode, queue, schedule, issued, instance>>
    BY <1>3 DEF RunCall, RunAttempt, RunClear, Executes, clientVars
  <2> QED
    BY <1>1, <2>1, EndView
<1>4. CASE RunInitialize \/ RunTransaction \/ RunCommit \/ RunCollection
  <2>1. /\ running.op \in {"init", "transaction", "commit", "gc"}
        /\ running' = NoTask /\ UNCHANGED <<mode, queue, instance>>
        /\ \/ UNCHANGED <<schedule, issued>>
           \/ EnqueueAfterDelay("attempt", running.call)
           \/ EnqueueAfterDelay("gc", 0)
    BY <1>4 DEF RunInitialize, RunTransaction, RunCommit, RunCollection, Executes,
                clientVars
  <2>2. running.call \in 0..MaxCalls /\ 0 \in 0..MaxCalls
    BY <1>1, <2>1, LifecycleBoundsAssumption
       DEF TasksInv, QueueType, Task, NoTask
  <2>3. CASE UNCHANGED <<schedule, issued>>
    BY <1>1, <2>1, <2>3, EndView
  <2>4. CASE EnqueueAfterDelay("attempt", running.call)
    BY <1>1, <2>1, <2>2, <2>4, DelayView
  <2>5. CASE EnqueueAfterDelay("gc", 0)
    BY <1>1, <2>1, <2>2, <2>5, DelayView
  <2> QED
    BY <2>1, <2>3, <2>4, <2>5
<1> QED
  BY <1>2, <1>3, <1>4

\* A termination ends, and may discard the collector's timer.
LEMMA TerminateSimulates ==
    ASSUME IInv, RunTerminate
    PROVE  SimulatesQueue
PROOF
<1>1. TasksInv
  BY DEF IInv
<1>2. /\ running.op # "none" /\ running' = NoTask
      /\ UNCHANGED <<mode, issued, instance>>
      /\ CancelCollection \/ UNCHANGED <<queue, schedule>>
  BY DEF RunTerminate, Executes
<1>3. CASE UNCHANGED <<queue, schedule>>
  BY <1>1, <1>2, <1>3, EndView
<1> DEFINE tasks == {k \in QueuedTasks \cup schedule : k.op = "gc"}
<1>4. CASE Cancel(tasks) /\ tasks = {}
  BY <1>1, <1>2, <1>4, EndView DEF Cancel
<1>5. CASE Cancel(tasks) /\ tasks # {}
  <2>1. PICK x \in tasks : TRUE
    BY <1>5
  <2>2. x \in QueuedTasks \cup schedule /\ x.op = "gc"
    BY <2>1
  <2>3. \A k \in QueuedTasks \cup schedule : k \in tasks <=> k.id = x.id
    <3> TAKE k \in QueuedTasks \cup schedule
    <3>1. ASSUME k \in tasks PROVE k = x
      BY <1>1, <2>2, <3>1, SameTask
    <3>2. ASSUME k.id = x.id PROVE k = x
      BY <1>1, <2>2, <3>2, SameTask
    <3> QED
      BY <2>1, <3>1, <3>2
  <2>4. x.id \in Nat
    BY <1>1, <2>2, TasksByIndex, EachTask DEF TasksInv
  <2> HIDE DEF tasks
  <2>5. /\ \/ x.id \notin ToSet(Waiting) /\ Waiting' = Waiting
           \/ \E i \in DOMAIN Waiting : /\ Waiting[i] = x.id
                                        /\ Waiting' = RemoveAt(Waiting, i)
        /\ Delayed' = Delayed \ {x.id} /\ Timers' = Timers \ {x.id}
    BY <1>1, <1>5, <2>3, <2>4, CancelView
  <2>6. x.id \in Timers /\ x.id \in Delayed \cup ToSet(Waiting)
    <3>1. x.id \in Timers
      BY <2>2 DEF Timers, Timed, TaskIds
    <3>2. CASE x \in schedule
      BY <3>1, <3>2 DEF Delayed, TaskIds
    <3>3. CASE x \in QueuedTasks
      <4>1. \E i \in DOMAIN queue : x = queue[i]
        BY <1>1, <3>3, TasksByIndex DEF TasksInv
      <4> QED
        BY <3>1, <4>1 DEF ToSet, Waiting
    <3> QED
      BY <2>2, <3>2, <3>3
  <2>7. running'.id = 0 /\ Phase' = Phase
    BY <1>2 DEF NoTask, Phase
  <2> QED
    BY <1>2, <2>5, <2>6, <2>7, AbstractDiscard DEF SimulatesQueue
<1> QED
  BY <1>2, <1>3, <1>4, <1>5 DEF CancelCollection

\* The worker queue of every client keeps the promises of SerialQueue: order,
\* one at a time, at most once, and nothing left once Dispose has returned
\* (AsyncQueue::Enqueue, EnqueueAfterDelay, Dispose and the executor under it).
THEOREM QueueIsSerial == Spec => ImplementsSerialQueue
PROOF
<1>1. Init => Promised!SqInit
  BY EmptySeq DEF Init, Promised!SqInit, NoTask, TaskIds, QueuedTasks, ToSet
<1>2. IInv /\ [Next]_vars => [Promised!SqNext]_(Promised!sqVars)
  <2> SUFFICES ASSUME IInv, [Next]_vars PROVE SimulatesQueue
    BY DEF SimulatesQueue
  <2>1. CASE \E t \in Threads :
                \/ \E call \in Calls : CallFirestore(t, call)
                \/ CallRemove(t) \/ ChangeUser(t) \/ ClearPersistence(t)
                \/ Release(t)
    BY <2>1, CallsSimulate
  <2>2. CASE \E t \in Threads : CallStep(t)
    BY <2>2, CallStepsSimulate, DisposeSimulates DEF CallStep
  <2>3. CASE WorkerStep
    BY <2>3, StartSimulates, OperationsSimulate, TerminateSimulates DEF WorkerStep
  <2>4. CASE Expire \/ Resume
    BY <2>4, ExpireSimulates, ResumeSimulates
  <2>5. CASE UNCHANGED vars
    BY <2>5, StutterView
       DEF vars, queueVars, clientVars, Phase
  <2> QED
    BY <2>1, <2>2, <2>3, <2>4, <2>5 DEF Next
<1> QED
  BY <1>1, <1>2, Invariant, PTL DEF Spec, ImplementsSerialQueue, Promised!SqSpec
=============================================================================
