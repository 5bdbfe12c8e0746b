--------------------------- MODULE GrpcStreamProofs ---------------------------
(***************************************************************************)
(* GrpcStream keeps its inductive invariant, the safety properties follow   *)
(* from it, and every step is one that ObservedStream allows, for every     *)
(* number of messages in both directions.                                   *)
(*                                                                         *)
(* The parts of the invariant take the state as parameters, because the     *)
(* handlers change it piece by piece: a callback first removes its          *)
(* completion, and then reads, writes or shuts down.                        *)
(***************************************************************************)
EXTENDS GrpcStream, SequenceTheorems, TLAPS

\* The values of the variables, without what relates one to another.
StreamValues ==
    [alive : BOOLEAN, observer : BOOLEAN, registered : BOOLEAN, finished : BOOLEAN,
     pending : SUBSET Nat, buffer : Seq(Nat), active : BOOLEAN]
CallValues == [state : {"none", "live", "cancelled", "broken"}, arrived : Nat,
               taken : Nat, written : Seq(Nat)]
ToldValues == [messages : Seq(Nat), finishes : {0, 1}, accepted : 0..MaxWrites]

\* s (stream), cs (comps), c (call) and t (told) are of their types, no more is read
\* than has arrived, and a message accepted is on the buffer or given to the call.
Typed(s, cs, c, t) ==
    /\ s \in StreamValues /\ cs \in Seq(Completion)
    /\ s.pending \subseteq DOMAIN cs
    /\ c \in CallValues /\ c.taken <= c.arrived /\ c.arrived <= MaxMessages
    /\ t \in ToldValues /\ Len(c.written) + Len(s.buffer) = t.accepted

\* The call has ended: gRPC returns what it still has of it.
Ended(c) == c.state \in {"cancelled", "broken"}

\* completions_ holds every completion that gRPC has or whose callback is still to
\* run, and none that has run.
Outstanding(s, cs) ==
    \A i \in DOMAIN cs :
        /\ cs[i].callback /\ cs[i].place # "ran" => i \in s.pending
        /\ cs[i].place = "grpc" => i \in s.pending
        /\ i \in s.pending => cs[i].place # "ran"

\* A stream with completions is observed, one that is observed is alive, and
\* is_grpc_call_finished_ means that the call has ended.
Open(s, cs, c) ==
    /\ s.pending # {} => s.observer
    /\ s.observer => s.alive
    /\ c.state # "none" /\ ~s.observer => s.finished
    /\ s.finished => Ended(c)
    /\ c.state = "none" => cs = <<>>

\* At most one read and one write are pending, a pending write is the active one, and
\* Finish is issued once, on a call that is finished.
OneOfAKind(s, cs) ==
    /\ \A i, j \in s.pending :
          cs[i].type = cs[j].type /\ cs[i].type # "Finish" => i = j
    /\ \A i \in s.pending : cs[i].type = "Write" => s.active
    /\ \A i, j \in DOMAIN cs :
          cs[i].type = "Finish" /\ cs[j].type = "Finish" => i = j
    /\ \A i \in DOMAIN cs : cs[i].type = "Finish" => s.finished

\* A result that is not ok is one of a call that has ended.
FailuresAreFinal(cs, c) ==
    \A i \in DOMAIN cs : cs[i].place # "grpc" /\ ~cs[i].ok => Ended(c)

\* The buffer goes on where what was given to the call ends.
InOrder(s, c) ==
    \A k \in 1..Len(s.buffer) : s.buffer[k] = Len(c.written) + k

\* The read whose callback is to run is the next one that the observer is told: none
\* before it has been taken from the call and not been told.
ReadsInOrder(cs, c, t) ==
    \A i \in DOMAIN cs :
        cs[i].type = "Read" /\ cs[i].callback /\ cs[i].place # "ran" =>
            /\ cs[i].place = "grpc" => c.taken = Len(t.messages)
            /\ cs[i].place # "grpc" /\ cs[i].ok =>
                  c.taken = Len(t.messages) + 1 /\ cs[i].message = c.taken

\* The observer is not told of the finish before it is unset, and nothing is read
\* before the call is started.
ToldOnce(s, c, t) ==
    /\ s.observer => t.finishes = 0
    /\ c.state = "none" => c.taken = 0 /\ t.messages = <<>>

\* What holds of a stream, its completions, its call and its observer at every
\* step, also in the middle of a handler.
Consistent(s, cs, c, t) ==
    /\ Typed(s, cs, c, t)
    /\ Outstanding(s, cs) /\ Open(s, cs, c) /\ OneOfAKind(s, cs)
    /\ FailuresAreFinal(cs, c) /\ InOrder(s, c) /\ ReadsInOrder(cs, c, t)
    /\ ToldOnce(s, c, t)

\* "The stream is always listening" (grpc_stream.h:104): a read is pending.
Listening(s, cs, c) ==
    c.state # "none" /\ s.observer /\ ~s.finished =>
        \E i \in s.pending : cs[i].type = "Read"

\* The completion that the polling thread has, p, and those on the worker queue, ts,
\* are where they say that they are, each once.
QueueOK(cs, ts, p) ==
    /\ p \in {0} \cup DOMAIN cs /\ ts \in Seq(DOMAIN cs)
    /\ p # 0 => cs[p].place = "off"
    /\ \A k \in DOMAIN ts : cs[ts[k]].place = "worker"
    /\ \A k, l \in DOMAIN ts : ts[k] = ts[l] => k = l

\* What the worker queue, w, has done before it blocks: Shutdown and OnOperationFailed
\* have cancelled every pending completion, and neither issues a Finish after another.
WorkerOK(s, cs, w) ==
    /\ w \in {Idle} \cup [at : Blocked, notify : BOOLEAN]
    /\ w.at \in {"idle", "lastWrite"} => \A i \in s.pending : cs[i].callback
    /\ w.at \in {"failing", "finishing", "draining"} =>
          \A i \in s.pending : ~cs[i].callback
    /\ w.at \in {"failing", "finishing"} =>
          s.finished /\ s.observer /\ \A i \in DOMAIN cs : cs[i].type # "Finish"
    /\ w.at = "draining" /\ s.pending # {} => s.finished
    /\ w.at # "idle" => s.alive

\* The inductive invariant.
IInv ==
    /\ Consistent(stream, comps, call, told)
    /\ Listening(stream, comps, call)
    /\ QueueOK(comps, tasks, poll)
    /\ WorkerOK(stream, comps, worker)
    /\ asserted = TRUE

-----------------------------------------------------------------------------
\* A completion added at the end of comps leaves the others alone.
LEMMA AppendedCompletion ==
    ASSUME NEW cs \in Seq(Completion), NEW c \in Completion
    PROVE  /\ Append(cs, c) \in Seq(Completion)
           /\ Len(Append(cs, c)) = Len(cs) + 1
           /\ DOMAIN Append(cs, c) = DOMAIN cs \cup {Len(cs) + 1}
           /\ Len(cs) + 1 \notin DOMAIN cs
           /\ Append(cs, c)[Len(cs) + 1] = c
           /\ \A j \in DOMAIN cs : Append(cs, c)[j] = cs[j]
  BY ONLY cs \in Seq(Completion), c \in Completion, AppendProperties, LenProperties, SMTT(30)

\* Cancel takes the callbacks of the completions in S and leaves the rest alone.
LEMMA CancelledCompletions ==
    ASSUME NEW cs \in Seq(Completion), NEW S
    PROVE  /\ Cancelled(cs, S) \in Seq(Completion)
           /\ DOMAIN Cancelled(cs, S) = DOMAIN cs
           /\ Len(Cancelled(cs, S)) = Len(cs)
           /\ \A j \in DOMAIN cs :
                 /\ Cancelled(cs, S)[j].type = cs[j].type
                 /\ Cancelled(cs, S)[j].place = cs[j].place
                 /\ Cancelled(cs, S)[j].ok = cs[j].ok
                 /\ Cancelled(cs, S)[j].message = cs[j].message
                 /\ Cancelled(cs, S)[j].callback <=> cs[j].callback /\ j \notin S
  <1>1. DOMAIN cs = 1..Len(cs) /\ Len(cs) \in Nat
    BY LenProperties
  <1>2. \A j \in DOMAIN cs : cs[j] \in Completion
    BY <1>1, ElementOfSeq
  <1>3. DOMAIN Cancelled(cs, S) = DOMAIN cs
    BY DEF Cancelled
  <1>4. ASSUME NEW j \in DOMAIN cs
        PROVE  /\ Cancelled(cs, S)[j] \in Completion
               /\ Cancelled(cs, S)[j].type = cs[j].type
               /\ Cancelled(cs, S)[j].place = cs[j].place
               /\ Cancelled(cs, S)[j].ok = cs[j].ok
               /\ Cancelled(cs, S)[j].message = cs[j].message
               /\ Cancelled(cs, S)[j].callback <=> cs[j].callback /\ j \notin S
    <2>1. cs[j] \in Completion
      BY <1>2
    <2>2. Cancelled(cs, S)[j] = IF j \in S THEN [cs[j] EXCEPT !.callback = FALSE] ELSE cs[j]
      BY DEF Cancelled
    <2>3. CASE j \in S
      <3>1. Cancelled(cs, S)[j] = [cs[j] EXCEPT !.callback = FALSE]
        BY <2>2, <2>3
      <3>2. PICK r : r = Cancelled(cs, S)[j]
        OBVIOUS
      <3>3. PICK old \in Completion : old = cs[j]
        BY <2>1
      <3>4. /\ r \in Completion /\ r.type = old.type /\ r.place = old.place
            /\ r.ok = old.ok /\ r.message = old.message /\ r.callback = FALSE
        <4>1. r = [old EXCEPT !.callback = FALSE]
          BY <3>1, <3>2, <3>3
        <4>2. r \in Completion
          BY ONLY <4>1, old \in Completion, ZenonT(40) DEF Completion
        <4> QED
          BY ONLY <4>1, <4>2, old \in Completion, SMTT(30) DEF Completion
      <3> QED
        BY <2>3, <3>2, <3>3, <3>4
    <2>4. CASE j \notin S
      BY <2>1, <2>2, <2>4
    <2> QED
      BY <2>3, <2>4
  <1>5. Cancelled(cs, S) = [j \in 1..Len(cs) |-> Cancelled(cs, S)[j]]
    BY <1>1 DEF Cancelled
  <1>6. Cancelled(cs, S) \in Seq(Completion) /\ Len(Cancelled(cs, S)) = Len(cs)
    BY ONLY <1>1, <1>3, <1>4, <1>5, SMTT(30)
  <1> QED
    BY <1>3, <1>4, <1>6

\* The completions with i moved to p.
\* The completions with the i-th at p.
Placed(cs, i, p) == [cs EXCEPT ![i].place = p]

\* r has the completions of cs, and i at p.
Moved(cs, r, i, p) ==
    /\ r \in Seq(Completion) /\ DOMAIN r = DOMAIN cs /\ Len(r) = Len(cs)
    /\ \A j \in DOMAIN cs :
          /\ r[j].type = cs[j].type /\ r[j].ok = cs[j].ok
          /\ r[j].message = cs[j].message
          /\ r[j].callback <=> cs[j].callback
          /\ j # i => r[j] = cs[j]
    /\ r[i].place = p

\* A completion that goes from one place to the next takes its fields along.
LEMMA PlacedCompletion ==
    ASSUME NEW cs \in Seq(Completion), NEW i \in DOMAIN cs,
           NEW p \in {"grpc", "off", "worker", "ran"}
    PROVE  Moved(cs, Placed(cs, i, p), i, p)
  <1> DEFINE r == Placed(cs, i, p)
  <1>1. DOMAIN cs = 1..Len(cs) /\ Len(cs) \in Nat
    BY LenProperties
  <1>2. cs[i] \in Completion
    BY <1>1, ElementOfSeq
  <1>3. r = [cs EXCEPT ![i] = [cs[i] EXCEPT !.place = p]]
    BY DEF Placed
  <1> HIDE DEF r
  <1>4. [cs[i] EXCEPT !.place = p] \in Completion
    BY <1>2 DEF Completion
  <1>5. /\ r \in Seq(Completion) /\ Len(r) = Len(cs) /\ DOMAIN r = DOMAIN cs
        /\ r[i] = [cs[i] EXCEPT !.place = p]
        /\ \A j \in DOMAIN cs : j # i => r[j] = cs[j]
    BY ONLY cs \in Seq(Completion), i \in DOMAIN cs, <1>1, <1>3, <1>4, SMTT(30)
  <1>6. /\ r[i].type = cs[i].type /\ r[i].ok = cs[i].ok /\ r[i].message = cs[i].message
        /\ r[i].callback = cs[i].callback /\ r[i].place = p
    BY ONLY <1>2, <1>5, SMTT(30) DEF Completion
  <1>7. ASSUME NEW j \in DOMAIN cs
        PROVE  /\ r[j].type = cs[j].type /\ r[j].ok = cs[j].ok
               /\ r[j].message = cs[j].message
               /\ r[j].callback <=> cs[j].callback
               /\ j # i => r[j] = cs[j]
    BY <1>5, <1>6
  <1>8. Moved(cs, r, i, p)
    BY ONLY <1>5, <1>6, <1>7 DEF Moved
  <1> QED
    BY <1>8 DEF r

-----------------------------------------------------------------------------
\* The types of the variables, out of the invariant.
LEMMA FieldsOfIInv ==
    ASSUME IInv
    PROVE  /\ stream \in StreamValues /\ comps \in Seq(Completion) /\ Len(comps) \in Nat
           /\ stream.pending \subseteq DOMAIN comps
           /\ call \in CallValues /\ told \in ToldValues
  BY LenProperties DEF IInv, Consistent, Typed

\* The parts of the invariant, one by one.
LEMMA PartsOfIInv ==
    ASSUME IInv
    PROVE  /\ Outstanding(stream, comps) /\ Open(stream, comps, call)
           /\ OneOfAKind(stream, comps) /\ FailuresAreFinal(comps, call)
           /\ InOrder(stream, call) /\ ReadsInOrder(comps, call, told)
           /\ ToldOnce(stream, call, told) /\ Typed(stream, comps, call, told)
           /\ Listening(stream, comps, call) /\ QueueOK(comps, tasks, poll)
           /\ WorkerOK(stream, comps, worker)
  BY DEF IInv, Consistent

\* Completions that change neither type nor number are of a kind as before.
LEMMA KindsStay ==
    ASSUME NEW s, NEW s2, NEW cs, NEW cs2,
           s2.pending \subseteq s.pending, s.pending \subseteq DOMAIN cs,
           s2.active = s.active, s.finished => s2.finished,
           DOMAIN cs2 = DOMAIN cs, \A j \in DOMAIN cs : cs2[j].type = cs[j].type,
           OneOfAKind(s, cs)
    PROVE  OneOfAKind(s2, cs2)
  <1>1. \A i \in s2.pending : i \in s.pending /\ cs2[i].type = cs[i].type
    OBVIOUS
  <1>2. \A i, j \in s2.pending :
           cs2[i].type = cs2[j].type /\ cs2[i].type # "Finish" => i = j
    BY <1>1 DEF OneOfAKind
  <1>3. \A i \in s2.pending : cs2[i].type = "Write" => s2.active
    BY <1>1 DEF OneOfAKind
  <1>4. /\ \A i, j \in DOMAIN cs2 :
              cs2[i].type = "Finish" /\ cs2[j].type = "Finish" => i = j
        /\ \A i \in DOMAIN cs2 : cs2[i].type = "Finish" => s2.finished
    BY DEF OneOfAKind
  <1> QED
    BY ONLY <1>2, <1>3, <1>4 DEF OneOfAKind

\* The worker queue is disturbed by nothing but a change of callbacks.
LEMMA WorkerStays ==
    ASSUME NEW s, NEW cs, NEW cs2, NEW w, s.pending \subseteq DOMAIN cs,
           DOMAIN cs2 = DOMAIN cs,
           \A j \in DOMAIN cs : /\ cs2[j].type = cs[j].type
                                /\ cs2[j].callback <=> cs[j].callback,
           WorkerOK(s, cs, w)
    PROVE  WorkerOK(s, cs2, w)
  <1>1. \A i \in s.pending : cs2[i].callback <=> cs[i].callback
    OBVIOUS
  <1>2. w.at \in {"failing", "finishing"} => \A i \in DOMAIN cs2 : cs2[i].type # "Finish"
    BY DEF WorkerOK
  <1> QED
    BY <1>1, <1>2 DEF WorkerOK

\* A worker queue that is idle has cancelled nothing that is pending.
LEMMA IdleWorker ==
    ASSUME NEW s, NEW cs
    PROVE  WorkerOK(s, cs, Idle) <=> \A i \in s.pending : cs[i].callback
  <1>1. Idle \in {Idle} \cup [at : Blocked, notify : BOOLEAN] /\ Idle.at = "idle"
    BY DEF Idle
  <1> HIDE DEF Idle
  <1> QED
    BY <1>1 DEF WorkerOK

\* A stream that listens goes on to, as long as the same completions are pending.
LEMMA ListeningStays ==
    ASSUME NEW s, NEW cs, NEW cs2, NEW c, NEW c2, s.pending \subseteq DOMAIN cs,
           \A j \in DOMAIN cs : cs2[j].type = cs[j].type,
           c2.state = "none" <=> c.state = "none", Listening(s, cs, c)
    PROVE  Listening(s, cs2, c2)
  BY DEF Listening

\* A completion that has been executed says nothing of the messages any more.
LEMMA RanReadsInOrder ==
    ASSUME NEW cs, NEW cs2, NEW c, NEW t, NEW i, DOMAIN cs2 = DOMAIN cs,
           cs2[i].place = "ran", \A j \in DOMAIN cs : j # i => cs2[j] = cs[j],
           ReadsInOrder(cs, c, t)
    PROVE  ReadsInOrder(cs2, c, t)
  <1> SUFFICES ASSUME NEW j \in DOMAIN cs2,
                      cs2[j].type = "Read" /\ cs2[j].callback /\ cs2[j].place # "ran"
               PROVE  /\ cs2[j].place = "grpc" => c.taken = Len(t.messages)
                      /\ cs2[j].place # "grpc" /\ cs2[j].ok =>
                            c.taken = Len(t.messages) + 1 /\ cs2[j].message = c.taken
    BY DEF ReadsInOrder
  <1>1. j # i /\ j \in DOMAIN cs /\ cs2[j] = cs[j]
    OBVIOUS
  <1> QED
    BY <1>1 DEF ReadsInOrder

\* Two sequences of the same length are empty together.
LEMMA EmptyTogether ==
    ASSUME NEW S, NEW a \in Seq(S), NEW b \in Seq(S), Len(b) = Len(a), a = <<>>
    PROVE  b = <<>>
  BY EmptySeq

\* What Shutdown, up to its first wait, does to the fields of the stream and the
\* call: it finishes the call if anything is pending, and cancels all of it.
LEMMA ShutdownFacts ==
    ASSUME NEW s, NEW cs, NEW n \in BOOLEAN, s \in StreamValues, cs \in Seq(Completion),
           s.pending \subseteq DOMAIN cs, call \in CallValues, Open(s, cs, call),
           Shutdown(s, cs, n)
    PROVE  /\ stream' \in StreamValues
           /\ stream'.alive = s.alive /\ stream'.observer = s.observer
           /\ stream'.pending = s.pending /\ stream'.buffer = s.buffer
           /\ stream'.active = s.active
           /\ stream'.finished <=> s.finished \/ s.pending # {}
           /\ call' \in CallValues
           /\ call'.arrived = call.arrived /\ call'.taken = call.taken
           /\ call'.written = call.written
           /\ call'.state = "none" <=> call.state = "none"
           /\ Ended(call) => Ended(call')
           /\ stream'.finished => Ended(call')
           /\ worker' \in [at : Blocked, notify : BOOLEAN]
           /\ worker'.at \in {"finishing", "draining"}
           /\ worker'.at = "finishing" => s.pending # {} /\ ~s.finished
           /\ comps' = Cancelled(cs, s.pending)
  <1>0. comps' = Cancelled(cs, s.pending)
    BY DEF Shutdown
  <1>1. CASE s.pending # {} /\ ~s.finished
    <2>1. /\ stream' = [s EXCEPT !.registered = FALSE, !.finished = TRUE]
          /\ call' = TryCancel(call) /\ worker' = [at |-> "finishing", notify |-> n]
      BY <1>1 DEF Shutdown
    <2>2. stream' \in StreamValues
      BY ONLY s \in StreamValues, <2>1, ZenonT(40) DEF StreamValues
    <2>3. /\ stream'.alive = s.alive /\ stream'.observer = s.observer
          /\ stream'.pending = s.pending /\ stream'.buffer = s.buffer
          /\ stream'.active = s.active /\ stream'.finished = TRUE
      BY ONLY s \in StreamValues, <2>1, SMTT(30) DEF StreamValues
    <2>4. call.state # "none"
      <3>1. cs # <<>>
        BY <1>1
      <3> QED
        BY <3>1 DEF Open
    <2>5. CASE call.state = "live"
      <3>1. call' = [call EXCEPT !.state = "cancelled"]
        BY <2>1, <2>5 DEF TryCancel
      <3>2. /\ call' \in CallValues /\ call'.arrived = call.arrived
            /\ call'.taken = call.taken /\ call'.written = call.written
            /\ call'.state = "cancelled"
        <4>1. call' \in CallValues
          BY ONLY call \in CallValues, <3>1, ZenonT(40) DEF CallValues
        <4> QED
          BY ONLY call \in CallValues, <3>1, <4>1, ZenonT(40) DEF CallValues
      <3> QED
        BY <1>0, <1>1, <2>1, <2>2, <2>3, <2>4, <3>2, SMTT(30) DEF Ended, Blocked
    <2>6. CASE call.state # "live"
      <3>1. call' = call
        BY <2>1, <2>6 DEF TryCancel
      <3>2. Ended(call)
        BY <2>4, <2>6, SMTT(30) DEF Ended, CallValues
      <3> QED
        BY <1>0, <1>1, <2>1, <2>2, <2>3, <2>4, <3>1, <3>2, SMTT(30) DEF Ended, Blocked
    <2> QED
      BY <2>5, <2>6
  <1>2. CASE ~ (s.pending # {} /\ ~s.finished)
    <2>1. /\ stream' = [s EXCEPT !.registered = FALSE]
          /\ call' = call /\ worker' = [at |-> "draining", notify |-> n]
      BY <1>2 DEF Shutdown
    <2>2. stream' \in StreamValues
      BY ONLY s \in StreamValues, <2>1, ZenonT(40) DEF StreamValues
    <2>3. /\ stream'.alive = s.alive /\ stream'.observer = s.observer
          /\ stream'.pending = s.pending /\ stream'.buffer = s.buffer
          /\ stream'.active = s.active /\ stream'.finished = s.finished
      BY ONLY s \in StreamValues, <2>1, SMTT(30) DEF StreamValues
    <2>4. stream'.finished <=> s.finished \/ s.pending # {}
      BY <1>2, <2>3
    <2>5. stream'.finished => Ended(call')
      BY <2>1, <2>3 DEF Open
    <2>6. worker' \in [at : Blocked, notify : BOOLEAN] /\ worker'.at = "draining"
      BY ONLY <2>1, n \in BOOLEAN, SMTT(30) DEF Blocked
    <2> QED
      BY <1>0, <2>1, <2>2, <2>3, <2>4, <2>5, <2>6
  <1> QED
    BY <1>1, <1>2

\* Shutdown, on any stream s of which the invariant holds, keeps it, and blocks the
\* worker queue with no callback left to run.
LEMMA ShutdownKeeps ==
    ASSUME NEW s, NEW cs, NEW t, NEW n \in BOOLEAN,
           Consistent(s, cs, call, t), Listening(s, cs, call), s.alive,
           Shutdown(s, cs, n)
    PROVE  /\ Consistent(stream', comps', call', t)
           /\ Listening(stream', comps', call')
           /\ WorkerOK(stream', comps', worker')
           /\ Len(comps') = Len(cs) /\ DOMAIN comps' = DOMAIN cs
           /\ \A j \in DOMAIN cs : comps'[j].place = cs[j].place
  <1>1. /\ s \in StreamValues /\ cs \in Seq(Completion) /\ s.pending \subseteq DOMAIN cs
        /\ call \in CallValues /\ Open(s, cs, call)
    BY DEF Consistent, Typed
  <1>2. /\ stream' \in StreamValues
        /\ stream'.alive = s.alive /\ stream'.observer = s.observer
        /\ stream'.pending = s.pending /\ stream'.buffer = s.buffer
        /\ stream'.active = s.active
        /\ stream'.finished <=> s.finished \/ s.pending # {}
    BY ONLY <1>1, n \in BOOLEAN, Shutdown(s, cs, n), ShutdownFacts
  <1>3. /\ call' \in CallValues
        /\ call'.arrived = call.arrived /\ call'.taken = call.taken
        /\ call'.written = call.written
        /\ call'.state = "none" <=> call.state = "none"
        /\ Ended(call) => Ended(call')
        /\ stream'.finished => Ended(call')
    BY ONLY <1>1, n \in BOOLEAN, Shutdown(s, cs, n), ShutdownFacts
  <1>4. /\ worker' \in [at : Blocked, notify : BOOLEAN]
        /\ worker'.at \in {"finishing", "draining"}
        /\ worker'.at = "finishing" => s.pending # {} /\ ~s.finished
        /\ comps' = Cancelled(cs, s.pending)
    BY ONLY <1>1, n \in BOOLEAN, Shutdown(s, cs, n), ShutdownFacts
  <1>5. /\ comps' \in Seq(Completion) /\ DOMAIN comps' = DOMAIN cs /\ Len(comps') = Len(cs)
        /\ \A j \in DOMAIN cs :
              /\ comps'[j].type = cs[j].type /\ comps'[j].place = cs[j].place
              /\ comps'[j].ok = cs[j].ok /\ comps'[j].message = cs[j].message
              /\ comps'[j].callback <=> cs[j].callback /\ j \notin s.pending
    BY ONLY <1>1, <1>4, CancelledCompletions
  <1>6. Typed(stream', comps', call', t)
    BY <1>1, <1>2, <1>3, <1>5 DEF Typed, Consistent
  <1>7. Outstanding(stream', comps')
    BY <1>2, <1>5 DEF Outstanding, Consistent
  <1>8. Open(stream', comps', call')
    <2>1. call'.state = "none" => comps' = <<>>
      <3>1. call'.state = "none" => cs = <<>>
        BY <1>1, <1>3 DEF Open
      <3> QED
        BY ONLY <1>1, <1>5, <3>1, EmptyTogether
    <2> QED
      BY <2>1, <1>1, <1>2, <1>3 DEF Open
  <1>9. OneOfAKind(stream', comps')
    <2>1. OneOfAKind(s, cs)
      BY DEF Consistent
    <2> QED
      BY ONLY <1>1, <1>2, <1>5, <2>1, KindsStay
  <1>10. FailuresAreFinal(comps', call')
    BY <1>3, <1>5 DEF FailuresAreFinal, Consistent
  <1>11. InOrder(stream', call')
    BY <1>2, <1>3 DEF InOrder, Consistent
  <1>12. ReadsInOrder(comps', call', t)
    BY <1>3, <1>5 DEF ReadsInOrder, Consistent
  <1>13. ToldOnce(stream', call', t)
    BY <1>2, <1>3 DEF ToldOnce, Consistent
  <1>14. Listening(stream', comps', call')
    BY <1>1, <1>2, <1>3, <1>5 DEF Listening
  <1>15. WorkerOK(stream', comps', worker')
    <2>1. \A i \in stream'.pending : ~comps'[i].callback
      BY <1>1, <1>2, <1>5
    <2>2. worker'.at = "finishing" =>
              stream'.finished /\ stream'.observer
              /\ \A i \in DOMAIN comps' : comps'[i].type # "Finish"
      <3>1. ~s.finished => \A i \in DOMAIN cs : cs[i].type # "Finish"
        BY DEF OneOfAKind, Consistent
      <3>2. s.pending # {} => s.observer
        BY ONLY <1>1 DEF Open
      <3> QED
        BY ONLY <1>2, <1>4, <1>5, <3>1, <3>2
    <2> QED
      BY <2>1, <2>2, <1>2, <1>4 DEF WorkerOK
  <1> QED
    BY <1>5, <1>6, <1>7, <1>8, <1>9, <1>10, <1>11, <1>12, <1>13, <1>14, <1>15 DEF Consistent

-----------------------------------------------------------------------------
\* Neither the polling thread nor the worker queue is disturbed when completions are
\* issued or cancelled.
LEMMA QueueGrows ==
    ASSUME NEW cs, NEW cs2, NEW ts, NEW p, QueueOK(cs, ts, p),
           DOMAIN cs \subseteq DOMAIN cs2,
           \A j \in DOMAIN cs : cs2[j].place = cs[j].place
    PROVE  QueueOK(cs2, ts, p)
  <1>1. ts \in Seq(DOMAIN cs) /\ DOMAIN ts = 1..Len(ts) /\ Len(ts) \in Nat
        /\ \A k \in DOMAIN ts : ts[k] \in DOMAIN cs
    BY LenProperties, ElementOfSeq DEF QueueOK
  <1>2. ts \in Seq(DOMAIN cs2)
    BY ONLY <1>1, DOMAIN cs \subseteq DOMAIN cs2, SMTT(30)
  <1> QED
    BY <1>1, <1>2 DEF QueueOK

\* The first task of the worker queue is taken from it and executed.
LEMMA QueueRuns ==
    ASSUME NEW cs \in Seq(Completion), NEW ts, NEW p, NEW i, QueueOK(cs, ts, p),
           ts # <<>>, i = Head(ts)
    PROVE  /\ i \in DOMAIN cs /\ cs[i].place = "worker"
           /\ QueueOK(Placed(cs, i, "ran"), Tail(ts), p)
  <1>1. ts \in Seq(DOMAIN cs) /\ DOMAIN ts = 1..Len(ts) /\ Len(ts) \in Nat
        /\ \A k \in DOMAIN ts : ts[k] \in DOMAIN cs
    BY LenProperties, ElementOfSeq DEF QueueOK
  <1>2. /\ Len(ts) # 0 /\ 1 \in DOMAIN ts /\ i = ts[1]
        /\ Tail(ts) \in Seq(DOMAIN cs) /\ DOMAIN Tail(ts) = 1..(Len(ts) - 1)
        /\ \A k \in DOMAIN Tail(ts) : k + 1 \in DOMAIN ts /\ Tail(ts)[k] = ts[k + 1]
    BY ONLY <1>1, ts # <<>>, i = Head(ts), SMTT(30)
  <1>3. i \in DOMAIN cs /\ cs[i].place = "worker"
    BY <1>1, <1>2 DEF QueueOK
  <1> DEFINE r == Placed(cs, i, "ran")
  <1>4. DOMAIN r = DOMAIN cs /\ \A j \in DOMAIN cs : j # i => r[j] = cs[j]
    <2>1. Moved(cs, r, i, "ran")
      BY ONLY cs \in Seq(Completion), <1>3, PlacedCompletion
    <2> QED
      BY ONLY <2>1 DEF Moved
  <1> HIDE DEF r
  <1>5. \A k \in DOMAIN Tail(ts) : Tail(ts)[k] # i
    <2>1. \A k, l \in DOMAIN ts : ts[k] = ts[l] => k = l
      BY DEF QueueOK
    <2> QED
      BY ONLY <2>1, <1>1, <1>2, SMTT(30)
  <1>6. \A k \in DOMAIN Tail(ts) : r[Tail(ts)[k]].place = "worker"
    BY <1>1, <1>2, <1>4, <1>5 DEF QueueOK
  <1>7. \A k, l \in DOMAIN Tail(ts) : Tail(ts)[k] = Tail(ts)[l] => k = l
    <2>1. \A k, l \in DOMAIN ts : ts[k] = ts[l] => k = l
      BY DEF QueueOK
    <2> QED
      BY ONLY <2>1, <1>1, <1>2, SMTT(30)
  <1>8. p \in {0} \cup DOMAIN r /\ (p # 0 => r[p].place = "off")
    BY <1>3, <1>4 DEF QueueOK
  <1>9. QueueOK(r, Tail(ts), p)
    BY <1>2, <1>4, <1>6, <1>7, <1>8 DEF QueueOK
  <1> QED
    BY <1>3, <1>9 DEF r

\* A callback that runs finds its completion pending and its stream alive and
\* observed, on a worker queue that does not block.
LEMMA CallbackFacts ==
    ASSUME IInv, NEW i \in DOMAIN comps, NEW ok \in BOOLEAN, Callback(i, ok)
    PROVE  /\ i \in stream.pending /\ stream.observer /\ stream.alive
           /\ worker = Idle /\ poll' = poll
           /\ comps[i].callback /\ comps[i].place = "worker"
           /\ comps[i].ok = ok
           /\ QueueOK(Ran(i), tasks', poll')
  <1>1. comps \in Seq(Completion) /\ QueueOK(comps, tasks, poll)
    BY DEF IInv, Consistent, Typed
  <1>2. /\ worker = Idle /\ tasks # <<>> /\ i = Head(tasks) /\ tasks' = Tail(tasks)
        /\ poll' = poll /\ comps[i].callback /\ comps[i].ok = ok
    BY DEF Callback, Executes
  <1>3. comps[i].place = "worker" /\ QueueOK(Ran(i), tasks', poll')
    BY <1>1, <1>2, QueueRuns DEF Ran, Placed
  <1>4. i \in stream.pending
    BY <1>2, <1>3 DEF IInv, Consistent, Outstanding
  <1>5. stream.observer /\ stream.alive
    BY <1>4 DEF IInv, Consistent, Open
  <1> QED
    BY <1>2, <1>3, <1>4, <1>5

\* RemoveCompletion changes nothing but completions_.
LEMMA RemoveFacts ==
    ASSUME NEW i, stream \in StreamValues
    PROVE  /\ RemoveCompletion(i) \in StreamValues
           /\ RemoveCompletion(i).alive = stream.alive
           /\ RemoveCompletion(i).observer = stream.observer
           /\ RemoveCompletion(i).finished = stream.finished
           /\ RemoveCompletion(i).pending = stream.pending \ {i}
           /\ RemoveCompletion(i).buffer = stream.buffer
           /\ RemoveCompletion(i).active = stream.active
  <1>1. RemoveCompletion(i) \in StreamValues
    BY ONLY stream \in StreamValues, ZenonT(40) DEF RemoveCompletion, StreamValues
  <1> QED
    BY ONLY <1>1, stream \in StreamValues, SMTT(30) DEF RemoveCompletion, StreamValues

\* The invariant holds once a callback has removed its completion, and no other of
\* the same kind is pending, so that the next may be issued.
LEMMA CallbackKeeps ==
    ASSUME IInv, NEW i \in DOMAIN comps, NEW ok \in BOOLEAN, Callback(i, ok)
    PROVE  /\ Consistent(RemoveCompletion(i), Ran(i), call, told)
           /\ WorkerOK(RemoveCompletion(i), Ran(i), Idle)
           /\ \A j \in stream.pending \ {i} :
                 comps[i].type # "Finish" => Ran(i)[j].type # comps[i].type
  <1> DEFINE s == RemoveCompletion(i)
             cs == Ran(i)
  <1>1. /\ stream \in StreamValues /\ comps \in Seq(Completion)
        /\ stream.pending \subseteq DOMAIN comps
    BY DEF IInv, Consistent, Typed
  <1>2. /\ s \in StreamValues /\ s.alive = stream.alive /\ s.observer = stream.observer
        /\ s.finished = stream.finished /\ s.pending = stream.pending \ {i}
        /\ s.buffer = stream.buffer /\ s.active = stream.active
    BY ONLY <1>1, RemoveFacts
  <1>3. /\ cs \in Seq(Completion) /\ DOMAIN cs = DOMAIN comps /\ Len(cs) = Len(comps)
        /\ \A j \in DOMAIN comps :
              /\ cs[j].type = comps[j].type /\ cs[j].ok = comps[j].ok
              /\ cs[j].message = comps[j].message
              /\ cs[j].callback <=> comps[j].callback
              /\ j # i => cs[j] = comps[j]
        /\ cs[i].place = "ran"
    <2>1. cs = Placed(comps, i, "ran")
      BY ONLY DEF cs, Ran, Placed
    <2> HIDE DEF cs
    <2>2. Moved(comps, cs, i, "ran")
      BY ONLY <1>1, <2>1, i \in DOMAIN comps, PlacedCompletion
    <2> QED
      BY ONLY <2>2 DEF Moved
  <1>4. i \in stream.pending /\ worker = Idle /\ comps[i].place = "worker"
    BY ONLY IInv, i \in DOMAIN comps, ok \in BOOLEAN, Callback(i, ok), CallbackFacts,
            ZenonT(40)
  <1> HIDE DEF s, cs
  <1>5. Typed(s, cs, call, told)
    BY <1>1, <1>2, <1>3 DEF Typed, IInv, Consistent
  <1>6. Outstanding(s, cs)
    BY <1>2, <1>3 DEF Outstanding, IInv, Consistent
  <1>7. Open(s, cs, call)
    <2>1. comps # <<>>
      BY <1>4, <1>1
    <2> QED
      BY <2>1, <1>2 DEF Open, IInv, Consistent
  <1>8. OneOfAKind(s, cs)
    <2>1. OneOfAKind(stream, comps)
      BY ONLY IInv, PartsOfIInv
    <2>2. s.pending \subseteq stream.pending
      BY <1>2
    <2> QED
      BY ONLY <1>1, <1>2, <1>3, <2>1, <2>2, KindsStay
  <1>9. FailuresAreFinal(cs, call)
    <2>1. \A j \in DOMAIN comps : cs[j].place # "grpc" => comps[j].place # "grpc"
      BY <1>3, <1>4
    <2> QED
      BY <2>1, <1>3 DEF FailuresAreFinal, IInv, Consistent
  <1>10. InOrder(s, call)
    BY <1>2 DEF InOrder, IInv, Consistent
  <1>11. ReadsInOrder(cs, call, told)
    <2>1. ReadsInOrder(comps, call, told)
      BY ONLY IInv, PartsOfIInv
    <2> QED
      BY ONLY <1>3, <2>1 DEF ReadsInOrder
  <1>12. ToldOnce(s, call, told)
    BY <1>2 DEF ToldOnce, IInv, Consistent
  <1>13. WorkerOK(s, cs, Idle)
    <2>1. \A j \in s.pending : cs[j].callback
      <3>1. \A j \in stream.pending : comps[j].callback
        BY ONLY IInv, <1>4, PartsOfIInv, IdleWorker
      <3> QED
        BY ONLY <1>1, <1>2, <1>3, <3>1
    <2> QED
      BY ONLY <2>1, IdleWorker
  <1>14. \A j \in stream.pending \ {i} :
             comps[i].type # "Finish" => cs[j].type # comps[i].type
    <2>1. OneOfAKind(stream, comps)
      BY ONLY IInv, PartsOfIInv
    <2> QED
      BY ONLY <1>1, <1>3, <1>4, <2>1 DEF OneOfAKind
  <1> QED
    BY <1>5, <1>6, <1>7, <1>8, <1>9, <1>10, <1>11, <1>12, <1>13, <1>14
       DEF s, cs, Consistent

-----------------------------------------------------------------------------
\* s2 is s with one more pending operation, the n-th; w: it is a write.
Issued(s, s2, n, w) ==
    /\ s2 \in StreamValues /\ s2.alive = s.alive /\ s2.observer = s.observer
    /\ s2.finished = s.finished /\ s2.pending = s.pending \cup {n}
    /\ s2.buffer = s.buffer
    /\ s2.active <=> s.active \/ w

\* An operation of this type is issued, where it may be.
Issues(s, cs, c, t, s2, cs2, type) ==
    /\ type \in {"Read", "Write"}
    /\ Consistent(s, cs, c, t) /\ s.observer /\ c.state # "none"
    /\ \A j \in s.pending : cs[j].type # type
    /\ type = "Read" => c.taken = Len(t.messages)
    /\ Issued(s, s2, Len(cs) + 1, type = "Write")
    /\ cs2 = Append(cs, NewCompletion(type, TRUE))

\* What then holds of the stream and its completions.
IsIssued(s, cs, c, t, s2, cs2, type) ==
    /\ Consistent(s2, cs2, c, t)
    /\ WorkerOK(s, cs, Idle) => WorkerOK(s2, cs2, Idle)
    /\ type = "Read" \/ Listening(s, cs, c) => Listening(s2, cs2, c)
    /\ DOMAIN cs \subseteq DOMAIN cs2
    /\ \A j \in DOMAIN cs : cs2[j].place = cs[j].place

\* An operation that is issued while no other of its kind is pending keeps the
\* invariant.
LEMMA IssueKeeps ==
    ASSUME NEW s, NEW cs, NEW c, NEW t, NEW s2, NEW cs2, NEW type,
           Issues(s, cs, c, t, s2, cs2, type)
    PROVE  IsIssued(s, cs, c, t, s2, cs2, type)
  <1> DEFINE n == Len(cs) + 1
             new == NewCompletion(type, TRUE)
  <1>1. /\ s \in StreamValues /\ cs \in Seq(Completion) /\ s.pending \subseteq DOMAIN cs
    BY DEF Issues, Consistent, Typed
  <1>0. /\ Outstanding(s, cs) /\ Open(s, cs, c) /\ OneOfAKind(s, cs)
        /\ FailuresAreFinal(cs, c) /\ InOrder(s, c) /\ ReadsInOrder(cs, c, t)
        /\ ToldOnce(s, c, t)
    BY DEF Issues, Consistent
  <1>16. /\ s.observer /\ c.state # "none" /\ type \in {"Read", "Write"}
         /\ \A j \in s.pending : cs[j].type # type
         /\ type = "Read" => c.taken = Len(t.messages)
    BY DEF Issues
  <1>2. new \in Completion
    BY <1>16 DEF NewCompletion, Completion
  <1>3. /\ new.type = type /\ new.callback /\ new.place = "grpc"
    BY DEF NewCompletion
  <1>4. /\ cs2 \in Seq(Completion) /\ Len(cs2) = n
        /\ DOMAIN cs2 = DOMAIN cs \cup {n} /\ n \notin DOMAIN cs
        /\ cs2[n] = new
        /\ \A j \in DOMAIN cs : cs2[j] = cs[j]
    <2> HIDE DEF new
    <2>1. cs2 = Append(cs, new)
      BY DEF new, Issues
    <2> QED
      BY ONLY <1>1, <1>2, <2>1, AppendedCompletion DEF n
  <1>5. /\ s2 \in StreamValues /\ s2.alive = s.alive /\ s2.observer = s.observer
        /\ s2.finished = s.finished /\ s2.pending = s.pending \cup {n}
        /\ s2.buffer = s.buffer
        /\ s2.active <=> s.active \/ type = "Write"
    BY DEF Issues, Issued
  <1> HIDE DEF n, new
  <1>6. Typed(s2, cs2, c, t)
    BY <1>1, <1>4, <1>5 DEF Typed, Consistent, Issues
  <1>17. /\ DOMAIN cs2 = DOMAIN cs \cup {n} /\ n \notin DOMAIN cs
         /\ s2.pending = s.pending \cup {n} /\ n \notin s.pending
         /\ s.pending \subseteq DOMAIN cs
         /\ \A j \in DOMAIN cs : cs2[j] = cs[j]
    BY <1>1, <1>4, <1>5
  <1>18. cs2[n].type = type /\ cs2[n].callback /\ cs2[n].place = "grpc"
    BY <1>3, <1>4
  <1>19. /\ s2.observer = s.observer /\ s2.finished = s.finished
         /\ s2.active <=> s.active \/ type = "Write"
    BY <1>5
  <1>7. Outstanding(s2, cs2)
    BY ONLY <1>0, <1>17, <1>18, SMTT(30) DEF Outstanding
  <1>8. Open(s2, cs2, c)
    BY <1>0, <1>16, <1>5 DEF Open
  <1>9. OneOfAKind(s2, cs2)
    <2>1. \A i, j \in s2.pending :
             cs2[i].type = cs2[j].type /\ cs2[i].type # "Finish" => i = j
      <3> SUFFICES ASSUME NEW i \in s2.pending, NEW j \in s2.pending,
                          cs2[i].type = cs2[j].type, cs2[i].type # "Finish"
                   PROVE  i = j
        OBVIOUS
      <3>1. \A k \in s.pending : cs2[k] = cs[k] /\ cs[k].type # type
        BY ONLY <1>16, <1>17
      <3>2. CASE i \in s.pending /\ j \in s.pending
        <4>1. OneOfAKind(s, cs)
          BY <1>0
        <4>2. /\ i \in s.pending /\ j \in s.pending
              /\ cs[i].type = cs[j].type /\ cs[i].type # "Finish"
          BY ONLY <3>1, <3>2, cs2[i].type = cs2[j].type, cs2[i].type # "Finish"
        <4> QED
          BY ONLY <4>1, <4>2 DEF OneOfAKind
      <3>3. CASE i = n \/ j = n
        BY ONLY <3>1, <3>3, <1>17, <1>18, i \in s2.pending, j \in s2.pending,
                cs2[i].type = cs2[j].type
      <3> QED
        BY ONLY <3>2, <3>3, <1>17, i \in s2.pending, j \in s2.pending
    <2>2. \A i \in s2.pending : cs2[i].type = "Write" => s2.active
      BY ONLY <1>0, <1>17, <1>18, <1>19, SMTT(30) DEF OneOfAKind
    <2>3. cs2[n].type # "Finish"
      BY <1>16, <1>3, <1>4
    <2>4. /\ \A i, j \in DOMAIN cs2 :
                cs2[i].type = "Finish" /\ cs2[j].type = "Finish" => i = j
          /\ \A i \in DOMAIN cs2 : cs2[i].type = "Finish" => s2.finished
      BY <1>0, <1>4, <1>5, <2>3 DEF OneOfAKind
    <2> QED
      BY <2>1, <2>2, <2>4 DEF OneOfAKind
  <1>10. FailuresAreFinal(cs2, c)
    BY <1>0, <1>3, <1>4 DEF FailuresAreFinal
  <1>11. InOrder(s2, c)
    BY <1>0, <1>5 DEF InOrder
  <1>12. ReadsInOrder(cs2, c, t)
    BY ONLY <1>0, <1>16, <1>17, <1>18, SMTT(30) DEF ReadsInOrder
  <1>13. ToldOnce(s2, c, t)
    BY <1>0, <1>16, <1>5 DEF ToldOnce
  <1>14. WorkerOK(s, cs, Idle) => WorkerOK(s2, cs2, Idle)
    <2>1. (\A i \in s.pending : cs[i].callback) => \A i \in s2.pending : cs2[i].callback
      BY ONLY <1>17, <1>18
    <2>2. WorkerOK(s, cs, Idle) => \A i \in s.pending : cs[i].callback
      BY ONLY IdleWorker
    <2>3. (\A i \in s2.pending : cs2[i].callback) => WorkerOK(s2, cs2, Idle)
      BY ONLY IdleWorker
    <2> QED
      BY ONLY <2>1, <2>2, <2>3
  <1>15. type = "Read" \/ Listening(s, cs, c) => Listening(s2, cs2, c)
    BY ONLY <1>16, <1>17, <1>18, <1>19, SMTT(30) DEF Listening
  <1> QED
    BY <1>4, <1>6, <1>7, <1>8, <1>9, <1>10, <1>11, <1>12, <1>13, <1>14, <1>15
       DEF Consistent, IsIssued

\* Read keeps the invariant where all that was read has been told.
LEMMA ReadKeeps ==
    ASSUME NEW s, NEW cs, NEW c, NEW t,
           Consistent(s, cs, c, t), s.observer, c.state # "none",
           \A j \in s.pending : cs[j].type # "Read",
           c.taken = Len(t.messages), WorkerOK(s, cs, Idle), Read(s, cs)
    PROVE  /\ Consistent(stream', comps', c, t)
           /\ WorkerOK(stream', comps', Idle)
           /\ Listening(stream', comps', c)
           /\ DOMAIN cs \subseteq DOMAIN comps'
           /\ \A j \in DOMAIN cs : comps'[j].place = cs[j].place
  <1>1. s \in StreamValues /\ Len(cs) \in Nat
    BY LenProperties DEF Consistent, Typed
  <1>2. /\ stream' = [s EXCEPT !.pending = @ \cup {Len(cs) + 1}]
        /\ comps' = Append(cs, NewCompletion("Read", TRUE))
    BY DEF Read, Pending
  <1>3. Issued(s, stream', Len(cs) + 1, "Read" = "Write")
    <2>1. PICK P, s2 : s2 = stream' /\ P = s.pending \cup {Len(cs) + 1}
      OBVIOUS
    <2>2. s2 = [s EXCEPT !.pending = P] /\ P \in SUBSET Nat
      BY ONLY <1>1, <1>2, <2>1 DEF StreamValues
    <2>3. s2 \in StreamValues
      BY ONLY <1>1, <2>2, ZenonT(40) DEF StreamValues
    <2>4. /\ s2.alive = s.alive /\ s2.observer = s.observer
          /\ s2.finished = s.finished /\ s2.pending = P
          /\ s2.buffer = s.buffer /\ s2.active = s.active
      BY ONLY <1>1, <2>2, <2>3, ZenonT(40) DEF StreamValues
    <2>5. Issued(s, s2, Len(cs) + 1, FALSE)
      BY ONLY <2>1, <2>3, <2>4 DEF Issued
    <2> QED
      BY <2>1, <2>5
  <1>4. /\ Consistent(s, cs, c, t) /\ s.observer /\ c.state # "none"
        /\ \A j \in s.pending : cs[j].type # "Read"
        /\ c.taken = Len(t.messages) /\ WorkerOK(s, cs, Idle)
    OBVIOUS
  <1> QED
    <2>1. Issues(s, cs, c, t, stream', comps', "Read")
      BY ONLY <1>2, <1>3, <1>4 DEF Issues
    <2>2. IsIssued(s, cs, c, t, stream', comps', "Read")
      BY ONLY <2>1, IssueKeeps
    <2> QED
      BY ONLY <1>4, <2>2 DEF IsIssued

\* MaybeWrite keeps the invariant: it gives the call the first message of the
\* buffer only when no write is active.
LEMMA MaybeWriteKeeps ==
    ASSUME NEW s, NEW cs, NEW t,
           Consistent(s, cs, call, t), s.observer, call.state # "none",
           WorkerOK(s, cs, Idle), MaybeWrite(s, cs)
    PROVE  /\ Consistent(stream', comps', call', t)
           /\ WorkerOK(stream', comps', Idle)
           /\ Listening(s, cs, call) => Listening(stream', comps', call')
           /\ stream'.alive = s.alive
           /\ DOMAIN cs \subseteq DOMAIN comps'
           /\ \A j \in DOMAIN cs : comps'[j].place = cs[j].place
  <1>0. /\ s \in StreamValues /\ Len(cs) \in Nat /\ call \in CallValues
        /\ s.buffer \in Seq(Nat) /\ call.written \in Seq(Nat)
    BY LenProperties DEF Consistent, Typed, StreamValues, CallValues
  <1>1. CASE ~TryStartWrite(s)
    BY <1>1 DEF MaybeWrite
  <1>2. CASE TryStartWrite(s)
    <2>1. s.buffer # <<>> /\ ~s.active
      BY <1>2 DEF TryStartWrite
    <2>2. /\ stream' = [s EXCEPT !.pending = @ \cup {Len(cs) + 1},
                                 !.buffer = Tail(@), !.active = TRUE]
          /\ comps' = Append(cs, NewCompletion("Write", TRUE))
          /\ call' = [call EXCEPT !.written = Append(@, Head(s.buffer))]
      BY <1>2 DEF MaybeWrite, Pending
    <2>3. PICK b, w : b = Tail(s.buffer) /\ w = Append(call.written, Head(s.buffer))
      OBVIOUS
    <2>19. b \in Seq(Nat) /\ w \in Seq(Nat) /\ s.pending \in SUBSET Nat
      <3>1. Head(s.buffer) \in Nat /\ Tail(s.buffer) \in Seq(Nat)
        BY ONLY <1>0, <2>1, HeadTailProperties
      <3>2. Append(call.written, Head(s.buffer)) \in Seq(Nat)
        BY ONLY <1>0, <3>1, AppendProperties
      <3> QED
        BY <1>0, <2>3, <3>1, <3>2 DEF StreamValues
    <2>20. s \in StreamValues /\ call \in CallValues
      BY <1>0
    <2>4. /\ Len(b) = Len(s.buffer) - 1 /\ Len(s.buffer) \in Nat \ {0}
          /\ \A k \in 1..Len(b) : b[k] = s.buffer[k + 1]
      BY ONLY <1>0, <2>1, <2>3, HeadTailProperties, LenProperties, EmptySeq, SMTT(30)
    <2>5. PICK s1 : s1 = [s EXCEPT !.buffer = b]
      OBVIOUS
    <2>6. /\ s1 \in StreamValues /\ s1.alive = s.alive /\ s1.observer = s.observer
          /\ s1.finished = s.finished /\ s1.pending = s.pending
          /\ s1.buffer = b /\ s1.active = s.active
      <3>1. s1 \in StreamValues
        BY ONLY <2>20, <2>5, <2>19, ZenonT(40) DEF StreamValues
      <3> QED
        BY ONLY <2>20, <2>5, <3>1, ZenonT(40) DEF StreamValues
    <2>7. /\ call' \in CallValues /\ call'.state = call.state /\ call'.taken = call.taken
          /\ call'.arrived = call.arrived /\ call'.written = w
          /\ Len(w) = Len(call.written) + 1 /\ Len(call.written) \in Nat
      <3>1. call' = [call EXCEPT !.written = w]
        BY <2>2, <2>3
      <3>2. call' \in CallValues
        BY ONLY <2>20, <2>19, <3>1, ZenonT(40) DEF CallValues
      <3>3. Len(w) = Len(call.written) + 1 /\ Len(call.written) \in Nat
        BY ONLY <1>0, <2>1, <2>3, HeadTailProperties, AppendProperties, LenProperties,
                EmptySeq
      <3> QED
        BY ONLY <2>20, <3>1, <3>2, <3>3, ZenonT(40) DEF CallValues
    <2>8. Typed(s1, cs, call', t)
      <3>1. Len(call'.written) + Len(s1.buffer) = Len(call.written) + Len(s.buffer)
        <4>1. PICK x \in Nat, y \in Nat \ {0} :
                  x = Len(call.written) /\ y = Len(s.buffer)
          BY <2>4, <2>7
        <4>2. Len(call'.written) = x + 1 /\ Len(s1.buffer) = y - 1
          BY <2>4, <2>6, <2>7, <4>1
        <4>3. (x + 1) + (y - 1) = x + y
          OBVIOUS
        <4> QED
          BY <4>1, <4>2, <4>3
      <3> QED
        BY <2>6, <2>7, <3>1 DEF Typed, Consistent
    <2>9. InOrder(s1, call')
      <3>1. \A k \in 1..Len(s.buffer) : s.buffer[k] = Len(call.written) + k
        BY DEF InOrder, Consistent
      <3> QED
        <4>1. PICK x \in Nat, y \in Nat \ {0}, n \in Nat :
                  x = Len(call.written) /\ y = Len(s.buffer) /\ n = Len(b)
          BY <2>4, <2>7, LenProperties, <2>19
        <4>2. n = y - 1 /\ Len(w) = x + 1
          BY <2>4, <2>7, <4>1
        <4>3. ASSUME NEW k \in 1..n
              PROVE  b[k] = (x + 1) + k
          <5>1. k + 1 \in 1..y /\ x + (k + 1) = (x + 1) + k
            BY ONLY <4>2, k \in 1..n, n \in Nat, x \in Nat, y \in Nat \ {0}, SMTT(30)
          <5>2. b[k] = s.buffer[k + 1]
            BY <2>4, <4>1
          <5> QED
            BY <3>1, <4>1, <5>1, <5>2
        <4> QED
          BY <2>6, <2>7, <4>1, <4>2, <4>3 DEF InOrder
    <2>10. /\ Outstanding(s1, cs) /\ Open(s1, cs, call') /\ OneOfAKind(s1, cs)
           /\ FailuresAreFinal(cs, call') /\ ReadsInOrder(cs, call', t)
           /\ ToldOnce(s1, call', t)
      BY <2>6, <2>7 DEF Outstanding, Open, OneOfAKind, FailuresAreFinal, ReadsInOrder,
                        ToldOnce, Consistent, Ended
    <2>11. Consistent(s1, cs, call', t)
      BY <2>8, <2>9, <2>10 DEF Consistent
    <2>12. /\ WorkerOK(s1, cs, Idle)
           /\ Listening(s, cs, call) => Listening(s1, cs, call')
      BY <2>6, <2>7 DEF WorkerOK, Listening, Idle
    <2>13. stream' = [s EXCEPT !.pending = @ \cup {Len(cs) + 1}, !.buffer = b,
                               !.active = TRUE]
           /\ stream' \in StreamValues
      <3>1. stream' = [s EXCEPT !.pending = @ \cup {Len(cs) + 1}, !.buffer = b,
                                !.active = TRUE]
        BY <2>2, <2>3
      <3>2. PICK P \in SUBSET Nat : P = s.pending \cup {Len(cs) + 1}
        <4>1. PICK n \in Nat : n = Len(cs)
          BY <1>0
        <4>2. s.pending \cup {n + 1} \in SUBSET Nat
          BY ONLY <2>19, n \in Nat, SMTT(30)
        <4> QED
          BY <4>1, <4>2
      <3>3. stream' = [s EXCEPT !.pending = P, !.buffer = b, !.active = TRUE]
        BY <3>1, <3>2
      <3>4. stream' \in StreamValues
        BY ONLY <2>20, <2>19, <3>3, P \in SUBSET Nat, ZenonT(40) DEF StreamValues
      <3> QED
        BY <3>1, <3>4
    <2>14. /\ stream'.alive = s.alive /\ stream'.observer = s.observer
           /\ stream'.finished = s.finished
           /\ stream'.pending = s.pending \cup {Len(cs) + 1}
           /\ stream'.buffer = b /\ stream'.active = TRUE
      BY ONLY <2>20, <2>13, ZenonT(40) DEF StreamValues
    <2>15. Issued(s1, stream', Len(cs) + 1, "Write" = "Write")
      BY ONLY <2>6, <2>13, <2>14 DEF Issued
    <2>16. \A j \in s1.pending : cs[j].type # "Write"
      BY <2>1, <2>6 DEF OneOfAKind, Consistent
    <2>17. s1.observer /\ call'.state # "none"
      BY <2>6, <2>7
    <2>18. /\ Consistent(stream', comps', call', t)
           /\ WorkerOK(s1, cs, Idle) => WorkerOK(stream', comps', Idle)
           /\ Listening(s1, cs, call') => Listening(stream', comps', call')
           /\ DOMAIN cs \subseteq DOMAIN comps'
           /\ \A j \in DOMAIN cs : comps'[j].place = cs[j].place
      <3>1. Issues(s1, cs, call', t, stream', comps', "Write")
        BY ONLY <2>2, <2>11, <2>15, <2>16, <2>17 DEF Issues
      <3>2. IsIssued(s1, cs, call', t, stream', comps', "Write")
        BY ONLY <3>1, IssueKeeps
      <3> QED
        BY ONLY <3>2 DEF IsIssued
    <2> QED
      BY ONLY <2>12, <2>14, <2>18
  <1> QED
    BY <1>1, <1>2

-----------------------------------------------------------------------------
\* A stream that has not been started satisfies the invariant.
LEMMA IInvInit ==
    ASSUME Init
    PROVE  IInv
  <1>1. comps = <<>> /\ tasks = <<>> /\ DOMAIN comps = {} /\ DOMAIN tasks = {}
        /\ comps \in Seq(Completion) /\ tasks \in Seq(DOMAIN comps)
    BY EmptySeq, LenProperties DEF Init
  <1>2. /\ stream = [alive |-> TRUE, observer |-> TRUE, registered |-> TRUE,
                     finished |-> FALSE, pending |-> {}, buffer |-> <<>>,
                     active |-> FALSE]
        /\ call = [state |-> "none", arrived |-> 0, taken |-> 0, written |-> <<>>]
        /\ told = [messages |-> <<>>, finishes |-> 0, accepted |-> 0]
        /\ poll = 0 /\ worker = Idle /\ asserted = TRUE
    BY DEF Init
  <1>3. <<>> \in Seq(Nat) /\ Len(<<>>) = 0
    BY EmptySeq
  <1>4. stream \in StreamValues /\ call \in CallValues /\ told \in ToldValues
    <2>1. stream \in StreamValues
      BY ONLY <1>2, <1>3, ZenonT(40) DEF StreamValues
    <2>2. call \in CallValues
      BY ONLY <1>2, <1>3, SMTT(30) DEF CallValues
    <2>3. 0 \in 0..MaxWrites
      BY GrpcBounds, SMTT(30)
    <2>4. told \in ToldValues
      BY ONLY <1>2, <1>3, <2>3, ZenonT(40) DEF ToldValues
    <2> QED
      BY <2>1, <2>2, <2>4
  <1>5. /\ stream.alive /\ stream.observer /\ ~stream.finished /\ stream.pending = {}
        /\ stream.buffer = <<>> /\ call.state = "none" /\ call.taken = 0
        /\ call.arrived = 0 /\ call.written = <<>> /\ told.messages = <<>>
        /\ told.finishes = 0 /\ told.accepted = 0
    BY ONLY <1>2, ZenonT(40)
  <1>6. Typed(stream, comps, call, told)
    <2>1. call.taken <= call.arrived /\ call.arrived <= MaxMessages
      BY <1>5, GrpcBounds, SMTT(30)
    <2>2. Len(call.written) + Len(stream.buffer) = told.accepted
      BY <1>3, <1>5
    <2> QED
      BY <1>1, <1>4, <1>5, <2>1, <2>2 DEF Typed
  <1>7. /\ Outstanding(stream, comps) /\ Open(stream, comps, call)
        /\ OneOfAKind(stream, comps) /\ FailuresAreFinal(comps, call)
        /\ ReadsInOrder(comps, call, told) /\ ToldOnce(stream, call, told)
    BY <1>1, <1>5 DEF Outstanding, Open, OneOfAKind, FailuresAreFinal, ReadsInOrder,
                      ToldOnce
  <1>8. InOrder(stream, call)
    BY <1>3, <1>5 DEF InOrder
  <1>9. Listening(stream, comps, call)
    BY <1>5 DEF Listening
  <1>10. QueueOK(comps, tasks, poll)
    BY <1>1, <1>2 DEF QueueOK
  <1>11. WorkerOK(stream, comps, worker)
    BY <1>2, <1>5 DEF WorkerOK, Idle
  <1> QED
    BY <1>2, <1>6, <1>7, <1>8, <1>9, <1>10, <1>11 DEF IInv, Consistent

\* A message of the server that arrives keeps the invariant.
LEMMA ServerSendsStep ==
    ASSUME IInv, ServerSends
    PROVE  IInv'
  <1>1. /\ call.state = "live" /\ call.arrived < MaxMessages
        /\ call' = [call EXCEPT !.arrived = @ + 1]
        /\ stream' = stream /\ comps' = comps /\ poll' = poll /\ tasks' = tasks
        /\ worker' = worker /\ told' = told /\ asserted' = asserted
    BY DEF ServerSends
  <1>2. call \in CallValues /\ call.taken <= call.arrived
    BY DEF IInv, Consistent, Typed
  <1>3. /\ call' \in CallValues /\ call'.state = call.state /\ call'.taken = call.taken
        /\ call'.written = call.written /\ call'.taken <= call'.arrived
        /\ call'.arrived <= MaxMessages
    BY ONLY <1>1, <1>2, GrpcBounds, SMTT(30) DEF CallValues
  <1>4. Typed(stream, comps, call', told)
    BY <1>3 DEF Typed, IInv, Consistent
  <1>5. /\ Open(stream, comps, call') /\ FailuresAreFinal(comps, call')
        /\ InOrder(stream, call') /\ ReadsInOrder(comps, call', told)
        /\ ToldOnce(stream, call', told) /\ Listening(stream, comps, call')
    BY <1>3 DEF Open, FailuresAreFinal, InOrder, ReadsInOrder, ToldOnce, Listening,
                Ended, IInv, Consistent
  <1> QED
    BY <1>1, <1>4, <1>5 DEF IInv, Consistent

\* A call that breaks keeps the invariant.
LEMMA CallBreaksStep ==
    ASSUME IInv, CallBreaks
    PROVE  IInv'
  <1>1. /\ call.state = "live"
        /\ call' = [call EXCEPT !.state = "broken"]
        /\ stream' = stream /\ comps' = comps /\ poll' = poll /\ tasks' = tasks
        /\ worker' = worker /\ told' = told /\ asserted' = asserted
    BY DEF CallBreaks
  <1>2. call \in CallValues
    BY DEF IInv, Consistent, Typed
  <1>3. /\ call' \in CallValues /\ call'.state = "broken" /\ call'.taken = call.taken
        /\ call'.written = call.written /\ call'.arrived = call.arrived
    BY ONLY <1>1, <1>2, SMTT(30) DEF CallValues
  <1>4. Typed(stream, comps, call', told)
    BY <1>3 DEF Typed, IInv, Consistent
  <1>5. /\ Open(stream, comps, call') /\ FailuresAreFinal(comps, call')
        /\ InOrder(stream, call') /\ ReadsInOrder(comps, call', told)
        /\ ToldOnce(stream, call', told) /\ Listening(stream, comps, call')
    BY <1>1, <1>3 DEF Open, FailuresAreFinal, InOrder, ReadsInOrder, ToldOnce, Listening,
                      Ended, IInv, Consistent
  <1> QED
    BY <1>1, <1>4, <1>5 DEF IInv, Consistent

\* Shutdown called by the observer or by the connection keeps the invariant.
LEMMA ShutdownStep ==
    ASSUME IInv, NEW n \in BOOLEAN, stream.alive, Shutdown(stream, comps, n),
           UNCHANGED <<poll, tasks, told, asserted>>
    PROVE  IInv'
  <1>1. Consistent(stream, comps, call, told) /\ Listening(stream, comps, call)
    BY DEF IInv
  <1>2. /\ Consistent(stream', comps', call', told)
        /\ Listening(stream', comps', call')
        /\ WorkerOK(stream', comps', worker')
        /\ DOMAIN comps' = DOMAIN comps
        /\ \A j \in DOMAIN comps : comps'[j].place = comps[j].place
    BY ONLY <1>1, n \in BOOLEAN, stream.alive, Shutdown(stream, comps, n), ShutdownKeeps
  <1>3. QueueOK(comps, tasks, poll)
    BY DEF IInv
  <1>4. DOMAIN comps \subseteq DOMAIN comps'
    BY <1>2
  <1>5. QueueOK(comps', tasks, poll)
    BY ONLY <1>2, <1>3, <1>4, QueueGrows
  <1> QED
    BY <1>2, <1>5 DEF IInv

\* FinishImmediately keeps the invariant.
LEMMA FinishImmediatelyStep ==
    ASSUME IInv, FinishImmediately
    PROVE  IInv'
  <1>1. stream.alive /\ FALSE \in BOOLEAN /\ Shutdown(stream, comps, FALSE)
        /\ UNCHANGED <<poll, tasks, told, asserted>>
    BY DEF FinishImmediately, Runs
  <1> QED
    BY ONLY IInv, <1>1, ShutdownStep

\* FinishAndNotify, when the network changes, keeps the invariant.
LEMMA FinishAndNotifyStep ==
    ASSUME IInv, FinishAndNotify
    PROVE  IInv'
  <1>1. stream.alive /\ TRUE \in BOOLEAN /\ Shutdown(stream, comps, TRUE)
        /\ UNCHANGED <<poll, tasks, told, asserted>>
    BY DEF FinishAndNotify, Runs
  <1> QED
    BY ONLY IInv, <1>1, ShutdownStep

\* WriteAndFinish goes on to Shutdown, whether or not the last write came off the
\* queue in time.
LEMMA LastWriteWaitedStep ==
    ASSUME IInv, LastWriteWaited
    PROVE  IInv'
  <1>1. stream.alive
    BY DEF LastWriteWaited, IInv, WorkerOK
  <1>2. FALSE \in BOOLEAN /\ Shutdown(stream, comps, FALSE)
        /\ UNCHANGED <<poll, tasks, told, asserted>>
    BY DEF LastWriteWaited
  <1> QED
    BY ONLY IInv, <1>1, <1>2, ShutdownStep

\* The destructor meets its assertion: nothing is pending once the observer is unset.
LEMMA DestroyStep ==
    ASSUME IInv, Destroy
    PROVE  IInv'
  <1>1. /\ worker = Idle /\ ~stream.observer
        /\ asserted' = (asserted /\ stream.pending = {})
        /\ stream' = [stream EXCEPT !.alive = FALSE, !.registered = FALSE]
        /\ comps' = comps /\ poll' = poll /\ tasks' = tasks /\ worker' = worker
        /\ call' = call /\ told' = told
    BY DEF Destroy, Runs, Holds
  <1>2. stream \in StreamValues /\ stream.pending = {} /\ asserted = TRUE
    BY <1>1 DEF IInv, Consistent, Typed, Open
  <1>3. stream' \in StreamValues
    BY ONLY <1>1, <1>2, ZenonT(40) DEF StreamValues
  <1>4. /\ stream'.observer = stream.observer /\ stream'.pending = stream.pending
        /\ stream'.finished = stream.finished /\ stream'.buffer = stream.buffer
        /\ stream'.active = stream.active
    BY ONLY <1>1, <1>2, ZenonT(40) DEF StreamValues
  <1>5. Typed(stream', comps, call, told)
    BY <1>3, <1>4 DEF Typed, IInv, Consistent
  <1>6. /\ Outstanding(stream', comps) /\ Open(stream', comps, call)
        /\ OneOfAKind(stream', comps) /\ InOrder(stream', call)
        /\ ToldOnce(stream', call, told) /\ Listening(stream', comps, call)
    BY <1>1, <1>2, <1>4 DEF Outstanding, Open, OneOfAKind, InOrder, ToldOnce, Listening,
                            IInv, Consistent
  <1>7. WorkerOK(stream', comps, worker)
    BY <1>1, <1>2, <1>4 DEF WorkerOK, IInv, Idle
  <1> QED
    BY <1>1, <1>2, <1>5, <1>6, <1>7 DEF IInv, Consistent

\* Start issues the first read of a new call.
LEMMA StartStep ==
    ASSUME IInv, Start
    PROVE  IInv'
  <1>1. /\ worker = Idle /\ stream.observer /\ call.state = "none"
        /\ call' = [call EXCEPT !.state = "live"] /\ Read(stream, comps)
        /\ poll' = poll /\ tasks' = tasks /\ worker' = worker /\ told' = told
        /\ asserted' = asserted
    BY DEF Start, Runs
  <1>2. call \in CallValues /\ comps = <<>> /\ stream.pending = {} /\ ~stream.finished
    <2>1. comps = <<>> /\ ~stream.finished
      BY <1>1 DEF IInv, Consistent, Open, Ended
    <2>2. DOMAIN comps = {}
      BY <2>1, EmptySeq, LenProperties
    <2> QED
      BY <2>1, <2>2 DEF IInv, Consistent, Typed
  <1>3. /\ call' \in CallValues /\ call'.state = "live" /\ call'.taken = call.taken
        /\ call'.arrived = call.arrived /\ call'.written = call.written
    BY ONLY <1>1, <1>2, SMTT(30) DEF CallValues
  <1>4. Typed(stream, comps, call', told)
    BY <1>3 DEF Typed, IInv, Consistent
  <1>5. DOMAIN comps = {}
    BY <1>2, EmptySeq, LenProperties
  <1>6. /\ Outstanding(stream, comps) /\ Open(stream, comps, call')
        /\ OneOfAKind(stream, comps) /\ FailuresAreFinal(comps, call')
        /\ InOrder(stream, call') /\ ReadsInOrder(comps, call', told)
        /\ ToldOnce(stream, call', told)
    BY <1>1, <1>2, <1>3, <1>5 DEF Outstanding, Open, OneOfAKind, FailuresAreFinal, InOrder,
                       ReadsInOrder, ToldOnce, IInv, Consistent
  <1>7. Consistent(stream, comps, call', told)
    BY <1>4, <1>6 DEF Consistent
  <1>8. call'.taken = Len(told.messages)
    <2>1. call.taken = 0 /\ told.messages = <<>>
      BY <1>1 DEF IInv, Consistent, ToldOnce
    <2> QED
      BY <1>3, <2>1, EmptySeq
  <1>9. stream.observer /\ call'.state # "none" /\ \A j \in stream.pending : comps[j].type # "Read"
    BY <1>1, <1>2, <1>3
  <1>10. WorkerOK(stream, comps, Idle)
    BY <1>1 DEF IInv
  <1>11. /\ Consistent(stream', comps', call', told)
         /\ WorkerOK(stream', comps', Idle)
         /\ Listening(stream', comps', call')
         /\ DOMAIN comps \subseteq DOMAIN comps'
         /\ \A j \in DOMAIN comps : comps'[j].place = comps[j].place
    BY ONLY <1>1, <1>7, <1>8, <1>9, <1>10, ReadKeeps
  <1>12. QueueOK(comps', tasks, poll)
    <2>1. QueueOK(comps, tasks, poll)
      BY DEF IInv
    <2> QED
      BY ONLY <1>11, <2>1, QueueGrows
  <1> QED
    BY <1>1, <1>11, <1>12 DEF IInv

\* A message put on the buffer continues those before it.
LEMMA AcceptKeeps ==
    ASSUME IInv, Accepts
    PROVE  /\ Consistent(Enqueued(stream), comps, call, told')
           /\ Listening(Enqueued(stream), comps, call)
           /\ WorkerOK(Enqueued(stream), comps, worker)
           /\ Enqueued(stream).alive = stream.alive
           /\ Enqueued(stream).observer = stream.observer
           /\ Enqueued(stream).pending = stream.pending
  <1>1. /\ told.accepted < MaxWrites /\ told' = [told EXCEPT !.accepted = @ + 1]
    BY DEF Accepts
  <1>2. stream \in StreamValues /\ told \in ToldValues
    BY FieldsOfIInv
  <1>3. /\ told' \in ToldValues /\ told'.accepted = told.accepted + 1
        /\ told'.messages = told.messages /\ told'.finishes = told.finishes
        /\ told.accepted \in Nat
    BY ONLY <1>1, <1>2, GrpcBounds, SMTT(30) DEF ToldValues
  <1>4. PICK b : b = Append(stream.buffer, told.accepted + 1)
    OBVIOUS
  <1>5. PICK s : s = [stream EXCEPT !.buffer = b]
    OBVIOUS
  <1>6. s = Enqueued(stream)
    BY <1>4, <1>5 DEF Enqueued
  <1>7. stream.buffer \in Seq(Nat) /\ told.accepted + 1 \in Nat
    BY <1>2, <1>3 DEF StreamValues
  <1>8. /\ b \in Seq(Nat) /\ Len(b) = Len(stream.buffer) + 1
        /\ b[Len(stream.buffer) + 1] = told.accepted + 1
        /\ \A k \in 1..Len(stream.buffer) : b[k] = stream.buffer[k]
        /\ Len(stream.buffer) \in Nat
    BY ONLY <1>4, <1>7, AppendProperties, LenProperties
  <1>9. /\ s \in StreamValues /\ s.alive = stream.alive /\ s.observer = stream.observer
        /\ s.finished = stream.finished /\ s.pending = stream.pending
        /\ s.buffer = b /\ s.active = stream.active
    <2>1. b \in Seq(Nat)
      BY <1>8
    <2>2. s \in StreamValues
      BY ONLY <1>2, <1>5, <2>1, ZenonT(40) DEF StreamValues
    <2> QED
      BY ONLY <1>2, <1>5, <2>2, ZenonT(40) DEF StreamValues
  <1>10. PICK x \in Nat, y \in Nat :
             x = Len(call.written) /\ y = Len(stream.buffer) /\ x + y = told.accepted
    <2>1. call.written \in Seq(Nat)
      BY DEF IInv, Consistent, Typed, CallValues
    <2> QED
      BY <1>8, <2>1, LenProperties DEF IInv, Consistent, Typed
  <1>11. Typed(s, comps, call, told')
    <2>1. x + (y + 1) = (x + y) + 1
      OBVIOUS
    <2>2. Len(call.written) + Len(s.buffer) = told'.accepted
      BY <1>3, <1>8, <1>9, <1>10, <2>1
    <2> QED
      BY <1>3, <1>9, <2>2 DEF Typed, IInv, Consistent
  <1>12. InOrder(s, call)
    <2>1. \A k \in 1..y : stream.buffer[k] = x + k
      BY <1>10 DEF IInv, Consistent, InOrder
    <2>2. Len(b) = y + 1 /\ b[y + 1] = x + (y + 1)
      <3>1. x + (y + 1) = (x + y) + 1
        OBVIOUS
      <3> QED
        BY <1>8, <1>10, <3>1
    <2>3. \A k \in 1..y : b[k] = x + k
      BY <1>8, <1>10, <2>1
    <2>4. \A k \in 1..(y + 1) : k \in 1..y \/ k = y + 1
      OBVIOUS
    <2>5. \A k \in 1..Len(b) : b[k] = x + k
      BY ONLY <2>2, <2>3, <2>4
    <2> QED
      BY <1>9, <1>10, <2>5 DEF InOrder
  <1>13. /\ Outstanding(s, comps) /\ Open(s, comps, call) /\ OneOfAKind(s, comps)
         /\ ReadsInOrder(comps, call, told') /\ ToldOnce(s, call, told')
         /\ Listening(s, comps, call)
    BY <1>3, <1>9 DEF Outstanding, Open, OneOfAKind, ReadsInOrder, ToldOnce, Listening,
                      IInv, Consistent
  <1>14. WorkerOK(s, comps, worker)
    BY <1>9 DEF WorkerOK, IInv
  <1> QED
    BY <1>6, <1>9, <1>11, <1>12, <1>13, <1>14 DEF Consistent, IInv

\* Write keeps the invariant.
LEMMA WriteStep ==
    ASSUME IInv, Write
    PROVE  IInv'
  <1>1. /\ worker = Idle /\ stream.observer /\ call.state # "none" /\ Accepts
        /\ MaybeWrite(Enqueued(stream), comps)
        /\ poll' = poll /\ tasks' = tasks /\ worker' = worker /\ asserted' = asserted
    BY DEF Write, Runs
  <1>2. /\ Consistent(Enqueued(stream), comps, call, told')
        /\ Listening(Enqueued(stream), comps, call)
        /\ WorkerOK(Enqueued(stream), comps, Idle)
        /\ Enqueued(stream).observer
    BY <1>1, AcceptKeeps
  <1>3. /\ Consistent(stream', comps', call', told')
        /\ WorkerOK(stream', comps', Idle)
        /\ Listening(stream', comps', call')
        /\ DOMAIN comps \subseteq DOMAIN comps'
        /\ \A j \in DOMAIN comps : comps'[j].place = comps[j].place
    <2>1. PICK s : s = Enqueued(stream)
      OBVIOUS
    <2>2. PICK t : t = told'
      OBVIOUS
    <2>3. /\ Consistent(s, comps, call, t) /\ s.observer /\ call.state # "none"
          /\ WorkerOK(s, comps, Idle) /\ MaybeWrite(s, comps)
          /\ Listening(s, comps, call)
      BY <1>1, <1>2, <2>1, <2>2
    <2> QED
      BY ONLY <2>2, <2>3, MaybeWriteKeeps
  <1>4. QueueOK(comps', tasks, poll)
    <2>1. QueueOK(comps, tasks, poll)
      BY DEF IInv
    <2> QED
      BY ONLY <1>3, <2>1, QueueGrows
  <1> QED
    BY <1>1, <1>3, <1>4 DEF IInv

\* WriteAndFinish, up to its first wait, keeps the invariant.
LEMMA WriteAndFinishStep ==
    ASSUME IInv, WriteAndFinish
    PROVE  IInv'
  <1>1. /\ worker = Idle /\ stream.alive /\ call.state # "none"
        /\ poll' = poll /\ tasks' = tasks /\ asserted' = asserted
    BY DEF WriteAndFinish, Runs
  <1>2. CASE stream.finished
    <2>1. Shutdown(stream, comps, FALSE) /\ told' = told /\ FALSE \in BOOLEAN
      BY <1>2 DEF WriteAndFinish
    <2>2. UNCHANGED <<poll, tasks, told, asserted>>
      BY <1>1, <2>1
    <2> QED
      BY ONLY IInv, <1>1, <2>1, <2>2, ShutdownStep
  <1>3. CASE ~stream.finished
    <2>1. /\ Accepts
          /\ IF stream.active
             THEN Shutdown(Enqueued(stream), comps, FALSE)
             ELSE /\ MaybeWrite(Enqueued(stream), comps)
                  /\ worker' = [Idle EXCEPT !.at = "lastWrite"]
      BY <1>3 DEF WriteAndFinish
    <2>2. PICK s : s = Enqueued(stream)
      OBVIOUS
    <2>3. PICK t : t = told'
      OBVIOUS
    <2>4. /\ Consistent(s, comps, call, t) /\ Listening(s, comps, call)
          /\ WorkerOK(s, comps, Idle) /\ s.alive /\ s.observer /\ call.state # "none"
      <3>1. stream.observer
        BY <1>1, <1>3 DEF IInv, Consistent, Open
      <3> QED
        BY <1>1, <2>1, <2>2, <2>3, <3>1, AcceptKeeps
    <2>5. QueueOK(comps, tasks, poll)
      BY DEF IInv
    <2>6. CASE stream.active
      <3>1. Shutdown(s, comps, FALSE) /\ FALSE \in BOOLEAN
        BY <2>1, <2>2, <2>6
      <3>2. /\ Consistent(stream', comps', call', t)
            /\ Listening(stream', comps', call')
            /\ WorkerOK(stream', comps', worker')
            /\ DOMAIN comps' = DOMAIN comps
            /\ \A j \in DOMAIN comps : comps'[j].place = comps[j].place
        BY ONLY <2>4, <3>1, ShutdownKeeps
      <3>3. DOMAIN comps \subseteq DOMAIN comps'
        BY <3>2
      <3>4. QueueOK(comps', tasks, poll)
        BY ONLY <2>5, <3>2, <3>3, QueueGrows
      <3> QED
        BY <1>1, <2>3, <3>2, <3>4 DEF IInv
    <2>7. CASE ~stream.active
      <3>1. MaybeWrite(s, comps) /\ worker' = [Idle EXCEPT !.at = "lastWrite"]
        BY <2>1, <2>2, <2>7
      <3>2. /\ Consistent(stream', comps', call', t)
            /\ WorkerOK(stream', comps', Idle)
            /\ Listening(stream', comps', call')
            /\ stream'.alive = s.alive
            /\ DOMAIN comps \subseteq DOMAIN comps'
            /\ \A j \in DOMAIN comps : comps'[j].place = comps[j].place
        BY ONLY <2>4, <3>1, MaybeWriteKeeps
      <3>3. QueueOK(comps', tasks, poll)
        BY ONLY <2>5, <3>2, QueueGrows
      <3>4. WorkerOK(stream', comps', worker')
        BY <2>4, <3>1, <3>2 DEF WorkerOK, Idle, Blocked
      <3> QED
        BY <1>1, <2>3, <3>2, <3>3, <3>4 DEF IInv
    <2> QED
      BY <2>6, <2>7
  <1> QED
    BY <1>2, <1>3

\* Finish is issued after everything else came off the queue, and for the first time.
LEMMA FinishGrpcCallStep ==
    ASSUME IInv, FinishGrpcCall
    PROVE  IInv'
  <1> DEFINE n == Len(comps) + 1
             new == NewCompletion("Finish", worker.at = "failing")
  <1>1. /\ worker.at \in {"failing", "finishing"} /\ AllOffQueue
        /\ stream' = [stream EXCEPT !.pending = {n}]
        /\ comps' = Append(comps, new)
        /\ worker' = IF worker.at = "failing" THEN Idle ELSE [worker EXCEPT !.at = "draining"]
        /\ poll' = poll /\ tasks' = tasks /\ call' = call /\ told' = told
        /\ asserted' = asserted
    BY DEF FinishGrpcCall
  <1>2. /\ stream \in StreamValues /\ comps \in Seq(Completion) /\ n \in Nat
        /\ stream.pending \subseteq DOMAIN comps
    BY FieldsOfIInv
  <1>3. /\ stream.finished /\ stream.observer /\ stream.alive
        /\ \A i \in DOMAIN comps : comps[i].type # "Finish"
        /\ \A i \in stream.pending : ~comps[i].callback
        /\ worker \in [at : Blocked, notify : BOOLEAN]
    BY <1>1 DEF IInv, WorkerOK, Idle
  <1>4. /\ new \in Completion /\ new.type = "Finish" /\ new.place = "grpc"
        /\ new.callback <=> worker.at = "failing"
    BY DEF NewCompletion, Completion
  <1> HIDE DEF new
  <1>5. /\ comps' \in Seq(Completion) /\ Len(comps') = n
        /\ DOMAIN comps' = DOMAIN comps \cup {n} /\ n \notin DOMAIN comps
        /\ comps'[n] = new
        /\ \A j \in DOMAIN comps : comps'[j] = comps[j]
    BY ONLY <1>1, <1>2, <1>4, AppendedCompletion
  <1> HIDE DEF n
  <1>6. /\ stream' \in StreamValues /\ stream'.alive = stream.alive
        /\ stream'.observer = stream.observer /\ stream'.finished = stream.finished
        /\ stream'.pending = {n} /\ stream'.buffer = stream.buffer
        /\ stream'.active = stream.active
    <2>1. {n} \in SUBSET Nat
      BY <1>2
    <2>2. stream' \in StreamValues
      BY ONLY <1>1, <1>2, <2>1, ZenonT(40) DEF StreamValues
    <2> QED
      BY ONLY <1>1, <1>2, <2>2, ZenonT(40) DEF StreamValues
  <1>7. call.state # "none"
    BY <1>3 DEF IInv, Consistent, Open, Ended
  <1>8. Typed(stream', comps', call, told)
    BY <1>5, <1>6 DEF Typed, IInv, Consistent
  <1>9. Outstanding(stream', comps')
    <2>1. \A i \in DOMAIN comps :
              /\ ~(comps[i].callback /\ comps[i].place # "ran")
              /\ comps[i].place # "grpc"
      BY <1>1, <1>3 DEF IInv, Consistent, Outstanding, AllOffQueue
    <2> QED
      BY <1>4, <1>5, <1>6, <2>1 DEF Outstanding
  <1>10. Open(stream', comps', call)
    BY <1>3, <1>6, <1>7 DEF Open, IInv, Consistent
  <1>11. OneOfAKind(stream', comps')
    BY <1>3, <1>4, <1>5, <1>6 DEF OneOfAKind
  <1>12. FailuresAreFinal(comps', call) /\ ReadsInOrder(comps', call, told)
    BY <1>4, <1>5 DEF FailuresAreFinal, ReadsInOrder, IInv, Consistent
  <1>13. /\ InOrder(stream', call) /\ ToldOnce(stream', call, told)
         /\ Listening(stream', comps', call)
    BY <1>3, <1>6 DEF InOrder, ToldOnce, Listening, IInv, Consistent
  <1>14. QueueOK(comps', tasks, poll)
    <2>1. QueueOK(comps, tasks, poll)
      BY DEF IInv
    <2>2. DOMAIN comps \subseteq DOMAIN comps'
          /\ \A j \in DOMAIN comps : comps'[j].place = comps[j].place
      BY <1>5
    <2> QED
      BY ONLY <2>1, <2>2, QueueGrows
  <1>15. WorkerOK(stream', comps', worker')
    <2>1. CASE worker.at = "failing"
      <3>1. worker' = Idle /\ comps'[n].callback
        BY <1>1, <1>4, <1>5, <2>1
      <3> QED
        BY <1>6, <3>1 DEF WorkerOK, Idle
    <2>2. CASE worker.at = "finishing"
      <3>1. worker' = [worker EXCEPT !.at = "draining"] /\ ~comps'[n].callback
        BY <1>1, <1>4, <1>5, <2>2
      <3>2. worker' \in [at : Blocked, notify : BOOLEAN] /\ worker'.at = "draining"
        <4>1. "draining" \in Blocked
          BY DEF Blocked
        <4> QED
          BY ONLY <1>3, <3>1, <4>1, ZenonT(40)
      <3> QED
        BY <1>3, <1>6, <3>1, <3>2 DEF WorkerOK
    <2> QED
      BY <1>1, <2>1, <2>2
  <1> QED
    BY <1>1, <1>8, <1>9, <1>10, <1>11, <1>12, <1>13, <1>14, <1>15 DEF IInv, Consistent

\* Shutdown ends with every completion off the queue and none that still calls back.
LEMMA DrainedStep ==
    ASSUME IInv, Drained
    PROVE  IInv'
  <1>1. /\ worker.at = "draining" /\ AllOffQueue
        /\ stream' = [stream EXCEPT !.pending = {}, !.observer = FALSE]
        /\ told' = IF worker.notify /\ stream.observer
                   THEN [told EXCEPT !.finishes = @ + 1] ELSE told
        /\ worker' = Idle /\ comps' = comps /\ poll' = poll /\ tasks' = tasks
        /\ call' = call /\ asserted' = asserted
    BY DEF Drained
  <1>2. stream \in StreamValues /\ told \in ToldValues
    BY FieldsOfIInv
  <1>3. /\ stream' \in StreamValues /\ stream'.alive = stream.alive
        /\ ~stream'.observer /\ stream'.finished = stream.finished
        /\ stream'.pending = {} /\ stream'.buffer = stream.buffer
        /\ stream'.active = stream.active
    <2>1. stream' \in StreamValues
      BY ONLY <1>1, <1>2, ZenonT(40) DEF StreamValues
    <2> QED
      BY ONLY <1>1, <1>2, <2>1, ZenonT(40) DEF StreamValues
  <1>4. told' \in ToldValues /\ told'.messages = told.messages /\ told'.accepted = told.accepted
    <2>1. CASE worker.notify /\ stream.observer
      <3>1. told' = [told EXCEPT !.finishes = @ + 1] /\ told.finishes = 0
        BY <1>1, <2>1 DEF IInv, Consistent, ToldOnce
      <3>2. told' = [told EXCEPT !.finishes = 1]
        BY <3>1
      <3> QED
        BY ONLY <1>2, <3>2, ZenonT(40) DEF ToldValues
    <2>2. CASE ~(worker.notify /\ stream.observer)
      BY <1>1, <1>2, <2>2
    <2> QED
      BY <2>1, <2>2
  <1>5. \A i \in stream.pending : ~comps[i].callback
    BY <1>1 DEF IInv, WorkerOK
  <1>6. Typed(stream', comps, call, told')
    BY <1>3, <1>4 DEF Typed, IInv, Consistent
  <1>7. Outstanding(stream', comps)
    BY <1>1, <1>3, <1>5 DEF Outstanding, AllOffQueue, IInv, Consistent
  <1>8. Open(stream', comps, call)
    <2>1. ASSUME call.state # "none"
          PROVE  stream.finished
      <3>1. CASE ~stream.observer
        BY <2>1, <3>1 DEF IInv, Consistent, Open
      <3>2. CASE stream.observer
        <4>1. stream.finished \/ stream.pending # {}
          BY <2>1, <3>2 DEF IInv, Listening
        <4> QED
          BY <1>1, <4>1 DEF IInv, WorkerOK
      <3> QED
        BY <3>1, <3>2
    <2> QED
      BY <1>3, <2>1 DEF Open, IInv, Consistent
  <1>9. /\ OneOfAKind(stream', comps) /\ InOrder(stream', call)
        /\ ReadsInOrder(comps, call, told') /\ ToldOnce(stream', call, told')
        /\ Listening(stream', comps, call)
    BY <1>3, <1>4 DEF OneOfAKind, InOrder, ReadsInOrder, ToldOnce, Listening, IInv,
                      Consistent
  <1>10. WorkerOK(stream', comps, worker')
    BY <1>1, <1>3 DEF WorkerOK, Idle
  <1> QED
    BY <1>1, <1>6, <1>7, <1>8, <1>9, <1>10 DEF IInv, Consistent

\* A completion that was cancelled is executed and touches nothing.
LEMMA RunCancelledStep ==
    ASSUME IInv, NEW i \in DOMAIN comps, RunCancelled(i)
    PROVE  IInv'
  <1>1. /\ worker = Idle /\ tasks # <<>> /\ i = Head(tasks) /\ tasks' = Tail(tasks)
        /\ ~comps[i].callback /\ comps' = Placed(comps, i, "ran")
        /\ stream' = stream /\ poll' = poll /\ worker' = worker /\ call' = call
        /\ told' = told /\ asserted' = asserted
    BY DEF RunCancelled, Executes, Ran, Placed
  <1>2. comps \in Seq(Completion) /\ QueueOK(comps, tasks, poll)
    BY DEF IInv, Consistent, Typed
  <1>3. comps[i].place = "worker" /\ QueueOK(comps', tasks', poll')
    BY ONLY <1>1, <1>2, QueueRuns
  <1>4. i \notin stream.pending
    BY <1>1 DEF IInv, WorkerOK, Idle
  <1>5. Moved(comps, comps', i, "ran")
    BY ONLY <1>1, <1>2, i \in DOMAIN comps, PlacedCompletion
  <1>6. /\ comps' \in Seq(Completion) /\ DOMAIN comps' = DOMAIN comps
        /\ Len(comps') = Len(comps)
        /\ \A j \in DOMAIN comps :
              /\ comps'[j].type = comps[j].type /\ comps'[j].ok = comps[j].ok
              /\ comps'[j].message = comps[j].message
              /\ comps'[j].callback <=> comps[j].callback
              /\ j # i => comps'[j] = comps[j]
        /\ comps'[i].place = "ran"
    BY ONLY <1>5 DEF Moved
  <1>7. Typed(stream, comps', call, told)
    BY <1>6 DEF Typed, IInv, Consistent
  <1>8. Outstanding(stream, comps') /\ OneOfAKind(stream, comps')
    <2>1. /\ Outstanding(stream, comps) /\ OneOfAKind(stream, comps)
          /\ stream.pending \subseteq DOMAIN comps
      BY DEF IInv, Consistent, Typed
    <2>2. Outstanding(stream, comps')
      BY ONLY <1>1, <1>3, <1>4, <1>6, <2>1, SMTT(30) DEF Outstanding
    <2>3. OneOfAKind(stream, comps')
      BY ONLY <1>6, <2>1, KindsStay
    <2> QED
      BY <2>2, <2>3
  <1>9. Open(stream, comps', call)
    <2>1. comps # <<>>
      BY EmptySeq
    <2> QED
      BY <2>1 DEF Open, IInv, Consistent
  <1>10. FailuresAreFinal(comps', call)
    <2>1. \A j \in DOMAIN comps : comps'[j].place # "grpc" => comps[j].place # "grpc"
      BY <1>3, <1>6
    <2> QED
      BY <2>1, <1>6 DEF FailuresAreFinal, IInv, Consistent
  <1>11. ReadsInOrder(comps', call, told)
    <2>1. ReadsInOrder(comps, call, told)
      BY ONLY IInv, PartsOfIInv
    <2>2. /\ DOMAIN comps' = DOMAIN comps /\ comps'[i].place = "ran"
          /\ \A j \in DOMAIN comps : j # i => comps'[j] = comps[j]
      BY ONLY <1>6
    <2> QED
      BY ONLY <2>1, <2>2, RanReadsInOrder
  <1>12. Listening(stream, comps', call)
    BY ONLY IInv, <1>6, FieldsOfIInv, PartsOfIInv, ListeningStays
  <1>13. WorkerOK(stream, comps', worker)
    <2>1. WorkerOK(stream, comps, worker) /\ stream.pending \subseteq DOMAIN comps
      BY ONLY IInv, PartsOfIInv, FieldsOfIInv
    <2>2. /\ DOMAIN comps' = DOMAIN comps
          /\ \A j \in DOMAIN comps : /\ comps'[j].type = comps[j].type
                                     /\ comps'[j].callback <=> comps[j].callback
      BY ONLY <1>6
    <2>3. WorkerOK(stream, comps', worker)
      BY ONLY <2>1, <2>2, WorkerStays
    <2> QED
      BY <2>3
  <1> QED
    BY <1>1, <1>3, <1>7, <1>8, <1>9, <1>10, <1>11, <1>12, <1>13 DEF IInv, Consistent

\* OnRead tells the message and issues the next read.
LEMMA OnReadStep ==
    ASSUME IInv, NEW i \in DOMAIN comps, OnRead(i)
    PROVE  IInv'
  <1>1. /\ Callback(i, TRUE) /\ comps[i].type = "Read" /\ TRUE \in BOOLEAN
        /\ asserted' = (asserted /\ i \in stream.pending)
        /\ worker' = worker /\ call' = call
    BY DEF OnRead, Holds, IsPending
  <1>2. /\ i \in stream.pending /\ stream.observer /\ stream.alive
        /\ worker = Idle /\ poll' = poll
        /\ comps[i].callback /\ comps[i].place = "worker" /\ comps[i].ok = TRUE
        /\ QueueOK(Ran(i), tasks', poll')
    BY ONLY IInv, i \in DOMAIN comps, <1>1, CallbackFacts
  <1>3. /\ Read(RemoveCompletion(i), Ran(i))
        /\ told' = [told EXCEPT !.messages = Append(@, comps[i].message)]
    BY <1>2 DEF OnRead
  <1>4. PICK s, cs : s = RemoveCompletion(i) /\ cs = Ran(i)
    OBVIOUS
  <1>5. /\ Consistent(s, cs, call, told) /\ WorkerOK(s, cs, Idle)
        /\ \A j \in stream.pending \ {i} :
              comps[i].type # "Finish" => cs[j].type # comps[i].type
    BY ONLY IInv, i \in DOMAIN comps, <1>1, <1>4, CallbackKeeps
  <1>6. /\ stream \in StreamValues /\ told \in ToldValues /\ comps \in Seq(Completion)
    BY FieldsOfIInv
  <1>7. s.pending = stream.pending \ {i} /\ s.observer
    BY ONLY <1>2, <1>4, <1>6, RemoveFacts
  <1>8. \A j \in s.pending : cs[j].type # "Read"
    BY <1>1, <1>5, <1>7
  <1>9. comps[i].message \in Nat
    <2>1. comps[i] \in Completion
      BY ONLY <1>6, i \in DOMAIN comps, ElementOfSeq, LenProperties
    <2> QED
      BY ONLY <2>1, SMTT(30) DEF Completion
  <1>10. call.taken = Len(told.messages) + 1
    BY <1>1, <1>2 DEF IInv, Consistent, ReadsInOrder
  <1>11. /\ told' \in ToldValues /\ told'.accepted = told.accepted
         /\ told'.finishes = told.finishes
         /\ Len(told'.messages) = Len(told.messages) + 1
    <2>1. PICK m : m = Append(told.messages, comps[i].message)
      OBVIOUS
    <2>2. told.messages \in Seq(Nat)
      BY <1>6 DEF ToldValues
    <2>3. m \in Seq(Nat) /\ Len(m) = Len(told.messages) + 1
      BY ONLY <1>9, <2>1, <2>2, AppendProperties
    <2>4. told' = [told EXCEPT !.messages = m]
      BY <1>3, <2>1
    <2>5. m \in Seq(Nat)
      BY <2>3
    <2>6. told' \in ToldValues
      BY ONLY <1>6, <2>4, <2>5, ZenonT(40) DEF ToldValues
    <2>7. told'.accepted = told.accepted /\ told'.finishes = told.finishes /\ told'.messages = m
      BY ONLY <1>6, <2>4, <2>6, ZenonT(40) DEF ToldValues
    <2> QED
      BY <2>3, <2>6, <2>7
  <1>12. call.state # "none"
    BY <1>2, EmptySeq, <1>6 DEF IInv, Consistent, Open
  <1>13. Consistent(s, cs, call, told')
    <2>1. Typed(s, cs, call, told')
      BY <1>5, <1>11 DEF Typed, Consistent
    <2>2. ReadsInOrder(cs, call, told')
      BY <1>5, <1>8 DEF ReadsInOrder, Consistent, Outstanding
    <2>3. ToldOnce(s, call, told')
      BY <1>5, <1>11, <1>12 DEF ToldOnce, Consistent
    <2> QED
      BY <1>5, <2>1, <2>2, <2>3 DEF Consistent
  <1>14. Read(s, cs)
    BY <1>3, <1>4
  <1>15. call.taken = Len(told'.messages)
    BY <1>10, <1>11
  <1>16. /\ Consistent(stream', comps', call, told')
         /\ WorkerOK(stream', comps', Idle)
         /\ Listening(stream', comps', call)
         /\ DOMAIN cs \subseteq DOMAIN comps'
         /\ \A j \in DOMAIN cs : comps'[j].place = cs[j].place
    <2>1. PICK t : t = told'
      OBVIOUS
    <2>2. Consistent(s, cs, call, t) /\ call.taken = Len(t.messages)
      BY <1>13, <1>15, <2>1
    <2>3. WorkerOK(s, cs, Idle)
      BY <1>5
    <2> QED
      BY ONLY <1>7, <1>8, <1>12, <1>14, <2>1, <2>2, <2>3, ReadKeeps
  <1>17. QueueOK(comps', tasks', poll')
    <2>1. QueueOK(cs, tasks', poll')
      BY <1>2, <1>4
    <2>2. PICK ts, p : ts = tasks' /\ p = poll'
      OBVIOUS
    <2>3. PICK cs2 : cs2 = comps'
      OBVIOUS
    <2>4. QueueOK(cs, ts, p) /\ DOMAIN cs \subseteq DOMAIN cs2
          /\ \A j \in DOMAIN cs : cs2[j].place = cs[j].place
      BY ONLY <1>16, <2>1, <2>2, <2>3
    <2>5. QueueOK(cs2, ts, p)
      BY ONLY <2>4, QueueGrows
    <2> QED
      BY <2>2, <2>3, <2>5
  <1> QED
    BY <1>1, <1>2, <1>16, <1>17 DEF IInv

\* OnWrite takes the active write away and issues the next.
LEMMA OnWriteStep ==
    ASSUME IInv, NEW i \in DOMAIN comps, OnWrite(i)
    PROVE  IInv'
  <1>1. /\ Callback(i, TRUE) /\ comps[i].type = "Write" /\ TRUE \in BOOLEAN
        /\ asserted' = (asserted /\ i \in stream.pending)
        /\ worker' = worker /\ told' = told
    BY DEF OnWrite, Holds, IsPending
  <1>2. /\ i \in stream.pending /\ stream.observer /\ stream.alive
        /\ worker = Idle /\ poll' = poll
        /\ comps[i].callback /\ comps[i].place = "worker" /\ comps[i].ok = TRUE
        /\ QueueOK(Ran(i), tasks', poll')
    BY ONLY IInv, i \in DOMAIN comps, <1>1, CallbackFacts
  <1>3. MaybeWrite([RemoveCompletion(i) EXCEPT !.active = FALSE], Ran(i))
    BY <1>2 DEF OnWrite
  <1>4. PICK r, cs : r = RemoveCompletion(i) /\ cs = Ran(i)
    OBVIOUS
  <1>5. PICK s : s = [r EXCEPT !.active = FALSE]
    OBVIOUS
  <1>6. /\ Consistent(r, cs, call, told) /\ WorkerOK(r, cs, Idle)
        /\ \A j \in stream.pending \ {i} :
              comps[i].type # "Finish" => cs[j].type # comps[i].type
    BY ONLY IInv, i \in DOMAIN comps, <1>1, <1>4, CallbackKeeps
  <1>7. stream \in StreamValues /\ comps \in Seq(Completion)
        /\ stream.pending \subseteq DOMAIN comps
    BY FieldsOfIInv
  <1>8. /\ r \in StreamValues /\ r.pending = stream.pending \ {i}
        /\ r.observer = stream.observer /\ r.finished = stream.finished
    BY ONLY <1>4, <1>7, RemoveFacts
  <1>9. /\ s \in StreamValues /\ s.alive = r.alive /\ s.observer = r.observer
        /\ s.finished = r.finished /\ s.pending = r.pending /\ s.buffer = r.buffer
    <2>1. r \in StreamValues
      BY <1>8
    <2>2. s \in StreamValues
      BY ONLY <1>5, <2>1, ZenonT(40) DEF StreamValues
    <2> QED
      BY ONLY <1>5, <2>1, <2>2, ZenonT(40) DEF StreamValues
  <1>10. \A j \in s.pending : cs[j].type # "Write"
    BY <1>1, <1>6, <1>8, <1>9
  <1>11. Consistent(s, cs, call, told)
    <2>1. Typed(s, cs, call, told)
      BY <1>6, <1>9 DEF Typed, Consistent
    <2>2. /\ Outstanding(s, cs) /\ Open(s, cs, call) /\ InOrder(s, call)
          /\ ToldOnce(s, call, told)
      BY <1>6, <1>9 DEF Outstanding, Open, InOrder, ToldOnce, Consistent
    <2>3. OneOfAKind(s, cs)
      BY <1>6, <1>9, <1>10 DEF OneOfAKind, Consistent
    <2> QED
      BY <1>6, <2>1, <2>2, <2>3 DEF Consistent
  <1>12. WorkerOK(s, cs, Idle)
    BY <1>6, <1>9 DEF WorkerOK, Idle
  <1>13. call.state # "none"
    BY <1>2, EmptySeq, <1>7 DEF IInv, Consistent, Open
  <1>14. Listening(s, cs, call)
    <2>1. \A j \in DOMAIN comps : cs[j].type = comps[j].type
      <3>1. Moved(comps, cs, i, "ran")
        <4>1. cs = Placed(comps, i, "ran")
          BY <1>4 DEF Ran, Placed
        <4> QED
          BY ONLY <1>7, <4>1, i \in DOMAIN comps, PlacedCompletion
      <3> QED
        BY ONLY <3>1 DEF Moved
    <2> QED
      BY <1>1, <1>7, <1>8, <1>9, <2>1 DEF Listening, IInv
  <1>15. s.observer /\ MaybeWrite(s, cs)
    BY <1>2, <1>3, <1>4, <1>5, <1>8, <1>9
  <1>16. /\ Consistent(stream', comps', call', told)
         /\ WorkerOK(stream', comps', Idle)
         /\ Listening(s, cs, call) => Listening(stream', comps', call')
         /\ DOMAIN cs \subseteq DOMAIN comps'
         /\ \A j \in DOMAIN cs : comps'[j].place = cs[j].place
    BY ONLY <1>11, <1>12, <1>13, <1>15, MaybeWriteKeeps
  <1>17. QueueOK(comps', tasks', poll')
    <2>1. QueueOK(cs, tasks', poll')
      BY <1>2, <1>4
    <2>2. PICK ts, p : ts = tasks' /\ p = poll'
      OBVIOUS
    <2>3. PICK cs2 : cs2 = comps'
      OBVIOUS
    <2>4. QueueOK(cs, ts, p) /\ DOMAIN cs \subseteq DOMAIN cs2
          /\ \A j \in DOMAIN cs : cs2[j].place = cs[j].place
      BY ONLY <1>16, <2>1, <2>2, <2>3
    <2>5. QueueOK(cs2, ts, p)
      BY ONLY <2>4, QueueGrows
    <2> QED
      BY <2>2, <2>3, <2>5
  <1> QED
    BY <1>1, <1>2, <1>14, <1>16, <1>17 DEF IInv

\* The callback of Finish shuts down a stream with nothing pending.
LEMMA OnFinishStep ==
    ASSUME IInv, NEW i \in DOMAIN comps, OnFinish(i)
    PROVE  IInv'
  <1>1. /\ Callback(i, TRUE) /\ comps[i].type = "Finish" /\ TRUE \in BOOLEAN
        /\ asserted' = (asserted /\ i \in stream.pending)
        /\ told' = told
    BY DEF OnFinish, Holds, IsPending
  <1>2. /\ i \in stream.pending /\ stream.observer /\ stream.alive
        /\ worker = Idle /\ poll' = poll
        /\ comps[i].callback /\ comps[i].place = "worker" /\ comps[i].ok = TRUE
        /\ QueueOK(Ran(i), tasks', poll')
    BY ONLY IInv, i \in DOMAIN comps, <1>1, CallbackFacts
  <1>3. PICK s, cs : s = RemoveCompletion(i) /\ cs = Ran(i)
    OBVIOUS
  <1>4. Shutdown(s, cs, TRUE)
    BY <1>3 DEF OnFinish
  <1>5. Consistent(s, cs, call, told)
    BY ONLY IInv, i \in DOMAIN comps, <1>1, <1>3, CallbackKeeps
  <1>6. stream \in StreamValues
    BY FieldsOfIInv
  <1>7. s.alive = stream.alive /\ s.finished = stream.finished
    BY ONLY <1>3, <1>6, RemoveFacts
  <1>8. Listening(s, cs, call)
    BY <1>1, <1>7 DEF Listening, IInv, Consistent, OneOfAKind
  <1>9. s.alive
    BY <1>2, <1>7
  <1>10. /\ Consistent(stream', comps', call', told)
         /\ Listening(stream', comps', call')
         /\ WorkerOK(stream', comps', worker')
         /\ DOMAIN comps' = DOMAIN cs
         /\ \A j \in DOMAIN cs : comps'[j].place = cs[j].place
    BY ONLY <1>1, <1>4, <1>5, <1>8, <1>9, ShutdownKeeps
  <1>11. QueueOK(comps', tasks', poll')
    <2>1. QueueOK(cs, tasks', poll')
      BY <1>2, <1>3
    <2>2. PICK ts, p : ts = tasks' /\ p = poll'
      OBVIOUS
    <2>3. PICK cs2 : cs2 = comps'
      OBVIOUS
    <2>4. QueueOK(cs, ts, p) /\ DOMAIN cs \subseteq DOMAIN cs2
          /\ \A j \in DOMAIN cs : cs2[j].place = cs[j].place
      BY ONLY <1>10, <2>1, <2>2, <2>3
    <2>5. QueueOK(cs2, ts, p)
      BY ONLY <2>4, QueueGrows
    <2> QED
      BY <2>2, <2>3, <2>5
  <1> QED
    BY <1>1, <1>2, <1>10, <1>11 DEF IInv

\* OnOperationFailed finishes the call the first time, for the call has ended by
\* then, and its assertion holds.
LEMMA OnOperationFailedStep ==
    ASSUME IInv, NEW i \in DOMAIN comps, OnOperationFailed(i)
    PROVE  IInv'
  <1>1. /\ Callback(i, FALSE) /\ FALSE \in BOOLEAN /\ call' = call /\ told' = told
    BY DEF OnOperationFailed
  <1>2. /\ i \in stream.pending /\ stream.observer /\ stream.alive
        /\ worker = Idle /\ poll' = poll
        /\ comps[i].callback /\ comps[i].place = "worker" /\ comps[i].ok = FALSE
        /\ QueueOK(Ran(i), tasks', poll')
    BY ONLY IInv, i \in DOMAIN comps, <1>1, CallbackFacts
  <1>3. PICK s, cs : s = RemoveCompletion(i) /\ cs = Ran(i)
    OBVIOUS
  <1>4. Consistent(s, cs, call, told) /\ WorkerOK(s, cs, Idle)
    BY ONLY IInv, i \in DOMAIN comps, <1>1, <1>3, CallbackKeeps
  <1>5. stream \in StreamValues
    BY FieldsOfIInv
  <1>6. /\ s \in StreamValues /\ s.alive = stream.alive /\ s.finished = stream.finished
        /\ s.observer = stream.observer
    BY ONLY <1>3, <1>5, RemoveFacts
  <1>7. CASE s.finished
    <2>1. stream' = s /\ comps' = cs /\ worker' = worker
          /\ asserted' = (asserted /\ i \in stream.pending)
      BY <1>3, <1>7 DEF OnOperationFailed, Holds, IsPending
    <2>2. Listening(s, cs, call)
      BY <1>7 DEF Listening
    <2> QED
      BY <1>1, <1>2, <1>3, <1>4, <2>1, <2>2 DEF IInv
  <1>8. CASE ~s.finished
    <2>1. /\ stream' = [s EXCEPT !.finished = TRUE]
          /\ comps' = Cancelled(cs, s.pending)
          /\ worker' = [Idle EXCEPT !.at = "failing"]
          /\ asserted' = (asserted /\ i \in stream.pending /\ ~s.finished)
      BY <1>3, <1>8 DEF OnOperationFailed, Holds, IsPending
    <2>2. Ended(call)
      BY <1>2 DEF IInv, Consistent, FailuresAreFinal
    <2>3. /\ stream' \in StreamValues /\ stream'.alive = s.alive
          /\ stream'.observer = s.observer /\ stream'.finished
          /\ stream'.pending = s.pending /\ stream'.buffer = s.buffer
          /\ stream'.active = s.active
      <3>1. s \in StreamValues
        BY <1>6
      <3>2. stream' \in StreamValues
        BY ONLY <2>1, <3>1, ZenonT(40) DEF StreamValues
      <3> QED
        BY ONLY <2>1, <3>1, <3>2, ZenonT(40) DEF StreamValues
    <2>4. cs \in Seq(Completion) /\ s.pending \subseteq DOMAIN cs
      BY <1>4 DEF Consistent, Typed
    <2>5. /\ comps' \in Seq(Completion) /\ DOMAIN comps' = DOMAIN cs
          /\ Len(comps') = Len(cs)
          /\ \A j \in DOMAIN cs :
                /\ comps'[j].type = cs[j].type /\ comps'[j].place = cs[j].place
                /\ comps'[j].ok = cs[j].ok /\ comps'[j].message = cs[j].message
                /\ comps'[j].callback <=> cs[j].callback /\ j \notin s.pending
      BY ONLY <2>1, <2>4, CancelledCompletions
    <2>6. Typed(stream', comps', call, told)
      BY <1>4, <2>3, <2>5 DEF Typed, Consistent
    <2>7. Outstanding(stream', comps')
      BY <1>4, <2>3, <2>5 DEF Outstanding, Consistent
    <2>8. Open(stream', comps', call)
      <3>1. call.state # "none"
        BY <2>2 DEF Ended
      <3> QED
        BY <1>4, <2>2, <2>3, <3>1 DEF Open, Consistent
    <2>9. \A j \in DOMAIN cs : cs[j].type # "Finish"
      BY <1>4, <1>8 DEF Consistent, OneOfAKind
    <2>10. OneOfAKind(stream', comps')
      BY <1>4, <2>3, <2>4, <2>5, <2>9 DEF OneOfAKind, Consistent
    <2>11. FailuresAreFinal(comps', call) /\ ReadsInOrder(comps', call, told)
      BY <1>4, <2>5 DEF FailuresAreFinal, ReadsInOrder, Consistent
    <2>12. /\ InOrder(stream', call) /\ ToldOnce(stream', call, told)
           /\ Listening(stream', comps', call)
      BY <1>4, <2>3 DEF InOrder, ToldOnce, Listening, Consistent
    <2>13. WorkerOK(stream', comps', worker')
      <3>1. \A j \in stream'.pending : ~comps'[j].callback
        BY <2>3, <2>4, <2>5
      <3>2. worker'.at = "failing" /\ worker' \in [at : Blocked, notify : BOOLEAN]
        BY <2>1 DEF Idle, Blocked
      <3>3. stream'.finished /\ stream'.observer /\ stream'.alive
        BY <1>2, <1>6, <2>3
      <3>4. \A j \in DOMAIN comps' : comps'[j].type # "Finish"
        BY <2>5, <2>9
      <3> QED
        BY ONLY <3>1, <3>2, <3>3, <3>4 DEF WorkerOK
    <2>14. QueueOK(comps', tasks', poll')
      <3>1. QueueOK(cs, tasks', poll')
        BY <1>2, <1>3
      <3>2. PICK ts, p : ts = tasks' /\ p = poll'
        OBVIOUS
      <3>3. PICK cs2 : cs2 = comps'
        OBVIOUS
      <3>4. QueueOK(cs, ts, p) /\ DOMAIN cs \subseteq DOMAIN cs2
            /\ \A j \in DOMAIN cs : cs2[j].place = cs[j].place
        BY ONLY <2>5, <3>1, <3>2, <3>3
      <3>5. QueueOK(cs2, ts, p)
        BY ONLY <3>4, QueueGrows
      <3> QED
        BY <3>2, <3>3, <3>5
    <2>15. asserted' = TRUE
      BY <1>2, <1>8, <2>1 DEF IInv
    <2> QED
      BY <1>1, <2>6, <2>7, <2>8, <2>10, <2>11, <2>12, <2>13, <2>14, <2>15
         DEF IInv, Consistent
  <1> QED
    BY <1>7, <1>8

-----------------------------------------------------------------------------
\* The completions with the i-th off the queue of gRPC, with its result.
Returned(cs, i, ok, m) ==
    [cs EXCEPT ![i].place = "off", ![i].ok = ok, ![i].message = m]

\* r has the completions of cs, and the i-th with its result.
IsReturned(cs, r, i, ok, m) ==
    /\ r \in Seq(Completion) /\ DOMAIN r = DOMAIN cs /\ Len(r) = Len(cs)
    /\ \A j \in DOMAIN cs :
          /\ r[j].type = cs[j].type
          /\ r[j].callback <=> cs[j].callback
          /\ j # i => r[j] = cs[j]
    /\ r[i].place = "off" /\ r[i].ok = ok /\ r[i].message = m

\* An operation that gRPC returns leaves the others alone.
LEMMA ReturnedCompletion ==
    ASSUME NEW cs \in Seq(Completion), NEW i \in DOMAIN cs, NEW ok \in BOOLEAN,
           NEW m \in Nat
    PROVE  IsReturned(cs, Returned(cs, i, ok, m), i, ok, m)
  <1> DEFINE r == Returned(cs, i, ok, m)
  <1>1. DOMAIN cs = 1..Len(cs) /\ Len(cs) \in Nat
    BY LenProperties
  <1>2. cs[i] \in Completion
    BY <1>1, ElementOfSeq
  <1>3. PICK d : d = [cs[i] EXCEPT !.place = "off", !.ok = ok, !.message = m]
    OBVIOUS
  <1>4. r = [cs EXCEPT ![i] = d]
    BY <1>1, <1>3 DEF Returned
  <1> HIDE DEF r
  <1>5. d \in Completion
    BY ONLY <1>2, <1>3, ok \in BOOLEAN, m \in Nat, ZenonT(40) DEF Completion
  <1>6. /\ r \in Seq(Completion) /\ Len(r) = Len(cs) /\ DOMAIN r = DOMAIN cs
        /\ r[i] = d
        /\ \A j \in DOMAIN cs : j # i => r[j] = cs[j]
    BY ONLY cs \in Seq(Completion), i \in DOMAIN cs, <1>1, <1>4, <1>5, SMTT(30)
  <1>7. /\ d.type = cs[i].type /\ d.callback = cs[i].callback /\ d.place = "off"
        /\ d.ok = ok /\ d.message = m
    BY ONLY <1>2, <1>3, <1>5, ZenonT(40) DEF Completion
  <1>8. ASSUME NEW j \in DOMAIN cs
        PROVE  /\ r[j].type = cs[j].type
               /\ r[j].callback <=> cs[j].callback
               /\ j # i => r[j] = cs[j]
    BY <1>6, <1>7
  <1>9. IsReturned(cs, r, i, ok, m)
    BY ONLY <1>6, <1>7, <1>8 DEF IsReturned
  <1> QED
    BY <1>9 DEF r

\* An operation that gRPC returns keeps the invariant, if a failure is one of a call
\* that has ended and a read takes the next message.
LEMMA ReturnsKeeps ==
    ASSUME IInv, NEW i \in DOMAIN comps, NEW ok \in BOOLEAN, NEW m \in Nat,
           Returns(i, ok, m), ok \/ call.state # "live",
           call' \in CallValues, call'.state = call.state, call'.written = call.written,
           call'.arrived = call.arrived, call'.taken <= call.arrived,
           IF comps[i].type = "Read" /\ ok
           THEN m = call'.taken /\ call'.taken = call.taken + 1
           ELSE call'.taken = call.taken
    PROVE  IInv'
  <1>1. /\ poll = 0 /\ poll' = i /\ comps[i].place = "grpc"
        /\ comps' = Returned(comps, i, ok, m)
        /\ stream' = stream /\ tasks' = tasks /\ worker' = worker /\ told' = told
        /\ asserted' = asserted
    BY DEF Returns, Returned
  <1>2. /\ stream \in StreamValues /\ comps \in Seq(Completion)
        /\ stream.pending \subseteq DOMAIN comps /\ call \in CallValues
    BY FieldsOfIInv
  <1>3. IsReturned(comps, comps', i, ok, m)
    BY ONLY <1>1, <1>2, i \in DOMAIN comps, ok \in BOOLEAN, m \in Nat, ReturnedCompletion
  <1>4. /\ comps' \in Seq(Completion) /\ DOMAIN comps' = DOMAIN comps
        /\ Len(comps') = Len(comps)
        /\ \A j \in DOMAIN comps :
              /\ comps'[j].type = comps[j].type
              /\ comps'[j].callback <=> comps[j].callback
              /\ j # i => comps'[j] = comps[j]
        /\ comps'[i].place = "off" /\ comps'[i].ok = ok /\ comps'[i].message = m
    BY ONLY <1>3 DEF IsReturned
  <1>5. /\ Outstanding(stream, comps) /\ Open(stream, comps, call)
        /\ OneOfAKind(stream, comps) /\ FailuresAreFinal(comps, call)
        /\ InOrder(stream, call) /\ ReadsInOrder(comps, call, told)
        /\ ToldOnce(stream, call, told) /\ Typed(stream, comps, call, told)
        /\ Listening(stream, comps, call) /\ QueueOK(comps, tasks, poll)
        /\ WorkerOK(stream, comps, worker)
    BY ONLY IInv, PartsOfIInv
  <1>6. i \in stream.pending /\ call.state # "none"
    BY <1>1, <1>2, <1>5, EmptySeq DEF Outstanding, Open
  <1>7. Typed(stream, comps', call', told)
    BY <1>4, <1>5 DEF Typed
  <1>8. Outstanding(stream, comps')
    BY <1>1, <1>4, <1>5, <1>6 DEF Outstanding
  <1>9. Open(stream, comps', call')
    BY <1>5, <1>6 DEF Open, Ended
  <1>10. OneOfAKind(stream, comps')
    BY ONLY <1>2, <1>4, <1>5, KindsStay
  <1>11. FailuresAreFinal(comps', call')
    <2>1. ASSUME ~ok
          PROVE  Ended(call')
      BY <1>2, <1>6, <2>1 DEF Ended, CallValues
    <2>2. ASSUME NEW j \in DOMAIN comps, comps'[j].place # "grpc", ~comps'[j].ok
          PROVE  Ended(call')
      <3>1. CASE j = i
        BY <1>4, <2>1, <2>2, <3>1
      <3>2. CASE j # i
        BY <1>4, <1>5, <2>2, <3>2 DEF FailuresAreFinal, Ended
      <3> QED
        BY <3>1, <3>2
    <2> QED
      BY <1>4, <2>2 DEF FailuresAreFinal
  <1>12. InOrder(stream, call') /\ ToldOnce(stream, call', told)
    BY <1>5, <1>6 DEF InOrder, ToldOnce
  <1>13. ReadsInOrder(comps', call', told)
    <2>1. ASSUME NEW j \in DOMAIN comps,
                 comps'[j].type = "Read", comps'[j].callback, comps'[j].place # "ran"
          PROVE  /\ comps'[j].place = "grpc" => call'.taken = Len(told.messages)
                 /\ comps'[j].place # "grpc" /\ comps'[j].ok =>
                       call'.taken = Len(told.messages) + 1
                       /\ comps'[j].message = call'.taken
      <3>1. CASE j = i
        BY <1>1, <1>4, <1>5, <2>1, <3>1 DEF ReadsInOrder
      <3>2. CASE j # i
        <4>1. comps[j].type = "Read" /\ comps[j].callback /\ comps[j].place # "ran"
              /\ comps'[j] = comps[j]
          BY <1>4, <2>1, <3>2
        <4>2. j \in stream.pending
          BY <1>5, <4>1 DEF Outstanding
        <4>3. comps[i].type # "Read"
          BY <1>5, <1>6, <3>2, <4>1, <4>2 DEF OneOfAKind
        <4>4. call'.taken = call.taken
          BY <4>3
        <4> QED
          BY <1>5, <4>1, <4>4 DEF ReadsInOrder
      <3> QED
        BY <3>1, <3>2
    <2> QED
      BY <1>4, <2>1 DEF ReadsInOrder
  <1>14. Listening(stream, comps', call')
    BY ONLY <1>2, <1>4, <1>5, call'.state = call.state, ListeningStays
  <1>15. QueueOK(comps', tasks, i)
    <2>1. \A k \in DOMAIN tasks : tasks[k] \in DOMAIN comps
      BY <1>5, ElementOfSeq, LenProperties DEF QueueOK
    <2>2. \A k \in DOMAIN tasks : tasks[k] # i
      BY <1>1, <1>5 DEF QueueOK
    <2> QED
      BY <1>4, <1>5, <2>1, <2>2 DEF QueueOK
  <1>16. WorkerOK(stream, comps', worker)
    BY ONLY <1>2, <1>4, <1>5, WorkerStays
  <1> QED
    BY <1>1, <1>5, <1>7, <1>8, <1>9, <1>10, <1>11, <1>12, <1>13, <1>14, <1>15, <1>16
       DEF IInv, Consistent

\* Each of the four ways in which gRPC returns an operation keeps the invariant.
LEMMA OperationReturnsStep ==
    ASSUME IInv, NEW i \in DOMAIN comps, OperationReturns(i)
    PROVE  IInv'
  <1>1. call \in CallValues /\ call.taken \in Nat /\ call.taken <= call.arrived
        /\ call.arrived \in Nat
    BY DEF IInv, Consistent, Typed, CallValues
  <1>2. CASE ReadReturns(i)
    <2>1. /\ comps[i].type = "Read" /\ call.taken < call.arrived
          /\ Returns(i, TRUE, call.taken + 1)
          /\ call' = [call EXCEPT !.taken = call.taken + 1]
      BY <1>2 DEF ReadReturns
    <2>2. call.taken + 1 \in Nat /\ call.taken + 1 <= call.arrived
      BY ONLY <1>1, <2>1, SMTT(30)
    <2>3. /\ call' \in CallValues /\ call'.state = call.state /\ call'.written = call.written
          /\ call'.arrived = call.arrived /\ call'.taken = call.taken + 1
      BY ONLY <1>1, <2>1, <2>2, ZenonT(40) DEF CallValues
    <2>4. PICK m \in Nat : m = call.taken + 1
      BY <2>2
    <2>5. /\ Returns(i, TRUE, m) /\ m = call'.taken /\ call'.taken <= call.arrived
          /\ TRUE \in BOOLEAN
      BY <2>1, <2>2, <2>3, <2>4
    <2> QED
      BY <2>1, <2>3, <2>5, ReturnsKeeps
  <1>3. CASE WriteReturns(i) \/ FinishReturns(i)
    <2>1. /\ comps[i].type # "Read" /\ Returns(i, TRUE, 0) /\ call' = call
          /\ TRUE \in BOOLEAN /\ 0 \in Nat
      BY <1>3 DEF WriteReturns, FinishReturns
    <2> QED
      BY <1>1, <2>1, ReturnsKeeps
  <1>4. CASE OperationFails(i)
    <2>1. /\ call.state # "live" /\ Returns(i, FALSE, 0) /\ call' = call
          /\ FALSE \in BOOLEAN /\ 0 \in Nat
      BY <1>4 DEF OperationFails
    <2> QED
      BY <1>1, <2>1, ReturnsKeeps
  <1> QED
    BY <1>2, <1>3, <1>4 DEF OperationReturns

\* The end of Complete moves a completion from the polling thread to the worker queue.
LEMMA CompleteStep ==
    ASSUME IInv, Complete
    PROVE  IInv'
  <1>1. /\ poll # 0 /\ poll' = 0 /\ tasks' = Append(tasks, poll)
        /\ comps' = Placed(comps, poll, "worker")
        /\ stream' = stream /\ worker' = worker /\ call' = call /\ told' = told
        /\ asserted' = asserted
    BY DEF Complete, Placed
  <1>2. /\ stream \in StreamValues /\ comps \in Seq(Completion)
        /\ stream.pending \subseteq DOMAIN comps
    BY FieldsOfIInv
  <1>3. PICK i \in DOMAIN comps : i = poll /\ comps[i].place = "off"
    BY <1>1 DEF IInv, QueueOK
  <1>4. Moved(comps, comps', i, "worker")
    BY ONLY <1>1, <1>2, <1>3, i \in DOMAIN comps, PlacedCompletion
  <1>5. /\ comps' \in Seq(Completion) /\ DOMAIN comps' = DOMAIN comps
        /\ Len(comps') = Len(comps)
        /\ \A j \in DOMAIN comps :
              /\ comps'[j].type = comps[j].type /\ comps'[j].ok = comps[j].ok
              /\ comps'[j].message = comps[j].message
              /\ comps'[j].callback <=> comps[j].callback
              /\ j # i => comps'[j] = comps[j]
        /\ comps'[i].place = "worker"
    BY ONLY <1>4 DEF Moved
  <1>6. /\ Outstanding(stream, comps) /\ Open(stream, comps, call)
        /\ OneOfAKind(stream, comps) /\ FailuresAreFinal(comps, call)
        /\ InOrder(stream, call) /\ ReadsInOrder(comps, call, told)
        /\ ToldOnce(stream, call, told) /\ Typed(stream, comps, call, told)
        /\ Listening(stream, comps, call) /\ QueueOK(comps, tasks, poll)
        /\ WorkerOK(stream, comps, worker)
    BY ONLY IInv, PartsOfIInv
  <1>7. Typed(stream, comps', call, told)
    BY <1>5, <1>6 DEF Typed
  <1>8. Outstanding(stream, comps')
    BY <1>3, <1>5, <1>6 DEF Outstanding
  <1>9. Open(stream, comps', call)
    <2>1. comps # <<>>
      BY EmptySeq
    <2> QED
      BY <1>6, <2>1 DEF Open
  <1>10. OneOfAKind(stream, comps')
    BY ONLY <1>2, <1>5, <1>6, KindsStay
  <1>11. FailuresAreFinal(comps', call)
    <2>1. \A j \in DOMAIN comps : comps'[j].place # "grpc" => comps[j].place # "grpc"
      BY <1>3, <1>5
    <2> QED
      BY <1>5, <1>6, <2>1 DEF FailuresAreFinal
  <1>12. ReadsInOrder(comps', call, told)
    <2>1. \A j \in DOMAIN comps :
              /\ comps'[j].place = "grpc" <=> comps[j].place = "grpc"
              /\ comps'[j].place = "ran" <=> comps[j].place = "ran"
      BY <1>3, <1>5
    <2> QED
      BY <1>5, <1>6, <2>1 DEF ReadsInOrder
  <1>13. Listening(stream, comps', call)
    BY ONLY <1>2, <1>5, <1>6, ListeningStays
  <1>14. QueueOK(comps', tasks', 0)
    <2>1. /\ tasks \in Seq(DOMAIN comps) /\ Len(tasks) \in Nat
          /\ DOMAIN tasks = 1..Len(tasks)
          /\ \A k \in DOMAIN tasks : tasks[k] \in DOMAIN comps
      BY <1>6, ElementOfSeq, LenProperties DEF QueueOK
    <2>2. /\ tasks' \in Seq(DOMAIN comps)
          /\ DOMAIN tasks' = DOMAIN tasks \cup {Len(tasks) + 1}
          /\ tasks'[Len(tasks) + 1] = i
          /\ \A k \in DOMAIN tasks : tasks'[k] = tasks[k]
      BY ONLY <1>1, <1>3, i \in DOMAIN comps, <2>1, AppendProperties, LenProperties,
              SMTT(30)
    <2>3. \A k \in DOMAIN tasks : tasks[k] # i
      BY <1>3, <1>6 DEF QueueOK
    <2>4. \A k \in DOMAIN tasks' : comps'[tasks'[k]].place = "worker"
      BY <1>5, <1>6, <2>1, <2>2, <2>3 DEF QueueOK
    <2>5. \A k, l \in DOMAIN tasks' : tasks'[k] = tasks'[l] => k = l
      <3>1. \A k, l \in DOMAIN tasks : tasks[k] = tasks[l] => k = l
        BY <1>6 DEF QueueOK
      <3> QED
        BY ONLY <2>2, <2>3, <3>1
    <2> QED
      BY <1>5, <2>2, <2>4, <2>5 DEF QueueOK
  <1>15. WorkerOK(stream, comps', worker)
    BY ONLY <1>2, <1>5, <1>6, WorkerStays
  <1> QED
    BY <1>1, <1>6, <1>7, <1>8, <1>9, <1>10, <1>11, <1>12, <1>13, <1>14, <1>15
       DEF IInv, Consistent

-----------------------------------------------------------------------------
\* Every task of the worker queue keeps the invariant.
LEMMA RunTaskStep ==
    ASSUME IInv, RunTask
    PROVE  IInv'
  <1>1. PICK i \in DOMAIN comps :
            RunCancelled(i) \/ OnRead(i) \/ OnWrite(i) \/ OnFinish(i) \/ OnOperationFailed(i)
    BY DEF RunTask
  <1>2. CASE RunCancelled(i)
    BY <1>2, RunCancelledStep
  <1>3. CASE OnRead(i)
    BY <1>3, OnReadStep
  <1>4. CASE OnWrite(i)
    BY <1>4, OnWriteStep
  <1>5. CASE OnFinish(i)
    BY <1>5, OnFinishStep
  <1>6. CASE OnOperationFailed(i)
    BY <1>6, OnOperationFailedStep
  <1> QED
    BY <1>1, <1>2, <1>3, <1>4, <1>5, <1>6

\* A stream keeps its invariant whatever the order in which its operations come back,
\* are enqueued and are cancelled, and whatever its observer calls in between.
THEOREM StreamIsConsistent == Spec => []IInv
  <1>1. Init => IInv
    BY IInvInit
  <1>2. IInv /\ [Next]_vars => IInv'
    <2> SUFFICES ASSUME IInv, [Next]_vars
                 PROVE  IInv'
      OBVIOUS
    <2>1. CASE Start
      BY <2>1, StartStep
    <2>2. CASE Write
      BY <2>2, WriteStep
    <2>3. CASE FinishImmediately
      BY <2>3, FinishImmediatelyStep
    <2>4. CASE FinishAndNotify
      BY <2>4, FinishAndNotifyStep
    <2>5. CASE WriteAndFinish
      BY <2>5, WriteAndFinishStep
    <2>6. CASE Destroy
      BY <2>6, DestroyStep
    <2>7. CASE LastWriteWaited
      BY <2>7, LastWriteWaitedStep
    <2>8. CASE FinishGrpcCall
      BY <2>8, FinishGrpcCallStep
    <2>9. CASE Drained
      BY <2>9, DrainedStep
    <2>10. CASE RunTask
      BY <2>10, RunTaskStep
    <2>11. CASE Grpc
      BY <2>11, OperationReturnsStep DEF Grpc
    <2>12. CASE Complete
      BY <2>12, CompleteStep
    <2>13. CASE ServerSends
      BY <2>13, ServerSendsStep
    <2>14. CASE CallBreaks
      BY <2>14, CallBreaksStep
    <2>15. CASE UNCHANGED vars
      BY <2>15 DEF vars, IInv
    <2> QED
      BY <2>1, <2>2, <2>3, <2>4, <2>5, <2>6, <2>7, <2>8, <2>9, <2>10, <2>11, <2>12, <2>13,
         <2>14, <2>15 DEF Next, Client, WorkerGoesOn
  <1> QED
    BY <1>1, <1>2, PTL DEF Spec

\* Every variable keeps its type, no more is read than the server sent, and no message
\* of the client is lost between the buffer and the call.
THEOREM TypeCorrect == Spec => []TypeOK
  <1>1. IInv => TypeOK
    BY DEF IInv, Consistent, Typed, QueueOK, WorkerOK, TypeOK, StreamValues, CallValues, ToldValues
  <1> QED
    BY <1>1, StreamIsConsistent, PTL

\* No HARD_ASSERT of grpc_stream.cc fails: a callback finds its completion, the call
\* is finished once, and no stream is destroyed with completions pending.
THEOREM AssertionsHold == Spec => []NoAssertionFails
  <1>1. IInv => NoAssertionFails
    BY DEF IInv, NoAssertionFails
  <1> QED
    BY <1>1, StreamIsConsistent, PTL

\* gRPC never has two reads, two writes or two finishes of the call at a time.
THEOREM OneOperation == Spec => []OneOperationAtATime
  <1>1. IInv => OneOperationAtATime
    <2> SUFFICES ASSUME IInv, NEW i \in DOMAIN comps, NEW j \in DOMAIN comps,
                        comps[i].place = "grpc", comps[j].place = "grpc",
                        comps[i].type = comps[j].type
                 PROVE  i = j
      BY DEF OneOperationAtATime
    <2>1. i \in stream.pending /\ j \in stream.pending
      BY DEF IInv, Consistent, Outstanding
    <2>2. OneOfAKind(stream, comps)
      BY DEF IInv, Consistent
    <2> QED
      BY <2>1, <2>2 DEF OneOfAKind
  <1> QED
    BY <1>1, StreamIsConsistent, PTL

\* No callback runs on a stream that is destroyed, closed or no longer holds its
\* completion: Cancel comes before all of these, and after it the callback is gone.
THEOREM CallbacksAreSafe == Spec => []CallbacksFindTheirStream
  <1>1. IInv => CallbacksFindTheirStream
    <2> SUFFICES ASSUME IInv, NEW i \in DOMAIN comps, comps[i].callback,
                        comps[i].place # "ran"
                 PROVE  stream.alive /\ stream.observer /\ i \in stream.pending
      BY DEF CallbacksFindTheirStream
    <2>1. i \in stream.pending
      BY DEF IInv, Consistent, Outstanding
    <2> QED
      BY <2>1 DEF IInv, Consistent, Open
  <1> QED
    BY <1>1, StreamIsConsistent, PTL

\* The call and its context, destroyed with the stream, outlive every operation that
\* gRPC has of them: Shutdown waits for all before the observer can destroy it.
THEOREM CallIsSafe == Spec => []CallOutlivesOperations
  <1>1. IInv => CallOutlivesOperations
    BY DEF IInv, Consistent, Outstanding, Open, CallOutlivesOperations
  <1> QED
    BY <1>1, StreamIsConsistent, PTL

\* An open stream that has not failed always has a read pending: Start issues one, and
\* OnRead the next before it tells the observer.
THEOREM StreamListens == Spec => []AlwaysListening
  <1>1. IInv => AlwaysListening
    <2> SUFFICES ASSUME IInv, call.state # "none", stream.observer, ~stream.finished,
                        worker = Idle
                 PROVE  \E i \in stream.pending :
                            /\ comps[i].type = "Read" /\ comps[i].callback
                            /\ comps[i].place # "ran"
      BY DEF AlwaysListening
    <2>1. PICK i \in stream.pending : comps[i].type = "Read"
      BY DEF IInv, Listening
    <2>2. i \in DOMAIN comps
      BY FieldsOfIInv
    <2>3. comps[i].callback
      BY DEF IInv, WorkerOK, Idle
    <2>4. comps[i].place # "ran"
      BY <2>2 DEF IInv, Consistent, Outstanding
    <2> QED
      BY <2>1, <2>3, <2>4
  <1> QED
    BY <1>1, StreamIsConsistent, PTL

\* The worker queue blocks without a timeout only on operations of a call that has been
\* cancelled or has broken, so it never waits for a server that has nothing to say.
THEOREM WorkerWaitsForEndedCall == Spec => []BlockedOnlyOnEndedCall
  <1>1. IInv => BlockedOnlyOnEndedCall
    <2> SUFFICES ASSUME IInv, worker.at \in Blocked \ {"lastWrite"}, ~AllOffQueue
                 PROVE  call.state \in {"cancelled", "broken"}
      BY DEF BlockedOnlyOnEndedCall
    <2>1. worker.at \in {"failing", "finishing", "draining"}
      BY DEF Blocked
    <2>2. stream.pending # {}
      BY DEF AllOffQueue
    <2>3. stream.finished
      BY <2>1, <2>2 DEF IInv, WorkerOK
    <2> QED
      BY <2>3 DEF IInv, Consistent, Open, Ended
  <1> QED
    BY <1>1, StreamIsConsistent, PTL

-----------------------------------------------------------------------------
\* The observer sees no more than its own state and what goes to and from the call.
LEMMA ObservedStutters ==
    ASSUME stream'.observer = stream.observer,
           call'.state = "none" <=> call.state = "none",
           call'.written = call.written, call'.arrived = call.arrived, told' = told
    PROVE  UNCHANGED Observed!osVars
  BY DEF Observed!osVars

\* MaybeWrite sends the oldest message that has not been sent, or none.
LEMMA MaybeWriteSends ==
    ASSUME NEW s, NEW cs, NEW t, s \in StreamValues, call \in CallValues, InOrder(s, call),
           Len(call.written) + Len(s.buffer) = t.accepted, MaybeWrite(s, cs)
    PROVE  /\ stream'.observer = s.observer
           /\ call'.state = call.state /\ call'.arrived = call.arrived
           /\ \/ call'.written = call.written
              \/ /\ Len(call.written) < t.accepted
                 /\ call'.written = Append(call.written, Len(call.written) + 1)
  <1>0. s \in StreamValues /\ call \in CallValues
    OBVIOUS
  <1>1. CASE ~TryStartWrite(s)
    BY <1>1 DEF MaybeWrite
  <1>2. CASE TryStartWrite(s)
    <2>1. PICK b, w, P : b = Tail(s.buffer) /\ w = Append(call.written, Head(s.buffer))
                         /\ P = s.pending \cup {Len(cs) + 1}
      OBVIOUS
    <2>2. /\ stream' = [s EXCEPT !.pending = P, !.buffer = b, !.active = TRUE]
          /\ call' = [call EXCEPT !.written = w]
      BY <1>2, <2>1 DEF MaybeWrite, Pending
    <2>3. stream'.observer = s.observer
      BY ONLY <1>0, <2>2, ZenonT(40) DEF StreamValues
    <2>4. call'.state = call.state /\ call'.arrived = call.arrived /\ call'.written = w
      BY ONLY <1>0, <2>2, ZenonT(40) DEF CallValues
    <2>5. PICK x \in Nat, y \in Nat \ {0} :
              x = Len(call.written) /\ y = Len(s.buffer) /\ x + y = t.accepted
      <3>1. s.buffer \in Seq(Nat) /\ call.written \in Seq(Nat) /\ s.buffer # <<>>
        BY <1>0, <1>2 DEF StreamValues, CallValues, TryStartWrite
      <3>2. Len(s.buffer) \in Nat \ {0} /\ Len(call.written) \in Nat
        BY ONLY <3>1, LenProperties, EmptySeq
      <3> QED
        BY <3>2
    <2>6. x < x + y /\ 1 \in 1..y
      BY ONLY x \in Nat, y \in Nat \ {0}, SMTT(30)
    <2>7. s.buffer[1] = x + 1
      BY <2>5, <2>6 DEF InOrder
    <2>8. w = Append(call.written, Len(call.written) + 1)
      BY <2>1, <2>5, <2>7
    <2> QED
      BY <2>3, <2>4, <2>5, <2>6, <2>8
  <1> QED
    BY <1>1, <1>2

\* Shutdown, up to its first wait, is nothing to the observer.
LEMMA ObservedShutdown ==
    ASSUME NEW s, NEW cs, NEW n \in BOOLEAN, NEW t, Consistent(s, cs, call, t),
           Shutdown(s, cs, n)
    PROVE  /\ stream'.observer = s.observer
           /\ call'.state = "none" <=> call.state = "none"
           /\ call'.written = call.written /\ call'.arrived = call.arrived
  <1>1. /\ s \in StreamValues /\ cs \in Seq(Completion) /\ s.pending \subseteq DOMAIN cs
        /\ call \in CallValues /\ Open(s, cs, call)
    BY DEF Consistent, Typed
  <1> QED
    BY ONLY <1>1, n \in BOOLEAN, Shutdown(s, cs, n), ShutdownFacts

\* Write and WriteAndFinish accept the next message.
LEMMA ObservedAccept ==
    ASSUME IInv, Accepts, worker = Idle, stream.observer, call.state # "none",
           \/ MaybeWrite(Enqueued(stream), comps)
           \/ Shutdown(Enqueued(stream), comps, FALSE)
    PROVE  Observed!OsNext
  <1>1. PICK s, t : s = Enqueued(stream) /\ t = told'
    OBVIOUS
  <1>2. Consistent(s, comps, call, t) /\ s.observer = stream.observer
    BY <1>1, AcceptKeeps
  <1>3. told \in ToldValues
    BY FieldsOfIInv
  <1>4. /\ told'.accepted = told.accepted + 1 /\ told'.messages = told.messages
        /\ told'.finishes = told.finishes
    <2>1. told' = [told EXCEPT !.accepted = told.accepted + 1]
      BY DEF Accepts
    <2> QED
      BY ONLY <1>3, <2>1, ZenonT(40) DEF ToldValues
  <1>5. /\ stream'.observer /\ call'.state # "none" /\ call'.arrived = call.arrived
        /\ \/ call'.written = call.written
           \/ /\ Len(call.written) < told'.accepted
              /\ call'.written = Append(call.written, Len(call.written) + 1)
    <2>1. CASE MaybeWrite(Enqueued(stream), comps)
      <3>1. MaybeWrite(s, comps)
        BY <1>1, <2>1
      <3>2. /\ stream'.observer = s.observer
            /\ call'.state = call.state /\ call'.arrived = call.arrived
            /\ \/ call'.written = call.written
               \/ /\ Len(call.written) < t.accepted
                  /\ call'.written = Append(call.written, Len(call.written) + 1)
        <4>1. /\ s \in StreamValues /\ call \in CallValues /\ InOrder(s, call)
              /\ Len(call.written) + Len(s.buffer) = t.accepted
          BY <1>2 DEF Consistent, Typed
        <4> QED
          BY ONLY <3>1, <4>1, MaybeWriteSends
      <3> QED
        BY <1>1, <1>2, <3>2
    <2>2. CASE Shutdown(Enqueued(stream), comps, FALSE)
      <3>1. Shutdown(s, comps, FALSE) /\ FALSE \in BOOLEAN
        BY <1>1, <2>2
      <3>2. /\ stream'.observer = s.observer
            /\ call'.state = "none" <=> call.state = "none"
            /\ call'.written = call.written /\ call'.arrived = call.arrived
        BY ONLY <1>2, <3>1, ObservedShutdown
      <3> QED
        BY <1>2, <3>2
    <2> QED
      BY <2>1, <2>2
  <1>6. Observed!Accept
    BY <1>4, <1>5 DEF Observed!Accept, Observed!SendNext
  <1> QED
    BY <1>6 DEF Observed!OsNext

\* OnRead tells the next message of the server.
LEMMA ObservedRead ==
    ASSUME IInv, NEW i \in DOMAIN comps, OnRead(i)
    PROVE  Observed!Tell
  <1>1. /\ Callback(i, TRUE) /\ comps[i].type = "Read" /\ TRUE \in BOOLEAN /\ call' = call
    BY DEF OnRead
  <1>2. /\ i \in stream.pending /\ stream.observer
        /\ comps[i].callback /\ comps[i].place = "worker" /\ comps[i].ok = TRUE
    BY ONLY IInv, i \in DOMAIN comps, <1>1, CallbackFacts
  <1>3. /\ Read(RemoveCompletion(i), Ran(i))
        /\ told' = [told EXCEPT !.messages = Append(@, comps[i].message)]
    BY <1>2 DEF OnRead
  <1>4. /\ stream \in StreamValues /\ told \in ToldValues /\ call \in CallValues
    BY FieldsOfIInv
  <1>5. stream'.observer
    <2>1. PICK s, P : s = RemoveCompletion(i) /\ P = s.pending \cup {Len(Ran(i)) + 1}
      OBVIOUS
    <2>2. s \in StreamValues /\ s.observer = stream.observer
      BY ONLY <1>4, <2>1, RemoveFacts
    <2>3. stream' = [s EXCEPT !.pending = P]
      BY <1>3, <2>1 DEF Read, Pending
    <2>4. stream'.observer = s.observer
      BY ONLY <2>2, <2>3, ZenonT(40) DEF StreamValues
    <2> QED
      BY <1>2, <2>2, <2>4
  <1>6. call.taken = Len(told.messages) + 1 /\ comps[i].message = call.taken
    BY <1>1, <1>2 DEF IInv, Consistent, ReadsInOrder
  <1>7. call.state # "none"
    BY <1>2, EmptySeq DEF IInv, Consistent, Open
  <1>8. Len(told.messages) < call.arrived
    <2>1. PICK x \in Nat : x = Len(told.messages)
      BY <1>4, LenProperties DEF ToldValues
    <2>2. x + 1 <= call.arrived /\ call.arrived \in Nat
      BY <1>4, <1>6, <2>1 DEF IInv, Consistent, Typed, CallValues
    <2>3. x < call.arrived
      BY ONLY <2>2, x \in Nat, SMTT(30)
    <2> QED
      BY <2>1, <2>3
  <1>9. /\ told'.messages = Append(told.messages, Len(told.messages) + 1)
        /\ told'.accepted = told.accepted /\ told'.finishes = told.finishes
    <2>1. PICK m : m = Append(told.messages, Len(told.messages) + 1)
      OBVIOUS
    <2>2. told' = [told EXCEPT !.messages = m]
      BY <1>3, <1>6, <2>1
    <2>3. told'.messages = m /\ told'.accepted = told.accepted
          /\ told'.finishes = told.finishes
      BY ONLY <1>4, <2>2, ZenonT(40) DEF ToldValues
    <2> QED
      BY <2>1, <2>3
  <1> QED
    BY <1>1, <1>2, <1>5, <1>7, <1>8, <1>9 DEF Observed!Tell

\* OnWrite sends the next message of the buffer, if there is one.
LEMMA ObservedWrite ==
    ASSUME IInv, NEW i \in DOMAIN comps, OnWrite(i)
    PROVE  Observed!OsNext \/ UNCHANGED Observed!osVars
  <1>1. /\ Callback(i, TRUE) /\ TRUE \in BOOLEAN /\ told' = told
    BY DEF OnWrite
  <1>2. i \in stream.pending /\ stream.observer
    BY ONLY IInv, i \in DOMAIN comps, <1>1, CallbackFacts
  <1>3. PICK r, cs : r = RemoveCompletion(i) /\ cs = Ran(i)
    OBVIOUS
  <1>4. PICK s : s = [r EXCEPT !.active = FALSE]
    OBVIOUS
  <1>5. MaybeWrite(s, cs)
    BY <1>2, <1>3, <1>4 DEF OnWrite
  <1>6. stream \in StreamValues /\ call \in CallValues
    BY FieldsOfIInv
  <1>7. /\ r \in StreamValues /\ r.observer = stream.observer /\ r.buffer = stream.buffer
    BY ONLY <1>3, <1>6, RemoveFacts
  <1>8. s \in StreamValues /\ s.observer = r.observer /\ s.buffer = r.buffer
    <2>1. r \in StreamValues
      BY <1>7
    <2>2. s \in StreamValues
      BY ONLY <1>4, <2>1, ZenonT(40) DEF StreamValues
    <2> QED
      BY ONLY <1>4, <2>1, <2>2, ZenonT(40) DEF StreamValues
  <1>9. /\ stream'.observer = s.observer
        /\ call'.state = call.state /\ call'.arrived = call.arrived
        /\ \/ call'.written = call.written
           \/ /\ Len(call.written) < told.accepted
              /\ call'.written = Append(call.written, Len(call.written) + 1)
    <2>1. InOrder(s, call) /\ Len(call.written) + Len(s.buffer) = told.accepted
      BY <1>7, <1>8 DEF IInv, Consistent, Typed, InOrder
    <2> QED
      BY ONLY <1>5, <1>6, <1>8, <2>1, MaybeWriteSends
  <1>10. call.state # "none"
    BY <1>2, EmptySeq DEF IInv, Consistent, Open
  <1>11. CASE call'.written = call.written
    BY <1>1, <1>7, <1>8, <1>9, <1>11, ObservedStutters
  <1>12. CASE /\ Len(call.written) < told.accepted
              /\ call'.written = Append(call.written, Len(call.written) + 1)
    <2>1. Observed!Send
      BY <1>1, <1>2, <1>7, <1>8, <1>9, <1>10, <1>12 DEF Observed!Send, Observed!SendNext
    <2> QED
      BY <2>1 DEF Observed!OsNext
  <1> QED
    BY <1>9, <1>11, <1>12

\* OnOperationFailed, up to its first wait, is nothing to the observer.
LEMMA ObservedFailure ==
    ASSUME IInv, NEW i \in DOMAIN comps, OnOperationFailed(i)
    PROVE  stream'.observer = stream.observer /\ call' = call /\ told' = told
  <1>1. stream \in StreamValues
    BY FieldsOfIInv
  <1>2. PICK s : s = RemoveCompletion(i)
    OBVIOUS
  <1>3. s \in StreamValues /\ s.observer = stream.observer
    BY ONLY <1>1, <1>2, RemoveFacts
  <1>4. call' = call /\ told' = told
        /\ (stream' = s \/ stream' = [s EXCEPT !.finished = TRUE])
    BY <1>2 DEF OnOperationFailed
  <1>5. stream'.observer = s.observer
    <2>1. [s EXCEPT !.finished = TRUE].observer = s.observer
      BY ONLY <1>3, ZenonT(40) DEF StreamValues
    <2> QED
      BY <1>4, <2>1
  <1> QED
    BY <1>3, <1>4, <1>5

\* A task of the worker queue tells, sends or does nothing that can be observed.
LEMMA ObservedTask ==
    ASSUME IInv, RunTask
    PROVE  Observed!OsNext \/ UNCHANGED Observed!osVars
  <1>1. PICK i \in DOMAIN comps :
            RunCancelled(i) \/ OnRead(i) \/ OnWrite(i) \/ OnFinish(i) \/ OnOperationFailed(i)
    BY DEF RunTask
  <1>2. CASE RunCancelled(i)
    BY <1>2, ObservedStutters DEF RunCancelled
  <1>3. CASE OnRead(i)
    BY <1>3, ObservedRead DEF Observed!OsNext
  <1>4. CASE OnWrite(i)
    BY <1>4, ObservedWrite
  <1>5. CASE OnFinish(i)
    <2>1. /\ Callback(i, TRUE) /\ TRUE \in BOOLEAN /\ told' = told
          /\ Shutdown(RemoveCompletion(i), Ran(i), TRUE)
      BY <1>5 DEF OnFinish
    <2>2. PICK s, cs : s = RemoveCompletion(i) /\ cs = Ran(i)
      OBVIOUS
    <2>3. Consistent(s, cs, call, told)
      BY ONLY IInv, i \in DOMAIN comps, <2>1, <2>2, CallbackKeeps
    <2>4. s.observer = stream.observer
      <3>1. stream \in StreamValues
        BY FieldsOfIInv
      <3> QED
        BY ONLY <2>2, <3>1, RemoveFacts
    <2>5. Shutdown(s, cs, TRUE)
      BY <2>1, <2>2
    <2>6. /\ stream'.observer = s.observer
          /\ call'.state = "none" <=> call.state = "none"
          /\ call'.written = call.written /\ call'.arrived = call.arrived
      BY ONLY <2>1, <2>3, <2>5, ObservedShutdown
    <2> QED
      BY <2>1, <2>4, <2>6, ObservedStutters
  <1>6. CASE OnOperationFailed(i)
    BY <1>6, ObservedFailure, ObservedStutters
  <1> QED
    BY <1>1, <1>2, <1>3, <1>4, <1>5, <1>6

\* The end of Shutdown closes the stream, with at most one notice.
LEMMA ObservedDrained ==
    ASSUME IInv, Drained
    PROVE  Observed!OsNext \/ UNCHANGED Observed!osVars
  <1>1. stream \in StreamValues /\ told \in ToldValues
    BY FieldsOfIInv
  <1>2. /\ stream' = [stream EXCEPT !.pending = {}, !.observer = FALSE] /\ call' = call
        /\ told' = IF worker.notify /\ stream.observer
                   THEN [told EXCEPT !.finishes = @ + 1] ELSE told
    BY DEF Drained
  <1>3. ~stream'.observer
    BY ONLY <1>1, <1>2, ZenonT(40) DEF StreamValues
  <1>4. CASE ~stream.observer
    BY <1>2, <1>3, <1>4 DEF Observed!osVars
  <1>5. CASE stream.observer
    <2>1. told.finishes = 0
      BY <1>5 DEF IInv, Consistent, ToldOnce
    <2>2. /\ told'.finishes \in {0, 1} /\ told'.messages = told.messages
          /\ told'.accepted = told.accepted
      <3>1. CASE worker.notify
        <4>1. told' = [told EXCEPT !.finishes = 1]
          BY <1>2, <1>5, <2>1, <3>1
        <4> QED
          BY ONLY <1>1, <4>1, ZenonT(40) DEF ToldValues
      <3>2. CASE ~worker.notify
        BY <1>2, <2>1, <3>2
      <3> QED
        BY <3>1, <3>2
    <2>3. Observed!Close
      BY <1>2, <1>3, <1>5, <2>2 DEF Observed!Close
    <2> QED
      BY <2>3 DEF Observed!OsNext
  <1> QED
    BY <1>4, <1>5

\* Every step is one of ObservedStream or changes nothing of it.
LEMMA ObservedStep ==
    ASSUME IInv, Next
    PROVE  Observed!OsNext \/ UNCHANGED Observed!osVars
  <1>0. /\ stream \in StreamValues /\ call \in CallValues /\ told \in ToldValues
        /\ Consistent(stream, comps, call, told)
    BY FieldsOfIInv DEF IInv
  <1>1. CASE Start
    <2>1. /\ stream.observer /\ call.state = "none" /\ told' = told
          /\ call' = [call EXCEPT !.state = "live"] /\ Read(stream, comps)
      BY <1>1 DEF Start
    <2>2. stream'.observer = stream.observer
      <3>1. PICK P : P = stream.pending \cup {Len(comps) + 1}
        OBVIOUS
      <3>2. stream' = [stream EXCEPT !.pending = P]
        BY <2>1, <3>1 DEF Read, Pending
      <3> QED
        BY ONLY <1>0, <3>2, ZenonT(40) DEF StreamValues
    <2>3. call'.state = "live" /\ call'.arrived = call.arrived /\ call'.written = call.written
      BY ONLY <1>0, <2>1, ZenonT(40) DEF CallValues
    <2>4. Observed!Open
      BY <2>1, <2>2, <2>3 DEF Observed!Open
    <2> QED
      BY <2>4 DEF Observed!OsNext
  <1>2. CASE Write
    BY <1>2, ObservedAccept DEF Write, Runs
  <1>3. ASSUME NEW n \in BOOLEAN, Shutdown(stream, comps, n), told' = told
        PROVE  UNCHANGED Observed!osVars
    <2>1. /\ stream'.observer = stream.observer
          /\ call'.state = "none" <=> call.state = "none"
          /\ call'.written = call.written /\ call'.arrived = call.arrived
      BY ONLY <1>0, <1>3, n \in BOOLEAN, ObservedShutdown
    <2> QED
      BY <1>3, <2>1, ObservedStutters
  <1>4. CASE FinishImmediately \/ FinishAndNotify \/ LastWriteWaited
    <2>1. /\ told' = told
          /\ Shutdown(stream, comps, FALSE) \/ Shutdown(stream, comps, TRUE)
      BY <1>4 DEF FinishImmediately, FinishAndNotify, LastWriteWaited
    <2> QED
      BY <1>3, <2>1
  <1>5. CASE WriteAndFinish
    <2>1. CASE stream.finished
      <3>1. Shutdown(stream, comps, FALSE) /\ told' = told
        BY <1>5, <2>1 DEF WriteAndFinish
      <3> QED
        BY <1>3, <3>1
    <2>2. CASE ~stream.finished
      <3>1. /\ Accepts /\ worker = Idle /\ call.state # "none"
            /\ \/ MaybeWrite(Enqueued(stream), comps)
               \/ Shutdown(Enqueued(stream), comps, FALSE)
        BY <1>5, <2>2 DEF WriteAndFinish, Runs
      <3>2. stream.observer
        BY <2>2, <3>1 DEF IInv, Consistent, Open
      <3> QED
        BY <3>1, <3>2, ObservedAccept
    <2> QED
      BY <2>1, <2>2
  <1>6. CASE Destroy
    <2>1. stream' = [stream EXCEPT !.alive = FALSE, !.registered = FALSE]
          /\ call' = call /\ told' = told
      BY <1>6 DEF Destroy
    <2>2. stream'.observer = stream.observer
      BY ONLY <1>0, <2>1, ZenonT(40) DEF StreamValues
    <2> QED
      BY <2>1, <2>2, ObservedStutters
  <1>7. CASE FinishGrpcCall
    <2>1. stream' = [stream EXCEPT !.pending = {Len(comps) + 1}]
          /\ call' = call /\ told' = told
      BY <1>7 DEF FinishGrpcCall
    <2>2. stream'.observer = stream.observer
      <3>1. PICK P : P = {Len(comps) + 1}
        OBVIOUS
      <3>2. stream' = [stream EXCEPT !.pending = P]
        BY <2>1, <3>1
      <3> QED
        BY ONLY <1>0, <3>2, ZenonT(40) DEF StreamValues
    <2> QED
      BY <2>1, <2>2, ObservedStutters
  <1>8. CASE Drained
    BY <1>8, ObservedDrained
  <1>9. CASE RunTask
    BY <1>9, ObservedTask
  <1>10. CASE Grpc
    <2>1. stream' = stream /\ told' = told
          /\ (call' = call \/ call' = [call EXCEPT !.taken = @ + 1])
      BY <1>10 DEF Grpc, OperationReturns, ReadReturns, WriteReturns, FinishReturns,
                   OperationFails, Returns
    <2>2. call'.state = call.state /\ call'.arrived = call.arrived
          /\ call'.written = call.written
      <3>1. PICK n : n = call.taken + 1
        OBVIOUS
      <3>2. call' = call \/ call' = [call EXCEPT !.taken = n]
        BY <2>1, <3>1
      <3> QED
        BY ONLY <1>0, <3>2, ZenonT(40) DEF CallValues
    <2> QED
      BY <2>1, <2>2, ObservedStutters
  <1>11. CASE Complete
    BY <1>11, ObservedStutters DEF Complete
  <1>12. CASE ServerSends
    <2>1. /\ call.state = "live" /\ stream' = stream /\ told' = told
          /\ call' = [call EXCEPT !.arrived = call.arrived + 1]
      BY <1>12 DEF ServerSends
    <2>2. /\ call'.state = "live" /\ call'.written = call.written
          /\ call'.arrived = call.arrived + 1
      <3>1. PICK n : n = call.arrived + 1
        OBVIOUS
      <3>2. call' = [call EXCEPT !.arrived = n]
        BY <2>1, <3>1
      <3>3. call'.state = call.state /\ call'.written = call.written /\ call'.arrived = n
        BY ONLY <1>0, <3>2, ZenonT(40) DEF CallValues
      <3> QED
        BY <2>1, <3>1, <3>3
    <2>3. Observed!Arrive
      BY <2>1, <2>2 DEF Observed!Arrive
    <2> QED
      BY <2>3 DEF Observed!OsNext
  <1>13. CASE CallBreaks
    <2>1. /\ call.state = "live" /\ stream' = stream /\ told' = told
          /\ call' = [call EXCEPT !.state = "broken"]
      BY <1>13 DEF CallBreaks
    <2>2. /\ call'.state = "broken" /\ call'.written = call.written
          /\ call'.arrived = call.arrived
      BY ONLY <1>0, <2>1, ZenonT(40) DEF CallValues
    <2> QED
      BY <2>1, <2>2, ObservedStutters
  <1> QED
    BY <1>1, <1>2, <1>4, <1>5, <1>6, <1>7, <1>8, <1>9, <1>10, <1>11, <1>12, <1>13
       DEF Next, Client, WorkerGoesOn

\* GrpcStream implements ObservedStream: to its observer, messages pass in order and
\* once, and nothing after the stream has closed.
THEOREM ImplementsObserved == Spec => ImplementsObservedStream
  <1>1. Init => Observed!OsInit
    <2> SUFFICES ASSUME Init
                 PROVE  Observed!OsInit
      OBVIOUS
    <2>1. /\ stream.observer /\ call.state = "none" /\ call.arrived = 0
          /\ call.written = <<>> /\ told.messages = <<>> /\ told.finishes = 0
          /\ told.accepted = 0
      BY DEF Init
    <2> QED
      BY <2>1 DEF Observed!OsInit
  <1>2. IInv /\ [Next]_vars => [Observed!OsNext]_(Observed!osVars)
    <2> SUFFICES ASSUME IInv, [Next]_vars
                 PROVE  Observed!OsNext \/ UNCHANGED Observed!osVars
      OBVIOUS
    <2>1. CASE Next
      BY <2>1, ObservedStep
    <2>2. CASE UNCHANGED vars
      BY <2>2, ObservedStutters DEF vars
    <2> QED
      BY <2>1, <2>2
  <1> QED
    BY <1>1, <1>2, StreamIsConsistent, PTL DEF Spec, ImplementsObservedStream, Observed!OsSpec
=============================================================================
