----------------------------- MODULE SerialQueue -----------------------------
(***************************************************************************)
(* What AsyncQueue promises about the operations it accepts, without modes, *)
(* threads, locks or task states: they run one at a time, in the order in   *)
(* which they became due, each at most once; and once the queue is closed   *)
(* nothing runs and nothing is left to run.                                 *)
(***************************************************************************)
EXTENDS Naturals, Sequences, FiniteSets, SequencesExt

VARIABLES phase,    \* "open", "closing", "closed"
          waiting,  \* operations that are due, in order: Seq(Nat \ {0})
          delayed,  \* operations whose time has not come
          timers,   \* operations that were submitted delayed, until they begin
          current,  \* the operation being executed, 0 if none
          accepted  \* operations accepted so far

sqVars == <<phase, waiting, delayed, timers, current, accepted>>

SqInit ==
    /\ phase = "open"
    /\ waiting = <<>> /\ delayed = {} /\ timers = {}
    /\ current = 0 /\ accepted = 0

\* An operation being executed may end in the same step as it submits one.
MayEnd == current' \in {current, 0}

Submit ==
    /\ phase = "open"
    /\ accepted' = accepted + 1
    /\ \/ waiting' = Append(waiting, accepted') /\ UNCHANGED <<delayed, timers>>
       \/ /\ delayed' = delayed \cup {accepted'}
          /\ timers' = timers \cup {accepted'}
          /\ UNCHANGED waiting
    /\ MayEnd
    /\ UNCHANGED phase

Expire ==
    /\ \E n \in delayed :
        delayed' = delayed \ {n} /\ waiting' = Append(waiting, n)
    /\ UNCHANGED <<phase, timers, current, accepted>>

Begin ==
    /\ current = 0 /\ waiting # <<>>
    /\ current' = Head(waiting) /\ waiting' = Tail(waiting)
    /\ timers' = timers \ {Head(waiting)}
    /\ UNCHANGED <<phase, delayed, accepted>>

End ==
    /\ current # 0 /\ current' = 0
    /\ UNCHANGED <<phase, waiting, delayed, timers, accepted>>

\* Timers are cancelled one by one, also when they are due; the others only by
\* closing.
Discard ==
    /\ \E n \in delayed \cup ToSet(waiting) :
        /\ phase = "closing" \/ n \in timers
        /\ delayed' = delayed \ {n} /\ timers' = timers \ {n}
        /\ \/ n \notin ToSet(waiting) /\ UNCHANGED waiting
           \/ \E i \in DOMAIN waiting : /\ waiting[i] = n
                                        /\ waiting' = RemoveAt(waiting, i)
    /\ MayEnd
    /\ UNCHANGED <<phase, accepted>>

BeginClose ==
    /\ phase = "open" /\ phase' = "closing"
    /\ UNCHANGED <<waiting, delayed, timers, current, accepted>>

FinishClose ==
    /\ phase = "closing" /\ phase' = "closed"
    /\ waiting = <<>> /\ delayed = {} /\ current = 0
    /\ UNCHANGED <<waiting, delayed, timers, current, accepted>>

SqNext == Submit \/ Expire \/ Begin \/ End \/ Discard \/ BeginClose \/ FinishClose

SqSpec == SqInit /\ [][SqNext]_sqVars
=============================================================================
