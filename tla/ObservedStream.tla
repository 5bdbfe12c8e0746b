---------------------------- MODULE ObservedStream ----------------------------
(***************************************************************************)
(* What GrpcStream promises its observer, without completions, queues or    *)
(* threads: the messages it is given go to the call in the order in which   *)
(* it accepted them; those of the server are told in the order in which     *)
(* they arrived, none skipped; and once the stream has closed, with at most *)
(* one notice of it, nothing is told and nothing is sent.                   *)
(***************************************************************************)
EXTENDS Naturals, Sequences

VARIABLES phase,     \* "new", "open", "closed"
          accepted,  \* messages of the client taken over so far: 1..accepted
          sent,      \* those given to the call, in order
          arrived,   \* messages of the server so far: 1..arrived
          seen,      \* those the observer was told, in order
          notices    \* calls of OnStreamFinish

osVars == <<phase, accepted, sent, arrived, seen, notices>>

OsInit ==
    /\ phase = "new"
    /\ accepted = 0 /\ sent = <<>>
    /\ arrived = 0 /\ seen = <<>>
    /\ notices = 0

\* The oldest message that has not been sent goes to the call.
SendNext == Len(sent) < accepted' /\ sent' = Append(sent, Len(sent) + 1)

Open ==
    /\ phase = "new" /\ phase' = "open"
    /\ UNCHANGED <<accepted, sent, arrived, seen, notices>>

Accept ==
    /\ phase = "open"
    /\ accepted' = accepted + 1
    /\ SendNext \/ UNCHANGED sent
    /\ UNCHANGED <<phase, arrived, seen, notices>>

Send ==
    /\ phase = "open"
    /\ UNCHANGED accepted
    /\ SendNext
    /\ UNCHANGED <<phase, arrived, seen, notices>>

Arrive ==
    /\ phase # "new" /\ arrived' = arrived + 1
    /\ UNCHANGED <<phase, accepted, sent, seen, notices>>

Tell ==
    /\ phase = "open" /\ Len(seen) < arrived
    /\ seen' = Append(seen, Len(seen) + 1)
    /\ UNCHANGED <<phase, accepted, sent, arrived, notices>>

Close ==
    /\ phase # "closed" /\ phase' = "closed"
    /\ notices' \in {0, 1}
    /\ UNCHANGED <<accepted, sent, arrived, seen>>

OsNext == Open \/ Accept \/ Send \/ Arrive \/ Tell \/ Close

OsSpec == OsInit /\ [][OsNext]_osVars
=============================================================================
