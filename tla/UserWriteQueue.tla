--------------------------- MODULE UserWriteQueue ---------------------------
(***************************************************************************)
(* What the Firestore client promises about setData to its caller, without  *)
(* streams, pipelines, tokens or batch ids: a durable FIFO queue of writes  *)
(* per user, of which only the signed-in user's is settled, head first.     *)
(* An acknowledged write has been committed; a callback runs at most once    *)
(* and is lost with the process it was given to; and a write can be told     *)
(* twice to the backend (commits are at least once), never to another user.  *)
(***************************************************************************)
EXTENDS Naturals, Sequences

CONSTANTS Users,      \* users, the unauthenticated one included
          MaxWrites   \* bound: writes

VARIABLES user,       \* whose queue is being settled
          pending,    \* [Users -> Seq(1..MaxWrites)]
          live,       \* writes whose callback this process still holds
          committed,  \* writes the backend has executed
          fate,       \* what the callback of each write was told
          count       \* writes made so far

uwqVars == <<user, pending, live, committed, fate, count>>

UwqInit ==
    /\ user \in Users
    /\ pending = [u \in Users |-> <<>>]
    /\ live = {}
    /\ committed = {}
    /\ fate = [w \in 1..MaxWrites |-> "none"]
    /\ count = 0

\* setData: queued for the user who is signed in, durably, at once.
Submit ==
    /\ count < MaxWrites
    /\ count' = count + 1
    /\ pending' = [pending EXCEPT ![user] = Append(@, count + 1)]
    /\ live' = live \cup {count + 1}
    /\ UNCHANGED <<user, committed, fate>>

\* The backend executes pending writes of the signed-in user, any number of
\* times; it may do so while the client takes a step of its own.
BackendExecutes ==
    \E W \in SUBSET {pending[user][i] : i \in DOMAIN pending[user]} :
        committed' = committed \cup W

Execute == BackendExecutes /\ UNCHANGED <<user, pending, live, fate, count>>

Tell(w, result) ==
    fate' = IF w \in live THEN [fate EXCEPT ![w] = result] ELSE fate

\* The oldest pending write is acknowledged or rejected.
Settle ==
    /\ pending[user] # <<>>
    /\ LET w == Head(pending[user])
       IN  /\ pending' = [pending EXCEPT ![user] = Tail(@)]
           /\ \/ w \in committed /\ Tell(w, "acked")
              \/ Tell(w, "rejected")
           /\ live' = live \ {w}
    /\ BackendExecutes
    /\ UNCHANGED <<user, count>>

SwitchUser ==
    /\ user' \in Users
    /\ BackendExecutes
    /\ UNCHANGED <<pending, live, fate, count>>

\* The process dies, perhaps while it settles the oldest write: an acknowledged
\* write may have been told and not yet forgotten, a rejected one forgotten and
\* never told.
Die ==
    /\ user' \in Users
    /\ live' = {}
    /\ \/ UNCHANGED <<fate, pending>>
       \/ /\ pending[user] # <<>>
          /\ Head(pending[user]) \in committed
          /\ Tell(Head(pending[user]), "acked")
          /\ UNCHANGED pending
       \/ /\ pending[user] # <<>>
          /\ pending' = [pending EXCEPT ![user] = Tail(@)]
          /\ UNCHANGED fate
    /\ BackendExecutes
    /\ UNCHANGED count

UwqNext == Submit \/ Execute \/ Settle \/ SwitchUser \/ Die

UwqSpec == UwqInit /\ [][UwqNext]_uwqVars
=============================================================================
