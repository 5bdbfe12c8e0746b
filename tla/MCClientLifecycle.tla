-------------------------- MODULE MCClientLifecycle --------------------------
(* Small instances of ClientLifecycle for TLC.                             *)
EXTENDS ClientLifecycle
CONSTANTS t1, t2
MCThreads == {t1, t2}

\* The combinations in which the client keeps its promises: ClearPersistence
\* without a release, and transactions that end before the client does.
Harmless == {{"write", "remove", "terminate", "release"},
             {"write", "user", "release"},
             {"write", "transaction", "terminate"},
             {"write", "terminate", "clear"}}

\* What the Firestore tests do: terminate, clear, and let the instance go.
Clearing == {{"write", "terminate", "clear", "release"}}
=============================================================================
