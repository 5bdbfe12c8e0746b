----------------------- MODULE WritePipelineRefinement -----------------------
(* WritePipeline implements UserWriteQueue.                                *)
EXTENDS WritePipeline

Promise == INSTANCE UserWriteQueue WITH
    user <- currentUser,
    pending <- [u \in Users |-> [i \in DOMAIN queue[u] |-> queue[u][i].write]],
    live <- {c.write : c \in UNION {callbacks[u] : u \in Users}},
    committed <- {c.write : c \in committed},
    count <- Len(owner)

\* Every step of the write path, the crash in the middle of an acknowledgement
\* included, is a step the queue promises or no step of it at all.
ImplementsUserWriteQueue == Promise!UwqSpec
=============================================================================
