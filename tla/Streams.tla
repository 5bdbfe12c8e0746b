------------------------------- MODULE Streams -------------------------------
(***************************************************************************)
(* The state machine of remote/stream.cc that the watch and the write       *)
(* stream share, as operators on a record with at least the fields          *)
(*   state       state_                                                     *)
(*   idle        idleness_timer_ is set                                     *)
(*   backoff     the backoff timer is set                                   *)
(*   closeCount  close_count_                                               *)
(* The module that keeps such a record says what its listener does.         *)
(***************************************************************************)
EXTENDS Naturals

StreamStates == {"Initial", "Starting", "Open", "Error", "Backoff"}
Started(s) == s.state \in {"Starting", "Backoff", "Open"}

\* Variant: callbacks of the stream's earlier starts still count.
StoppedKeepingCount(s) ==
    IF Started(s)
    THEN [s EXCEPT !.state = "Initial", !.idle = FALSE, !.backoff = FALSE]
    ELSE s

\* Close(OK): idempotent, and it leaves an Error state as it is.
Stopped(s) ==
    IF Started(s)
    THEN [s EXCEPT !.state = "Initial", !.idle = FALSE, !.backoff = FALSE,
                   !.closeCount = @ + 1]
    ELSE s

\* Close(status) up to the point where the listener is notified.
Failed(s) == [s EXCEPT !.state = "Error", !.idle = FALSE, !.backoff = FALSE,
                       !.closeCount = @ + 1]

\* Start: after an error it only schedules the backoff timer.
StartStream(s) ==
    IF s.state = "Error" THEN [s EXCEPT !.state = "Backoff", !.backoff = TRUE]
                         ELSE [s EXCEPT !.state = "Starting"]

\* The backoff timer has fired: the stream starts again.
Restarted(s) == [s EXCEPT !.state = "Starting", !.backoff = FALSE]

\* OnStreamStart, up to the point where the listener is notified.
Opened(s) == [s EXCEPT !.state = "Open"]
=============================================================================
