--------------------------- MODULE StreamSessions ---------------------------
(***************************************************************************)
(* What the audio HAL promises of its streams, without its threads and     *)
(* mutexes: a stream that the framework opened has sessions, from leaving  *)
(* standby to the next standby; a transfer (the I/O of out_write() or      *)
(* in_read()) starts a session if there is none, is the only one of its    *)
(* stream, and the session lasts until it is over, whoever asks for the    *)
(* standby; and a stream is closed only between sessions.                  *)
(***************************************************************************)
CONSTANT Streams

VARIABLES
    open,         \* the streams between open_*_stream() and the end of close
    running,      \* those not in standby
    transferring  \* those some thread is writing to or reading from

sessions == <<open, running, transferring>>

Init == open = {} /\ running = {} /\ transferring = {}

Open(s) ==
    /\ s \notin open
    /\ open' = open \union {s}
    /\ UNCHANGED <<running, transferring>>

BeginTransfer(s) ==
    /\ s \in open \ transferring
    /\ running' = running \union {s}
    /\ transferring' = transferring \union {s}
    /\ UNCHANGED open

EndTransfer(s) ==
    /\ s \in transferring
    /\ transferring' = transferring \ {s}
    /\ UNCHANGED <<open, running>>

Standby(s) ==
    /\ s \in running \ transferring
    /\ running' = running \ {s}
    /\ UNCHANGED <<open, transferring>>

Close(s) ==
    /\ s \in open \ running
    /\ open' = open \ {s}
    /\ UNCHANGED <<running, transferring>>

\* The process dies and is started again.
Restart == open' = {} /\ running' = {} /\ transferring' = {}

Next ==
    \/ \E s \in Streams : \/ Open(s) \/ BeginTransfer(s) \/ EndTransfer(s)
                          \/ Standby(s) \/ Close(s)
    \/ Restart

Spec == Init /\ [][Next]_sessions
=============================================================================
