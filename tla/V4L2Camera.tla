----------------------------- MODULE V4L2Camera -----------------------------
(***************************************************************************)
(* The capture object of the camera HAL, libcamera/V4L2Camera.cpp: what    *)
(* its operations do to the device node, the mapped buffers and the counts *)
(* of queued and dequeued buffers.                                         *)
(*                                                                         *)
(* An operation is an operator on the object's record c.  Its argument f   *)
(* is the set of system calls that fail: "open" is open(), "format" any    *)
(* request of Init() before the buffers, "qbuf" VIDIOC_QBUF, "stream"      *)
(* VIDIOC_STREAMON.  nQueued and nDequeued only grow while the device      *)
(* streams and are only used as a difference, which is what the record     *)
(* keeps; c.driver is the number of buffers the driver has.                *)
(***************************************************************************)
EXTENDS Integers

CONSTANT NB_BUFFER        \* buffers requested from the driver

ASSUME BufferCount == NB_BUFFER \in Nat \ {0}

NoSize == [w |-> 0, h |-> 0]

\* V4L2Camera::V4L2Camera().
NewCamera == [open |-> FALSE, streaming |-> FALSE, mapped |-> FALSE,
              queued |-> 0, driver |-> 0, out |-> NoSize]

\* Close() neither unmaps nor dequeues; the driver forgets its buffers.
Close(c) == [c EXCEPT !.open = FALSE, !.driver = 0]

\* Open() forgets the mappings and the format, but not the counters.
Open(c, f) == [Close(c) EXCEPT !.open = "open" \notin f,
                               !.streaming = FALSE,
                               !.mapped = FALSE,
                               !.out = NoSize]

\* The buffers that Init() queues; the last one is where it fails.
QueuedBy(f) == IF "qbuf" \in f THEN NB_BUFFER - 1 ELSE NB_BUFFER

InitFails(f) == f \intersect {"format", "qbuf"} # {}

\* Mutated SetUp: nQueued++ after the loop.
SetUpCountsOnce(c, size, f) ==
    IF "format" \in f THEN c
    ELSE [c EXCEPT !.out = size, !.mapped = TRUE,
                   !.queued = @ + 1, !.driver = QueuedBy(f)]

\* Init(), named SetUp here: the frames it delivers have the requested size,
\* cropped from the closest format that is as large.
SetUp(c, size, f) ==
    IF "format" \in f THEN c
    ELSE [c EXCEPT !.out = size, !.mapped = TRUE,
                   !.queued = @ + QueuedBy(f), !.driver = QueuedBy(f)]

StartStreaming(c, f) == [c EXCEPT !.streaming = @ \/ "stream" \notin f]

Min2(a, b) == IF a < b THEN a ELSE b

\* Uninit() dequeues all buffers but one; VIDIOC_DQBUF fails when the driver
\* has none, or does not stream.
Uninit(c) ==
    LET dequeued == IF c.streaming /\ c.queued > 0
                    THEN Min2(c.queued - 1, c.driver) ELSE 0
    IN  [c EXCEPT !.driver = @ - dequeued, !.queued = 0, !.mapped = FALSE]

\* The driver gives all buffers up.
StopStreaming(c) ==
    IF c.streaming THEN [c EXCEPT !.streaming = FALSE, !.driver = 0] ELSE c

CanGrab(c) == c.streaming /\ c.driver > 0

\* Mutated GrabRawFrame: nQueued is not incremented.
GrabRawFrameForgetsQueued(c, f) ==
    IF CanGrab(c) THEN [c EXCEPT !.queued = @ - 1] ELSE c

\* GrabRawFrame() dequeues a buffer and queues it again, if it can.
GrabRawFrame(c, f) ==
    IF CanGrab(c) /\ "qbuf" \in f
    THEN [c EXCEPT !.queued = @ - 1, !.driver = @ - 1] ELSE c

TypedCamera(c, sizes) ==
    c \in [open : BOOLEAN, streaming : BOOLEAN, mapped : BOOLEAN,
           queued : Nat, driver : 0..NB_BUFFER, out : sizes \union {NoSize}]

=============================================================================
