------------------------ MODULE CameraHardwareProofs ------------------------
(***************************************************************************)
(* What CameraHardware guarantees for every number of callers, picture and *)
(* preview threads, all sizes and formats, whatever fails.                 *)
(*                                                                         *)
(* The inductive invariant says what a running preview relies on (Runs:    *)
(* the device it works with; Settled: sizes and heaps are those of the     *)
(* parameters whenever mLock is free), who has mLock and why (Locked),     *)
(* that at most one preview thread is alive and that nobody frees mLock    *)
(* before it has ended (Alive), and what callbacks hold (Delivering).      *)
(***************************************************************************)
EXTENDS CameraHardware, SequenceTheorems, TLAPS

-----------------------------------------------------------------------------
(***************************************************************************)
(* The inductive invariant.                                                *)
(***************************************************************************)
AnySize == Sizes \union {NoSize}

Counts == 0..NB_BUFFER

Camera == [open : BOOLEAN, streaming : BOOLEAN, mapped : BOOLEAN, queued : Nat,
           driver : Counts, out : AnySize]

Object == [win : BOOLEAN, winSize : AnySize, preview : Sizes, video : Sizes,
           picture : AnySize, previewFmt : Fmts \union {"yuv422sp"},
           videoFmt : Fmts \union {"yuv420p"}, raw : AnySize,
           bytes : [Heaps -> Nat], heap : [Heaps -> BOOLEAN], released : SUBSET Heaps,
           recording : BOOLEAN, msgs : SUBSET Msgs, thread : Previews \union {NULL},
           hasMemory : BOOLEAN, cam : Camera]

Covered(c) == c.driver <= c.queued

\* What a preview thread has of the device and of the window.
Runs(s) == s.thread # NULL =>
    /\ s.hasMemory
    /\ s.cam.open /\ s.cam.streaming /\ s.cam.mapped /\ s.cam.out = s.raw
    /\ s.win => s.winSize \in {s.raw, NoSize}

\* The captured size and the sizes of the heaps follow the parameters.
Settled(s) == s.thread # NULL => s.raw = CaptureSize(s) /\ s.bytes = Needed(s)

Good(s) == s \in Object /\ Covered(s.cam) /\ Runs(s)

ObjectInv == Good(hw) /\ hw.released = {} /\ (mLock = NULL => Settled(hw))

CallerPlaces  == {"idle", "joinStop", "joinHeaps"}
PicturePlaces == {"idle", "start", "joinPicture", "callbacks", "inCallback"}
PreviewPlaces == {"dead", "check", "loop", "callbacks", "inCallback", "reenter"}

Placed ==
    /\ DOMAIN pc = Threads /\ pc = [t \in Threads |-> pc[t]]
    /\ \A t \in Callers  : pc[t] \in CallerPlaces
    /\ \A k \in Pictures : pc[k] \in PicturePlaces
    /\ \A p \in Previews : pc[p] \in PreviewPlaces

Locked ==
    /\ mLock \in Callers \union Pictures \union {NULL}
    /\ \A t \in Threads : mLock = t <=> Joining(t)
    /\ mLock # NULL => hw.thread # NULL
    /\ \A t \in Callers : pc[t] = "joinHeaps" => StopsPreview(hw)

\* The preview thread that is alive is the object's, and it is asked to end
\* only by a thread that keeps mLock until it has.
Alive ==
    /\ \A p \in Previews : pc[p] # "dead" => hw.thread = p
    /\ mLock = NULL /\ hw.thread # NULL => pc[hw.thread] # "dead"
    /\ exitPending \in [Previews -> BOOLEAN]
    /\ \A p \in Previews : exitPending[p] => mLock # NULL /\ pc[p] # "dead"

\* The messages of a frame and the heaps they hand out.
FrameHeaps == {"preview", "recording"}

Frames(p) == \A n \in 1..Len(todo[p]) :
    todo[p][n] \in {"preview", "video"} /\ hw.heap[HeapOf(todo[p][n])]

Delivering ==
    /\ todo \in [Threads -> Seq(Msgs)]
    /\ \A t \in Threads : InCallback(t) => todo[t] # <<>>
    /\ \A p \in Previews : pc[p] \in {"callbacks", "inCallback", "reenter"} => Frames(p)
    /\ dangling \subseteq Pictures

IInv == ObjectInv /\ Placed /\ Locked /\ Alive /\ Delivering

-----------------------------------------------------------------------------
(***************************************************************************)
(* The capture object.                                                     *)
(***************************************************************************)
LEMMA CountsFacts == 0 \in Counts /\ \A f : QueuedBy(f) \in Counts
BY BufferCount DEF Counts, QueuedBy

LEMMA CloseFacts ==
    ASSUME NEW c \in Camera
    PROVE  Close(c) \in Camera /\ Close(c).driver = 0 /\ Covered(Close(c))
<1>1. 0 \in Counts
  BY CountsFacts
<1>2. Close(c) \in Camera
  BY <1>1 DEF Camera, Close
<1>3. Close(c).driver = 0
  BY DEF Camera, Close
<1> QED BY <1>2, <1>3 DEF Camera, Covered

LEMMA OpenFacts ==
    ASSUME NEW c \in Camera, NEW f
    PROVE  /\ Open(c, f) \in Camera /\ Covered(Open(c, f))
           /\ Open(c, f).open = ("open" \notin f)
           /\ ~Open(c, f).streaming
<1> DEFINE d == Close(c)
<1> HIDE DEF d
<1>1. d \in Camera /\ Covered(d)
  BY CloseFacts DEF d
<1>2. [d EXCEPT !.open = "open" \notin f, !.streaming = FALSE, !.mapped = FALSE,
               !.out = NoSize] \in Camera
  BY <1>1 DEF Camera, AnySize
<1> QED BY <1>1, <1>2 DEF Open, d, Camera, Covered

LEMMA SetUpFacts ==
    ASSUME NEW c \in Camera, Covered(c), NEW size \in AnySize, NEW f
    PROVE  /\ SetUp(c, size, f) \in Camera /\ Covered(SetUp(c, size, f))
           /\ SetUp(c, size, f).open = c.open
           /\ SetUp(c, size, f).streaming = c.streaming
           /\ SetUp(c, size, f).out \in {c.out, size}
           /\ ~InitFails(f) => /\ SetUp(c, size, f).mapped
                               /\ SetUp(c, size, f).out = size
<1> DEFINE n == QueuedBy(f)
<1> HIDE DEF n
<1>1. n \in Counts /\ n \in Nat
  BY CountsFacts, BufferCount DEF n, Counts
<1>2. c.queued + n \in Nat /\ n <= c.queued + n
  BY <1>1 DEF Camera
<1> DEFINE q == c.queued + n
<1> HIDE DEF q
<1>3. [c EXCEPT !.out = size, !.mapped = TRUE, !.queued = q, !.driver = n] \in Camera
  BY <1>1, <1>2 DEF Camera, q
<1>4. CASE "format" \in f
  BY <1>4 DEF SetUp, InitFails
<1>5. CASE "format" \notin f
  <2>1. SetUp(c, size, f) =
            [c EXCEPT !.out = size, !.mapped = TRUE, !.queued = q, !.driver = n]
    BY <1>5 DEF SetUp, q, n, Camera
  <2> QED BY <1>2, <1>3, <2>1 DEF Covered, q, Camera
<1> QED BY <1>4, <1>5

LEMMA UninitFacts ==
    ASSUME NEW c \in Camera
    PROVE  Uninit(c) \in Camera
<1> DEFINE n == IF c.streaming /\ c.queued > 0
                    THEN Min2(c.queued - 1, c.driver) ELSE 0
<1>1. c.driver - n \in Counts
  BY BufferCount DEF Camera, Counts, Min2
<1> HIDE DEF n
<1> DEFINE m == c.driver - n
<1> HIDE DEF m
<1>2. [c EXCEPT !.driver = m, !.queued = 0, !.mapped = FALSE] \in Camera
  BY <1>1 DEF Camera, m
<1> QED BY <1>2 DEF Uninit, n, m

LEMMA StopStreamingFacts ==
    ASSUME NEW c \in Camera
    PROVE  StopStreaming(c) \in Camera
BY CountsFacts DEF Camera, StopStreaming

LEMMA GrabFacts ==
    ASSUME NEW c \in Camera, Covered(c), NEW f
    PROVE  /\ GrabRawFrame(c, f) \in Camera /\ Covered(GrabRawFrame(c, f))
           /\ GrabRawFrame(c, f).open = c.open
           /\ GrabRawFrame(c, f).streaming = c.streaming
           /\ GrabRawFrame(c, f).mapped = c.mapped
           /\ GrabRawFrame(c, f).out = c.out
<1> DEFINE a == c.queued - 1
           b == c.driver - 1
<1>1. CASE CanGrab(c) /\ "qbuf" \in f
  <2>1. a \in Nat /\ b \in Counts /\ b <= a
    BY <1>1, BufferCount DEF Camera, Counts, CanGrab, Covered
  <2>2. GrabRawFrame(c, f) = [c EXCEPT !.queued = a, !.driver = b]
    BY <1>1 DEF GrabRawFrame, Camera
  <2> HIDE DEF a, b
  <2> QED BY <2>1, <2>2 DEF Camera, Covered
<1>2. CASE ~(CanGrab(c) /\ "qbuf" \in f)
  BY <1>2 DEF GrabRawFrame
<1> QED BY <1>1, <1>2

LEMMA StartStreamingFacts ==
    ASSUME NEW c \in Camera, Covered(c), NEW f
    PROVE  /\ StartStreaming(c, f) \in Camera /\ Covered(StartStreaming(c, f))
           /\ StartStreaming(c, f).open = c.open
           /\ StartStreaming(c, f).mapped = c.mapped
           /\ StartStreaming(c, f).out = c.out
BY DEF Camera, StartStreaming, Covered

-----------------------------------------------------------------------------
(***************************************************************************)
(* Sizes.                                                                  *)
(***************************************************************************)
LEMMA AreaFacts == \A s \in AnySize : Area(s) \in Nat
<1>1. \A m, n \in Nat : m * n \in Nat
  OBVIOUS
<1> QED BY <1>1, SizesAreRecords DEF AnySize, NoSize, Area

LEMMA FrameBytesFacts ==
    ASSUME NEW s \in AnySize,
           NEW fmt \in {"yuv422i-yuyv", "yuv422sp", "yuv420sp", "yuv420p"}
    PROVE  FrameBytes(fmt, s) \in Nat
<1>1. CASE fmt = "yuv422i-yuyv"
  BY <1>1, AreaFacts DEF FrameBytes
<1>2. CASE fmt \in {"yuv422sp", "yuv420sp"}
  BY <1>2, AreaFacts DEF FrameBytes
<1>3. CASE fmt = "yuv420p"
  <2>1. \A n \in Nat : RoundUp16(n) \in Nat /\ n \div 2 \in Nat
    BY DEF RoundUp16
  <2>2. s.w \in Nat /\ s.h \in Nat
    BY SizesAreRecords DEF AnySize, NoSize
  <2>3. \A m, n \in Nat : m * n \in Nat
    OBVIOUS
  <2> DEFINE stride == RoundUp16(s.w)
             chroma == RoundUp16(stride \div 2)
  <2>4. stride \in Nat /\ chroma \in Nat
    BY <2>1, <2>2
  <2>5. stride * s.h \in Nat /\ chroma * s.h \in Nat
    BY <2>2, <2>3, <2>4
  <2>6. stride * s.h + 2 * ((chroma * s.h) \div 2) \in Nat
    BY <2>1, <2>5
  <2> QED BY <1>3, <2>6 DEF FrameBytes
<1> QED BY <1>1, <1>2, <1>3

LEMMA CaptureFacts ==
    ASSUME NEW s \in Object
    PROVE  CaptureSize(s) \in Sizes
BY DEF Object, CaptureSize

LEMMA NeededFacts ==
    ASSUME NEW s \in Object
    PROVE  /\ Needed(s) \in [Heaps -> Nat]
           /\ Needed(s)["rawPreview"] = 2 * Area(CaptureSize(s))
           /\ Needed(s)["preview"] = FrameBytes(s.previewFmt, s.preview)
           /\ Needed(s)["recording"] = FrameBytes(s.videoFmt, s.video)
<1>. /\ s.preview \in AnySize /\ s.video \in AnySize /\ s.picture \in AnySize
     /\ CaptureSize(s) \in AnySize
     /\ {s.previewFmt, s.videoFmt} \subseteq
           {"yuv422i-yuyv", "yuv422sp", "yuv420sp", "yuv420p"}
  BY CaptureFacts, FormatsKnown DEF Object, AnySize
<1>1. /\ 2 * Area(CaptureSize(s)) \in Nat /\ 2 * Area(s.picture) \in Nat
      /\ FrameBytes(s.previewFmt, s.preview) \in Nat
      /\ FrameBytes(s.videoFmt, s.video) \in Nat
  BY AreaFacts, FrameBytesFacts
<1> QED BY <1>1 DEF Needed, Heaps

-----------------------------------------------------------------------------
(***************************************************************************)
(* The private functions.                                                  *)
(***************************************************************************)
\* s and r have the same parameters.
Same(s, r) ==
    /\ r.preview = s.preview /\ r.video = s.video /\ r.picture = s.picture
    /\ r.previewFmt = s.previewFmt /\ r.videoFmt = s.videoFmt
    /\ r.recording = s.recording /\ r.msgs = s.msgs
    /\ r.win = s.win /\ r.hasMemory = s.hasMemory

LEMMA SameFacts ==
    ASSUME NEW s, NEW r, Same(s, r)
    PROVE  CaptureSize(r) = CaptureSize(s) /\ Needed(r) = Needed(s)
BY DEF Same, CaptureSize, CapturesVideo, Needed

LEMMA SetCam ==
    ASSUME NEW s \in Object, NEW c \in Camera
    PROVE  /\ [s EXCEPT !.cam = c] \in Object /\ [s EXCEPT !.cam = c].cam = c
           /\ Same(s, [s EXCEPT !.cam = c])
           /\ [s EXCEPT !.cam = c].raw = s.raw
           /\ [s EXCEPT !.cam = c].thread = s.thread
           /\ [s EXCEPT !.cam = c].heap = s.heap
           /\ [s EXCEPT !.cam = c].bytes = s.bytes
           /\ [s EXCEPT !.cam = c].winSize = s.winSize
           /\ [s EXCEPT !.cam = c].released = s.released
BY DEF Object, Same

LEMMA StopPreviewFacts ==
    ASSUME NEW s \in Object
    PROVE  /\ StopPreview(s) \in Object /\ Covered(StopPreview(s).cam)
           /\ StopPreview(s).thread = NULL
           /\ Same(s, StopPreview(s))
<1> DEFINE c == Close(StopStreaming(Uninit(s.cam)))
<1>1. c \in Camera /\ Covered(c)
  BY UninitFacts, StopStreamingFacts, CloseFacts DEF Object
<1> HIDE DEF c
<1>2. /\ [s EXCEPT !.thread = NULL, !.cam = c] \in Object
      /\ [s EXCEPT !.thread = NULL, !.cam = c].cam = c
      /\ [s EXCEPT !.thread = NULL, !.cam = c].thread = NULL
      /\ Same(s, [s EXCEPT !.thread = NULL, !.cam = c])
  BY <1>1 DEF Object, Same
<1> QED BY <1>1, <1>2 DEF StopPreview, c

LEMMA ReallocateFacts ==
    ASSUME NEW s \in Object, NEW f
    PROVE  /\ Reallocate(s, f) \in Object
           /\ Reallocate(s, f).cam = s.cam /\ Reallocate(s, f).thread = s.thread
           /\ Reallocate(s, f).winSize = s.winSize
           /\ Same(s, Reallocate(s, f))
           /\ s.hasMemory => /\ Reallocate(s, f).raw = CaptureSize(s)
                             /\ Reallocate(s, f).bytes = Needed(s)
           /\ Reallocate(s, f).released \subseteq s.released \union Outgrown(s)
           /\ \A h \in Heaps \ Outgrown(s) : Reallocate(s, f).heap[h] = s.heap[h]
<1> DEFINE grown == Outgrown(s)
           heap == [h \in Heaps |-> IF h \in grown THEN h \notin f ELSE s.heap[h]]
           released == s.released \union {h \in grown : s.heap[h]}
           raw == CaptureSize(s)
           bytes == Needed(s)
           r == [s EXCEPT !.raw = raw, !.bytes = bytes, !.heap = heap,
                          !.released = released]
<1>1. raw \in AnySize /\ bytes \in [Heaps -> Nat]
  BY CaptureFacts, NeededFacts DEF AnySize
<1>2. heap \in [Heaps -> BOOLEAN] /\ \A h \in Heaps \ grown : heap[h] = s.heap[h]
  BY DEF Object
<1>3. released \in SUBSET Heaps /\ released \subseteq s.released \union grown
  BY DEF Object, Outgrown
<1>4. s.hasMemory => Reallocate(s, f) = r
  BY DEF Reallocate, Object
<1>5. ~s.hasMemory => Reallocate(s, f) = s
  BY DEF Reallocate
<1> HIDE DEF grown, heap, released, raw, bytes
<1>6. /\ r \in Object /\ r.cam = s.cam /\ r.thread = s.thread /\ r.winSize = s.winSize
      /\ Same(s, r) /\ r.raw = raw /\ r.bytes = bytes /\ r.released = released
      /\ r.heap = heap
  BY <1>1, <1>2, <1>3 DEF Object, Same
<1> HIDE DEF r
<1>7. CASE s.hasMemory
  <2> DEFINE t == Reallocate(s, f)
  <2>1. t = r
    BY <1>4, <1>7
  <2> HIDE DEF t
  <2>2. /\ t \in Object /\ t.cam = s.cam /\ t.thread = s.thread /\ t.winSize = s.winSize
        /\ Same(s, t) /\ t.raw = CaptureSize(s) /\ t.bytes = Needed(s)
        /\ t.released \subseteq s.released \union Outgrown(s)
    BY <1>3, <1>6, <2>1 DEF raw, bytes, grown
  <2>3. \A h \in Heaps \ Outgrown(s) : t.heap[h] = s.heap[h]
    BY <1>2, <1>6, <2>1 DEF grown
  <2> QED BY <2>2, <2>3 DEF t
<1>8. CASE ~s.hasMemory
  BY <1>5, <1>8 DEF Same
<1> QED BY <1>7, <1>8

LEMMA NegotiateFacts ==
    ASSUME NEW s \in Object, NEW f
    PROVE  /\ NegotiatePreviewFormat(s, f) \in Object
           /\ NegotiatePreviewFormat(s, f).winSize \in {CaptureSize(s), NoSize}
           /\ NegotiatePreviewFormat(s, f).cam = s.cam
           /\ NegotiatePreviewFormat(s, f).raw = s.raw
           /\ NegotiatePreviewFormat(s, f).bytes = s.bytes
           /\ NegotiatePreviewFormat(s, f).heap = s.heap
           /\ NegotiatePreviewFormat(s, f).thread = s.thread
           /\ NegotiatePreviewFormat(s, f).released = s.released
           /\ Same(s, NegotiatePreviewFormat(s, f))
<1> DEFINE w == IF "geometry" \in f THEN NoSize ELSE CaptureSize(s)
<1>1. w \in AnySize /\ w \in {CaptureSize(s), NoSize}
  BY CaptureFacts DEF AnySize
<1>2. NegotiatePreviewFormat(s, f) = [s EXCEPT !.winSize = w]
  BY DEF NegotiatePreviewFormat
<1> HIDE DEF w
<1> QED BY <1>1, <1>2 DEF Object, Same

LEMMA RunningFacts ==
    ASSUME NEW s \in Object, NEW f, NEW p \in Previews
    PROVE  /\ Running(s, f, p) \in Object
           /\ Running(s, f, p).thread = p
           /\ Running(s, f, p).cam = s.cam
           /\ Running(s, f, p).raw = s.raw
           /\ Running(s, f, p).bytes = s.bytes
           /\ s.win => Running(s, f, p).winSize \in {CaptureSize(s), NoSize}
           /\ Same(s, Running(s, f, p))
<1> DEFINE w == IF s.win THEN NegotiatePreviewFormat(s, f) ELSE s
<1>1. /\ w \in Object /\ w.cam = s.cam /\ w.raw = s.raw /\ w.bytes = s.bytes
      /\ Same(s, w) /\ (s.win => w.winSize \in {CaptureSize(s), NoSize})
  BY NegotiateFacts DEF Same
<1> HIDE DEF w
<1>2. /\ [w EXCEPT !.thread = p] \in Object /\ [w EXCEPT !.thread = p].thread = p
      /\ [w EXCEPT !.thread = p].cam = w.cam /\ [w EXCEPT !.thread = p].raw = w.raw
      /\ [w EXCEPT !.thread = p].bytes = w.bytes
      /\ [w EXCEPT !.thread = p].winSize = w.winSize
      /\ Same(w, [w EXCEPT !.thread = p])
  BY <1>1 DEF Object, Same
<1>3. Running(s, f, p) = [w EXCEPT !.thread = p]
  BY DEF Running, w
<1> QED BY <1>1, <1>2, <1>3 DEF Same

LEMMA NoThread ==
    ASSUME NEW s, s.thread = NULL
    PROVE  Runs(s) /\ Settled(s)
BY DEF Runs, Settled

\* A preview that has started works with the device, the sizes and the heaps
\* of the parameters.
LEMMA StartPreviewFacts ==
    ASSUME NEW s \in Object, Covered(s.cam), s.hasMemory, s.thread = NULL,
           NEW f, NEW p \in Previews
    PROVE  /\ Good(StartPreview(s, f, p)) /\ Settled(StartPreview(s, f, p))
           /\ StartPreview(s, f, p).thread \in {NULL, p}
<1> DEFINE size   == CaptureSize(s)
           c1     == Open(s.cam, f)
           opened == [s EXCEPT !.cam = c1]
           c2     == SetUp(c1, size, f)
           set    == [opened EXCEPT !.cam = c2]
           grown  == Reallocate(set, f)
           c3     == StartStreaming(c2, f)
           on     == [grown EXCEPT !.cam = c3]
           run    == Running(on, f, p)
<1>1. size \in AnySize
  BY CaptureFacts DEF AnySize
<1>2. c1 \in Camera /\ Covered(c1) /\ c1.open = ("open" \notin f)
  BY OpenFacts DEF Object
<1> HIDE DEF c1, size
<1>3. opened \in Object /\ Same(s, opened) /\ opened.cam = c1 /\ opened.thread = NULL
  BY <1>2, SetCam
<1> HIDE DEF opened
<1>4. /\ c2 \in Camera /\ Covered(c2) /\ c2.open = c1.open
      /\ ~InitFails(f) => c2.mapped /\ c2.out = size
  BY <1>1, <1>2, SetUpFacts
<1> HIDE DEF c2
<1>5. set \in Object /\ Same(opened, set) /\ set.cam = c2 /\ set.thread = NULL
  BY <1>3, <1>4, SetCam
<1> HIDE DEF set
<1>6. Same(s, set) /\ set.hasMemory
  BY <1>3, <1>5 DEF Same
<1>7. CaptureSize(set) = size /\ Needed(set) = Needed(s) /\ CaptureSize(opened) = size
  BY <1>3, <1>6, SameFacts DEF size
<1>8. /\ grown \in Object /\ Same(set, grown) /\ grown.cam = c2 /\ grown.thread = NULL
      /\ grown.raw = size /\ grown.bytes = Needed(s)
  BY <1>5, <1>6, <1>7, ReallocateFacts
<1> HIDE DEF grown
<1>9. /\ c3 \in Camera /\ Covered(c3) /\ c3.open = c2.open /\ c3.mapped = c2.mapped
      /\ c3.out = c2.out
  BY <1>4, StartStreamingFacts
<1> HIDE DEF c3
<1>10. /\ on \in Object /\ Same(grown, on) /\ on.cam = c3 /\ on.thread = NULL
       /\ on.raw = size /\ on.bytes = Needed(s)
  BY <1>8, <1>9, SetCam
<1> HIDE DEF on
<1>11. Same(s, on)
  BY <1>6, <1>8, <1>10 DEF Same
<1>12. CaptureSize(on) = size
  BY <1>11, SameFacts DEF size
<1>13. /\ run \in Object /\ run.thread = p /\ run.cam = c3 /\ run.raw = size
       /\ run.bytes = Needed(s) /\ Same(on, run)
       /\ on.win => run.winSize \in {size, NoSize}
  BY <1>10, <1>12, RunningFacts
<1> HIDE DEF run
<1>14. Same(s, run)
  BY <1>11, <1>13 DEF Same
<1> DEFINE r == StartPreview(s, f, p)
<1>15. CASE r = opened
  BY <1>2, <1>3, <1>15, NoThread DEF Good
<1>16. CASE r = set
  BY <1>4, <1>5, <1>16, NoThread DEF Good
<1>17. CASE r = on
  BY <1>9, <1>10, <1>17, NoThread DEF Good
<1>18. CASE r = run /\ c3.open /\ c3.streaming /\ ~InitFails(f)
  <2>1. CaptureSize(run) = size /\ Needed(run) = Needed(s)
    BY <1>14, SameFacts DEF size
  <2>2. Settled(run)
    BY <1>13, <2>1 DEF Settled
  <2>3. c3.mapped /\ c3.out = run.raw
    BY <1>4, <1>9, <1>13, <1>18
  <2>4. run.win => on.win
    BY <1>13 DEF Same
  <2>5. run.hasMemory
    BY <1>14 DEF Same
  <2>6. Runs(run)
    BY <1>13, <1>18, <2>3, <2>4, <2>5 DEF Runs
  <2> QED BY <1>9, <1>13, <1>18, <2>2, <2>6 DEF Good
<1>19. \/ r = opened \/ r = set \/ r = on
       \/ r = run /\ c3.open /\ c3.streaming /\ ~InitFails(f)
  <2>1. r = IF ~opened.cam.open THEN opened
            ELSE IF InitFails(f) THEN set
            ELSE IF on.cam.streaming THEN run ELSE on
    BY <1>3, <1>5, <1>7, <1>8
       DEF StartPreview, opened, c1, set, c2, size, grown, on, c3, run
  <2> QED BY <1>3, <1>4, <1>9, <1>10, <2>1
<1> QED BY <1>15, <1>16, <1>17, <1>18, <1>19

\* initHeapLocked() that stops the preview, after its thread has ended.
LEMMA RestartFacts ==
    ASSUME NEW s \in Object, s.thread # NULL, StopsPreview(s),
           NEW f, NEW p \in Previews
    PROVE  /\ Good(InitHeap(s, f, p)) /\ Settled(InitHeap(s, f, p))
           /\ InitHeap(s, f, p).thread \in {NULL, p}
<1> DEFINE stopped == StopPreview(s)
           grown   == Reallocate(stopped, f)
<1>1. /\ stopped \in Object /\ Covered(stopped.cam) /\ stopped.thread = NULL
      /\ Same(s, stopped)
  BY StopPreviewFacts
<1> HIDE DEF stopped
<1>2. /\ grown \in Object /\ grown.cam = stopped.cam /\ grown.thread = NULL
      /\ Same(stopped, grown)
  BY <1>1, ReallocateFacts
<1> HIDE DEF grown
<1>3. grown.hasMemory
  BY <1>1, <1>2 DEF Same, StopsPreview
<1>4. InitHeap(s, f, p) = StartPreview(grown, f, p)
  BY DEF InitHeap, grown, stopped
<1> QED BY <1>1, <1>2, <1>3, <1>4, StartPreviewFacts

\* initHeapLocked() that leaves a running preview alone: it keeps the heaps
\* the preview thread hands out.
LEMMA ReallocateKeeps ==
    ASSUME NEW s, Good(s), s.released = {}, NEW f, NEW p,
           ~(s.thread # NULL /\ StopsPreview(s))
    PROVE  /\ Good(InitHeap(s, f, p)) /\ Settled(InitHeap(s, f, p))
           /\ InitHeap(s, f, p).thread = s.thread
           /\ s.thread # NULL => \A h \in FrameHeaps :
                 /\ InitHeap(s, f, p).heap[h] = s.heap[h]
                 /\ h \notin InitHeap(s, f, p).released
<1> DEFINE r == Reallocate(s, f)
<1>1. InitHeap(s, f, p) = r
  BY DEF InitHeap
<1>2. s \in Object /\ Covered(s.cam) /\ Runs(s)
  BY DEF Good
<1>3. /\ r \in Object /\ r.cam = s.cam /\ r.thread = s.thread /\ r.winSize = s.winSize
      /\ Same(s, r) /\ (s.hasMemory => r.raw = CaptureSize(s) /\ r.bytes = Needed(s))
      /\ r.released \subseteq Outgrown(s)
      /\ \A h \in Heaps \ Outgrown(s) : r.heap[h] = s.heap[h]
  BY <1>2, ReallocateFacts
<1> HIDE DEF r
<1>4. CASE s.thread = NULL
  BY <1>1, <1>2, <1>3, <1>4, NoThread DEF Good
<1>5. CASE s.thread # NULL
  <2>1. s.hasMemory /\ s.raw = CaptureSize(s)
    BY <1>2, <1>5 DEF Runs, StopsPreview
  <2>2. Outgrown(s) \intersect {"rawPreview", "preview", "recording"} = {}
    BY <1>2, <1>5 DEF Runs, StopsPreview
  <2>3. r.hasMemory /\ r.win = s.win
    BY <1>3, <2>1 DEF Same
  <2>4. Runs(r)
    BY <1>2, <1>3, <1>5, <2>1, <2>3 DEF Runs
  <2>5. Settled(r)
    BY <1>3, <2>1, SameFacts DEF Settled
  <2>6. FrameHeaps \subseteq Heaps \ Outgrown(s)
    BY <2>2 DEF FrameHeaps, Heaps
  <2>7. \A h \in FrameHeaps : r.heap[h] = s.heap[h] /\ h \notin r.released
    BY <1>3, <2>6
  <2> QED BY <1>1, <1>2, <1>3, <2>4, <2>5, <2>7 DEF Good
<1> QED BY <1>4, <1>5

LEMMA TakePictureFacts ==
    ASSUME NEW s \in Object, Covered(s.cam), s.thread = NULL, NEW f
    PROVE  /\ Good(TakePictureLocked(s, f))
           /\ TakePictureLocked(s, f).thread = NULL
<1> DEFINE c1     == Open(s.cam, f)
           opened == [s EXCEPT !.cam = c1]
           c2     == SetUp(opened.cam, s.picture, f)
           set    == [opened EXCEPT !.cam = c2]
           out    == set.cam.out
           sized  == [set EXCEPT !.picture = out]
           grown  == Reallocate(sized, f)
           heap   == [grown.heap EXCEPT !["jpeg"] = "jpeg" \notin f]
           rel    == grown.released \union {h \in {"jpeg"} : grown.heap[h]}
           jpeg   == IF "jpeg" \notin s.msgs THEN grown
                     ELSE [grown EXCEPT !.heap = heap, !.released = rel]
           c4     == Close(StopStreaming(Uninit(StartStreaming(jpeg.cam, f))))
           closed == [jpeg EXCEPT !.cam = c4]
<1>1. c1 \in Camera /\ Covered(c1)
  BY OpenFacts DEF Object
<1> HIDE DEF c1
<1>2. opened \in Object /\ opened.cam = c1 /\ opened.thread = NULL
  BY <1>1, SetCam
<1>3. s.picture \in AnySize
  BY DEF Object
<1>4. c2 \in Camera /\ Covered(c2) /\ c2.out \in AnySize
  BY <1>1, <1>2, <1>3, SetUpFacts DEF Camera
<1> HIDE DEF opened, c2
<1>5. set \in Object /\ set.cam = c2 /\ set.thread = NULL
  BY <1>2, <1>4, SetCam
<1> HIDE DEF set
<1>6. sized \in Object /\ sized.cam = c2 /\ sized.thread = NULL
  <2>1. out \in AnySize
    BY <1>4, <1>5 DEF out
  <2> HIDE DEF out
  <2> QED BY <1>5, <2>1 DEF Object
<1> HIDE DEF sized, out
<1>7. grown \in Object /\ grown.cam = c2 /\ grown.thread = NULL
  BY <1>6, ReallocateFacts
<1> HIDE DEF grown
<1>8. heap \in [Heaps -> BOOLEAN] /\ rel \in SUBSET Heaps
  BY <1>7 DEF Object, Heaps
<1> HIDE DEF heap, rel
<1>9. jpeg \in Object /\ jpeg.cam = c2 /\ jpeg.thread = NULL
  BY <1>7, <1>8 DEF Object
<1>10. c4 \in Camera /\ Covered(c4)
  BY <1>4, <1>9, StartStreamingFacts, UninitFacts, StopStreamingFacts, CloseFacts
<1> HIDE DEF jpeg, c4
<1>11. closed \in Object /\ closed.cam = c4 /\ closed.thread = NULL
  BY <1>9, <1>10, SetCam
<1> HIDE DEF closed
<1>12. TakePictureLocked(s, f) = IF ~opened.cam.open THEN opened ELSE closed
  BY DEF TakePictureLocked, opened, c1, set, c2, sized, out, grown, jpeg, heap, rel,
         closed, c4
<1> QED BY <1>1, <1>2, <1>10, <1>11, <1>12, NoThread DEF Good

-----------------------------------------------------------------------------
(***************************************************************************)
(* Giving mLock back.                                                      *)
(***************************************************************************)
Ended == \A p \in Previews : pc[p] = "dead"

\* The preview thread has ended, or goes on with the heaps it hands out.
Undisturbed(s) ==
    \/ Ended
    \/ /\ mLock = NULL /\ s.thread = hw.thread
       /\ \A h \in FrameHeaps : (hw.heap[h] => s.heap[h]) /\ h \notin s.released

LEMMA Disjoint ==
    /\ \A t \in Callers : t \notin Pictures /\ t \notin Previews /\ t \in Threads
    /\ \A k \in Pictures : k \notin Previews /\ k \in Threads
    /\ \A p \in Previews : p \in Threads
    /\ NULL \notin Threads
BY ThreadsDiffer DEF Threads

LEMMA NoPreviewEnded ==
    ASSUME IInv, hw.thread = NULL
    PROVE  Ended
BY Disjoint DEF IInv, Alive, Ended

LEMMA JoinedEnded ==
    ASSUME IInv, hw.thread # NULL, pc[hw.thread] = "dead"
    PROVE  Ended
BY DEF IInv, Alive, Ended

LEMMA ObjectKept ==
    ASSUME NEW s, Good(s), Settled(s), hw' = [s EXCEPT !.released = {}]
    PROVE  /\ Good(hw') /\ Settled(hw') /\ hw'.released = {}
           /\ hw'.heap = s.heap /\ hw'.thread = s.thread
<1> DEFINE r == [s EXCEPT !.released = {}]
<1>1. s \in Object /\ Covered(s.cam) /\ Runs(s)
  BY DEF Good
<1>2. /\ r \in Object /\ Same(s, r) /\ r.released = {} /\ r.cam = s.cam /\ r.raw = s.raw
      /\ r.bytes = s.bytes /\ r.heap = s.heap /\ r.thread = s.thread
      /\ r.winSize = s.winSize
  BY <1>1 DEF Object, Same
<1> HIDE DEF r
<1>3. CaptureSize(r) = CaptureSize(s) /\ Needed(r) = Needed(s)
  BY <1>2, SameFacts
<1>4. Runs(r)
  BY <1>1, <1>2 DEF Runs, Same
<1>5. Settled(r)
  BY <1>2, <1>3 DEF Settled
<1>6. hw' = r
  BY DEF r
<1> QED BY <1>1, <1>2, <1>4, <1>5, <1>6 DEF Good

\* The first message of a frame hands out a heap of the preview that exists.
LEMMA FirstOfFrame ==
    ASSUME IInv, NEW p \in Previews, InCallback(p)
    PROVE  /\ Head(todo[p]) \in {"preview", "video"}
           /\ HeapOf(Head(todo[p])) \in FrameHeaps
           /\ hw.heap[HeapOf(Head(todo[p]))]
<1>1. p \in Threads /\ todo[p] \in Seq(Msgs) /\ todo[p] # <<>>
  BY Disjoint DEF IInv, Delivering
<1>2. 1 \in 1..Len(todo[p]) /\ Head(todo[p]) = todo[p][1]
  BY <1>1
<1>3. Frames(p)
  BY DEF IInv, Delivering, InCallback
<1>4. Head(todo[p]) \in {"preview", "video"} /\ hw.heap[HeapOf(Head(todo[p]))]
  BY <1>2, <1>3 DEF Frames
<1> QED BY <1>4 DEF HeapOf, FrameHeaps

LEMMA ReleaseInv ==
    ASSUME IInv, NEW t \in Callers \union Pictures, NEW s, NEW l,
           Good(s), Settled(s), Undisturbed(s), Store(s), mLock \in {NULL, t},
           mLock' = NULL, pc' = Moves(t, l, s), exitPending' = exitPending,
           t \in Callers => l = "idle", t \in Pictures => l = "callbacks",
           todo' \in [Threads -> Seq(Msgs)],
           \A u \in Threads \ {t} : todo'[u] = todo[u]
    PROVE  IInv'
<1>1. Good(hw') /\ Settled(hw') /\ hw'.released = {} /\ hw'.heap = s.heap
      /\ hw'.thread = s.thread
  BY ObjectKept DEF Store
<1>2. s.thread \in Previews \union {NULL}
  BY DEF Good, Object
<1>3. t \in Threads /\ t \notin Previews
  BY Disjoint
<1>4. /\ DOMAIN pc' = Threads /\ pc'[t] = l
      /\ \A u \in Threads \ {t} : \/ pc'[u] = pc[u]
                                  \/ u = s.thread /\ pc[u] = "dead" /\ pc'[u] = "check"
      /\ s.thread # NULL => pc'[s.thread] # "dead"
  BY <1>2, <1>3, Disjoint DEF Moves
<1>5. \A p \in Previews : pc[p] # "dead" => p = s.thread
  BY DEF IInv, Alive, Undisturbed, Ended
<1>6. \A p \in Previews : ~exitPending[p]
  BY DEF IInv, Alive, Undisturbed, Ended
<1>7. ObjectInv'
  BY <1>1 DEF ObjectInv
<1>8. Placed'
  <2>1. pc' = [u \in Threads |-> pc'[u]]
    BY DEF Moves
  <2>2. \A u \in Callers : pc'[u] \in CallerPlaces
    BY <1>2, <1>4, Disjoint DEF IInv, Placed, CallerPlaces
  <2>3. \A k \in Pictures : pc'[k] \in PicturePlaces
    BY <1>2, <1>4, Disjoint DEF IInv, Placed, PicturePlaces
  <2>4. \A p \in Previews : pc'[p] \in PreviewPlaces
    BY <1>3, <1>4, Disjoint DEF IInv, Placed, PreviewPlaces
  <2> QED BY <1>4, <2>1, <2>2, <2>3, <2>4 DEF Placed
<1>9. Locked'
  <2>1. ~Joining(t)'
    BY <1>4 DEF Joining
  <2>2. \A u \in Threads \ {t} : ~Joining(u)
    BY <1>3, Disjoint DEF IInv, Locked
  <2>3. \A u \in Threads : ~Joining(u)'
    BY <1>4, <2>1, <2>2 DEF Joining
  <2>4. \A u \in Callers : pc'[u] # "joinHeaps"
    BY <2>3, Disjoint DEF Joining
  <2> QED BY <2>3, <2>4, Disjoint DEF Locked
<1>10. Alive'
  <2>1. \A p \in Previews : pc'[p] # "dead" => hw'.thread = p
    BY <1>1, <1>3, <1>4, <1>5, Disjoint
  <2>2. exitPending' \in [Previews -> BOOLEAN] /\ \A p \in Previews : ~exitPending'[p]
    BY <1>6 DEF IInv, Alive
  <2> QED BY <1>1, <1>4, <2>1, <2>2 DEF Alive
<1>11. Delivering'
  <2>1. \A u \in Threads : InCallback(u)' => u # t /\ InCallback(u)
    BY <1>4 DEF InCallback
  <2>2. \A u \in Threads : InCallback(u)' => todo'[u] # <<>>
    BY <2>1 DEF IInv, Delivering
  <2>3. ASSUME NEW p \in Previews, pc'[p] \in {"callbacks", "inCallback", "reenter"}
        PROVE  Frames(p)'
    <3>1. todo'[p] = todo[p] /\ pc[p] = pc'[p]
      BY <1>3, <1>4, <2>3, Disjoint
    <3>2. \A h \in FrameHeaps : hw.heap[h] => hw'.heap[h]
      BY <1>1, <2>3, <3>1 DEF Undisturbed, Ended
    <3>3. Frames(p)
      BY <2>3, <3>1 DEF IInv, Delivering
    <3>4. \A m \in {"preview", "video"} : HeapOf(m) \in FrameHeaps
      BY DEF HeapOf, FrameHeaps
    <3> QED BY <3>1, <3>2, <3>3, <3>4 DEF Frames
  <2>4. dangling' \subseteq Pictures
    <3>1. ASSUME NEW u \in Threads, InCallback(u), HeapOf(Head(todo[u])) \in s.released
          PROVE  u \in Pictures
      <4>1. u \notin Callers
        BY <3>1 DEF InCallback, IInv, Placed, CallerPlaces
      <4>2. ASSUME u \in Previews PROVE FALSE
        <5>1. HeapOf(Head(todo[u])) \in FrameHeaps
          BY <3>1, <4>2, FirstOfFrame
        <5>2. pc[u] # "dead"
          BY <3>1 DEF InCallback
        <5> QED BY <3>1, <4>2, <5>1, <5>2 DEF Undisturbed, Ended
      <4> QED BY <4>1, <4>2 DEF Threads
    <3>2. dangling \subseteq Pictures
      BY DEF IInv, Delivering
    <3> QED BY <3>1, <3>2 DEF Store
  <2> QED BY <2>2, <2>3, <2>4 DEF Delivering
<1> QED BY <1>7, <1>8, <1>9, <1>10, <1>11 DEF IInv

LEMMA LeaveInv ==
    ASSUME IInv, NEW t \in Callers, NEW s, Good(s), Settled(s), Undisturbed(s),
           mLock \in {NULL, t}, Leave(t, s)
    PROVE  IInv'
<1>1. t \notin Pictures
  BY Disjoint
<1>2. todo \in [Threads -> Seq(Msgs)]
  BY DEF IInv, Delivering
<1> QED BY <1>1, <1>2, ReleaseInv DEF Leave

\* Waiting for the preview thread: mLock is taken, and the object, which may
\* have new parameters, keeps the thread and its heaps.
LEMMA JoinInv ==
    ASSUME IInv, NEW t \in Callers \union Pictures, NEW s, NEW l, mLock = NULL,
           Good(s), s.released = {}, hw.thread # NULL, s.thread = hw.thread,
           s.heap = hw.heap, Join(t, s, l),
           t \in Callers => l \in {"joinStop", "joinHeaps"},
           t \in Pictures => l = "joinPicture",
           l = "joinHeaps" => StopsPreview(s)
    PROVE  IInv'
<1>1. t \in Threads /\ t \notin Previews /\ t # NULL
  BY Disjoint
<1>2. /\ DOMAIN pc' = Threads /\ pc' = [u \in Threads |-> pc'[u]] /\ pc'[t] = l
      /\ \A u \in Threads \ {t} : pc'[u] = pc[u]
  BY <1>1 DEF IInv, Placed, Join
<1>3. hw.thread \in Previews /\ pc[hw.thread] # "dead"
  BY DEF IInv, Alive, Good, Object
<1>4. ObjectInv'
  BY <1>1 DEF ObjectInv, Join
<1>5. Placed'
  <2>1. /\ \A u \in Callers : pc'[u] \in CallerPlaces
        /\ \A k \in Pictures : pc'[k] \in PicturePlaces
    BY <1>2, Disjoint DEF IInv, Placed, CallerPlaces, PicturePlaces
  <2>2. \A p \in Previews : pc'[p] \in PreviewPlaces
    BY <1>1, <1>2, Disjoint DEF IInv, Placed
  <2> QED BY <1>2, <2>1, <2>2 DEF Placed
<1>6. Locked'
  <2>1. mLock' = t /\ hw'.thread # NULL /\ StopsPreview(hw') = StopsPreview(s)
    BY DEF Join
  <2>2. Joining(t)'
    BY <1>2, Disjoint DEF Joining
  <2>3. \A u \in Threads \ {t} : ~Joining(u)'
    BY <1>2, Disjoint DEF Joining, IInv, Locked
  <2>4. \A u \in Callers : pc'[u] = "joinHeaps" => StopsPreview(hw')
    <3>1. ASSUME NEW u \in Callers, pc'[u] = "joinHeaps" PROVE u = t
      BY <2>3, <3>1, Disjoint DEF Joining
    <3> QED BY <1>2, <2>1, <3>1
  <2> QED BY <1>1, <2>1, <2>2, <2>3, <2>4 DEF Locked
<1>7. Alive'
  <2>1. \A p \in Previews : pc'[p] = pc[p]
    BY <1>1, <1>2, Disjoint
  <2>2. mLock' # NULL /\ hw'.thread = hw.thread
    BY <1>1 DEF Join
  <2>3. /\ exitPending' \in [Previews -> BOOLEAN]
        /\ \A p \in Previews : exitPending'[p] => exitPending[p] \/ p = hw.thread
    BY DEF IInv, Alive, Join
  <2> QED BY <1>3, <2>1, <2>2, <2>3 DEF IInv, Alive
<1>8. Delivering'
  <2>1. todo' = todo /\ dangling' = dangling /\ hw'.heap = hw.heap
    BY DEF Join
  <2>2. \A u \in Threads : InCallback(u)' => InCallback(u)
    BY <1>1, <1>2, Disjoint DEF InCallback
  <2>3. \A p \in Previews : pc'[p] = pc[p]
    BY <1>1, <1>2, Disjoint
  <2> QED BY <2>1, <2>2, <2>3 DEF IInv, Delivering, Frames
<1> QED BY <1>4, <1>5, <1>6, <1>7, <1>8 DEF IInv

-----------------------------------------------------------------------------
(***************************************************************************)
(* The calls of the camera service.                                        *)
(***************************************************************************)
LEMMA HeapInv ==
    ASSUME IInv, NEW t \in Callers, mLock = NULL, NEW s, Good(s), s.released = {},
           s.thread = hw.thread, s.heap = hw.heap, Heap(t, s)
    PROVE  IInv'
<1>1. CASE s.thread # NULL /\ StopsPreview(s)
  BY <1>1, JoinInv, Disjoint DEF Heap
<1>2. CASE ~(s.thread # NULL /\ StopsPreview(s))
  <2>1. PICK f \in Failures : Leave(t, InitHeap(s, f, NULL))
    BY <1>2 DEF Heap
  <2> DEFINE r == InitHeap(s, f, NULL)
  <2>2. /\ Good(r) /\ Settled(r) /\ r.thread = s.thread
        /\ s.thread # NULL => \A h \in FrameHeaps :
                 r.heap[h] = s.heap[h] /\ h \notin r.released
    BY <1>2, ReallocateKeeps
  <2> HIDE DEF r
  <2>3. Undisturbed(r)
    BY <2>2, NoPreviewEnded DEF Undisturbed
  <2> QED BY <2>1, <2>2, <2>3, LeaveInv DEF r
<1> QED BY <1>1, <1>2

\* What a call that only changes parameters keeps of the object.
OnlyParameters(s) ==
    /\ s \in Object
    /\ s.thread = hw.thread /\ s.hasMemory = hw.hasMemory /\ s.cam = hw.cam
    /\ s.raw = hw.raw /\ s.win = hw.win /\ s.winSize = hw.winSize
    /\ s.heap = hw.heap /\ s.bytes = hw.bytes /\ s.released = hw.released

LEMMA ParametersGood ==
    ASSUME IInv, NEW s, OnlyParameters(s)
    PROVE  Good(s) /\ s.released = {}
BY DEF IInv, ObjectInv, Good, OnlyParameters, Runs

LEMMA ParametersHeapInv ==
    ASSUME IInv, NEW t \in Callers, mLock = NULL, NEW s, OnlyParameters(s), Heap(t, s)
    PROVE  IInv'
<1>1. Good(s) /\ s.released = {}
  BY ParametersGood
<1>2. s.thread = hw.thread /\ s.heap = hw.heap
  BY DEF OnlyParameters
<1> QED BY <1>1, <1>2, HeapInv

\* Parameters that change neither the captured size nor that of a heap.
LEMMA ParametersSettled ==
    ASSUME IInv, mLock = NULL, NEW s, OnlyParameters(s),
           CaptureSize(s) = CaptureSize(hw), Needed(s) = Needed(hw)
    PROVE  Settled(s)
BY DEF IInv, ObjectInv, OnlyParameters, Settled

LEMMA ParametersLeaveInv ==
    ASSUME IInv, NEW t \in Callers, mLock = NULL, NEW s, OnlyParameters(s),
           CaptureSize(s) = CaptureSize(hw), Needed(s) = Needed(hw), Leave(t, s)
    PROVE  IInv'
<1>1. Good(s) /\ s.released = {}
  BY ParametersGood
<1>2. Settled(s)
  BY ParametersSettled
<1>3. Undisturbed(s)
  BY <1>1 DEF OnlyParameters, Undisturbed
<1> QED BY <1>1, <1>2, <1>3, LeaveInv

LEMMA HwObject ==
    ASSUME IInv
    PROVE  hw \in Object /\ Covered(hw.cam) /\ Runs(hw) /\ hw.released = {}
BY DEF IInv, ObjectInv, Good

LEMMA SetCallbacksInv ==
    ASSUME IInv, NEW t \in Callers, SetCallbacks(t)
    PROVE  IInv'
<1> DEFINE s == [hw EXCEPT !.hasMemory = TRUE]
<1>1. hw \in Object /\ Covered(hw.cam) /\ Runs(hw)
  BY HwObject
<1>2. mLock = NULL /\ ~hw.hasMemory /\ Leave(t, s)
  BY DEF SetCallbacks, Enters
<1>3. hw.thread = NULL
  BY <1>1, <1>2 DEF Runs
<1>4. s \in Object /\ s.thread = NULL /\ s.cam = hw.cam
  BY <1>1, <1>3 DEF Object
<1> HIDE DEF s
<1>5. Good(s) /\ Settled(s)
  BY <1>1, <1>4, NoThread DEF Good
<1>6. Undisturbed(s)
  BY <1>3, NoPreviewEnded DEF Undisturbed
<1> QED BY <1>2, <1>5, <1>6, LeaveInv

LEMMA SetPreviewWindowInv ==
    ASSUME IInv, NEW t \in Callers, SetPreviewWindow(t)
    PROVE  IInv'
<1>1. hw \in Object /\ Covered(hw.cam) /\ Runs(hw) /\ hw.released = {}
  BY HwObject
<1>2. mLock = NULL
  BY DEF SetPreviewWindow, Calls, Enters
<1>3. PICK win \in BOOLEAN, f \in Failures :
          LET s == [hw EXCEPT !.win = win]
          IN  Leave(t, IF win /\ s.thread # NULL THEN NegotiatePreviewFormat(s, f)
                                                 ELSE s)
  BY DEF SetPreviewWindow
<1> DEFINE s == [hw EXCEPT !.win = win]
           r == IF win /\ s.thread # NULL THEN NegotiatePreviewFormat(s, f) ELSE s
<1>4. Leave(t, r)
  BY <1>3
<1>5. /\ s \in Object /\ s.win = win /\ s.thread = hw.thread /\ s.cam = hw.cam
      /\ s.raw = hw.raw /\ s.bytes = hw.bytes /\ s.heap = hw.heap /\ s.released = {}
      /\ s.hasMemory = hw.hasMemory
  BY <1>1 DEF Object
<1>6. CaptureSize(s) = CaptureSize(hw) /\ Needed(s) = Needed(hw)
  BY <1>1 DEF Object, CaptureSize, CapturesVideo, Needed
<1> HIDE DEF s
<1>7. /\ r \in Object /\ Same(s, r) /\ r.thread = hw.thread /\ r.cam = hw.cam
      /\ r.raw = hw.raw /\ r.bytes = hw.bytes /\ r.heap = hw.heap /\ r.released = {}
      /\ win /\ hw.thread # NULL => r.winSize \in {CaptureSize(s), NoSize}
  BY <1>5, NegotiateFacts DEF Same
<1> HIDE DEF r
<1>8. CaptureSize(r) = CaptureSize(hw) /\ Needed(r) = Needed(hw)
  BY <1>6, <1>7, SameFacts
<1>9. Settled(hw)
  BY <1>2 DEF IInv, ObjectInv
<1>10. Settled(r)
  BY <1>7, <1>8, <1>9 DEF Settled
<1>11. r.win = win /\ r.hasMemory = hw.hasMemory
  BY <1>5, <1>7 DEF Same
<1>12. Runs(r)
  BY <1>1, <1>6, <1>7, <1>9, <1>11 DEF Runs, Settled
<1>13. Undisturbed(r)
  BY <1>2, <1>7 DEF Undisturbed
<1> QED BY <1>1, <1>2, <1>4, <1>7, <1>10, <1>12, <1>13, LeaveInv DEF Good

\* Messages other than "video", and "video" when nothing is recorded, do not
\* change what is captured.
LEMMA MessagesFacts ==
    ASSUME IInv, NEW msgs \in SUBSET Msgs
    PROVE  LET s == [hw EXCEPT !.msgs = msgs]
           IN  /\ OnlyParameters(s) /\ s.recording = hw.recording /\ s.msgs = msgs
               /\ (hw.recording => ("video" \in msgs <=> "video" \in hw.msgs)) =>
                     CaptureSize(s) = CaptureSize(hw) /\ Needed(s) = Needed(hw)
<1> DEFINE s == [hw EXCEPT !.msgs = msgs]
<1>1. hw \in Object
  BY HwObject
<1>2. OnlyParameters(s)
  BY <1>1 DEF OnlyParameters, Object
<1>3. /\ s.recording = hw.recording /\ s.msgs = msgs /\ s.preview = hw.preview
      /\ s.video = hw.video /\ s.picture = hw.picture
      /\ s.previewFmt = hw.previewFmt /\ s.videoFmt = hw.videoFmt
  BY <1>1 DEF Object
<1> HIDE DEF s
<1>4. ASSUME hw.recording => ("video" \in msgs <=> "video" \in hw.msgs)
      PROVE  CaptureSize(s) = CaptureSize(hw) /\ Needed(s) = Needed(hw)
  <2>1. CaptureSize(s) = CaptureSize(hw)
    BY <1>3, <1>4 DEF CaptureSize, CapturesVideo
  <2> QED BY <1>3, <2>1 DEF Needed
<1> QED BY <1>2, <1>3, <1>4 DEF s

MessageCall(t, m, msgs) ==
    LET s == [hw EXCEPT !.msgs = msgs]
    IN  IF m = "video" /\ s.recording THEN Heap(t, s) ELSE Leave(t, s)

LEMMA MessageCallInv ==
    ASSUME IInv, NEW t \in Callers, mLock = NULL, NEW m, NEW msgs \in SUBSET Msgs,
           m # "video" => ("video" \in msgs <=> "video" \in hw.msgs),
           MessageCall(t, m, msgs)
    PROVE  IInv'
<1> DEFINE s == [hw EXCEPT !.msgs = msgs]
<1>1. OnlyParameters(s) /\ s.recording = hw.recording
  BY MessagesFacts
<1>2. IF m = "video" /\ s.recording THEN Heap(t, s) ELSE Leave(t, s)
  BY DEF MessageCall
<1>3. ~(m = "video" /\ s.recording) =>
          CaptureSize(s) = CaptureSize(hw) /\ Needed(s) = Needed(hw)
  <2>1. ~(m = "video" /\ s.recording) =>
            (hw.recording => ("video" \in msgs <=> "video" \in hw.msgs))
    BY <1>1
  <2> QED BY <2>1, MessagesFacts
<1> HIDE DEF s
<1> QED BY <1>1, <1>2, <1>3, ParametersHeapInv, ParametersLeaveInv

LEMMA EnableMsgTypeInv ==
    ASSUME IInv, NEW t \in Callers, EnableMsgType(t)
    PROVE  IInv'
<1>1. mLock = NULL
  BY DEF EnableMsgType, Calls, Enters
<1>2. PICK m \in Msgs \ hw.msgs : MessageCall(t, m, hw.msgs \union {m})
  BY DEF EnableMsgType, MessageCall
<1>3. hw.msgs \union {m} \in SUBSET Msgs
  BY HwObject DEF Object
<1>4. m # "video" => ("video" \in hw.msgs \union {m} <=> "video" \in hw.msgs)
  OBVIOUS
<1> QED BY <1>1, <1>2, <1>3, <1>4, MessageCallInv

LEMMA DisableMsgTypeInv ==
    ASSUME IInv, NEW t \in Callers, DisableMsgType(t)
    PROVE  IInv'
<1>1. mLock = NULL
  BY DEF DisableMsgType, Calls, Enters
<1>2. PICK m \in hw.msgs : MessageCall(t, m, hw.msgs \ {m})
  BY DEF DisableMsgType, MessageCall
<1>3. hw.msgs \ {m} \in SUBSET Msgs
  BY HwObject DEF Object
<1>4. m # "video" => ("video" \in hw.msgs \ {m} <=> "video" \in hw.msgs)
  OBVIOUS
<1> QED BY <1>1, <1>2, <1>3, <1>4, MessageCallInv

LEMMA StartPreviewCallInv ==
    ASSUME IInv, NEW t \in Callers, StartPreviewCall(t)
    PROVE  IInv'
<1>1. hw \in Object /\ Covered(hw.cam)
  BY HwObject
<1>2. mLock = NULL /\ hw.hasMemory /\ hw.thread = NULL
  BY DEF StartPreviewCall, Calls, Enters
<1>3. PICK f \in Failures, p \in Previews : Leave(t, StartPreview(hw, f, p))
  BY DEF StartPreviewCall
<1>4. Good(StartPreview(hw, f, p)) /\ Settled(StartPreview(hw, f, p))
  BY <1>1, <1>2, StartPreviewFacts
<1>5. Undisturbed(StartPreview(hw, f, p))
  BY <1>2, NoPreviewEnded DEF Undisturbed
<1> QED BY <1>2, <1>3, <1>4, <1>5, LeaveInv

LEMMA StopPreviewCallInv ==
    ASSUME IInv, NEW t \in Callers, StopPreviewCall(t)
    PROVE  IInv'
<1>1. mLock = NULL /\ hw.thread # NULL /\ Join(t, hw, "joinStop")
  BY DEF StopPreviewCall, Calls, Enters
<1>2. Good(hw) /\ hw.released = {}
  BY DEF IInv, ObjectInv
<1> QED BY <1>1, <1>2, JoinInv, Disjoint

LEMMA RecordingInv ==
    ASSUME IInv, NEW t \in Callers, mLock = NULL, NEW on \in BOOLEAN,
           LET s == [hw EXCEPT !.recording = on]
           IN  IF "video" \in s.msgs THEN Heap(t, s) ELSE Leave(t, s)
    PROVE  IInv'
<1> DEFINE s == [hw EXCEPT !.recording = on]
<1>1. hw \in Object
  BY HwObject
<1>2. OnlyParameters(s)
  BY <1>1 DEF OnlyParameters, Object
<1>3. /\ s.msgs = hw.msgs /\ s.preview = hw.preview
      /\ s.video = hw.video /\ s.picture = hw.picture
      /\ s.previewFmt = hw.previewFmt /\ s.videoFmt = hw.videoFmt
  BY <1>1 DEF Object
<1>4. IF "video" \in s.msgs THEN Heap(t, s) ELSE Leave(t, s)
  OBVIOUS
<1> HIDE DEF s
<1>5. ASSUME "video" \notin s.msgs
      PROVE  CaptureSize(s) = CaptureSize(hw) /\ Needed(s) = Needed(hw)
  <2>1. CaptureSize(s) = CaptureSize(hw)
    BY <1>3, <1>5 DEF CaptureSize, CapturesVideo
  <2> QED BY <1>3, <2>1 DEF Needed
<1> QED BY <1>2, <1>4, <1>5, ParametersHeapInv, ParametersLeaveInv

LEMMA StartRecordingInv ==
    ASSUME IInv, NEW t \in Callers, StartRecording(t)
    PROVE  IInv'
BY RecordingInv DEF StartRecording, Calls, Enters

LEMMA StopRecordingInv ==
    ASSUME IInv, NEW t \in Callers, StopRecording(t)
    PROVE  IInv'
BY RecordingInv DEF StopRecording, Calls, Enters

LEMMA SetParametersInv ==
    ASSUME IInv, NEW t \in Callers, SetParameters(t)
    PROVE  IInv'
<1>1. mLock = NULL
  BY DEF SetParameters, Calls, Enters
<1>2. PICK preview \in Sizes, video \in Sizes, picture \in Sizes,
           previewFmt \in Fmts, videoFmt \in Fmts :
          /\ Calls(t)
          /\ \E s \in {[hw EXCEPT !.preview = preview, !.video = video,
                                 !.picture = picture, !.previewFmt = previewFmt,
                                 !.videoFmt = videoFmt]} : s # hw /\ Heap(t, s)
  BY Zenon DEF SetParameters
<1>3. PICK s \in {[hw EXCEPT !.preview = preview, !.video = video,
                             !.picture = picture, !.previewFmt = previewFmt,
                             !.videoFmt = videoFmt]} : Heap(t, s)
  BY <1>2
<1>4. hw \in Object
  BY HwObject
<1>5. OnlyParameters(s)
  BY <1>4 DEF OnlyParameters, Object, AnySize
<1> QED BY <1>1, <1>3, <1>5, ParametersHeapInv

LEMMA StopJoinedInv ==
    ASSUME IInv, NEW t \in Callers, StopJoined(t)
    PROVE  IInv'
<1> DEFINE s == StopPreview(hw)
<1>1. pc[t] = "joinStop" /\ pc[hw.thread] = "dead" /\ Leave(t, s)
  BY DEF StopJoined, Joined
<1>2. mLock = t /\ hw.thread # NULL
  BY <1>1, Disjoint DEF IInv, Locked, Joining
<1>3. s \in Object /\ Covered(s.cam) /\ s.thread = NULL
  BY HwObject, StopPreviewFacts
<1> HIDE DEF s
<1>4. Good(s) /\ Settled(s)
  BY <1>3, NoThread DEF Good
<1>5. Undisturbed(s)
  BY <1>1, <1>2, JoinedEnded DEF Undisturbed
<1> QED BY <1>1, <1>2, <1>4, <1>5, LeaveInv

LEMMA HeapJoinedInv ==
    ASSUME IInv, NEW t \in Callers, HeapJoined(t)
    PROVE  IInv'
<1>1. pc[t] = "joinHeaps" /\ pc[hw.thread] = "dead"
  BY DEF HeapJoined, Joined
<1>2. mLock = t /\ hw.thread # NULL /\ StopsPreview(hw)
  BY <1>1, Disjoint DEF IInv, Locked, Joining
<1>3. PICK f \in Failures, p \in Previews : Leave(t, InitHeap(hw, f, p))
  BY DEF HeapJoined
<1> DEFINE s == InitHeap(hw, f, p)
<1>4. Good(s) /\ Settled(s)
  BY <1>2, HwObject, RestartFacts
<1>5. Undisturbed(s)
  BY <1>1, <1>2, JoinedEnded DEF Undisturbed
<1> HIDE DEF s
<1> QED BY <1>2, <1>3, <1>4, <1>5, LeaveInv DEF s

-----------------------------------------------------------------------------
(***************************************************************************)
(* The threads that take pictures.                                         *)
(***************************************************************************)
LEMMA PictureMessagesFacts ==
    ASSUME NEW s, s.msgs \subseteq Msgs, NEW r, r.msgs \subseteq Msgs, NEW taken
    PROVE  PictureMessages(r, "shutter" \in s.msgs, taken) \in Seq(Msgs)
<1> DEFINE a == IF "shutter" \in s.msgs THEN <<"shutter">> ELSE <<>>
           b == IF taken /\ "raw" \in r.msgs THEN <<"raw">> ELSE <<>>
           c == IF taken /\ "jpeg" \in r.msgs /\ r.heap["jpeg"]
                THEN <<"jpeg">> ELSE <<>>
<1>1. a \in Seq(Msgs) /\ b \in Seq(Msgs) /\ c \in Seq(Msgs)
  OBVIOUS
<1> HIDE DEF a, b, c
<1>2. b \o c \in Seq(Msgs) /\ a \o b \in Seq(Msgs)
  BY <1>1, ConcatProperties
<1>3. (a \o b) \o c \in Seq(Msgs) /\ a \o (b \o c) \in Seq(Msgs)
  BY <1>1, <1>2, ConcatProperties
<1> QED BY <1>3 DEF PictureMessages, a, b, c

LEMMA PictureTakenInv ==
    ASSUME IInv, NEW k \in Pictures, mLock \in {NULL, k}, Ended,
           NEW s \in Object, Covered(s.cam), s.thread = NULL, PictureTaken(k, s)
    PROVE  IInv'
<1>1. PICK f \in Failures :
          LET r == TakePictureLocked(s, f)
          IN  /\ Store(r) /\ mLock' = NULL /\ exitPending' = exitPending
              /\ todo' = [todo EXCEPT ![k] =
                    PictureMessages(r, "shutter" \in s.msgs, "open" \notin f)]
              /\ pc' = [pc EXCEPT ![k] = "callbacks"]
  BY Zenon DEF PictureTaken
<1> DEFINE r == TakePictureLocked(s, f)
           messages == PictureMessages(r, "shutter" \in s.msgs, "open" \notin f)
<1>2. Good(r) /\ r.thread = NULL
  BY TakePictureFacts
<1>3. messages \in Seq(Msgs)
  BY <1>2, PictureMessagesFacts DEF Good, Object
<1>4. /\ Store(r) /\ mLock' = NULL /\ exitPending' = exitPending
      /\ todo' = [todo EXCEPT ![k] = messages] /\ pc' = [pc EXCEPT ![k] = "callbacks"]
  BY <1>1
<1> HIDE DEF r, messages
<1>5. Settled(r)
  BY <1>2, NoThread
<1>6. Undisturbed(r)
  BY DEF Undisturbed
<1>7. /\ todo' \in [Threads -> Seq(Msgs)]
      /\ \A u \in Threads \ {k} : todo'[u] = todo[u]
  BY <1>3, <1>4, Disjoint DEF IInv, Delivering
<1>8. pc' = Moves(k, "callbacks", r)
  <2>1. pc = [u \in Threads |-> pc[u]]
    BY DEF IInv, Placed
  <2>2. \A u \in Threads : u # r.thread
    BY <1>2, Disjoint
  <2> QED BY <1>4, <2>1, <2>2, Disjoint DEF Moves
<1>9. k \notin Callers
  BY Disjoint
<1> QED BY <1>2, <1>4, <1>5, <1>6, <1>7, <1>8, <1>9, ReleaseInv

LEMMA PictureStartInv ==
    ASSUME IInv, NEW k \in Pictures, PictureStart(k)
    PROVE  IInv'
<1>1. mLock = NULL /\ Good(hw) /\ hw.released = {}
  BY DEF PictureStart, IInv, ObjectInv
<1>2. CASE hw.thread # NULL
  BY <1>1, <1>2, JoinInv, Disjoint DEF PictureStart
<1>3. CASE hw.thread = NULL
  <2>1. PictureTaken(k, hw)
    BY <1>3 DEF PictureStart
  <2> QED BY <1>1, <1>3, <2>1, HwObject, NoPreviewEnded, PictureTakenInv
<1> QED BY <1>2, <1>3

LEMMA PictureJoinedInv ==
    ASSUME IInv, NEW k \in Pictures, PictureJoined(k)
    PROVE  IInv'
<1> DEFINE s == StopPreview(hw)
<1>1. pc[k] = "joinPicture" /\ pc[hw.thread] = "dead" /\ PictureTaken(k, s)
  BY DEF PictureJoined, Joined
<1>2. mLock = k /\ hw.thread # NULL
  BY <1>1, Disjoint DEF IInv, Locked, Joining
<1>3. s \in Object /\ Covered(s.cam) /\ s.thread = NULL
  BY HwObject, StopPreviewFacts
<1>4. Ended
  BY <1>1, <1>2, JoinedEnded
<1> HIDE DEF s
<1> QED BY <1>1, <1>2, <1>3, <1>4, PictureTakenInv

-----------------------------------------------------------------------------
(***************************************************************************)
(* Steps of a thread that do not give back or wait for mLock.              *)
(***************************************************************************)
LEMMA GoInv ==
    ASSUME IInv, NEW t \in Pictures \union Previews, NEW l,
           pc' = [pc EXCEPT ![t] = l], mLock' = mLock, hw'.thread = hw.thread,
           mLock = NULL \/ hw' = hw,
           t \in Pictures => pc[t] # "joinPicture" /\ l \in PicturePlaces \ {"joinPicture"},
           t \in Previews => pc[t] # "dead" /\ l \in PreviewPlaces,
           t \in Previews /\ l = "dead" => mLock # NULL /\ ~exitPending'[t],
           exitPending' \in [Previews -> BOOLEAN],
           \A p \in Previews : exitPending'[p] => exitPending[p]
    PROVE  Placed' /\ Locked' /\ Alive'
<1>1. t \in Threads /\ t \notin Callers
  BY Disjoint
<1>2. /\ DOMAIN pc' = Threads /\ pc' = [u \in Threads |-> pc'[u]] /\ pc'[t] = l
      /\ \A u \in Threads \ {t} : pc'[u] = pc[u]
  BY <1>1 DEF IInv, Placed
<1>3. Placed'
  <2>1. \A u \in Callers : pc'[u] \in CallerPlaces
    BY <1>1, <1>2, Disjoint DEF IInv, Placed
  <2>2. \A k \in Pictures : pc'[k] \in PicturePlaces
    BY <1>2, Disjoint DEF IInv, Placed
  <2>3. \A p \in Previews : pc'[p] \in PreviewPlaces
    BY <1>2, Disjoint DEF IInv, Placed
  <2> QED BY <1>2, <2>1, <2>2, <2>3 DEF Placed
<1>4. Locked'
  <2>1. ~Joining(t) /\ ~Joining(t)'
    BY <1>2, Disjoint DEF Joining, IInv, Placed, PreviewPlaces, PicturePlaces
  <2>2. \A u \in Threads : Joining(u)' <=> Joining(u)
    BY <1>2, <2>1 DEF Joining
  <2>3. \A u \in Callers : pc'[u] = "joinHeaps" => StopsPreview(hw')
    <3>1. ASSUME NEW u \in Callers, pc'[u] = "joinHeaps"
          PROVE  StopsPreview(hw')
      <4>1. pc[u] = "joinHeaps"
        BY <1>1, <1>2, <3>1, Disjoint
      <4>2. mLock # NULL
        BY <4>1, Disjoint DEF IInv, Locked, Joining
      <4>3. hw' = hw /\ StopsPreview(hw)
        BY <4>1, <4>2 DEF IInv, Locked
      <4> QED BY <4>3
    <3> QED BY <3>1
  <2> QED BY <2>2, <2>3 DEF IInv, Locked
<1>5. Alive'
  <2>1. \A p \in Previews : pc'[p] # "dead" => pc[p] # "dead"
    BY <1>2, Disjoint
  <2>2. \A p \in Previews : pc[p] # "dead" => pc'[p] # "dead" \/ (p = t /\ l = "dead")
    BY <1>2, Disjoint
  <2>3. mLock = NULL /\ hw.thread # NULL => hw.thread \in Previews
    BY HwObject DEF Object
  <2> QED BY <2>1, <2>2, <2>3 DEF IInv, Alive
<1> QED BY <1>3, <1>4, <1>5

LEMMA TakePictureInv ==
    ASSUME IInv, NEW t \in Callers, TakePicture(t)
    PROVE  IInv'
<1>1. PICK k \in Pictures :
          /\ pc[k] = "idle" /\ pc' = [pc EXCEPT ![k] = "start"]
          /\ UNCHANGED <<hw, mLock, todo, exitPending, dangling>>
  BY DEF TakePicture
<1>2. exitPending \in [Previews -> BOOLEAN]
  BY DEF IInv, Alive
<1>3. Placed' /\ Locked' /\ Alive'
  BY <1>1, <1>2, GoInv, Disjoint DEF PicturePlaces
<1>4. ObjectInv'
  BY <1>1 DEF IInv, ObjectInv
<1>5. Delivering'
  <2>1. /\ \A u \in Threads : InCallback(u)' => InCallback(u)
        /\ \A p \in Previews : pc'[p] = pc[p]
    BY <1>1, Disjoint DEF InCallback, IInv, Placed
  <2> QED BY <1>1, <2>1 DEF IInv, Delivering, Frames
<1> QED BY <1>3, <1>4, <1>5 DEF IInv

LEMMA CheckExitInv ==
    ASSUME IInv, NEW p \in Previews, CheckExit(p)
    PROVE  IInv'
<1> DEFINE l == IF exitPending[p] THEN "dead" ELSE "loop"
<1>1. /\ pc[p] = "check" /\ pc' = [pc EXCEPT ![p] = l]
      /\ exitPending' = [exitPending EXCEPT ![p] = FALSE]
      /\ UNCHANGED <<hw, mLock, todo, dangling>>
  BY DEF CheckExit, Go
<1>2. /\ exitPending' \in [Previews -> BOOLEAN] /\ ~exitPending'[p]
      /\ \A q \in Previews : exitPending'[q] => exitPending[q]
  BY <1>1 DEF IInv, Alive
<1>3. l \in PreviewPlaces /\ (l = "dead" => mLock # NULL)
  BY DEF PreviewPlaces, IInv, Alive
<1>4. l \in {"dead", "loop"}
  OBVIOUS
<1> HIDE DEF l
<1>5. Placed' /\ Locked' /\ Alive'
  BY <1>1, <1>2, <1>3, GoInv, Disjoint
<1>6. ObjectInv'
  BY <1>1 DEF IInv, ObjectInv
<1>7. Delivering'
  <2>1. \A u \in Threads \ {p} : pc'[u] = pc[u]
    BY <1>1 DEF IInv, Placed
  <2>2. pc'[p] = l
    BY <1>1, Disjoint DEF IInv, Placed
  <2>3. \A u \in Threads : InCallback(u)' => InCallback(u)
    BY <1>4, <2>1, <2>2 DEF InCallback
  <2>4. \A q \in Previews : pc'[q] \in {"callbacks", "inCallback", "reenter"} =>
            pc[q] \in {"callbacks", "inCallback", "reenter"}
    BY <1>4, <2>1, <2>2, Disjoint
  <2> QED BY <1>1, <2>3, <2>4 DEF IInv, Delivering, Frames
<1> QED BY <1>5, <1>6, <1>7 DEF IInv

\* The preview thread waits, or has nothing to do, and looks again.
LEMMA RetryInv ==
    ASSUME IInv, NEW p \in Previews, pc[p] = "loop", Go(p, "check"),
           UNCHANGED <<hw, mLock, todo, exitPending, dangling>>
    PROVE  IInv'
<1>1. exitPending \in [Previews -> BOOLEAN]
  BY DEF IInv, Alive
<1>2. Placed' /\ Locked' /\ Alive'
  BY <1>1, GoInv, Disjoint DEF Go, PreviewPlaces
<1>3. ObjectInv'
  BY DEF IInv, ObjectInv
<1>4. Delivering'
  <2>1. \A u \in Threads \ {p} : pc'[u] = pc[u]
    BY DEF IInv, Placed, Go
  <2>2. pc'[p] = "check"
    BY Disjoint DEF IInv, Placed, Go
  <2>3. \A u \in Threads : InCallback(u)' => InCallback(u)
    BY <2>1, <2>2 DEF InCallback
  <2>4. \A q \in Previews : pc'[q] \in {"callbacks", "inCallback", "reenter"} =>
            pc[q] \in {"callbacks", "inCallback", "reenter"}
    BY <2>1, <2>2, Disjoint
  <2> QED BY <2>3, <2>4 DEF IInv, Delivering, Frames
<1> QED BY <1>2, <1>3, <1>4 DEF IInv

LEMMA FrameMessagesFacts ==
    ASSUME hw \in Object, hw.heap["preview"]
    PROVE  /\ FrameMessages(hw) \in Seq(Msgs)
           /\ \A n \in 1..Len(FrameMessages(hw)) :
                 /\ FrameMessages(hw)[n] \in {"preview", "video"}
                 /\ hw.heap[HeapOf(FrameMessages(hw)[n])]
<1> DEFINE a == IF "preview" \in hw.msgs THEN <<"preview">> ELSE <<>>
           b == IF CapturesVideo(hw) /\ hw.heap["recording"] THEN <<"video">> ELSE <<>>
           Handed == {m \in Msgs \intersect {"preview", "video"} : hw.heap[HeapOf(m)]}
<1>1. /\ "preview" \in hw.msgs => "preview" \in Handed
      /\ CapturesVideo(hw) /\ hw.heap["recording"] => "video" \in Handed
  BY DEF Object, CapturesVideo, HeapOf
<1> HIDE DEF Handed
<1>2. a \in Seq(Handed)
  BY <1>1
<1>3. b \in Seq(Handed)
  BY <1>1
<1> HIDE DEF a, b
<1>4. a \o b \in Seq(Handed)
  BY <1>2, <1>3, ConcatProperties
<1>5. FrameMessages(hw) = a \o b
  BY DEF FrameMessages, a, b
<1>6. \A n \in 1..Len(a \o b) : (a \o b)[n] \in Handed
  BY <1>4
<1>7. Handed \subseteq Msgs /\ \A m \in Handed :
          m \in {"preview", "video"} /\ hw.heap[HeapOf(m)]
  BY DEF Handed
<1>8. a \o b \in Seq(Msgs)
  BY <1>4, <1>7
<1> QED BY <1>5, <1>6, <1>7, <1>8

LEMMA GrabFrameInv ==
    ASSUME IInv, NEW p \in Previews, GrabFrame(p)
    PROVE  IInv'
<1>1. PICK f \in Failures : hw' = [hw EXCEPT !.cam = GrabRawFrame(@, f)]
  BY DEF GrabFrame
<1>2. /\ pc[p] = "loop" /\ mLock = NULL /\ hw.heap["preview"]
      /\ todo' = [todo EXCEPT ![p] = FrameMessages(hw)]
      /\ pc' = [pc EXCEPT ![p] = "callbacks"]
      /\ UNCHANGED <<mLock, exitPending, dangling>>
  BY DEF GrabFrame, Go
<1>3. hw \in Object /\ Covered(hw.cam) /\ Runs(hw) /\ hw.released = {} /\ Settled(hw)
  BY <1>2, HwObject DEF IInv, ObjectInv
<1> DEFINE c == GrabRawFrame(hw.cam, f)
<1>4. /\ c \in Camera /\ Covered(c) /\ c.open = hw.cam.open
      /\ c.streaming = hw.cam.streaming /\ c.mapped = hw.cam.mapped
      /\ c.out = hw.cam.out
  BY <1>3, GrabFacts DEF Object
<1>5. hw' = [hw EXCEPT !.cam = c]
  BY <1>1
<1> HIDE DEF c
<1>6. /\ hw' \in Object /\ hw'.cam = c /\ Same(hw, hw') /\ hw'.raw = hw.raw
      /\ hw'.thread = hw.thread /\ hw'.heap = hw.heap /\ hw'.bytes = hw.bytes
      /\ hw'.winSize = hw.winSize /\ hw'.released = {}
  BY <1>3, <1>4, <1>5, SetCam
<1>7. ObjectInv'
  <2>1. Runs(hw')
    BY <1>3, <1>4, <1>6 DEF Runs, Same
  <2>2. CaptureSize(hw') = CaptureSize(hw) /\ Needed(hw') = Needed(hw)
    BY <1>6, SameFacts
  <2>3. Settled(hw')
    BY <1>3, <1>6, <2>2 DEF Settled
  <2> QED BY <1>4, <1>6, <2>1, <2>3 DEF ObjectInv, Good
<1>8. exitPending \in [Previews -> BOOLEAN]
  BY DEF IInv, Alive
<1>9. Placed' /\ Locked' /\ Alive'
  BY <1>2, <1>6, <1>8, GoInv, Disjoint DEF PreviewPlaces
<1>10. Delivering'
  <2>1. \A u \in Threads \ {p} : pc'[u] = pc[u] /\ todo'[u] = todo[u]
    BY <1>2 DEF IInv, Placed, Delivering
  <2>2. pc'[p] = "callbacks" /\ todo'[p] = FrameMessages(hw)
    BY <1>2, Disjoint DEF IInv, Placed, Delivering
  <2>3. todo' \in [Threads -> Seq(Msgs)]
    BY <1>2, <1>3, FrameMessagesFacts DEF IInv, Delivering
  <2>4. \A u \in Threads : InCallback(u)' => todo'[u] # <<>>
    BY <2>1, <2>2 DEF InCallback, IInv, Delivering
  <2>5. Frames(p)'
    BY <1>2, <1>3, <1>6, <2>2, FrameMessagesFacts DEF Frames
  <2>6. ASSUME NEW q \in Previews \ {p}, pc'[q] \in {"callbacks", "inCallback", "reenter"}
        PROVE  Frames(q)'
    BY <1>6, <2>1, <2>6, Disjoint DEF IInv, Delivering, Frames
  <2> QED BY <1>2, <2>3, <2>4, <2>5, <2>6 DEF IInv, Delivering
<1> QED BY <1>7, <1>9, <1>10 DEF IInv

-----------------------------------------------------------------------------
(***************************************************************************)
(* Callbacks.                                                              *)
(***************************************************************************)
CallbackPlaces == {"callbacks", "inCallback", "reenter"}

\* A thread that goes on from one place of its callbacks to another.
LEMMA CallbackGoInv ==
    ASSUME IInv, NEW t \in Pictures \union Previews, NEW l,
           pc[t] \in CallbackPlaces, Go(t, l),
           mLock' = mLock, exitPending' = exitPending, ObjectInv',
           hw'.thread = hw.thread, hw'.heap = hw.heap, mLock = NULL \/ hw' = hw,
           t \in Pictures => l \in {"idle", "callbacks", "inCallback"},
           t \in Previews => l \in {"check"} \union CallbackPlaces,
           todo' \in [Threads -> Seq(Msgs)],
           \A u \in Threads \ {t} : todo'[u] = todo[u],
           l \in {"inCallback", "reenter"} => todo'[t] # <<>>,
           t \in Previews => Frames(t)',
           dangling' \subseteq dangling
    PROVE  IInv'
<1>1. exitPending' \in [Previews -> BOOLEAN]
  BY DEF IInv, Alive
<1>2. Placed' /\ Locked' /\ Alive'
  BY <1>1, GoInv, Disjoint DEF Go, CallbackPlaces, PicturePlaces, PreviewPlaces
<1>3. Delivering'
  <2>1. /\ t \in Threads /\ pc'[t] = l
        /\ \A u \in Threads \ {t} : pc'[u] = pc[u]
    BY Disjoint DEF IInv, Placed, Go
  <2>2. \A u \in Threads : InCallback(u)' => todo'[u] # <<>>
    BY <2>1 DEF InCallback, IInv, Delivering
  <2>3. ASSUME NEW q \in Previews, pc'[q] \in {"callbacks", "inCallback", "reenter"}
        PROVE  Frames(q)'
    <3>1. CASE q = t
      BY <3>1
    <3>2. CASE q # t
      BY <2>1, <2>3, <3>2, Disjoint DEF IInv, Delivering, Frames
    <3> QED BY <3>1, <3>2
  <2> QED BY <2>2, <2>3 DEF IInv, Delivering
<1> QED BY <1>2, <1>3 DEF IInv

LEMMA CallbackStepInv ==
    ASSUME IInv, NEW t \in Pictures \union Previews, CallbackStep(t)
    PROVE  IInv'
<1>1. t \in Threads /\ todo \in [Threads -> Seq(Msgs)] /\ todo[t] \in Seq(Msgs)
  BY Disjoint DEF IInv, Delivering
<1>2. t \in Previews /\ pc[t] \in CallbackPlaces => Frames(t)
  BY DEF IInv, Delivering, CallbackPlaces
<1>3. /\ UNCHANGED <<hw, mLock>> => ObjectInv'
      /\ UNCHANGED <<hw, todo>> /\ Frames(t) => Frames(t)'
  BY DEF IInv, ObjectInv, Frames
<1>4. CASE CallbackBegins(t)
  BY <1>1, <1>2, <1>3, <1>4, CallbackGoInv DEF CallbackBegins, CallbackPlaces
<1>5. CASE CallbackEnds(t)
  <2>1. todo[t] # <<>>
    BY <1>1, <1>5 DEF CallbackEnds, IInv, Delivering, InCallback
  <2>2. /\ Tail(todo[t]) \in Seq(Msgs) /\ Len(Tail(todo[t])) = Len(todo[t]) - 1
        /\ \A n \in 1..Len(Tail(todo[t])) : Tail(todo[t])[n] = todo[t][n + 1]
    BY <1>1, <2>1, HeadTailProperties
  <2>3. /\ todo' \in [Threads -> Seq(Msgs)] /\ todo'[t] = Tail(todo[t])
        /\ \A u \in Threads \ {t} : todo'[u] = todo[u]
    BY <1>1, <1>5, <2>2 DEF CallbackEnds
  <2>4. Len(todo[t]) \in Nat /\ Len(Tail(todo[t])) \in Nat
    BY <1>1, <2>2
  <2>5. \A n \in 1..Len(Tail(todo[t])) : n + 1 \in 1..Len(todo[t])
    BY <2>2, <2>4
  <2>6. t \in Previews => Frames(t)'
    BY <1>2, <1>5, <2>2, <2>3, <2>5 DEF CallbackEnds, CallbackPlaces, Frames
  <2>7. dangling' \subseteq dangling
    BY <1>5 DEF CallbackEnds
  <2> QED BY <1>3, <1>5, <2>3, <2>6, <2>7, CallbackGoInv
          DEF CallbackEnds, CallbackPlaces
<1>6. CASE CallbacksDone(t)
  BY <1>1, <1>2, <1>3, <1>6, CallbackGoInv, Disjoint DEF CallbacksDone, CallbackPlaces
<1> QED BY <1>4, <1>5, <1>6 DEF CallbackStep

LEMMA CallbackCallsInv ==
    ASSUME IInv, NEW p \in Previews, CallbackCalls(p)
    PROVE  IInv'
<1>1. ObjectInv' /\ (Frames(p) => Frames(p)')
  BY DEF CallbackCalls, IInv, ObjectInv, Frames
<1>2. todo' \in [Threads -> Seq(Msgs)] /\ todo'[p] # <<>> /\ Frames(p)
  BY Disjoint DEF CallbackCalls, IInv, Delivering, InCallback
<1> QED BY <1>1, <1>2, CallbackGoInv, Disjoint DEF CallbackCalls, CallbackPlaces

\* disableMsgType() for "preview" changes nothing the preview relies on.
LEMMA CallbackReturnsInv ==
    ASSUME IInv, NEW p \in Previews, CallbackReturns(p)
    PROVE  IInv'
<1> DEFINE msgs == hw.msgs \ {"preview"}
           s    == [hw EXCEPT !.msgs = msgs]
<1>1. /\ pc[p] = "reenter" /\ mLock = NULL /\ hw' = s /\ Go(p, "inCallback")
      /\ UNCHANGED <<mLock, todo, exitPending, dangling>>
  BY DEF CallbackReturns
<1>2. msgs \in SUBSET Msgs
  BY HwObject DEF Object
<1>3. "video" \in msgs <=> "video" \in hw.msgs
  OBVIOUS
<1> HIDE DEF msgs
<1>4. OnlyParameters(s) /\ CaptureSize(s) = CaptureSize(hw) /\ Needed(s) = Needed(hw)
  BY <1>2, <1>3, MessagesFacts
<1> HIDE DEF s
<1>5. Good(s) /\ s.released = {} /\ Settled(s)
  BY <1>1, <1>4, ParametersGood, ParametersSettled
<1>6. ObjectInv'
  BY <1>1, <1>5 DEF ObjectInv
<1>7. hw'.thread = hw.thread /\ hw'.heap = hw.heap
  BY <1>1, <1>4 DEF OnlyParameters
<1>8. todo \in [Threads -> Seq(Msgs)] /\ todo[p] # <<>> /\ Frames(p)
  BY <1>1, Disjoint DEF IInv, Delivering, InCallback
<1>9. Frames(p)'
  BY <1>1, <1>7, <1>8 DEF Frames
<1> QED BY <1>1, <1>6, <1>7, <1>8, <1>9, CallbackGoInv, Disjoint DEF CallbackPlaces

-----------------------------------------------------------------------------
(***************************************************************************)
(* The invariant.                                                          *)
(***************************************************************************)
LEMMA InitInv == Init => IInv
<1> SUFFICES ASSUME Init PROVE IInv
  OBVIOUS
<1>1. PICK size \in Sizes, picture \in Sizes, opened \in BOOLEAN :
         hw = [win |-> FALSE, winSize |-> NoSize,
               preview |-> size, video |-> size, picture |-> picture,
               previewFmt |-> "yuv422sp", videoFmt |-> "yuv420p",
               raw |-> NoSize, bytes |-> [h \in Heaps |-> 0],
               heap |-> [h \in Heaps |-> FALSE], released |-> {},
               recording |-> FALSE, msgs |-> {}, thread |-> NULL,
               hasMemory |-> FALSE, cam |-> [NewCamera EXCEPT !.open = opened]]
  BY DEF Init
<1>2. /\ mLock = NULL /\ pc = [t \in Threads |-> IF t \in Previews THEN "dead" ELSE "idle"]
      /\ todo = [t \in Threads |-> <<>>] /\ exitPending = [p \in Previews |-> FALSE]
      /\ dangling = {}
  BY DEF Init
<1> DEFINE c == [NewCamera EXCEPT !.open = opened]
<1>3. 0 \in Counts
  BY CountsFacts
<1>4. c \in Camera /\ Covered(c)
  <2>1. NewCamera \in Camera /\ NewCamera.driver = 0 /\ NewCamera.queued = 0
    BY <1>3 DEF NewCamera, Camera, AnySize
  <2>2. c \in Camera /\ c.driver = 0 /\ c.queued = 0
    BY <2>1 DEF Camera
  <2> HIDE DEF c
  <2> QED BY <2>2 DEF Covered
<1>5. /\ hw \in Object /\ hw.thread = NULL /\ hw.released = {} /\ hw.cam = c
  <2>1. hw.cam = c
    BY <1>1
  <2> HIDE DEF c
  <2> QED BY <1>1, <1>4, <2>1 DEF Object, AnySize
<1>6. ObjectInv
  BY <1>4, <1>5, NoThread DEF ObjectInv, Good
<1>7. Placed
  BY <1>2, Disjoint DEF Placed, CallerPlaces, PicturePlaces, PreviewPlaces
<1>8. Locked
  BY <1>2, Disjoint DEF Locked, Joining
<1>9. Alive
  BY <1>2, <1>5, Disjoint DEF Alive
<1>10. Delivering
  BY <1>2, Disjoint DEF Delivering, InCallback
<1> QED BY <1>6, <1>7, <1>8, <1>9, <1>10 DEF IInv

LEMMA CallerInv ==
    ASSUME IInv, NEW t \in Callers, Call(t) \/ CallerStep(t)
    PROVE  IInv'
BY SetCallbacksInv, SetPreviewWindowInv, EnableMsgTypeInv, DisableMsgTypeInv,
   StartPreviewCallInv, StopPreviewCallInv, StartRecordingInv, StopRecordingInv,
   SetParametersInv, TakePictureInv, StopJoinedInv, HeapJoinedInv
   DEF Call, CallerStep

LEMMA PreviewInv ==
    ASSUME IInv, NEW p \in Previews, PreviewStep(p) \/ CallbackCalls(p)
    PROVE  IInv'
<1>1. CASE TryLockFails(p)
  BY <1>1, RetryInv DEF TryLockFails
<1>2. CASE NoBuffers(p)
  BY <1>2, RetryInv DEF NoBuffers
<1> QED BY <1>1, <1>2, CheckExitInv, GrabFrameInv, CallbackStepInv, CallbackCallsInv,
           CallbackReturnsInv DEF PreviewStep

LEMMA NextInv ==
    ASSUME IInv, [Next]_vars
    PROVE  IInv'
<1>1. CASE \E t \in Callers : Call(t) \/ CallerStep(t)
  BY <1>1, CallerInv
<1>2. CASE \E k \in Pictures : PictureStep(k)
  BY <1>2, PictureStartInv, PictureJoinedInv, CallbackStepInv DEF PictureStep
<1>3. CASE \E p \in Previews : PreviewStep(p) \/ CallbackCalls(p)
  BY <1>3, PreviewInv
<1>4. CASE UNCHANGED vars
  <2>1. UNCHANGED <<hw, mLock, pc, todo, exitPending, dangling>>
    BY <1>4 DEF vars
  <2>2. ObjectInv' /\ Placed'
    BY <2>1 DEF IInv, ObjectInv, Placed
  <2>3. Locked' /\ Alive'
    BY <2>1 DEF IInv, Locked, Alive, Joining
  <2>4. Delivering'
    BY <2>1 DEF IInv, Delivering, InCallback, Frames
  <2> QED BY <2>2, <2>3, <2>4 DEF IInv
<1> QED BY <1>1, <1>2, <1>3, <1>4 DEF Next

\* Whatever the callers, the pictures and the client's callbacks do, and
\* whatever fails: the preview thread has what it relies on, mLock is held
\* across a join only, and at most one preview thread is alive.
THEOREM Invariant == Spec => []IInv
<1>1. IInv /\ [Next]_vars => IInv'
  BY NextInv
<1> QED BY InitInv, <1>1, PTL DEF Spec

\* The members of CameraHardware and V4L2Camera keep their types.
THEOREM TypeCorrect == Spec => []TypeOK
<1>1. IInv => TypeOK
  <2> SUFFICES ASSUME IInv PROVE TypeOK
    OBVIOUS
  <2>1. hw \in Object /\ hw.released = {}
    BY HwObject
  <2>2. hw.cam \in Camera /\ TypedHw
    BY <2>1 DEF Object, AnySize, Camera, Counts, TypedHw, TypedCamera
  <2>3. pc \in [Threads -> {"idle", "joinStop", "joinHeaps", "joinPicture", "start",
                            "dead", "check", "loop", "callbacks", "inCallback",
                            "reenter"}]
    BY DEF IInv, Placed, Threads, CallerPlaces, PicturePlaces, PreviewPlaces
  <2>4. /\ mLock \in Callers \union Pictures \union {NULL}
        /\ \A t \in Threads : todo[t] \in Seq(Msgs)
        /\ exitPending \in [Previews -> BOOLEAN] /\ dangling \subseteq Threads
    BY DEF IInv, Locked, Alive, Delivering, Threads
  <2> QED BY <2>2, <2>3, <2>4 DEF TypeOK
<1> QED BY Invariant, <1>1, PTL

\* What a preview or video callback hands to the client exists and is not
\* released before the callback returns.
THEOREM PreviewHeapAliveHolds == Spec => []PreviewHeapAlive
<1>1. IInv => PreviewHeapAlive
  <2> SUFFICES ASSUME IInv, NEW p \in Previews, InCallback(p)
               PROVE  p \notin dangling /\ hw.heap[HeapOf(Head(todo[p]))]
    BY DEF PreviewHeapAlive
  <2>1. p \notin dangling
    BY Disjoint DEF IInv, Delivering
  <2> QED BY <2>1, FirstOfFrame
<1> QED BY Invariant, <1>1, PTL

\* A preview that is looked at with mLock free has its parameters' sizes.
LEMMA RunningPreview ==
    ASSUME IInv, mLock = NULL, hw.thread # NULL
    PROVE  /\ hw.cam.open /\ hw.cam.streaming /\ hw.cam.mapped /\ hw.cam.out = hw.raw
           /\ hw.win => hw.winSize \in {hw.raw, NoSize}
           /\ hw.raw = CaptureSize(hw) /\ hw.bytes = Needed(hw)
BY DEF IInv, ObjectInv, Good, Runs, Settled

LEMMA LoopingPreview ==
    ASSUME IInv, NEW p \in Previews, pc[p] = "loop"
    PROVE  hw.thread # NULL
BY Disjoint DEF IInv, Alive

\* A picture, or a call that failed half-way, never leaves a preview running
\* on a device that is closed, stopped, unmapped or of another size.
THEOREM PreviewHasDeviceHolds == Spec => []PreviewHasDevice
<1>1. IInv => PreviewHasDevice
  BY RunningPreview DEF PreviewHasDevice
<1> QED BY Invariant, <1>1, PTL

\* The window of a running preview has the captured size or refused it.
THEOREM WindowHasCapturedSizeHolds == Spec => []WindowHasCapturedSize
<1>1. IInv => WindowHasCapturedSize
  BY RunningPreview DEF WindowHasCapturedSize
<1> QED BY Invariant, <1>1, PTL

\* While video frames are delivered, what is captured has the video size.
THEOREM CapturesRecordedSizeHolds == Spec => []CapturesRecordedSize
<1>1. IInv => CapturesRecordedSize
  BY RunningPreview, LoopingPreview DEF CapturesRecordedSize, CaptureSize
<1> QED BY Invariant, <1>1, PTL

\* Uninit() dequeues what the driver has.
THEOREM CountCoversDriverHolds == Spec => []CountCoversDriver
<1>1. IInv => CountCoversDriver
  BY HwObject DEF CountCoversDriver, Covered
<1> QED BY Invariant, <1>1, PTL

\* The grabbed frame, the preview frame and the video frame fit the heaps
\* they are written to, for all sizes and formats.
THEOREM FramesFitHolds == Spec => []FramesFit
<1>1. IInv => FramesFit
  <2> SUFFICES ASSUME IInv, NEW p \in Previews, pc[p] = "loop", mLock = NULL
               PROVE  /\ (/\ hw.previewFmt = "yuv422i-yuyv"
                          /\ ~hw.recording \/ hw.bytes["rawPreview"] = hw.bytes["preview"])
                            => hw.bytes["rawPreview"] <= hw.bytes["preview"]
                      /\ 2 * Area(hw.cam.out) <= hw.bytes["rawPreview"]
                      /\ (CapturesVideo(hw) /\ hw.heap["recording"]) =>
                            /\ FrameBytes(hw.videoFmt, hw.raw) <= hw.bytes["recording"]
                            /\ hw.videoFmt = "yuv422i-yuyv"
                                  => hw.bytes["recording"] <= hw.bytes["rawPreview"]
    BY DEF FramesFit
  <2>1. hw \in Object
    BY HwObject
  <2>2. /\ hw.cam.out = hw.raw /\ hw.raw = CaptureSize(hw) /\ hw.bytes = Needed(hw)
    BY LoopingPreview, RunningPreview
  <2> DEFINE raw == hw.bytes["rawPreview"]
             pre == hw.bytes["preview"]
             rec == hw.bytes["recording"]
  <2>3. raw \in Nat /\ pre \in Nat /\ rec \in Nat
    BY <2>1 DEF Object, Heaps
  <2>4. /\ raw = 2 * Area(CaptureSize(hw))
        /\ pre = FrameBytes(hw.previewFmt, hw.preview)
        /\ rec = FrameBytes(hw.videoFmt, hw.video)
    BY <2>1, <2>2, NeededFacts
  <2>5. \A size : FrameBytes("yuv422i-yuyv", size) = 2 * Area(size)
    BY DEF FrameBytes
  <2>6. CapturesVideo(hw) => CaptureSize(hw) = hw.video
    BY DEF CaptureSize
  <2>7. ~hw.recording => CaptureSize(hw) = hw.preview
    BY DEF CaptureSize, CapturesVideo
  <2> HIDE DEF raw, pre, rec
  <2>8. hw.previewFmt = "yuv422i-yuyv" /\ (~hw.recording \/ raw = pre) => raw = pre
    BY <2>4, <2>5, <2>7
  <2>9. CapturesVideo(hw) =>
           /\ FrameBytes(hw.videoFmt, hw.raw) = rec
           /\ hw.videoFmt = "yuv422i-yuyv" => rec = raw
    BY <2>2, <2>4, <2>5, <2>6
  <2>10. 2 * Area(hw.cam.out) = raw
    BY <2>2, <2>4
  <2> QED BY <2>3, <2>8, <2>9, <2>10 DEF raw, pre, rec
<1> QED BY Invariant, <1>1, PTL
=============================================================================
