--------------------------- MODULE CameraHardware ---------------------------
(***************************************************************************)
(* The camera device of the HAL, libcamera/CameraHardware.cpp: the calls   *)
(* of the camera service, the preview thread and the threads that take     *)
(* pictures, their callbacks, the mutex mLock and the memory heaps.        *)
(*                                                                         *)
(* Everything between locking mLock and unlocking it is one action, except *)
(* that stopPreviewLocked() waits, with mLock held, for the preview thread *)
(* to end.  hw is the object with what mLock protects; its field released  *)
(* collects the heaps an operation gives back and is empty between steps.  *)
(* Images and formats matter by their sizes only.  An operator's argument  *)
(* f is the set of external calls that fail in it: those of V4L2Camera,    *)
(* "geometry" (the preview window) and a heap (mRequestMemory()).          *)
(***************************************************************************)
EXTENDS V4L2Camera, FiniteSets, Sequences

CONSTANTS
    Callers,        \* threads of the camera service
    Pictures,       \* threads that take a picture
    Previews,       \* preview threads, one after the other
    Sizes,          \* [w, h]: the sizes the parameters can have
    Fmts,           \* frame formats the parameters can have
    MayFail,        \* what may fail
    Reentrant,      \* may a preview callback call disableMsgType()?
    MaxQueued,      \* bound of hw.cam.queued, which failed starts increase
    Msgs,           \* message types the client uses
    NULL

Threads == Callers \union Pictures \union Previews
Heaps   == {"rawPreview", "preview", "recording", "rawPicture", "jpeg"}

ASSUME SizesAreRecords == Sizes \subseteq [w : Nat \ {0}, h : Nat \ {0}]
ASSUME FormatsKnown == Fmts \subseteq {"yuv422i-yuyv", "yuv422sp", "yuv420sp", "yuv420p"}

ASSUME MessagesKnown == Msgs \subseteq {"preview", "video", "shutter", "raw", "jpeg"}

\* A picture does without memory for the preview, but not without its own.
ASSUME FailuresKnown == MayFail \subseteq
    {"open", "format", "qbuf", "stream", "geometry",
     "rawPreview", "preview", "recording", "jpeg"}

\* What fails between two critical sections: nothing, or one thing.
Failures == {{}} \union {{x} : x \in MayFail}

ASSUME ThreadsDiffer ==
    /\ Callers \intersect Pictures = {} /\ Callers \intersect Previews = {}
    /\ Pictures \intersect Previews = {} /\ NULL \notin Threads

VARIABLES
    hw,             \* the CameraHardware object
    mLock,          \* the thread that has mLock, if it lasts longer than a step
    pc,             \* where each thread is
    todo,           \* the callbacks a thread still has to make
    exitPending,    \* Thread::mExitPending of the preview threads
    dangling        \* threads in a callback whose heap has been released

vars == <<hw, mLock, pc, todo, exitPending, dangling>>

-----------------------------------------------------------------------------
(***************************************************************************)
(* Sizes.                                                                  *)
(***************************************************************************)
Area(s) == s.w * s.h
RoundUp16(n) == ((n + 15) \div 16) * 16

\* The bytes of a frame; the planes of YV12 have strides of 16 pixels.
FrameBytes(fmt, s) ==
    CASE fmt = "yuv422i-yuyv" -> 2 * Area(s)
      [] fmt \in {"yuv422sp", "yuv420sp"} -> (3 * Area(s)) \div 2
      [] fmt = "yuv420p" ->
            LET stride == RoundUp16(s.w)
            IN  stride * s.h + 2 * ((RoundUp16(stride \div 2) * s.h) \div 2)

\* "If we are recording, use the recording video size".
CapturesVideo(s) == s.recording /\ "video" \in s.msgs
CaptureSize(s)   == IF CapturesVideo(s) THEN s.video ELSE s.preview

\* Mutated Needed: the recording heap is for frames of the preview's size.
NeededForPreview(s) ==
    [h \in Heaps |->
        CASE h = "rawPreview" -> 2 * Area(CaptureSize(s))
          [] h = "preview"    -> FrameBytes(s.previewFmt, s.preview)
          [] h = "recording"  -> FrameBytes(s.videoFmt, s.preview)
          [] OTHER            -> 2 * Area(s.picture)]

\* The sizes initHeapLocked() computes from the parameters.
Needed(s) ==
    [h \in Heaps |->
        CASE h = "rawPreview" -> 2 * Area(CaptureSize(s))
          [] h = "preview"    -> FrameBytes(s.previewFmt, s.preview)
          [] h = "recording"  -> FrameBytes(s.videoFmt, s.video)
          [] OTHER            -> 2 * Area(s.picture)]

Outgrown(s) == LET needed == Needed(s) IN {h \in Heaps : s.bytes[h] # needed[h]}

(***************************************************************************)
(* The private functions that run with mLock held, after the preview       *)
(* thread, if they have to stop it, has ended.                             *)
(***************************************************************************)
\* stopPreviewLocked() after requestExitAndWait().
StopPreview(s) ==
    [s EXCEPT !.thread = NULL, !.cam = Close(StopStreaming(Uninit(@)))]

\* initHeapLocked() without a preview thread.  A heap that could not be
\* allocated keeps the new size, so it is not tried again.
Reallocate(s, f) ==
    LET grown == Outgrown(s)
    IN  IF ~s.hasMemory THEN s
        ELSE [s EXCEPT !.raw = CaptureSize(s),
                       !.bytes = Needed(s),
                       !.heap = [h \in Heaps |-> IF h \in grown THEN h \notin f
                                                               ELSE s.heap[h]],
                       !.released = @ \union {h \in grown : s.heap[h]}]

NegotiatePreviewFormat(s, f) ==
    [s EXCEPT !.winSize = IF "geometry" \in f THEN NoSize ELSE CaptureSize(s)]

\* Mutated Running: the window keeps its geometry.
RunningInOldWindow(s, f, p) == [s EXCEPT !.thread = p]

\* The preview thread starts, and the window gets the captured size.
Running(s, f, p) ==
    [(IF s.win THEN NegotiatePreviewFormat(s, f) ELSE s) EXCEPT !.thread = p]

\* startPreviewLocked() with p as the new thread.  When it fails it leaves
\* the device open, and a buffer queued is a buffer counted.
StartPreview(s, f, p) ==
    LET opened == [s EXCEPT !.cam = Open(@, f)]
        set    == [opened EXCEPT !.cam = SetUp(@, CaptureSize(s), f)]
        grown  == Reallocate(set, f)
        on     == [grown EXCEPT !.cam = StartStreaming(@, f)]
    IN  CASE ~opened.cam.open    -> opened
          [] opened.cam.open /\ InitFails(f) -> set
          [] OTHER -> IF on.cam.streaming THEN Running(on, f, p) ELSE on

\* Does initHeapLocked() stop a running preview?
StopsPreview(s) ==
    /\ s.hasMemory
    /\ \/ s.raw # CaptureSize(s)
       \/ Outgrown(s) \intersect {"rawPreview", "preview", "recording"} # {}

\* initHeapLocked(): "Don't forget to restart the preview if it was stopped".
InitHeap(s, f, p) ==
    IF s.thread # NULL /\ StopsPreview(s)
    THEN StartPreview(Reallocate(StopPreview(s), f), f, p)
    ELSE Reallocate(s, f)

\* The part of pictureThread() that takes the picture.  Nobody looks at what
\* camera.Init() and camera.StartStreaming() return.
TakePictureLocked(s, f) ==
    LET opened == [s EXCEPT !.cam = Open(@, f)]
        set    == [opened EXCEPT !.cam = SetUp(@, s.picture, f)]
        grown  == Reallocate([set EXCEPT !.picture = set.cam.out], f)
        jpeg   == IF "jpeg" \notin s.msgs THEN grown
                  ELSE [grown EXCEPT !.heap["jpeg"] = "jpeg" \notin f,
                                     !.released = @ \union
                            {h \in {"jpeg"} : grown.heap[h]}]
    IN  IF ~opened.cam.open THEN opened
        ELSE [jpeg EXCEPT !.cam = Close(StopStreaming(Uninit(StartStreaming(@, f))))]

\* The messages of a picture, in the order of the callbacks.
PictureMessages(s, shutter, taken) ==
    (IF shutter THEN <<"shutter">> ELSE <<>>)
    \o (IF taken /\ "raw" \in s.msgs THEN <<"raw">> ELSE <<>>)
    \o (IF taken /\ "jpeg" \in s.msgs /\ s.heap["jpeg"] THEN <<"jpeg">> ELSE <<>>)

-----------------------------------------------------------------------------
(***************************************************************************)
(* Threads.                                                                *)
(***************************************************************************)
\* The heap a callback hands to the client.
HeapOf(m) == CASE m = "preview" -> "preview"
               [] m = "video"   -> "recording"
               [] m = "raw"     -> "rawPicture"
               [] m = "jpeg"    -> "jpeg"
               [] OTHER         -> NULL

InCallback(t) == pc[t] \in {"inCallback", "reenter"}

Joining(t) == pc[t] \in {"joinStop", "joinHeaps", "joinPicture"}

\* The object becomes s; callbacks that use a heap it gives back dangle.
Store(s) ==
    /\ hw' = [s EXCEPT !.released = {}]
    /\ s.cam.queued <= MaxQueued
    /\ dangling' = dangling \union
          {t \in Threads : InCallback(t) /\ HeapOf(Head(todo[t])) \in s.released}

\* pc after thread t goes to l and the preview thread of s, if new, starts.
Moves(t, l, s) ==
    [u \in Threads |-> IF u = t THEN l
                       ELSE IF u = s.thread /\ pc[u] = "dead" THEN "check"
                       ELSE pc[u]]

\* Thread t leaves mLock with the object s.
Leave(t, s) ==
    /\ Store(s)
    /\ mLock' = NULL
    /\ pc' = Moves(t, "idle", s)
    /\ UNCHANGED <<todo, exitPending>>

\* requestExitAndWait(): t keeps mLock until the preview thread has ended.
Join(t, s, l) ==
    /\ hw' = s
    /\ mLock' = t
    /\ pc' = [pc EXCEPT ![t] = l]
    /\ exitPending' = [exitPending EXCEPT ![s.thread] = TRUE]
    /\ UNCHANGED <<todo, dangling>>

\* Mutated Joined: requestExit().
JoinedAtOnce(t, l) == pc[t] = l

Joined(t, l) == pc[t] = l /\ pc[hw.thread] = "dead"

\* A preview thread that has not been created or has ended: p is the next.
Free(p) == pc[p] = "dead"

\* A caller that ends with initHeapLocked() on the object s.
Heap(t, s) ==
    IF s.thread # NULL /\ StopsPreview(s) THEN Join(t, s, "joinHeaps")
    ELSE \E f \in Failures : \E r \in {InitHeap(s, f, NULL)} : Leave(t, r)

Enters(t) == pc[t] = "idle" /\ mLock = NULL

-----------------------------------------------------------------------------
(***************************************************************************)
(* The device's operations.                                                *)
(***************************************************************************)
\* The constructor: default parameters, no heaps, and the device left open.
Init ==
    /\ \E size \in Sizes, picture \in Sizes, opened \in BOOLEAN :
         hw = [win |-> FALSE, winSize |-> NoSize,
               preview |-> size, video |-> size, picture |-> picture,
               previewFmt |-> "yuv422sp", videoFmt |-> "yuv420p",
               raw |-> NoSize, bytes |-> [h \in Heaps |-> 0],
               heap |-> [h \in Heaps |-> FALSE], released |-> {},
               recording |-> FALSE, msgs |-> {}, thread |-> NULL,
               hasMemory |-> FALSE, cam |-> [NewCamera EXCEPT !.open = opened]]
    /\ mLock = NULL
    /\ pc = [t \in Threads |-> IF t \in Previews THEN "dead" ELSE "idle"]
    /\ todo = [t \in Threads |-> <<>>]
    /\ exitPending = [p \in Previews |-> FALSE]
    /\ dangling = {}

\* The camera service calls this before anything else.
SetCallbacks(t) ==
    /\ Enters(t) /\ ~hw.hasMemory
    /\ Leave(t, [hw EXCEPT !.hasMemory = TRUE])

Calls(t) == Enters(t) /\ hw.hasMemory

SetPreviewWindow(t) == \E win \in BOOLEAN, f \in Failures :
    /\ Calls(t)
    /\ LET s == [hw EXCEPT !.win = win]
       IN  Leave(t, IF win /\ s.thread # NULL THEN NegotiatePreviewFormat(s, f) ELSE s)

EnableMsgType(t) == \E m \in Msgs \ hw.msgs :
    /\ Calls(t)
    /\ LET s == [hw EXCEPT !.msgs = @ \union {m}]
       IN  IF m = "video" /\ s.recording THEN Heap(t, s) ELSE Leave(t, s)

DisableMsgType(t) == \E m \in hw.msgs :
    /\ Calls(t)
    /\ LET s == [hw EXCEPT !.msgs = @ \ {m}]
       IN  IF m = "video" /\ s.recording THEN Heap(t, s) ELSE Leave(t, s)

StartPreviewCall(t) == \E f \in Failures, p \in Previews :
    /\ Calls(t)
    /\ hw.thread = NULL /\ Free(p)
    /\ \E s \in {StartPreview(hw, f, p)} : Leave(t, s)

\* stopPreview(), and releaseCamera(), closeCamera() when there is a preview.
StopPreviewCall(t) ==
    /\ Calls(t)
    /\ hw.thread # NULL
    /\ Join(t, hw, "joinStop")

\* Mutated StartRecording: the heaps are left as they are.
StartRecordingOnly(t) ==
    /\ Calls(t) /\ ~hw.recording
    /\ Leave(t, [hw EXCEPT !.recording = TRUE])

StartRecording(t) ==
    /\ Calls(t) /\ ~hw.recording
    /\ LET s == [hw EXCEPT !.recording = TRUE]
       IN  IF "video" \in s.msgs THEN Heap(t, s) ELSE Leave(t, s)

StopRecording(t) ==
    /\ Calls(t) /\ hw.recording
    /\ LET s == [hw EXCEPT !.recording = FALSE]
       IN  IF "video" \in s.msgs THEN Heap(t, s) ELSE Leave(t, s)

\* setParameters() with supported formats that are not the current ones.
SetParameters(t) ==
    \E preview \in Sizes, video \in Sizes, picture \in Sizes,
       previewFmt \in Fmts, videoFmt \in Fmts :
        /\ Calls(t)
        /\ \E s \in {[hw EXCEPT !.preview = preview, !.video = video,
                               !.picture = picture, !.previewFmt = previewFmt,
                               !.videoFmt = videoFmt]} :
              s # hw /\ Heap(t, s)

\* takePicture() creates a thread, without mLock.
TakePicture(t) == \E k \in Pictures :
    /\ pc[t] = "idle" /\ pc[k] = "idle"
    /\ hw.hasMemory
    /\ pc' = [pc EXCEPT ![k] = "start"]
    /\ UNCHANGED <<hw, mLock, todo, exitPending, dangling>>

\* The waiting caller goes on when the preview thread has ended.
StopJoined(t) ==
    /\ Joined(t, "joinStop")
    /\ Leave(t, StopPreview(hw))

HeapJoined(t) == \E f \in Failures, p \in Previews :
    /\ Joined(t, "joinHeaps") /\ Free(p)
    /\ \E s \in {InitHeap(hw, f, p)} : Leave(t, s)

-----------------------------------------------------------------------------
(***************************************************************************)
(* pictureThread().                                                        *)
(***************************************************************************)
PictureTaken(k, s) == \E f \in Failures : \E r \in {TakePictureLocked(s, f)} :
    /\ Store(r)
    /\ mLock' = NULL
    /\ todo' = [todo EXCEPT ![k] =
          PictureMessages(r, "shutter" \in s.msgs, "open" \notin f)]
    /\ pc' = [pc EXCEPT ![k] = "callbacks"]
    /\ UNCHANGED exitPending

\* Mutated PictureStart: the preview is not stopped.
PictureStartBesidePreview(k) ==
    /\ pc[k] = "start" /\ mLock = NULL
    /\ PictureTaken(k, hw)

PictureStart(k) ==
    /\ pc[k] = "start" /\ mLock = NULL
    /\ IF hw.thread # NULL THEN Join(k, hw, "joinPicture") ELSE PictureTaken(k, hw)

PictureJoined(k) ==
    /\ Joined(k, "joinPicture")
    /\ PictureTaken(k, StopPreview(hw))

-----------------------------------------------------------------------------
(***************************************************************************)
(* The preview thread: Thread::_threadLoop() and previewThread().          *)
(***************************************************************************)
Go(t, l) == pc' = [pc EXCEPT ![t] = l]

CheckExit(p) ==
    /\ pc[p] = "check"
    /\ Go(p, IF exitPending[p] THEN "dead" ELSE "loop")
    /\ exitPending' = [exitPending EXCEPT ![p] = FALSE]
    /\ UNCHANGED <<hw, mLock, todo, dangling>>

\* Mutated TryLockFails: lock(), which waits.
LockWaits(p) ==
    /\ pc[p] = "loop" /\ mLock = NULL /\ ~hw.hasMemory
    /\ Go(p, "check")
    /\ UNCHANGED <<hw, mLock, todo, exitPending, dangling>>

\* "if we fail to lock the mutex, just retry a bit later, but let the android
\* thread end if requested".
TryLockFails(p) ==
    /\ pc[p] = "loop" /\ mLock # NULL
    /\ Go(p, "check")
    /\ UNCHANGED <<hw, mLock, todo, exitPending, dangling>>

NoBuffers(p) ==
    /\ pc[p] = "loop" /\ mLock = NULL
    /\ ~hw.heap["rawPreview"] \/ ~hw.heap["preview"]
    /\ Go(p, "check")
    /\ UNCHANGED <<hw, mLock, todo, exitPending, dangling>>

\* The messages of a frame, in the order of the callbacks.
FrameMessages(s) ==
    (IF "preview" \in s.msgs THEN <<"preview">> ELSE <<>>)
    \o (IF CapturesVideo(s) /\ s.heap["recording"] THEN <<"video">> ELSE <<>>)

\* A frame is grabbed, converted and displayed; then mLock is free again.
GrabFrame(p) == \E f \in Failures :
    /\ pc[p] = "loop" /\ mLock = NULL
    /\ hw.heap["rawPreview"] /\ hw.heap["preview"]
    /\ hw' = [hw EXCEPT !.cam = GrabRawFrame(@, f)]
    /\ todo' = [todo EXCEPT ![p] = FrameMessages(hw)]
    /\ Go(p, "callbacks")
    /\ UNCHANGED <<mLock, exitPending, dangling>>

(***************************************************************************)
(* Callbacks, of the preview thread and of pictures, without mLock.        *)
(***************************************************************************)
CallbackBegins(t) ==
    /\ pc[t] = "callbacks" /\ todo[t] # <<>>
    /\ Go(t, "inCallback")
    /\ UNCHANGED <<hw, mLock, todo, exitPending, dangling>>

CallbackEnds(t) ==
    /\ pc[t] = "inCallback"
    /\ Go(t, "callbacks")
    /\ todo' = [todo EXCEPT ![t] = Tail(@)]
    /\ dangling' = dangling \ {t}
    /\ UNCHANGED <<hw, mLock, exitPending>>

CallbacksDone(t) ==
    /\ pc[t] = "callbacks" /\ todo[t] = <<>>
    /\ Go(t, IF t \in Previews THEN "check" ELSE "idle")
    /\ UNCHANGED <<hw, mLock, todo, exitPending, dangling>>

\* The client of a preview frame wanted only one: it calls disableMsgType().
CallbackCalls(p) ==
    /\ Reentrant
    /\ pc[p] = "inCallback" /\ Head(todo[p]) = "preview"
    /\ Go(p, "reenter")
    /\ UNCHANGED <<hw, mLock, todo, exitPending, dangling>>

CallbackReturns(p) ==
    /\ pc[p] = "reenter" /\ mLock = NULL
    /\ hw' = [hw EXCEPT !.msgs = @ \ {"preview"}]
    /\ Go(p, "inCallback")
    /\ UNCHANGED <<mLock, todo, exitPending, dangling>>

-----------------------------------------------------------------------------
Call(t) ==
    \/ SetCallbacks(t) \/ SetPreviewWindow(t)
    \/ EnableMsgType(t) \/ DisableMsgType(t)
    \/ StartPreviewCall(t) \/ StopPreviewCall(t)
    \/ StartRecording(t) \/ StopRecording(t)
    \/ SetParameters(t) \/ TakePicture(t)

CallbackStep(t) == CallbackBegins(t) \/ CallbackEnds(t) \/ CallbacksDone(t)

CallerStep(t)  == StopJoined(t) \/ HeapJoined(t)
PictureStep(k) == PictureStart(k) \/ PictureJoined(k) \/ CallbackStep(k)
PreviewStep(p) ==
    \/ CheckExit(p) \/ TryLockFails(p) \/ NoBuffers(p) \/ GrabFrame(p)
    \/ CallbackStep(p) \/ CallbackReturns(p)

Next ==
    \/ \E t \in Callers : Call(t) \/ CallerStep(t)
    \/ \E k \in Pictures : PictureStep(k)
    \/ \E p \in Previews : PreviewStep(p) \/ CallbackCalls(p)

Spec == Init /\ [][Next]_vars

\* What StopJoined(), HeapJoined() and PictureJoined() have in common.
ReturnsFromJoin(t) == Joining(t) /\ Joined(t, pc[t]) /\ mLock' = NULL

\* A thread woken by the end of the preview thread goes on; the preview thread
\* is scheduled, frames arrive and the client's callbacks return.
FairSpec ==
    /\ Spec
    /\ \A t \in Callers \union Pictures : WF_mLock(ReturnsFromJoin(t))
    /\ \A p \in Previews : WF_vars(PreviewStep(p))

-----------------------------------------------------------------------------
(***************************************************************************)
(* Properties.                                                             *)
(***************************************************************************)
TypedHw ==
    /\ hw.win \in BOOLEAN /\ hw.recording \in BOOLEAN /\ hw.hasMemory \in BOOLEAN
    /\ {hw.preview, hw.video} \subseteq Sizes
    /\ {hw.picture, hw.winSize, hw.raw} \subseteq Sizes \union {NoSize}
    /\ hw.previewFmt \in Fmts \union {"yuv422sp"}
    /\ hw.videoFmt \in Fmts \union {"yuv420p"}
    /\ hw.bytes \in [Heaps -> Nat] /\ hw.heap \in [Heaps -> BOOLEAN]
    /\ hw.released = {} /\ hw.msgs \subseteq Msgs
    /\ hw.thread \in Previews \union {NULL}
    /\ TypedCamera(hw.cam, Sizes)

\* The types of the members of CameraHardware and V4L2Camera, in which the
\* difference nQueued - nDequeued is never negative.
TypeOK ==
    /\ TypedHw
    /\ mLock \in Callers \union Pictures \union {NULL}
    /\ pc \in [Threads -> {"idle", "joinStop", "joinHeaps", "joinPicture", "start",
                           "dead", "check", "loop", "callbacks", "inCallback",
                           "reenter"}]
    /\ \A t \in Threads : todo[t] \in Seq(Msgs)
    /\ exitPending \in [Previews -> BOOLEAN]
    /\ dangling \subseteq Threads

\* A preview or video callback, made without mLock, always hands out a heap
\* that exists and stays until it returns: the heaps of a running preview are
\* released only after its thread has ended (initHeapLocked()).
PreviewHeapAlive == \A p \in Previews : InCallback(p) =>
    /\ p \notin dangling
    /\ hw.heap[HeapOf(Head(todo[p]))]

\* "We are warrantied here that the current capture size IS exacty equal to
\* the video size, as this condition is enforced by this driver"
\* (previewThread()): whatever the order of startRecording(), messages,
\* parameters, pictures and failed restarts.
CapturesRecordedSize == \A p \in Previews :
    pc[p] = "loop" /\ mLock = NULL /\ CapturesVideo(hw) => hw.raw = hw.video

\* What previewThread() writes fits: a frame is grabbed into the preview
\* buffer only if it is as large, GrabRawFrame() never has to drop a frame,
\* and the converted video frame fits the recording buffer.
FramesFit == \A p \in Previews :
    (/\ pc[p] = "loop" /\ mLock = NULL
     /\ hw.heap["rawPreview"] /\ hw.heap["preview"]) =>
        /\ (/\ hw.previewFmt = "yuv422i-yuyv"
            /\ ~hw.recording \/ hw.bytes["rawPreview"] = hw.bytes["preview"])
              => hw.bytes["rawPreview"] <= hw.bytes["preview"]
        /\ 2 * Area(hw.cam.out) <= hw.bytes["rawPreview"]
        /\ (CapturesVideo(hw) /\ hw.heap["recording"]) =>
              /\ FrameBytes(hw.videoFmt, hw.raw) <= hw.bytes["recording"]
              /\ hw.videoFmt = "yuv422i-yuyv"
                    => hw.bytes["recording"] <= hw.bytes["rawPreview"]

\* While a preview thread exists and nobody has mLock, the device is open,
\* streams, is mapped and delivers the size the preview works with: a picture
\* does not take the device from under it.
PreviewHasDevice == mLock = NULL /\ hw.thread # NULL =>
    hw.cam.open /\ hw.cam.streaming /\ hw.cam.mapped /\ hw.cam.out = hw.raw

\* While the preview runs into a window, the window has the captured size
\* (or none, when it refused it), also after a switch between preview and
\* video size.
WindowHasCapturedSize ==
    mLock = NULL /\ hw.thread # NULL /\ hw.win => hw.winSize \in {hw.raw, NoSize}

\* The driver never has more buffers than nQueued - nDequeued: so Uninit(),
\* which dequeues that many but one, leaves it at most one when it unmaps.
CountCoversDriver == hw.cam.driver <= hw.cam.queued

\* Whoever stops the preview with mLock held gets an answer: the preview
\* thread never waits for mLock when it has to end ("We must avoid a race
\* condition here when destroying the thread").
StopEnds == \A t \in Callers \union Pictures : Joining(t) ~> ~Joining(t)

\* "We must schedule the callbacks Outside the lock, or the caller could call
\* us and cause a deadlock!" (previewThread()): a preview callback that calls
\* the device is not waited for by whoever has mLock.
CallbackMayCallUs == \A p \in Previews :
    pc[p] = "reenter" => ~exitPending[p] \/ mLock = NULL

\* "the mutex ensures the picture memory pool is not being used"
\* (initHeapLocked()): no picture callback uses a heap that was released.
PictureHeapAlive == dangling \intersect Pictures = {}

=============================================================================
