# A specification of the richi-panda device tree

The repository is the Android device tree of a PandaBoard (OMAP4).  Most of it
is configuration; the programs in it are an audio HAL, a camera HAL for USB
(V4L2) cameras and two libraries of the recovery system.  This directory holds
TLA+ models of these programs, the TLC runs that check them and TLAPS proofs
about them.

## Inventory

### Audio HAL (`audio.aosp/audio_hw.c`)

*State.*  One `omap4_audio_device` (mode, `in_call`, the modem pcms, the
active output and input, the echo reference, the route) with a mutex; output
and input streams, each with a mutex, a `standby` flag, a pcm, a pointer to
the echo reference, resamplers and buffers.

*Operations.*  The entry points of the audio HAL interface: open, close,
standby, set_parameters and write or read of a stream, effects of an input,
set_mode, set_parameters and volumes of the device.  AudioFlinger calls them
from a playback thread per output, a record thread per input and binder
threads, all at once.

*What is hard.*  `out_write` and `in_read` do their I/O with the stream's
mutex only; `out_write` gives the device mutex up and takes it again to force
the input into standby; `do_input_standby` and `start_input_stream` lock the
active *output* when they take or release the echo reference; `select_mode`
puts every stream into standby.  What makes it correct: the mutex order of the
NOTE at `struct omap4_stream_in`, "standby changes only under the device's and
the stream's mutex", no pointer to a released echo reference or a freed
stream, `active_output`/`active_input` in step with `standby`, a call that
begins with everything in standby, and a device mutex that is always given
back.

Two more parts of the file are sequential under the device mutex: the mixer
routing (modes, devices, TTY, board type, volumes), and, under the stream's mutex,
the capture data path: a period buffer, a resampler, a buffer in front of the
effects and one of the echo reference, which keep frames from one read to the next,
over standbys, failed reads and effects that come and go.  What makes it correct:
frames leave in the order they were captured, no buffer overflows, and the delay
given to the echo canceller is the age of its frames.

### Camera HAL (`libcamera/`)

*State.*  `CameraHardware`: the mutex `mLock`, the preview window, the
parameters, five memory heaps shared with the client, the message mask,
the recording flag, the preview thread; `V4L2Camera`: the device's file
descriptor, the mapped buffers, the counters of queued and dequeued buffers,
the list of formats; `CameraFactory`: the table of configured cameras.

*Operations.*  The camera device operations (called by the camera service),
the preview thread's loop, a thread per picture, a thread per autofocus.

*What is hard.*  Callbacks are made outside the lock with heaps that other
calls release; `stopPreviewLocked` joins the preview thread while it holds
`mLock`, which that thread must therefore never wait for; the picture thread
takes the device away from the preview; recording, its message and the
parameters decide together which size is captured, and every heap must fit it.
Twenty-four pixel formats are converted by pointer arithmetic, from a crop of the
captured frame, to the formats of preview, recording and window.

### Recovery (`recovery/`)

*State.*  The storage: the GPT, the partition table (PIT) with userdata's length,
the xloader, the second bootloader, the crypto footer of userdata.

*Operations.*  `bootloader.c` writes the bootloader images and the partition
table, `recovery_updater.c` registers the functions that update scripts call and
corrects a file system size, `recovery_ui.cpp` maps keys and counts their presses.

*What is hard.*  Every write may fail or be cut short by a loss of power, and the
script is then run again over what is left.  What makes it correct: an update
that reports success is complete and has the xloader of this device, and userdata
as the new table has it still fits the crypto footer.

### Everything else

`recovery_ui.c` is compiled by no build file; `dumpstate`, the audio test
scripts, init scripts, kernel patches and overlays hold no logic to model.

## Modules and plan

| module | models | state |
|---|---|---|
| `AudioHal`, `MCAudioHal` | mutexes, stream life cycle, echo reference and call state of `audio_hw.c` | checked |
| `StreamSessions` | abstract: what the audio HAL promises of its streams; `AudioHal` implements it | checked |
| `AudioHalProofs` | theorems about `AudioHal` | proved |
| `AudioStreamsProofs` | `AudioHal` implements `StreamSessions`; no stream is used after `free`; the call state | proved |
| `AudioEchoProofs` | the echo reference, the active streams and the start of a call, for one open output and any number of inputs | proved |
| `AudioCapture` | the capture data path of `audio_hw.c` | checked |
| `AudioCaptureProofs` | theorems about `AudioCapture` | proved |
| `AudioRouting`, `MCAudioRouting` | the mixer of `audio_hw.c` for three boards | checked |
| `AudioRoutingProofs` | theorems about `AudioRouting` | proved |
| `V4L2Camera` | the capture object, as operators on a record | part of `CameraHardware` |
| `CameraHardware`, `MCCameraHardware` | calls, preview and picture threads, callbacks, heaps; composes `V4L2Camera` | checked |
| `CameraHardwareProofs` | theorems about `CameraHardware` | proved |
| `V4L2Formats` | enumeration and choice of modes, crop | checked |
| `Converter` | the pixel converters, as operators | part of `V4L2Frames` |
| `V4L2Frames`, `MCV4L2Formats` | which converter a captured frame goes through; composes `V4L2Formats` and `Converter` | checked |
| `V4L2FormatsProofs` | the order of modes, the sorted vector, the defaults, what `Init` takes and the crop, and that every byte of a frame is in its place, for all drivers and sizes | proved |
| `Updater`, `MCUpdater` | the bootloader update with failures and losses of power | checked |
| `UpdaterProofs` | theorems about `Updater` | proved |

The order was: what runs concurrently first (audio, camera), then what loses
power (recovery), then the sequential parts whose state is long-lived, last the
data paths.  Proved are, for all constants (those of `AudioEchoProofs` for one open
output), the safety properties that the runs check; what is left to TLC is under "What is
not proved".  Left for the next steps is a driver that answers `VIDIOC_S_FMT` with another
size.

## AudioHal

A thread of the framework (`Threads`) calls one entry point at a time.  `pc`
says where in the code it is, `op` which entry point it runs, `outp` and `inp`
its streams, `force` the local `force_input_standby` of `out_write`.  An entry
point is cut where it waits for a mutex, where it leaves a critical section
and where it does I/O; what lies between two cuts is one action.

| variable | code |
|---|---|
| `lock` | owners of `adev->lock`, `out->lock`, `in->lock` |
| `mode`, `in_call`, `modem` | `adev->mode`, `adev->in_call`, are `pcm_modem_dl` and `pcm_modem_ul` open |
| `active_output`, `active_input`, `echo_reference` | the fields of that name |
| `live` | echo references created and not released (audio_utils, external) |
| `out_*`, `in_*` | per stream: is it open, `standby`, is its pcm open, its pointer to the echo reference, `need_echo_reference`, is its source VOICE_COMMUNICATION |
| `in_kept` | history: a start of the input failed and left its pointer to the echo reference behind; no action reads it |
| `dead` | the process crashed; `Restart` is init starting it again |

The mixer, the device masks and the samples are abstracted: the only thing
they decide here is whether a routing value changed, which is
nondeterministic.  The framework is assumed to call only open streams, and to
close a stream nobody is calling; that is what AudioFlinger does and what the
HAL, which frees the struct in close, needs.  Any number of inputs may be open, but
the framework reads one at a time (`NobodyReads`): an input is read only while all others
are in standby and in no `in_read`, for `adev->active_input` is room for one.  The
other calls on inputs that are not read (standby, parameters, effects, close) may come at
any time.

### Runs

| run | bounds | shows |
|---|---|---|
| `audio_hal` | 2 threads, 1 output, 2 inputs, 2 echo references, 2 modes; pcm, modem and echo calls may fail | lock order, life time of streams, active = running, open pcm during I/O, echo reference safe and not leaked, call state; no deadlock |
| `audio_hal_live` | 2 threads, 1 output, 1 input, 3 modes, weak fairness | the device mutex is given back; a voice input gets its echo reference; it implements `StreamSessions` |
| `audio_end_call` | 1 thread | **violated**: a call whose `start_call` failed is ended with NULL pcms |

Two threads are what a wrong interleaving of any of these properties needs: one
that goes through `adev->active_output` or `active_input` and one that owns what it
finds there.  A third one is beyond TLC with two inputs; each property of
`audio_hal` is also proved, for any number of threads and inputs.  Two inputs are what
it takes for the start of one to release a reference that another one points to.  Two
echo references are the device's and a stale one; memory that was released may be
allocated again.  One output is what `audio_policy.conf` declares.

*An input whose start failed.*  `start_input_stream` takes the echo reference
before `pcm_open` and does not give it back when that fails (`audio_hw.c:1831`).
If another input is started next, `get_echo_reference` releases the reference
(`audio_hw.c:1434`), and the first input, started again, uses the pointer it still has
(`audio_hw.c:1816` asks only whether it is NULL).  The model does all of this.  No text of
the source says what should happen, so it is no finding but the exception that
`EchoSafe` names: with `in_kept` taken out of it, `audio_hal` finds it violated.  For
outputs, and for all other inputs, whatever fails and in whichever order they are started,
`EchoSafe` holds.

*Refinement.*  `StreamSessions` knows neither threads nor mutexes: a stream is
opened, has sessions (from leaving standby to the next standby) and is closed; a
transfer is the only one of its stream and lies within one session.  `KeepsSessions`
is this specification with `open`, `running` and `transferring` computed from the
state of `AudioHal`: a stream is transferring while some thread is in its I/O, which
has given the device's mutex up.  A standby that `out_write`, a parameter, an effect
or `select_mode` forces is thereby shown to wait for the I/O, whoever asks for it.
The mutant of the run takes the stream's mutex out of one of these paths.

*Fairness.*  `WF_vars(Step(t))` for every thread: a thread that can go on is
scheduled and its I/O returns.  A mutex is not fair, and no strong fairness is
assumed; `DeviceReleased` holds all the same because every path to a stream's
mutex goes through the device's, which is what the comment at
`out_write` ("acquiring hw device mutex systematically") is about.

### Proofs

`IInv` is the inductive invariant: types, "a thread has the streams its place
needs" and, for every mutex, "its owner is exactly the thread whose place in
the code says so", from which mutual exclusion of any two places follows.
It is needed because none of the properties is inductive: that two threads are
never both in the body of one stream is visible only through `lock`.  From it:

* `TypeCorrect`: `Spec => []TypeOK`,
* `LockOrderHolds`: `Spec => []LockOrder`,
* `IoPcmOpenHolds`: `Spec => []IoPcmOpen`,
* `StandbyUnderLocksHolds`: `Spec => StandbyUnderLocks`.

`AudioStreamsProofs` proves the refinement, `SessionsKept`: `Spec => KeepsSessions`.
`IInv` gives that a thread in its I/O owns its stream's mutex and that a step changes
the session of a stream only as the owner of it, so no step meets the transfer of
another thread.  The rest is the framework's: `Discipline`, a second invariant, says
that a thread's stream is open while it is called, that no thread calls a stream that
another one closes, and that a stream is in standby when its struct is freed.  One
lemma per kind of step then shows that it is a step of `StreamSessions` or none.

The same module proves `StreamsAliveHolds` (`Spec => []StreamsAlive`) and
`CallStateHolds` (`Spec => []CallState`).  `StreamsAlive` is not inductive: that
`adev->active_output` is of an open stream follows only because an active stream runs
and a running one is open, and that of `adev->active_input` also while `in_read`
is between making its stream active and starting it, since that thread is then in a
call on the stream.  `AliveInv` says so, and says of the streams that threads borrow from
other calls (`select_mode`, the forced standby of `out_write` and
`out_set_parameters`) that they are open, that no thread is about to free them, and
that the borrower has the device mutex for as long as it has them.  A closing thread has
to have that mutex to reach its `free`, so it reaches it before the stream is
borrowed, when the stream is no longer active, or after it is given back.
`CallFits` relates `in_call` to the mode, also while a thread with the
device mutex is between the two halves of `select_mode`.

All of this holds for every number of threads, outputs, inputs and references, under
the assumptions `CallMode` and `Distinct` on the constants.

`AudioEchoProofs` is about what crosses streams, again for every number of threads
and references and of open inputs, but under `OneOutput`: at most one output is open at a
time, which is what `audio_policy.conf` has.  The assumption is a hypothesis of each
theorem.  Their names are `ActiveIsRunningHolds`, `EchoSafeHolds`, `EchoFedHolds`, `CallStartsInStandbyHolds` and
`VoiceGetsEchoHolds`; the last one also assumes `EchoNeverFails`, the exception that
comment of `VoiceGetsEcho` makes.  The argument:

* `OneOpen`, `OneReads` and `RunsActive`: one output is open, one input is read, and a
  stream that runs is the active one, or an input that a thread is putting into standby,
  next to which all other inputs are in standby.  So `force_all_standby` reaches all that run (`Forced`
  follows `select_mode` through its places), and whoever releases the echo reference
  finds everyone that points at it, but inputs whose start failed.
* `Pointers`: an output in standby has none; an input has one only while it runs, is being
  started, or after a start that failed (`in_kept`); and that of an `in_read` which
  releases the old reference is NULL until `add_echo_reference` has returned.  This is why
  no other stale pointer survives a `put_echo_reference`, also one that finds no active
  output to remove it from.
* `Fed`: `EchoFed` without "the mutex is free"; it fails only while a thread is between
  taking the reference and adding it, and that thread has the device.
* `VoiceInv`: an input that runs without the reference it needs next to an output
  exists only while an `out_write` still has `force` set or a thread puts the input into
  standby; `force` is set under the mutex under which the output becomes active.

Only `DeviceReleased`, a liveness property, is left to the model checker.

## AudioCapture

What `AudioHal` has as one step of I/O, `in_read` from its beginning to its end.  It
has the stream's mutex all the time, and so have the calls of an effect and the
standby: a call begins when `pc` is `idle`, and between two places of `pc` is one
external call.  A frame is the number at which the microphone captured it; `Junk` is
memory nobody wrote.

| variable | code |
|---|---|
| `resampler`, `mono`, `remix`, `standby` | has the stream a resampler; `config.channels`; `remix_at_driver`; `standby` |
| `preprocessors`, `need`, `echo` | `preprocessors`, `need_echo_reference`, `echo_reference` |
| `frames`, `wr`, `got` | the request of `in_read`, `frames_wr` of `process_frames`, what `read_frames` has copied |
| `buffer`, `frames_in`, `rs` | `buffer`, `frames_in`; what the resampler holds (external) |
| `proc`, `proc_buf_size`, `fx` | `proc_buf` up to `proc_frames_in`, its size; what the effects hold (external) |
| `ref_frames_in`, `ref_buf_size` | the fields of that name |
| `next`, `last`, `started`, `passed`, `breaks` | history: the driver's next frame, the last one given, the first after the start, what was left behind, where frames were lost |

External are `pcm_read` (may fail after any number of periods), the resampler (keeps
what does not make a whole frame), the effects (take and give any number of
frames, and keep `MaxHold` at most) and the echo reference (may have less than it is
asked for).  `process_reverse` of an effect that is not the echo canceller is a
null pointer and leaves its count.

| run | bounds | shows |
|---|---|---|
| `audio_capture` | periods of 3 frames, 2 frames of the driver for one of the resampler, requests of 2 and 3 frames, 2 effects, up to 10 frames captured | frames in order, each once and without a gap; nothing of an older session from the resampler; the buffers are large enough; the delay is the age |

Periods, requests and the ratio divide one another in no way, so every remainder
occurs in the period buffer and in the resampler; the two requests let `proc_buf` and
`ref_buf` grow.  Ten frames are three periods and one more: a session, a standby and a
session after it with frames left over from the first.  `Full` ends the behaviour there.

What the code leaves undone is in the model and in the words of the properties.  A
failed `pcm_read` throws away the frames its request had already copied, and a path
without effects or resampler gives younger frames while older ones wait in a buffer
(`breaks`, `passed`).  `start_input_stream` resets `frames_in` and the resampler of a
stream that has one, but never `proc_frames_in`: an effect can be given frames from
before the standby, and `Fresh` is about streams without effects only.  With a
resampler the delay adds frames of two rates, and `DelayIsAge` leaves it out.

*Proofs.*  `AudioCaptureProofs` proves `TypeCorrect` (`TypeOK`, with the bounds of the
buffers), `FreshHolds`, `DelayIsAgeHolds` and `InOrderHolds` for every period, ratio, set of
requests and effects, and every `MaxFrame`.  There are three inductive invariants, each of them
checked with TLC before it was proved.  `CInv` is for the first two properties: `Sized` is
what each place of `pc` relies on
(a request that is not yet met, the resampler's rest below one output frame,
`proc_buf` as large as the request once `process_frames` has begun to fill it), and `Recent`
is `Fresh` for all that can still reach the caller: the resampler, what `read_frames` has
copied and what is unread in the period buffer.  `AInv` is for the delay: `At(o)`
is the frame that waits `o` places behind the driver, through the period buffer, the
read in progress and `proc_buf`, and `Contiguous` says that its age is `o`, unless frames
were lost after it.  It is the order of the three buffers, not their sizes, that makes the
sum in `get_capture_delay` the age.

`OInv` is for `InOrder`.  All that waits is one sequence, `All`, of which the first
`Len(Waiting)` frames are behind the resampler, and `Chain` says of each frame in it that is
not passed over that it is younger than all before it and joins them: by a break (`Broken`), by its
neighbour (`Linked`), or by the frame given last (`Leads`).  `InOrder` itself is not inductive:
it relates a frame to the nearest one before it that counts, and says nothing of a frame that will be passed over
by the next read, so `PathLeaves` says which frames those are on each path: all of
`proc_buf` once effects are gone, all but the driver's next in a direct read, none before the resampler while a
resampled stream runs.  What a step does to `All` is one of a few things, each a
lemma about any sequence: frames leave at the front (`ChainGiven`), the driver's next frame moves into
a buffer, the resampler takes `Ratio` of them for one, the frames of a failed request drop out,
a stretch is passed over.

## AudioRouting

All of the routing happens under the device mutex, so an entry point is one
action here; `out_write` is two, since it gives the mutex up before it forces
the input into standby.  `AudioHal` abstracts the route to "it changed or not",
`AudioRouting` abstracts the mutexes, and both have the same entry points.

| variable | code |
|---|---|
| `board` | the product; `adev.board_type` is what `get_boardtype` has found out, BLAZE (0) before |
| `adev` | `omap4_audio_device`: `mode`, `in_call`, `devices` split into `outs` and `ins`, `tty_mode`, `active_output`, `active_input`, `input_requires_stereo`, and `mixer`, what the controls of the sound card are set to |
| `in` | the input stream's device and source |
| `force` | `out_write` has still to force the input into standby |

A route (`hs_output`, `vx_ul_amic_left` ...) is a function from controls to
values, `set_route_by_array` overrides the mixer with it.  The mixer belongs to
the kernel, so it outlives `Restart`, the end of the process.  Left out: gains
that are set to constants, the master and voice volumes, bluetooth_nrec, and the
second setting of the output paths in a call where it repeats the first.

| run | bounds | shows |
|---|---|---|
| `audio_routing` | 3 boards, 2 modes, 4 TTY modes, 4 sets of outputs, 3 inputs, 3 sources; pcms may not open; restarts | outputs, calls, microphones and gains follow the use case in every order of events |
| `audio_call_stage` | the same | **violated**: the stage left on by standby in a call is not turned off at the call's end |

The sets of outputs are one per back end (speaker, headset, bluetooth) and one
with HDMI, for which a call forces the speaker; the earpiece comes with calls.
The sources are those the code treats differently except MIC, whose gain only the
digital microphones change.  Nothing counts, so the state space is finite as it
is.  On PANDA there is one route and the properties say little.

Observed and not stated, as no text denies it: the capture of the sidetone mixer
is written in calls only and stays on after one; `"off"`, for which the controls
have `"Off"`, changes nothing on the tablet (`SetEnum`).

*Proofs.*  `TypeCorrect` and `VoiceSilent` (`VoiceOnlyInCall`) hold for all modes,
sources, input devices and sets of outputs, under the assumptions
`NoDeviceIsNoRoute` (a call could otherwise be left without an output device) and
`NamesKnown`.  `IInv` says that the device is settled between two entry points:
its fields and every control have their type, the call is what the mode says, and
the voice is off outside of a call.  `VoiceOnlyInCall` is not inductive: on PANDA,
whose route never touches the voice switches, they must be off in calls, too, and a
call ends silent only because `in_call` follows the mode.  The lemmas go up through
the code: a route sets its own controls only, `select_output_device` silences the
voice outside of a call, `select_input_device` and standby keep it.

A second invariant, `RInv`, is about what is routed: `Routing` (music goes to the
selected outputs while one is active, a call to where the framework and the TTY mode want
it), `Records` (the recorded device is the input's, one microphone is on, and the gain
is the source's) and `Follows` (the microphone is the one for the output, unless `out_write` has
yet to force the input into standby).  It says so of any device record, so that the lemmas
follow the code from one operator to the next, and it speaks of the controls that the later
entry points depend on; what they leave alone (a mode that changes between two that are not
a call, a TTY mode set outside of one, a standby of the other direction) is
then routed as it was, and `force_all_standby` makes the end of a call
begin from a device that plays and records nothing.
From it come `OutputRoutedHolds`, `CallRoutedHolds`, `MicFollowsSpeakerHolds`,
`InputRoutedHolds` and `VolumeForSourceHolds`, that is all the properties of the run
`audio_routing`.  They need `InputsKnown`: the input devices are those that
`audio_policy.conf` declares.

## CameraHardware and V4L2Camera

`hw` is the object with everything that `mLock` protects, `hw.cam` the capture
object, whose operations are the operators of `V4L2Camera`.  What lies between
locking and unlocking `mLock` is one action, except that `stopPreviewLocked`
waits, with `mLock` held, for the preview thread: then the caller is at
`joinStop`, `joinHeaps` or `joinPicture` until that thread is `dead`.

| variable | code |
|---|---|
| `hw` | window and its geometry, sizes and formats of the parameters, the sizes and presence of the five heaps, recording flag, messages, the preview thread, the capture object |
| `mLock` | the owner, while it waits for the preview thread |
| `pc` | callers: idle or joining; preview threads: `check` (exitPending), `loop`, `callbacks`, `inCallback`, `reenter`; picture threads alike |
| `todo` | the callbacks a thread has still to make, outside `mLock` |
| `exitPending` | `Thread::mExitPending` |
| `dangling` | threads inside a callback whose heap has been released meanwhile |

A heap is its size and whether it is there; a frame is a size.  External calls
that fail are a set `f`, nothing or one thing per critical section, out of
`MayFail`.  `MaxQueued` bounds the count of queued buffers, which `Open` does
not reset and failing starts therefore increase.  Left out: power files, the
negotiation of default parameters, autofocus, and the frame rate.

| run | bounds | shows |
|---|---|---|
| `camera` | 1 caller, 2 preview threads one after the other, 2 sizes, 2 formats, preview and video messages; the preview heap may get no memory; a callback that calls `disableMsgType` | heaps live while handed out, captured size = recorded size, frames fit their heaps, window agrees |
| `camera_failures` | 1 caller, 1 picture thread, 2 preview threads; 2 sizes of one area; open, VIDIOC_QBUF and VIDIOC_STREAMON fail; fair threads, callbacks that return | preview has the device; counters cover the driver's buffers; whoever joins the preview thread gets it; no deadlock |
| `camera_picture` | pictures | **violated**: a picture heap is released during its callback |
| `camera_callback` | a callback that calls the device | **violated**: it and `stopPreviewLocked` wait for each other |

A second caller would only wait for `mLock`, as every call holds it from its
beginning to its end; a third preview thread would be a renaming of the first,
which has ended.  Two sizes are what a change of size needs; `camera` has a larger one, `camera_failures`
two whose frames have the same bytes, for which no heap changes but the device must.  `MaxQueued` is 3 or 4, with two
buffers: one failed start more than a stream needs, which is what makes the count differ
from what the driver has.  `camera` does not
look for deadlocks, since the one of `camera_callback` is in it;
`camera_failures` does, with callbacks that do not call back.

*Fairness.*  `WF_vars(PreviewStep(p))`: the thread is scheduled, frames arrive
and callbacks return.  `WF_mLock(ReturnsFromJoin(t))`: a caller that is woken by
the end of the thread goes on, which needs no mutex, since it has it.
`StopEnds` needs no fairness of `mLock`: the preview thread only tries to lock it.

*A preview restarted.*  `stopPreviewLocked` in the middle of a change of size or
heaps waits for the thread to end, and the preview is then started again in the same
critical section: the thread that is `dead` runs again (`Moves`).  Nobody sees it
in between, so that the same element of `Previews` stands for both.

*Proofs.*  `CameraHardwareProofs` proves all the state properties of `camera` and
`camera_failures` for every number of callers, picture and preview threads, all sizes,
formats, messages and failures: `TypeCorrect`, `PreviewHeapAliveHolds`,
`PreviewHasDeviceHolds`, `WindowHasCapturedSizeHolds`, `CapturesRecordedSizeHolds`,
`CountCoversDriverHolds` and `FramesFitHolds`.  Apart from the types and the counts they are not inductive, because each
is about a preview that runs, and what makes it true was done by the call before.  The invariant has
four parts.  `ObjectInv` has `Runs` (while the object has a thread, the device is open, streaming and mapped
at the captured size) and `Settled` (whenever `mLock` is free, the captured size and the heaps are
what the parameters need; a caller that waits for the preview has changed the
parameters and not yet the heaps, so this is false while it has `mLock`).
`Locked` and `Alive`: `mLock` is owned across steps exactly by the thread that waits for the
preview, a preview thread that is alive is the object's, and it is asked to end only by a
thread that keeps `mLock` until it has; so heaps are released only when no preview
thread is left.  `Delivering`: the callbacks that a preview thread still has to make are of
heaps that are there.  The lemmas go up from the capture object (`Open`, `Start`, `Stop`,
`Close`) through the heaps to the calls.  `StopEnds` and the absence of deadlocks are left to
the model checker.

## V4L2Formats, Converter and V4L2Frames

The state is what one open device has been asked: `phase` is the loop the
enumeration is in, `m_AllFmts` the sorted vector of modes, `best` the picture
and preview modes, `capture` what `Init` has set up (mode, pixel format, crop
margins, offset, bytes of a line).  `CameraHardware` calls `Init` once after each
`Open`.  The driver has any subset of the sizes and rates and one of the sets of
pixel formats in `Drivers`.  SortedVector (external) replaces an element that
compares equal.

`Converter` has no state.  A converter is the set of its writes: the byte of the
destination and the bytes of the source its value is computed from.  That is what
pointer arithmetic can get wrong; the arithmetic of colours is left out.
`V4L2Frames` has the callers: `GrabRawFrame` chooses a converter to YUYV for what
`Init` has set up, `previewThread` one for the recorder, one for the preview and one
for the window.  What they should do is stated apart from them, from where each
format has the components of a pixel (`PairLayout`, `ChromaPlane`, `BlockLayout`,
`BayerColours`: V4L2's and Android's definitions, external): `Wanted` is the YUYV frame of
the middle of the captured one, `WantedByClient` and `WantedByWindow` are what the
client and the window are promised.

| run | bounds | shows |
|---|---|---|
| `v4l2_formats` | driver's sizes 16x4, 8x8, 24x10, cropped 6x2 and 3x3; 1 rate; all 24 pixel formats | the defaults are the best modes, `Init` takes the closest mode, every byte of a frame comes from the pixel and component it stands for, for 20 of the formats, every mode and crop and in every client's format, with the exceptions listed below |

16x4 and 8x8 have the same area, so one replaces the other: the list loses a
mode, which the model shows and no property denies.  24x10 has a height that is no
multiple of four and a width that is none of sixteen; 6x2 is neither and makes margins
that round in each direction; 3x3 is odd.  Each of the formats is the only one of a
driver; one driver has a worse format behind one that cannot be cropped, one a better
one before.

`FrameConverted` and `FrameDelivered` leave out what the code does otherwise, each with
its line; with any of these let in, TLC finds the property violated (for Y41P with a size like 12x4,
which is not in the run):

* GREY: `bytesperline` is raised to two bytes per pixel (`V4L2Camera.cpp:249`), so every
  row but the first is read from the wrong place.  Y16: the cast in
  `Converter.cpp:243` is done before the shift, so every pixel is black.  No text
  promises these formats anything.
* Odd sizes: the loops step by pairs and write one byte too many in a row.  Y41P has
  groups of eight pixels, so its converter needs a width of whole eights.
* YV12 and I420 with a width that is no multiple of 16: `initHeapLocked` rounds the stride
  (`CameraHardware.cpp:1088`), the converter is called with the width
  (`CameraHardware.cpp:1391`).
* A YUYV preview of another shape than the video but of the same area is grabbed in
  place (`CameraHardware.cpp:1306`).

`bayer_to_rgb24` is for frames of at least 3 x 2 pixels.  The window always has the captured size
(`WindowHasCapturedSize`) and `NegotiatePreviewFormat` knows only RGBA_8888, so
centring, cropping and the other converters of `fillPreviewWindow` are never reached
and not modelled.  An added size of `initDefaultParameters` for
which the device has no larger mode is refused by `Init`.

*Proofs.*  `CompareIsByArea` (the cases of `SurfaceSize::compare` are the
comparison of areas), `CompareModesIsAnOrder` (antisymmetric and transitive, as
SortedVector needs) and `CroppedInside` hold for all sizes.  From them follow the
properties of every state, for all sizes and rates a driver may list, however often
(`TypeCorrect`, `DefaultsAreBestHolds`, `CaptureIsClosestHolds`), and that no two modes of
the vector compare equal (`ModesAreSorted`).  The assumptions are that sizes and rates are
not zero.

`m_AllFmts` has one rate of one size added in a step; a size with several rates is listed
again.  The invariant `FInv` has the types, the order of the vector (`Sorted`), that
`best` is right once `Open` is done (`Chosen`), and that what `Init` has set up is of a mode
still in the vector (`SetUpRight`).  `DefaultsAreBest` and `CaptureIsClosest` are not
inductive without the types of the modes, for an area is compared with an area only
if both are numbers, and a mode beats `NoMode` only if it is not empty.

The two loops are recursive functions over the positions of the vector.  What they end
with is proved pass by pass: `Passes` is induction over a set of numbers (a set of
passes that has 0 and with each pass the next has all of them), which needs no operator
parameter: a least pass that is missing would have one before it (`Least`, from
`NatLessThanWellFounded`).  `LoopExists` proves that the recursive definition defines
anything: there is a run of every loop of n passes.  `BestPicture` and `BestPreview` say
what the loop of `Open` has selected after i of them.  `AddModeIs` gives the element of
every position after an `add`: those before the new mode are the first ones of the
vector, because it is sorted (`FirstOnes`, again by the least position left out).

`FrameConvertedHolds` and `FrameDeliveredHolds` are about the frames of every size, crop,
driver, format and preview.  The invariant adds to them that what `Init` has set up is a
crop of the mode in the format of one row of `pixFmtsOrder` (`SetUpRight`, with
`IsCroppedOf`); what kind of format a row has and whether it may be cropped is
`KindOfRows` and `FormatTable`.  The rest is about the operators of `Converter`.  Both the
converter and the layout are sets of writes, but the one is numbered by pairs, pairs of
rows or eights of pixels, the other by pixels:

* `ByPairs`, `ByTwoRows`, `ByFours` and `RowsOfBytes` change the numbering: each pixel is
  the even or the odd one of just one pair, each row of one pair of rows, so the loops write
  every byte, and no other.  This is where the parity of the sizes is needed.
* `PixelOfPair`, `PixelOfPlane`, `PixelOfBlock`, `PixelOfEight`, `LumaOfRgb` and
  `ChromaOfRgb` compute where the layout has the component that byte j of pixel i of a
  pair needs.  For the formats that may be cropped the offset of the crop has to be
  the place of its first pixel (`CropHasRow`, `LineFacts`); the others start at 0 and have the
  whole frame (`IsWholeFrame`), which holds because `Usable` takes them only for the size of
  the mode.
* `GrabbedPairs`, `Grabbed422`, `Grabbed420`, `GrabbedSpca`, `GrabbedRgb` and
  `GrabbedEights` put both together for the loops of a kind, `GrabbedFrame` for all rows of the
  table.  `BayerDemosaics` is apart: every sample that `bayer_to_rgb24` takes for a colour
  has this colour, because at the borders as inside the neighbours differ in one parity
  (`Neighbours`, `BayerTable`), and from 3 x 2 pixels on there is one.
* `PlaneInTurn` and `PlanesOfOneEach` are the converters to the client's planes, for any
  width of the preview and the video (`IsDelivery`: what is copied is what both have),
  `BytesDelivered` and `AllBytes` the copies, `WindowDelivered` the window.

## Updater

One action per write of `update_bootloader` in its order, and `fs_size_fix`
after it, as an update script has them.

| variable | code |
|---|---|
| `device`, `image_size` | what sysfs says of the device; the size of the image |
| `pc` | the next step, or how the script ended |
| `mem`, `disk` | what the storage reads as and what of it survives a loss of power |
| `trouble` | failures and losses of power so far, at most `MaxTrouble` |

`fsync` makes `mem` durable, and is assumed to succeed; so does the end of
recovery, which syncs.  A write of several sectors may be `torn`.  External:
`Restart` (the script is run again), `Finish`, `Boots` (does the boot ROM find an
xloader), `LosePower`.  `OneSectorLess` says that the partition table is for the
devices that `fs_size_fix` is for: its two sizes are those of the old and of the
new table.

| run | bounds | shows |
|---|---|---|
| `updater` | every kind of device, 3 image sizes around the limit, 3 failures or losses of power | a finished update is complete and for this device; the crypto footer fits, in memory and on the disk |

Three are enough for a failure, another one in the attempt after it, and a loss
of power.  `WORD` stands for the width of unsigned int, which is larger than the
number of sectors.  A run of the script may end in `rejected` or in a device that does not boot, so
the run does not look for deadlocks.

*Proofs.*  `IInv` is `TypeOK`, `Progress` (what each `pc` implies about `mem`)
and `FooterSizes` (the footer has the size of the old or of the new table, and
the same one on disk and in memory).  From it come
`TypeCorrect`, `CompleteWhenDone` and `FooterFitsTable`, for every device, image and number
of failures.

## What is not proved

Of the properties that hold, proved are 22 of the 23 of the audio HAL, all of
`CameraHardware` but `StopEnds`, the five of `V4L2Formats` and `V4L2Frames`, and all of
`Updater`.  What is left to TLC, or to nothing:

* Liveness and everything with ENABLED, as the prover has no rules for them:
  `DeviceReleased`, `StopEnds` and the absence of deadlocks.
* What the colours of a pixel are computed to: a converter is modelled by the bytes it
  reads for each byte it writes.

No module has a RECURSIVE operator.

## Not modelled

* The playback data path.  `out_write` resamples one buffer and writes it: what the
  resampler holds is its own and no frame outlives the call, so nothing relates two
  of its calls.  Its locking and its effect on the stream are in `AudioHal`.  One
  thing in it is observed here, as no state shows it: an `out_write` that has just
  created its resampler writes from `buf` before it is set (`audio_hw.c:1710`).
* The JPEG decoder, EXIF and the libjpeg encoder: pure functions on megabytes that no
  other part depends on.
* `CameraFactory`: a configuration is parsed once into a table that is only read
  afterwards.
* The recovery's keys: two functions that a unit test exhausts.  `recovery_ui.c` is not
  compiled.
* `dumpstate`, test scripts, init scripts, kernel patches, overlays and firmware hold no
  logic of their own.
