---------------------------- MODULE AudioCapture ----------------------------
(***************************************************************************)
(* The data path of an input stream of audio_hw.c: the period buffer that  *)
(* pcm_read() fills, the resampler, the buffer in front of the effects and *)
(* the one of the echo reference.  A frame is the number at which the      *)
(* microphone captured it, so a buffer says what it holds and in which     *)
(* order; Junk is memory nobody wrote.                                     *)
(*                                                                         *)
(* in_read() has the stream's mutex from its beginning to its end, as the  *)
(* calls of an effect and the standby have for theirs, so one thread is in *)
(* the data path at a time: a call begins when pc is "idle".  External are *)
(* pcm_read(), the resampler, the effects and the echo reference: what     *)
(* they hold back, how much they take and whether they fail is theirs.     *)
(***************************************************************************)
EXTENDS Integers, Sequences, SequencesExt, FiniteSets

CONSTANTS
    Period,             \* in->config.period_size
    Ratio,              \* frames of the driver for one of the resampler
    Requests,           \* the frames a call of in_read() asks for
    Effects,            \* preprocessors the framework adds; AEC is one
    MAX_PREPROCESSORS,
    MaxHold,            \* frames the effects keep to themselves, at most
    MaxFrame            \* bound of the frames captured

AEC  == "AEC"
Junk == 0

ASSUME SizesPositive == Period \in Nat \ {0} /\ Ratio \in Nat \ {0}
ASSUME RequestsPositive == Requests \subseteq Nat \ {0}
ASSUME BoundsAreNumbers == MaxHold \in Nat /\ MaxFrame \in Nat /\ MAX_PREPROCESSORS \in Nat

VARIABLES
    resampler,      \* does the stream have one? (requested_rate # config.rate)
    mono,           \* config.channels = 1
    remix,          \* remix_at_driver # NULL
    standby,
    preprocessors,
    need,           \* need_echo_reference
    echo,           \* echo_reference # NULL
    pc,             \* "idle", "direct", "frames", "push" or "process"
    frames,         \* what the in_read() in progress has been asked for
    wr,             \* frames_wr of process_frames()
    got,            \* what the read_frames() in progress has copied
    buffer,         \* in->buffer, 1 .. Period
    frames_in,      \* its last frames_in frames are still to be read
    rs,             \* frames inside of the resampler
    proc,           \* in->proc_buf, its first proc_frames_in frames
    proc_buf_size,
    ref_frames_in,
    ref_buf_size,
    fx,             \* frames inside of the effects
    next,           \* the next frame the driver gives
    last,           \* the last frame in_read() has given, of those not passed
    started,        \* the first frame after the last start
    passed,         \* frames left in a buffer while younger ones were given
    breaks          \* frames before which others have been lost

stream  == <<resampler, mono, remix, standby>>
effects == <<preprocessors, need>>
call    == <<pc, frames, wr, got>>
input   == <<buffer, frames_in, rs>>
process == <<proc, proc_buf_size, fx>>
reverse == <<echo, ref_frames_in, ref_buf_size>>
history == <<next, started, last, passed, breaks>>

vars == <<stream, effects, call, input, process, reverse, history>>

-----------------------------------------------------------------------------
(***************************************************************************)
(* What is where.                                                          *)
(***************************************************************************)
Least(m, n) == IF m < n THEN m ELSE n
Most(m, n)  == IF m < n THEN n ELSE m

Rate == IF resampler THEN Ratio ELSE 1

\* Mutated Unread: each buffer given begins at the beginning of the period.
UnreadFromBeginning(b, n) == SubSeq(b, 1, n)

\* The frames that get_next_buffer() has still to give, from
\* in->buffer + (period_size - frames_in) on.
Unread(b, n) == SubSeq(b, Period - n + 1, Period)

\* Frames the driver gives, from one number on.
Captured(from, n) == [i \in 1 .. n |-> from + i - 1]

\* What n frames of the driver make: each frame of the resampler is Rate of
\* them and has the number of the first; the rest it keeps.
Resampled(s) == [i \in 1 .. Len(s) \div Rate |-> s[Rate * (i - 1) + 1]]
Kept(s)      == SubSeq(s, Rate * (Len(s) \div Rate) + 1, Len(s))

(***************************************************************************)
(* adev_open_input_stream() with its calloc().                             *)
(***************************************************************************)
Init ==
    /\ resampler \in BOOLEAN /\ mono \in BOOLEAN
    /\ remix = FALSE /\ standby = TRUE
    /\ preprocessors = {} /\ need = FALSE
    /\ pc = "idle" /\ frames = 0 /\ wr = 0 /\ got = <<>>
    /\ buffer = [i \in 1 .. Period |-> Junk] /\ frames_in = 0 /\ rs = <<>>
    /\ proc = <<>> /\ proc_buf_size = 0 /\ fx = <<>>
    /\ echo = FALSE /\ ref_frames_in = 0 /\ ref_buf_size = 0
    /\ next = 1 /\ started = 1 /\ last = 0 /\ passed = {Junk} /\ breaks = {1}

(***************************************************************************)
(* in_read(): starting the stream.                                         *)
(***************************************************************************)
\* The frames that wait before those the path in_read() takes will give.
Shortcut ==
    CASE preprocessors # {}             -> {}
      [] preprocessors = {} /\ (resampler \/ remix') -> ToSet(fx \o proc)
      [] OTHER -> ToSet(fx \o proc \o rs \o Unread(buffer, frames_in))

\* What the path gives first, if it leaves something behind.
FirstOfPath ==
    IF resampler \/ remix' THEN Head(rs' \o Unread(buffer', frames_in') \o <<next'>>)
    ELSE next'

\* Mutated Reload: proc_buf is allocated once.
ReloadIntoFirstBuffer(p, f) ==
    /\ got' = <<>>
    /\ IF Len(p) < f
       THEN pc' = "frames" /\ proc_buf_size' = IF proc_buf_size = 0 THEN f ELSE proc_buf_size
       ELSE pc' = "push" /\ UNCHANGED proc_buf_size

\* process_frames(): reload proc_buf if there is not enough in it.
Reload(p, f) ==
    /\ got' = <<>>
    /\ IF Len(p) < f
       THEN pc' = "frames" /\ proc_buf_size' = Most(proc_buf_size, f)
       ELSE pc' = "push" /\ UNCHANGED proc_buf_size

\* process_frames(), read_frames() or pcm_read()?
ChoosePath(n) ==
    /\ frames' = n /\ wr' = 0
    /\ IF preprocessors # {} THEN Reload(proc, n)
       ELSE /\ pc' = IF resampler \/ remix' THEN "frames" ELSE "direct"
            /\ got' = <<>>
            /\ UNCHANGED proc_buf_size
    /\ passed' = passed \union Shortcut

\* setup_stereo_to_mono_input_remix(), if the microphone of the moment needs
\* it: the period buffer is another one.
Remix(stereo) ==
    IF stereo /\ mono
    THEN remix' = TRUE /\ buffer' = [i \in 1 .. Period |-> Junk]
    ELSE UNCHANGED <<remix, buffer>>

\* get_echo_reference() may give none.
GetEcho ==
    \/ need /\ echo' = TRUE
    \/ ~need /\ UNCHANGED echo
    \/ need /\ ~echo /\ echo' = FALSE

\* Mutated Start: start_input_stream() does not reset the resampler.
StartWithoutReset(n) ==
    /\ pc = "idle" /\ standby /\ next < MaxFrame
    /\ \E stereo \in BOOLEAN : Remix(stereo)
    /\ GetEcho
    /\ standby' = FALSE
    /\ UNCHANGED <<frames_in, rs>>
    /\ next' = next + 1 /\ started' = next'
    /\ ChoosePath(n)
    /\ breaks' = breaks \union {next + 1}
                    \union (IF Shortcut = {} THEN {} ELSE {FirstOfPath})
    /\ UNCHANGED <<resampler, mono, effects, proc, fx, ref_frames_in, ref_buf_size, last>>

\* start_input_stream() succeeds.  What the microphone heard since the last
\* standby is lost.
Start(n) ==
    /\ pc = "idle" /\ standby /\ next < MaxFrame
    /\ \E stereo \in BOOLEAN : Remix(stereo)
    /\ GetEcho
    /\ standby' = FALSE
    /\ IF resampler THEN frames_in' = 0 /\ rs' = <<>> ELSE UNCHANGED <<frames_in, rs>>
    /\ next' = next + 1 /\ started' = next'
    /\ ChoosePath(n)
    /\ breaks' = breaks \union {next + 1}
                    \union (IF Shortcut = {} THEN {} ELSE {FirstOfPath})
    /\ UNCHANGED <<resampler, mono, effects, proc, fx, ref_frames_in, ref_buf_size, last>>

\* pcm_open() fails: in_read() sleeps and returns.
StartFails ==
    /\ pc = "idle" /\ standby
    /\ \E stereo \in BOOLEAN : Remix(stereo)
    /\ GetEcho
    /\ breaks' = IF buffer' = buffer THEN breaks ELSE breaks \union {next}
    /\ UNCHANGED <<resampler, mono, standby, effects, call, frames_in, rs, process,
                   ref_frames_in, ref_buf_size, next, started, last, passed>>

\* in_read() of a running stream.
Read(n) ==
    /\ pc = "idle" /\ ~standby
    /\ UNCHANGED <<stream, input, next>>
    /\ ChoosePath(n)
    /\ breaks' = IF Shortcut = {} THEN breaks ELSE breaks \union {FirstOfPath}
    /\ UNCHANGED <<effects, proc, fx, reverse, started, last>>

(***************************************************************************)
(* in_read(): the frames.                                                  *)
(***************************************************************************)
Return == pc' = "idle" /\ frames' = 0 /\ wr' = 0

\* pcm_read() straight into the framework's buffer.
ReadDirect ==
    /\ pc = "direct" /\ next + frames <= MaxFrame
    /\ next' = next + frames
    /\ last' = next + frames - 1
    /\ Return
    /\ UNCHANGED <<stream, effects, got, input, process, reverse, started, passed, breaks>>

ReadDirectFails ==
    /\ pc = "direct" /\ next < MaxFrame
    /\ next' = next + 1
    /\ breaks' = breaks \union {next'}
    /\ Return
    /\ UNCHANGED <<stream, effects, got, input, process, reverse, started, last, passed>>

\* How many frames read_frames() has been asked for, and has still to get
\* from the driver for it.
Wanted == IF preprocessors = {} THEN frames ELSE frames - Len(proc)
Needed == Rate * (Wanted - Len(got)) - Len(rs)

\* One turn of read_frames() with the period buffer b, n frames of it unread:
\* the resampler takes what it needs, memcpy() what there is room for.
Take(b, n) ==
    LET k     == Least(n, Needed)
        taken == rs \o SubSeq(Unread(b, n), 1, k)
    IN  /\ got' = got \o Resampled(taken)
        /\ rs' = Kept(taken)
        /\ buffer' = b
        /\ frames_in' = n - k

\* get_next_buffer() has frames left of the last period.
ReadBuffered ==
    /\ pc = "frames" /\ Len(got) < Wanted /\ frames_in > 0
    /\ Take(buffer, frames_in)
    /\ UNCHANGED <<stream, effects, pc, frames, wr, process, reverse, history>>

\* get_next_buffer() reads a period, remix_func() makes it mono in place.
ReadPeriod ==
    /\ pc = "frames" /\ Len(got) < Wanted /\ frames_in = 0
    /\ next + Period <= MaxFrame
    /\ Take(Captured(next, Period), Period)
    /\ next' = next + Period
    /\ UNCHANGED <<stream, effects, pc, frames, wr, process, reverse, started, last, passed, breaks>>

\* pcm_read() fails: in_read() ends, and read_frames() forgets what it had.
ReadPeriodFails ==
    /\ pc = "frames" /\ Len(got) < Wanted /\ frames_in = 0 /\ next < MaxFrame
    /\ next' = next + 1
    /\ got' = <<>>
    /\ breaks' = breaks \union {next', Head(rs \o <<next'>>)}
    /\ Return
    /\ UNCHANGED <<stream, effects, input, process, reverse, started, last, passed>>

\* The last frame of s that no younger one was given before.
LastOf(s) == LET kept == {i \in DOMAIN s : s[i] \notin passed}
             IN  IF kept = {} THEN last ELSE s[Max(kept)]

\* read_frames() is done: its frames are the framework's ...
FramesRead ==
    /\ pc = "frames" /\ Len(got) = Wanted /\ preprocessors = {}
    /\ last' = LastOf(got)
    /\ got' = <<>>
    /\ Return
    /\ UNCHANGED <<stream, effects, input, process, reverse, next, started, passed, breaks>>

\* ... or at the end of proc_buf.
Reloaded ==
    /\ pc = "frames" /\ Len(got) = Wanted /\ preprocessors # {}
    /\ proc' = proc \o got
    /\ got' = <<>>
    /\ pc' = "push"
    /\ UNCHANGED <<stream, effects, frames, wr, input, proc_buf_size, fx, reverse, history>>

\* push_echo_reference(): n frames are in ref_buf, and the echo canceller
\* takes some of those that fit the frames in proc_buf; who is no echo
\* canceller has no process_reverse(), and leaves frameCount as it is.
ProcessReverse(n) ==
    LET given == Least(n, Len(proc))
    IN  \E k \in IF AEC \in preprocessors THEN 0 .. given ELSE {given} :
            ref_frames_in' = n - k

\* update_echo_reference() reads what is missing, and may fail.
PushEcho ==
    /\ pc = "push" /\ echo
    /\ ref_buf_size' = Most(ref_buf_size, Len(proc))
    /\ \/ ProcessReverse(Most(ref_frames_in, Len(proc)))
       \/ ref_frames_in < Len(proc) /\ ProcessReverse(ref_frames_in)
    /\ pc' = "process"
    /\ UNCHANGED <<stream, effects, echo, frames, wr, got, input, process, history>>

NoEcho ==
    /\ pc = "push" /\ ~echo
    /\ pc' = "process"
    /\ UNCHANGED <<stream, effects, frames, wr, got, input, process, reverse, history>>

\* process(): the effects take k frames and give n; process_frames() moves
\* the rest of proc_buf to its beginning, and returns or goes on.
Process ==
    /\ pc = "process"
    /\ \E k \in 0 .. Len(proc) :
        LET inside == fx \o SubSeq(proc, 1, k)
        IN  \E n \in 0 .. Least(frames - wr, Len(inside)) :
                /\ Len(inside) - n <= MaxHold
                /\ fx' = SubSeq(inside, n + 1, Len(inside))
                /\ proc' = SubSeq(proc, k + 1, Len(proc))
                /\ last' = LastOf(SubSeq(inside, 1, n))
                /\ IF wr + n < frames
                   THEN wr' = wr + n /\ Reload(proc', frames) /\ UNCHANGED frames
                   ELSE Return /\ UNCHANGED <<got, proc_buf_size>>
    /\ UNCHANGED <<stream, effects, input, reverse, next, started, passed, breaks>>

(***************************************************************************)
(* The other calls.                                                        *)
(***************************************************************************)
\* do_input_standby(): what the buffers hold stays.
Standby == standby' = TRUE /\ echo' = FALSE

in_standby ==
    /\ pc = "idle" /\ ~standby
    /\ Standby
    /\ UNCHANGED <<resampler, mono, remix, effects, call, input, process,
                   ref_frames_in, ref_buf_size, history>>

in_add_audio_effect(e) ==
    /\ pc = "idle" /\ e \notin preprocessors
    /\ Cardinality(preprocessors) < MAX_PREPROCESSORS
    /\ preprocessors' = preprocessors \union {e}
    /\ need' = (need \/ e = AEC)
    /\ IF e = AEC /\ ~standby THEN Standby ELSE UNCHANGED <<standby, echo>>
    /\ UNCHANGED <<resampler, mono, remix, call, input, process,
                   ref_frames_in, ref_buf_size, history>>

\* The frames inside of the effects are lost with the last of them.
DropFx ==
    IF preprocessors' = {} /\ fx # <<>>
    THEN /\ fx' = <<>>
         /\ breaks' = breaks \union {Head(proc \o rs \o Unread(buffer, frames_in) \o <<next>>)}
    ELSE UNCHANGED <<fx, breaks>>

in_remove_audio_effect(e) ==
    /\ pc = "idle" /\ e \in preprocessors
    /\ preprocessors' = preprocessors \ {e}
    /\ need' = (need /\ e # AEC)
    /\ IF e = AEC /\ ~standby THEN Standby ELSE UNCHANGED <<standby, echo>>
    /\ DropFx
    /\ UNCHANGED <<resampler, mono, remix, call, input, proc, proc_buf_size,
                   ref_frames_in, ref_buf_size, next, started, last, passed>>

\* The bound: no more frames are captured.
Full ==
    /\ next >= MaxFrame - Period
    /\ UNCHANGED vars

Next ==
    \/ \E n \in Requests : Start(n) \/ Read(n)
    \/ StartFails \/ ReadDirect \/ ReadDirectFails
    \/ ReadBuffered \/ ReadPeriod \/ ReadPeriodFails \/ FramesRead
    \/ Reloaded \/ PushEcho \/ NoEcho \/ Process
    \/ in_standby
    \/ \E e \in Effects : in_add_audio_effect(e) \/ in_remove_audio_effect(e)
    \/ Full

Spec == Init /\ [][Next]_vars

-----------------------------------------------------------------------------
(***************************************************************************)
(* Properties.                                                             *)
(***************************************************************************)
\* Types, and every buffer is as large as what is in it or on its way there:
\* proc_buf and ref_buf grow with the requests, which may differ.
TypeOK ==
    /\ {resampler, mono, remix, standby, need, echo} \subseteq BOOLEAN
    /\ remix => mono
    /\ preprocessors \subseteq Effects
    /\ pc \in {"idle", "direct", "frames", "push", "process"}
    /\ frames_in \in 0 .. Period /\ Len(buffer) = Period /\ Len(rs) < Rate
    /\ Len(proc) <= proc_buf_size
    /\ pc = "frames" /\ preprocessors # {} => Len(proc) + Wanted <= proc_buf_size
    /\ pc = "frames" => Len(got) <= Wanted
    /\ ref_frames_in <= ref_buf_size
    /\ pc \in {"push", "process"} => wr < frames /\ preprocessors # {}

\* The frames that wait, in the order in which they will be given.
Waiting  == fx \o proc \o got
AtDriver == rs \o Unread(buffer, frames_in) \o <<next>>

\* y comes next after x, which stands for n frames of the driver: nothing
\* is between them but what was lost at a break.
Follows(x, y, n) ==
    \/ y = x + n
    \/ x < y /\ \E b \in breaks : x < b /\ b <= y /\ y < b + Rate

\* in_read() gives the frames in the order they were captured, each once and
\* without a gap, through all of the buffers and over standby, effects that
\* come and go, and failed reads: what it has given last, at 0, and what waits
\* is one sequence.  Not in the sequence are the frames a path without effects
\* has left in a buffer, and the memory of a period buffer that was replaced.
InOrder ==
    LET all      == Waiting \o AtDriver
        frame(i) == IF i = 0 THEN last ELSE all[i]
        given(i) == i = 0 \/ all[i] \notin passed
    IN  \A j \in 1 .. Len(all) : \A i \in 0 .. j - 1 :
            /\ given(i) /\ given(j)
            /\ \A k \in i + 1 .. j - 1 : ~given(k)
            => Follows(frame(i), frame(j), IF i <= Len(Waiting) THEN Rate ELSE 1)

\* A stream that starts has nothing of its last session in the resampler or
\* before it: without effects, what a resampled stream gives was captured
\* since its start (the effects' buffer and that of a stream that is only
\* remixed keep old frames over a standby).
Fresh ==
    pc = "frames" /\ preprocessors = {} /\ resampler =>
        \A i \in ToSet(got \o rs) : i >= started

\* Mutated BufDelay: what waits for the effects is forgotten.
BufDelayOfPeriod == frames_in

\* The delay that get_capture_delay() adds for what the HAL holds, in frames.
BufDelay == frames_in + Len(proc)

\* "We want the capture time of first sample in current buffer": without a
\* resampler the delay given to the echo canceller is the age of the first
\* frame in proc_buf, if none of the frames is from before a break.
DelayIsAge ==
    pc = "push" /\ echo /\ ~resampler
    /\ (\A b \in breaks : b <= Head(proc))
    => BufDelay = next - Head(proc)
=============================================================================
