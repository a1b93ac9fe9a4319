------------------------------ MODULE AudioHal ------------------------------
(***************************************************************************)
(* The locking and stream life cycle of the PandaBoard audio HAL,          *)
(* audio.aosp/audio_hw.c: which framework thread holds which mutex, which  *)
(* streams are in standby, which stream the device calls active, who       *)
(* points at the echo reference, and the call state.                       *)
(*                                                                         *)
(* A framework thread calls one entry point at a time.  An entry point is  *)
(* cut into steps at the places where it waits for a mutex, leaves a       *)
(* critical section or does I/O; everything between two such places is one *)
(* action, as the locks make it.  The mixer, the device mask and the PCM   *)
(* data are not here: they never decide a branch of this module except     *)
(* through "did the routing value change", which is nondeterministic.      *)
(***************************************************************************)
EXTENDS Naturals, FiniteSets

CONSTANTS
    Threads,      \* framework threads that call the HAL
    Outs,         \* memory for output streams (struct omap4_stream_out)
    Ins,          \* memory for input streams (struct omap4_stream_in)
    Refs,         \* echo references create_echo_reference() can return
    Modes,        \* audio modes of adev_set_mode()
    NORMAL, IN_CALL,  \* AUDIO_MODE_NORMAL, AUDIO_MODE_IN_CALL
    MayFail,      \* external calls that may fail: "pcm", "modem", "echo"
    MaxOuts,      \* outputs open at once (audio_policy.conf: one primary)
    ADEV,         \* the mutex of struct omap4_audio_device
    NULL

Streams == Outs \union Ins
LockIds == {ADEV} \union Streams

ASSUME CallMode == {NORMAL, IN_CALL} \subseteq Modes /\ NORMAL # IN_CALL
ASSUME Distinct ==
    /\ NULL \notin Threads \union LockIds \union Refs
    /\ ADEV \notin Streams
    /\ Outs \intersect Ins = {}

VARIABLES
    mode, in_call,            \* adev->mode, adev->in_call
    modem,                    \* are pcm_modem_dl and pcm_modem_ul open?
    dead,                     \* the process crashed (NULL pcm dereferenced)
    active_output, active_input,
    echo_reference,           \* adev->echo_reference
    live,                     \* echo references created and not released
    out_open, out_standby, out_pcm, out_echo,
    in_open, in_standby, in_pcm, in_echo,
    in_kept,                  \* history: a start failed and left in_echo behind
    in_need,                  \* in->need_echo_reference
    in_voice,                 \* in->source = AUDIO_SOURCE_VOICE_COMMUNICATION
    lock,                     \* owner of every mutex
    pc, op,                   \* where each thread is, in which entry point
    outp, inp,                \* its output and input stream
    force                     \* force_input_standby of out_write()

call    == <<mode, in_call, modem, dead>>
echo    == <<echo_reference, live>>
outSt   == <<active_output, out_standby, out_pcm, out_echo>>
inSt    == <<active_input, in_standby, in_pcm, in_echo, in_kept>>
inCfg   == <<in_need, in_voice>>
opened  == <<out_open, in_open>>
threads == <<pc, op, outp, inp, force>>
vars    == <<call, echo, outSt, inSt, inCfg, opened, lock, threads>>

OutOps == {"out_write", "out_standby", "out_close", "out_set_parameters"}
InOps  == {"in_read", "in_standby", "in_close", "in_set_parameters",
           "in_add_effect", "in_remove_effect"}
Ops    == OutOps \union InOps \union {"set_mode", "none"}

\* Where a thread can be.  "adev", "force": waits for the device mutex;
\* "out", "in": has it and waits for the mutex of outp or inp; "put", "add":
\* has device and input mutexes and waits for the active output's; "io",
\* "fail": has only the stream's mutex; "free": has left all of them.
PCs == {"idle", "adev", "out", "outBody", "in", "inBody", "put", "add",
        "inOpen", "io", "fail", "force", "mode", "selmode", "free"}

(***************************************************************************)
(* adev_open(): a device with nothing open, all streams closed.            *)
(***************************************************************************)
Init ==
    /\ mode = NORMAL
    /\ in_call = FALSE
    /\ modem = "none"
    /\ dead = FALSE
    /\ active_output = NULL /\ active_input = NULL
    /\ echo_reference = NULL /\ live = {}
    /\ out_open = [o \in Outs |-> FALSE]
    /\ out_standby = [o \in Outs |-> TRUE]
    /\ out_pcm = [o \in Outs |-> FALSE]
    /\ out_echo = [o \in Outs |-> NULL]
    /\ in_open = [i \in Ins |-> FALSE]
    /\ in_standby = [i \in Ins |-> TRUE]
    /\ in_pcm = [i \in Ins |-> FALSE]
    /\ in_echo = [i \in Ins |-> NULL]
    /\ in_kept = [i \in Ins |-> FALSE]
    /\ in_need = [i \in Ins |-> FALSE]
    /\ in_voice = [i \in Ins |-> FALSE]
    /\ lock = [l \in LockIds |-> NULL]
    /\ pc = [t \in Threads |-> "idle"]
    /\ op = [t \in Threads |-> "none"]
    /\ outp = [t \in Threads |-> NULL]
    /\ inp = [t \in Threads |-> NULL]
    /\ force = [t \in Threads |-> FALSE]

-----------------------------------------------------------------------------
(***************************************************************************)
(* Threads and mutexes.                                                    *)
(***************************************************************************)
At(t, l, ops) == pc[t] = l /\ op[t] \in ops

Goto(t, l) ==
    /\ pc' = [pc EXCEPT ![t] = l]
    /\ UNCHANGED <<op, outp, inp, force>>

Return(t) ==
    /\ pc' = [pc EXCEPT ![t] = "idle"]
    /\ op' = [op EXCEPT ![t] = "none"]
    /\ outp' = [outp EXCEPT ![t] = NULL]
    /\ inp' = [inp EXCEPT ![t] = NULL]
    /\ force' = [force EXCEPT ![t] = FALSE]

\* The thread goes on to wait for the mutex of input i.
GotoIn(t, i) ==
    /\ pc' = [pc EXCEPT ![t] = "in"]
    /\ inp' = [inp EXCEPT ![t] = i]
    /\ UNCHANGED <<op, outp, force>>

Acquire(t, l) == lock[l] = NULL /\ lock' = [lock EXCEPT ![l] = t]

Release(S) == lock' = [l \in LockIds |-> IF l \in S THEN NULL ELSE lock[l]]

(***************************************************************************)
(* The framework's calls.  It opens streams within the limits of its       *)
(* policy, calls only open streams, closes a stream that no thread is      *)
(* calling and that nobody calls afterwards, and of the inputs that are    *)
(* open it reads one at a time: adev->active_input is room for one.        *)
(***************************************************************************)
OutCaller(t, o) == op[t] \in OutOps /\ outp[t] = o
InCaller(t, i)  == op[t] \in InOps /\ inp[t] = i

Call(t, c, o, i) ==
    /\ pc[t] = "idle"
    /\ pc' = [pc EXCEPT ![t] = "adev"]
    /\ op' = [op EXCEPT ![t] = c]
    /\ outp' = [outp EXCEPT ![t] = o]
    /\ inp' = [inp EXCEPT ![t] = i]
    /\ UNCHANGED <<force, lock, call, echo, outSt, inSt, inCfg, opened>>

CallOut(t) == \E o \in Outs, c \in OutOps :
    /\ out_open[o]
    /\ \A u \in Threads : OutCaller(u, o) => op[u] # "out_close" /\ c # "out_close"
    /\ Call(t, c, o, NULL)

\* No input of S runs or is being started.
NobodyReads(S) == \A i \in S :
    in_standby[i] /\ \A t \in Threads : ~(op[t] = "in_read" /\ inp[t] = i)

CallIn(t) == \E i \in Ins, c \in InOps :
    /\ in_open[i]
    /\ \A u \in Threads : InCaller(u, i) => op[u] # "in_close" /\ c # "in_close"
    /\ c = "in_read" => NobodyReads(Ins \ {i})
    /\ Call(t, c, NULL, i)

CallSetMode(t) == Call(t, "set_mode", NULL, NULL)

\* adev_open_output_stream(): the struct is calloc'ed, standby = 1.
OpenOut(o) ==
    /\ ~out_open[o]
    /\ Cardinality({p \in Outs : out_open[p]}) < MaxOuts
    /\ out_open' = [out_open EXCEPT ![o] = TRUE]
    /\ UNCHANGED <<in_open, lock, threads, call, echo, outSt, inSt, inCfg>>

\* adev_open_input_stream().
OpenIn(i) ==
    /\ ~in_open[i]
    /\ in_open' = [in_open EXCEPT ![i] = TRUE]
    /\ UNCHANGED <<out_open, lock, threads, call, echo, outSt, inSt, inCfg>>

\* Mutated LockDevice: out_write() to a running stream takes only its mutex.
LockDeviceUnlessRunning(t) ==
    /\ pc[t] = "adev"
    /\ IF op[t] = "out_write" /\ ~out_standby[outp[t]]
       THEN Acquire(t, outp[t]) /\ Goto(t, "io")
       ELSE /\ Acquire(t, ADEV)
            /\ \/ op[t] \in OutOps /\ Goto(t, "out")
               \/ op[t] \in InOps /\ Goto(t, "in")
               \/ op[t] = "set_mode" /\ Goto(t, "mode")
    /\ UNCHANGED <<call, echo, outSt, inSt, inCfg, opened>>

LockDevice(t) ==
    /\ pc[t] = "adev"
    /\ Acquire(t, ADEV)
    /\ \/ op[t] \in OutOps /\ Goto(t, "out")
       \/ op[t] \in InOps /\ Goto(t, "in")
       \/ op[t] = "set_mode" /\ Goto(t, "mode")
    /\ UNCHANGED <<call, echo, outSt, inSt, inCfg, opened>>

\* Mutated LockOut: out_standby() and out_set_parameters() do not wait for the
\* playback thread.
LockOutDoesNotWait(t) ==
    /\ pc[t] = "out"
    /\ lock' = [lock EXCEPT ![outp[t]] = t]
    /\ Goto(t, "outBody")
    /\ UNCHANGED <<call, echo, outSt, inSt, inCfg, opened>>

LockOut(t) ==
    /\ pc[t] = "out"
    /\ Acquire(t, outp[t])
    /\ Goto(t, "outBody")
    /\ UNCHANGED <<call, echo, outSt, inSt, inCfg, opened>>

\* Mutated LockIn: do_input_standby() without the stream's mutex.
LockInDoesNotWait(t) ==
    /\ pc[t] = "in"
    /\ lock' = [lock EXCEPT ![inp[t]] = t]
    /\ Goto(t, "inBody")
    /\ UNCHANGED <<call, echo, outSt, inSt, inCfg, opened>>

LockIn(t) ==
    /\ pc[t] = "in"
    /\ Acquire(t, inp[t])
    /\ Goto(t, "inBody")
    /\ UNCHANGED <<call, echo, outSt, inSt, inCfg, opened>>

-----------------------------------------------------------------------------
(***************************************************************************)
(* Output streams.                                                         *)
(***************************************************************************)
DoOutputStandby(o) ==
    IF out_standby[o] THEN UNCHANGED outSt
    ELSE /\ out_pcm' = [out_pcm EXCEPT ![o] = FALSE]
         /\ active_output' = NULL
         /\ out_echo' = [out_echo EXCEPT ![o] = NULL]
         /\ out_standby' = [out_standby EXCEPT ![o] = TRUE]

\* Mutated StartOutput: the stream does not take the echo reference.
StartOutputWithoutEcho(o) ==
    /\ active_output' = o
    /\ out_pcm' = [out_pcm EXCEPT ![o] = TRUE]
    /\ out_standby' = [out_standby EXCEPT ![o] = FALSE]
    /\ out_echo' = out_echo

\* start_output_stream() when pcm_open() succeeds, and "out->standby = 0".
StartOutput(o) ==
    /\ active_output' = o
    /\ out_pcm' = [out_pcm EXCEPT ![o] = TRUE]
    /\ out_standby' = [out_standby EXCEPT ![o] = FALSE]
    /\ out_echo' = IF echo_reference # NULL
                   THEN [out_echo EXCEPT ![o] = echo_reference] ELSE out_echo

\* Mutated StartOutputFails: active_output is not reset.
StartOutputFailsStaysActive ==
    /\ "pcm" \in MayFail
    /\ \E o \in Outs : active_output' = o
    /\ UNCHANGED <<out_standby, out_pcm, out_echo>>

\* start_output_stream() when pcm_open() fails: out->pcm is closed again.
StartOutputFails ==
    /\ "pcm" \in MayFail
    /\ active_output' = NULL
    /\ UNCHANGED <<out_standby, out_pcm, out_echo>>

VoiceInputActive == active_input # NULL /\ in_voice[active_input]

\* Mutated OutWrite: force_input_standby is never set.
OutWriteNeverForces(t) ==
    /\ At(t, "outBody", {"out_write"})
    /\ \/ ~out_standby[outp[t]] /\ Goto(t, "io") /\ UNCHANGED outSt
       \/ out_standby[outp[t]] /\ StartOutput(outp[t]) /\ Goto(t, "io")
       \/ out_standby[outp[t]] /\ StartOutputFails /\ Goto(t, "fail")
    /\ Release({ADEV})
    /\ UNCHANGED <<call, echo, inSt, inCfg, opened>>

\* out_write() up to the point where it leaves the device mutex.
OutWrite(t) ==
    /\ At(t, "outBody", {"out_write"})
    /\ \/ ~out_standby[outp[t]] /\ Goto(t, "io") /\ UNCHANGED outSt
       \/ /\ out_standby[outp[t]]
          /\ StartOutput(outp[t])
          /\ pc' = [pc EXCEPT ![t] = "io"]
          /\ force' = [force EXCEPT ![t] = VoiceInputActive]
          /\ UNCHANGED <<op, outp, inp>>
       \/ out_standby[outp[t]] /\ StartOutputFails /\ Goto(t, "fail")
    /\ Release({ADEV})
    /\ UNCHANGED <<call, echo, inSt, inCfg, opened>>

\* Mutated OutWriteDone: the stream's mutex is kept while the input is forced.
OutWriteDoneKeepsMutex(t) ==
    /\ pc[t] \in {"io", "fail"} /\ op[t] = "out_write"
    /\ IF force[t] THEN Goto(t, "force") /\ UNCHANGED lock
                   ELSE Return(t) /\ Release({outp[t]})
    /\ UNCHANGED <<call, echo, outSt, inSt, inCfg, opened>>

\* out_write() writes to the pcm and leaves the stream's mutex.
OutWriteDone(t) ==
    /\ pc[t] \in {"io", "fail"} /\ op[t] = "out_write"
    /\ Release({outp[t]})
    /\ IF force[t] THEN Goto(t, "force") ELSE Return(t)
    /\ UNCHANGED <<call, echo, outSt, inSt, inCfg, opened>>

\* Mutated OutWriteForce: it trusts the active input it saw before.
OutWriteForceUnchecked(t) ==
    /\ pc[t] = "force"
    /\ Acquire(t, ADEV)
    /\ GotoIn(t, active_input)
    /\ UNCHANGED <<call, echo, outSt, inSt, inCfg, opened>>

\* out_write() takes the device mutex again to force the active input, if
\* there still is one, into standby.
OutWriteForce(t) ==
    /\ pc[t] = "force"
    /\ lock[ADEV] = NULL
    /\ IF active_input # NULL
       THEN Acquire(t, ADEV) /\ GotoIn(t, active_input)
       ELSE Return(t) /\ UNCHANGED lock
    /\ UNCHANGED <<call, echo, outSt, inSt, inCfg, opened>>

\* Mutated OutStandby: a stream is closed without standby.
OutCloseWithoutStandby(t) ==
    /\ At(t, "outBody", {"out_standby", "out_close"})
    /\ Release({outp[t], ADEV})
    /\ \/ op[t] = "out_close" /\ Goto(t, "free") /\ UNCHANGED outSt
       \/ op[t] = "out_standby" /\ Return(t) /\ DoOutputStandby(outp[t])
    /\ UNCHANGED <<call, echo, inSt, inCfg, opened>>

\* out_standby(), which is also the first call of adev_close_output_stream().
OutStandby(t) ==
    /\ At(t, "outBody", {"out_standby", "out_close"})
    /\ DoOutputStandby(outp[t])
    /\ Release({outp[t], ADEV})
    /\ IF op[t] = "out_close" THEN Goto(t, "free") ELSE Return(t)
    /\ UNCHANGED <<call, echo, inSt, inCfg, opened>>

\* The end of adev_close_output_stream(): free(stream).
FreeOut(t) ==
    /\ At(t, "free", {"out_close"})
    /\ out_open' = [out_open EXCEPT ![outp[t]] = FALSE]
    /\ Return(t)
    /\ UNCHANGED <<in_open, lock, call, echo, outSt, inSt, inCfg>>

\* out_set_parameters() with a routing value: the same or zero; another one
\* while the stream is not active, or no voice communication input is; and
\* another one that takes the active voice communication input along.
OutSetParameters(t) ==
    /\ At(t, "outBody", {"out_set_parameters"})
    /\ \/ /\ UNCHANGED outSt
          /\ Release({outp[t], ADEV})
          /\ Return(t)
       \/ /\ outp[t] = active_output
          /\ DoOutputStandby(outp[t])
          /\ IF VoiceInputActive
             THEN Release({outp[t]}) /\ GotoIn(t, active_input)
             ELSE Release({outp[t], ADEV}) /\ Return(t)
    /\ UNCHANGED <<call, echo, inSt, inCfg, opened>>

-----------------------------------------------------------------------------
(***************************************************************************)
(* Input streams and the echo reference.                                   *)
(***************************************************************************)
\* What a thread does after do_input_standby(): select_mode() goes on with
\* the device mutex, adev_close_input_stream() frees the stream.
AfterInputStandby(t) ==
    IF op[t] = "set_mode" THEN Release({inp[t]}) /\ Goto(t, "selmode")
    ELSE /\ Release({inp[t], ADEV})
         /\ IF op[t] = "in_close" THEN Goto(t, "free") ELSE Return(t)

\* put_echo_reference() has to lock the active output.
PutWaits(reference) ==
    reference # NULL /\ reference = echo_reference /\ active_output # NULL

\* put_echo_reference() without an active output.
PutEcho(reference) ==
    IF reference # NULL /\ reference = echo_reference
    THEN echo_reference' = NULL /\ live' = live \ {reference}
    ELSE UNCHANGED echo

\* Mutated RemoveEcho: the output keeps its pointer.
RemoveEchoForgets == out_echo' = out_echo

\* remove_echo_reference(), inside put_echo_reference().
RemoveEcho ==
    out_echo' = IF out_echo[active_output] = echo_reference
                THEN [out_echo EXCEPT ![active_output] = NULL] ELSE out_echo

\* do_input_standby() up to the end, or up to the mutex of the active output.
DoInputStandby(t) ==
    LET i == inp[t] IN
    IF in_standby[i] THEN AfterInputStandby(t) /\ UNCHANGED <<echo, inSt>>
    ELSE /\ in_pcm' = [in_pcm EXCEPT ![i] = FALSE]
         /\ active_input' = NULL
         /\ IF PutWaits(in_echo[i])
            THEN Goto(t, "put") /\ UNCHANGED <<echo, in_standby, in_echo, in_kept, lock>>
            ELSE /\ PutEcho(in_echo[i])
                 /\ in_echo' = [in_echo EXCEPT ![i] = NULL]
                 /\ in_kept' = [in_kept EXCEPT ![i] = FALSE]
                 /\ in_standby' = [in_standby EXCEPT ![i] = TRUE]
                 /\ AfterInputStandby(t)

\* Mutated InputStandbyPut: the input keeps its pointer.
InputStandbyPutForgets(t) ==
    /\ pc[t] = "put" /\ op[t] # "in_read"
    /\ lock[active_output] = NULL
    /\ RemoveEcho
    /\ PutEcho(echo_reference)
    /\ in_standby' = [in_standby EXCEPT ![inp[t]] = TRUE]
    /\ AfterInputStandby(t)
    /\ UNCHANGED <<call, active_output, out_standby, out_pcm,
                   active_input, in_pcm, in_echo, in_kept, inCfg, opened>>

\* do_input_standby() once the active output's mutex is free.
InputStandbyPut(t) ==
    /\ pc[t] = "put" /\ op[t] # "in_read"
    /\ lock[active_output] = NULL
    /\ RemoveEcho
    /\ PutEcho(echo_reference)
    /\ in_echo' = [in_echo EXCEPT ![inp[t]] = NULL]
    /\ in_kept' = [in_kept EXCEPT ![inp[t]] = FALSE]
    /\ in_standby' = [in_standby EXCEPT ![inp[t]] = TRUE]
    /\ AfterInputStandby(t)
    /\ UNCHANGED <<call, active_output, out_standby, out_pcm,
                   active_input, in_pcm, inCfg, opened>>

\* in_standby(), adev_close_input_stream(), and the forced standby of
\* out_write(), out_set_parameters() and select_mode().
InStandby(t) ==
    /\ At(t, "inBody", {"in_standby", "in_close", "set_mode"} \union OutOps)
    /\ DoInputStandby(t)
    /\ UNCHANGED <<call, outSt, inCfg, opened>>

\* free(stream) at the end of adev_close_input_stream().
FreeIn(t) ==
    /\ At(t, "free", {"in_close"})
    /\ in_open' = [in_open EXCEPT ![inp[t]] = FALSE]
    /\ in_echo' = [in_echo EXCEPT ![inp[t]] = NULL]
    /\ in_kept' = [in_kept EXCEPT ![inp[t]] = FALSE]
    /\ in_need' = [in_need EXCEPT ![inp[t]] = FALSE]
    /\ in_voice' = [in_voice EXCEPT ![inp[t]] = FALSE]
    /\ Return(t)
    /\ UNCHANGED <<out_open, lock, call, echo, outSt,
                   active_input, in_standby, in_pcm>>

\* in_set_parameters(): a change of the source or of the device.
InSetParameters(t) ==
    /\ At(t, "inBody", {"in_set_parameters"})
    /\ \E v \in BOOLEAN : in_voice' = [in_voice EXCEPT ![inp[t]] = v]
    /\ DoInputStandby(t)
    /\ UNCHANGED <<call, outSt, in_need, opened>>

\* in_add_audio_effect() and in_remove_audio_effect() of an echo canceller;
\* a stream has at most one (MAX_PREPROCESSORS).
InAec(t) ==
    /\ \/ At(t, "inBody", {"in_add_effect"}) /\ ~in_need[inp[t]]
       \/ At(t, "inBody", {"in_remove_effect"}) /\ in_need[inp[t]]
    /\ in_need' = [in_need EXCEPT ![inp[t]] = ~in_need[inp[t]]]
    /\ DoInputStandby(t)
    /\ UNCHANGED <<call, outSt, in_voice, opened>>

\* The calls that change nothing here: unchanged parameters, another effect.
InNothing(t) ==
    /\ At(t, "inBody", {"in_set_parameters", "in_add_effect", "in_remove_effect"})
    /\ Release({inp[t], ADEV})
    /\ Return(t)
    /\ UNCHANGED <<call, echo, outSt, inSt, inCfg, opened>>

\* get_echo_reference() after put_echo_reference(): create_echo_reference()
\* for the active output, which may get the memory of a released one;
\* add_echo_reference() then needs the output's mutex.
CreateEcho(t) ==
    \/ /\ active_output # NULL
       /\ \E r \in Refs \ (live \ {echo_reference}) :
            /\ echo_reference' = r
            /\ live' = (live \ {echo_reference}) \union {r}
       /\ Goto(t, "add")
    \/ /\ active_output = NULL \/ "echo" \in MayFail
       /\ PutEcho(echo_reference)
       /\ Goto(t, "inOpen")

\* in_read() up to pcm_open(), or to the mutex of the active output.
InRead(t) ==
    LET i == inp[t] IN
    /\ At(t, "inBody", {"in_read"})
    /\ \/ /\ ~in_standby[i]
          /\ Goto(t, "io")
          /\ Release({ADEV})
          /\ UNCHANGED <<active_input, echo>>
       \/ /\ in_standby[i]
          /\ active_input' = i
          /\ IF in_need[i] /\ in_echo[i] = NULL
             THEN IF PutWaits(echo_reference)
                  THEN Goto(t, "put") /\ UNCHANGED echo
                  ELSE CreateEcho(t)
             ELSE Goto(t, "inOpen") /\ UNCHANGED echo
          /\ UNCHANGED lock
    /\ UNCHANGED <<call, outSt, in_standby, in_pcm, in_echo, in_kept, inCfg, opened>>

\* get_echo_reference() releases the old reference and creates another.
InReadPut(t) ==
    /\ At(t, "put", {"in_read"})
    /\ lock[active_output] = NULL
    /\ RemoveEcho
    /\ CreateEcho(t)
    /\ UNCHANGED <<call, active_output, out_standby, out_pcm, inSt, inCfg,
                   opened, lock>>

\* add_echo_reference(), and in_read()'s stream takes the reference.
InReadAdd(t) ==
    /\ At(t, "add", {"in_read"})
    /\ lock[active_output] = NULL
    /\ out_echo' = [out_echo EXCEPT ![active_output] = echo_reference]
    /\ in_echo' = [in_echo EXCEPT ![inp[t]] = echo_reference]
    /\ Goto(t, "inOpen")
    /\ UNCHANGED <<call, echo, active_output, out_standby, out_pcm,
                   active_input, in_standby, in_pcm, in_kept, inCfg, opened, lock>>

\* The rest of start_input_stream(); in_read() leaves the device mutex.
InReadOpen(t) ==
    /\ At(t, "inOpen", {"in_read"})
    /\ \/ /\ in_pcm' = [in_pcm EXCEPT ![inp[t]] = TRUE]
          /\ in_standby' = [in_standby EXCEPT ![inp[t]] = FALSE]
          /\ Goto(t, "io")
          /\ UNCHANGED <<active_input, in_kept>>
       \/ /\ "pcm" \in MayFail
          /\ active_input' = NULL
          /\ in_kept' = [in_kept EXCEPT ![inp[t]] = (in_echo[inp[t]] # NULL)]
          /\ Goto(t, "fail")
          /\ UNCHANGED <<in_pcm, in_standby>>
    /\ Release({ADEV})
    /\ UNCHANGED <<call, echo, outSt, in_echo, inCfg, opened>>

\* in_read() reads frames, or sleeps after a failed start, and returns.
InReadDone(t) ==
    /\ pc[t] \in {"io", "fail"} /\ op[t] = "in_read"
    /\ Release({inp[t]})
    /\ Return(t)
    /\ UNCHANGED <<call, echo, outSt, inSt, inCfg, opened>>

-----------------------------------------------------------------------------
(***************************************************************************)
(* adev_set_mode() and select_mode().                                      *)
(***************************************************************************)
\* Mutated ForceAllStandby: only the output.
ForceOutputStandby(t) ==
    /\ pc' = [pc EXCEPT ![t] = IF active_output # NULL THEN "out" ELSE "selmode"]
    /\ outp' = [outp EXCEPT ![t] = active_output]
    /\ UNCHANGED <<op, inp, force>>

\* force_all_standby(): first the active output, then the active input.
ForceAllStandby(t) ==
    /\ pc' = [pc EXCEPT ![t] = IF active_output # NULL THEN "out"
                               ELSE IF active_input # NULL THEN "in" ELSE "selmode"]
    /\ outp' = [outp EXCEPT ![t] = active_output]
    /\ inp' = [inp EXCEPT ![t] = active_input]
    /\ UNCHANGED <<op, force>>

\* The mode is set again.
SetSameMode(t) ==
    /\ pc[t] = "mode"
    /\ Release({ADEV})
    /\ Return(t)
    /\ UNCHANGED <<call, echo, outSt, inSt, inCfg, opened>>

\* A change that select_mode() has nothing to do for.
SetMode(t) == \E m \in Modes \ {mode} :
    /\ pc[t] = "mode"
    /\ (m = IN_CALL) = in_call
    /\ mode' = m
    /\ Release({ADEV})
    /\ Return(t)
    /\ UNCHANGED <<in_call, modem, dead, echo, outSt, inSt, inCfg, opened>>

EnterCall(t) ==
    /\ pc[t] = "mode"
    /\ mode # IN_CALL /\ ~in_call
    /\ mode' = IN_CALL
    /\ ForceAllStandby(t)
    /\ UNCHANGED <<in_call, modem, dead, echo, outSt, inSt, inCfg, opened, lock>>

\* Mutated LeaveCall: end_call() is not called.
LeaveCallWithoutEndCall(t) == \E m \in Modes \ {IN_CALL} :
    /\ pc[t] = "mode"
    /\ mode # m /\ in_call
    /\ mode' = m
    /\ in_call' = FALSE
    /\ ForceAllStandby(t)
    /\ UNCHANGED <<modem, dead, echo, outSt, inSt, inCfg, opened, lock>>

\* end_call() uses the modem pcms without looking whether they are open.
LeaveCall(t) == \E m \in Modes \ {IN_CALL} :
    /\ pc[t] = "mode"
    /\ mode # m /\ in_call
    /\ mode' = m
    /\ in_call' = FALSE
    /\ modem' = "none"
    /\ dead' = (modem = "none")
    /\ ForceAllStandby(t)
    /\ UNCHANGED <<echo, outSt, inSt, inCfg, opened, lock>>

\* force_all_standby() puts the active output into standby.
ModeOutStandby(t) ==
    /\ At(t, "outBody", {"set_mode"})
    /\ DoOutputStandby(outp[t])
    /\ Release({outp[t]})
    /\ Goto(t, IF inp[t] # NULL THEN "in" ELSE "selmode")
    /\ UNCHANGED <<call, echo, inSt, inCfg, opened>>

\* The end of select_mode(); nobody looks at what start_call() returns.
SelectModeEnd(t) ==
    /\ pc[t] = "selmode"
    /\ \/ mode # IN_CALL /\ UNCHANGED <<modem, in_call>>
       \/ /\ mode = IN_CALL
          /\ \/ modem' = "open"
             \/ modem = "none" /\ "modem" \in MayFail /\ modem' = "none"
          /\ in_call' = TRUE
    /\ Release({ADEV})
    /\ Return(t)
    /\ UNCHANGED <<mode, dead, echo, outSt, inSt, inCfg, opened>>

\* The process is started again after a crash.
Restart ==
    /\ dead
    /\ mode' = NORMAL
    /\ in_call' = FALSE
    /\ modem' = "none"
    /\ dead' = FALSE
    /\ active_output' = NULL /\ active_input' = NULL
    /\ echo_reference' = NULL /\ live' = {}
    /\ out_open' = [o \in Outs |-> FALSE]
    /\ out_standby' = [o \in Outs |-> TRUE]
    /\ out_pcm' = [o \in Outs |-> FALSE]
    /\ out_echo' = [o \in Outs |-> NULL]
    /\ in_open' = [i \in Ins |-> FALSE]
    /\ in_standby' = [i \in Ins |-> TRUE]
    /\ in_pcm' = [i \in Ins |-> FALSE]
    /\ in_echo' = [i \in Ins |-> NULL]
    /\ in_kept' = [i \in Ins |-> FALSE]
    /\ in_need' = [i \in Ins |-> FALSE]
    /\ in_voice' = [i \in Ins |-> FALSE]
    /\ lock' = [l \in LockIds |-> NULL]
    /\ pc' = [t \in Threads |-> "idle"]
    /\ op' = [t \in Threads |-> "none"]
    /\ outp' = [t \in Threads |-> NULL]
    /\ inp' = [t \in Threads |-> NULL]
    /\ force' = [t \in Threads |-> FALSE]

-----------------------------------------------------------------------------
OutStep(t) ==
    \/ LockOut(t) \/ OutWrite(t) \/ OutWriteDone(t) \/ OutWriteForce(t)
    \/ OutStandby(t) \/ FreeOut(t) \/ OutSetParameters(t)

InStep(t) ==
    \/ LockIn(t) \/ InputStandbyPut(t) \/ InStandby(t) \/ FreeIn(t)
    \/ InSetParameters(t) \/ InAec(t) \/ InNothing(t)
    \/ InRead(t) \/ InReadPut(t) \/ InReadAdd(t) \/ InReadOpen(t) \/ InReadDone(t)

ModeStep(t) ==
    \/ SetSameMode(t) \/ SetMode(t) \/ EnterCall(t) \/ LeaveCall(t)
    \/ ModeOutStandby(t) \/ SelectModeEnd(t)

\* A step of a call that has begun.
Step(t) == ~dead /\ (LockDevice(t) \/ OutStep(t) \/ InStep(t) \/ ModeStep(t))

\* The framework begins a call, or opens a stream.
Begin ==
    /\ ~dead
    /\ \/ \E t \in Threads : CallOut(t) \/ CallIn(t) \/ CallSetMode(t)
       \/ \E o \in Outs : OpenOut(o)
       \/ \E i \in Ins : OpenIn(i)

Next == Begin \/ (\E t \in Threads : Step(t)) \/ Restart

Spec == Init /\ [][Next]_vars

\* A thread that can go on does: it is scheduled, its I/O returns.  A mutex
\* is not fair: a thread waiting for one may be overtaken for ever.
FairSpec == Spec /\ \A t \in Threads : WF_vars(Step(t))

-----------------------------------------------------------------------------
(***************************************************************************)
(* Properties.                                                             *)
(***************************************************************************)

TypedCall ==
    /\ mode \in Modes /\ in_call \in BOOLEAN
    /\ modem \in {"none", "open"} /\ dead \in BOOLEAN

TypedEcho == echo_reference \in Refs \union {NULL} /\ live \in SUBSET Refs

TypedOut ==
    /\ active_output \in Outs \union {NULL}
    /\ out_open \in [Outs -> BOOLEAN] /\ out_standby \in [Outs -> BOOLEAN]
    /\ out_pcm \in [Outs -> BOOLEAN] /\ out_echo \in [Outs -> Refs \union {NULL}]

TypedIn ==
    /\ active_input \in Ins \union {NULL}
    /\ in_open \in [Ins -> BOOLEAN] /\ in_standby \in [Ins -> BOOLEAN]
    /\ in_pcm \in [Ins -> BOOLEAN] /\ in_echo \in [Ins -> Refs \union {NULL}]
    /\ in_kept \in [Ins -> BOOLEAN]
    /\ in_need \in [Ins -> BOOLEAN] /\ in_voice \in [Ins -> BOOLEAN]

TypedThreads ==
    /\ lock \in [LockIds -> Threads \union {NULL}]
    /\ pc \in [Threads -> PCs] /\ op \in [Threads -> Ops]
    /\ outp \in [Threads -> Outs \union {NULL}]
    /\ inp \in [Threads -> Ins \union {NULL}]
    /\ force \in [Threads -> BOOLEAN]

HasStreams(t) ==
    /\ (pc[t] \in {"out", "outBody"} \/ op[t] \in OutOps) => outp[t] \in Outs
    /\ (pc[t] \in {"in", "inBody", "put", "add", "inOpen"} \/ op[t] \in InOps)
          => inp[t] \in Ins
    /\ pc[t] \in {"put", "add"} => active_output \in Outs

\* Type correctness, with the streams a thread needs where it is: a thread
\* that is about to lock or use a stream has one (out_write() looks at
\* adev->active_input again before it forces it into standby).
TypeOK ==
    /\ TypedCall /\ TypedEcho /\ TypedOut /\ TypedIn /\ TypedThreads
    /\ \A t \in Threads : HasStreams(t)

\* The places where a thread has the device mutex.
HoldsDevice == {"out", "outBody", "in", "inBody", "put", "add", "inOpen",
                "mode", "selmode"}

\* The acquisition order of the NOTE at struct omap4_stream_in, "hw device >
\* in stream > out stream": a thread that waits for the device mutex holds no
\* stream's, and one that waits for an input's holds no output's.
LockOrder == \A t \in Threads :
    /\ pc[t] \in {"adev", "force"} => \A l \in LockIds : lock[l] # t
    /\ pc[t] = "in" => \A o \in Outs : lock[o] # t

\* No stream is used after it is freed: adev->active_output/active_input, the
\* streams threads work on and the mutexes held are those of open streams
\* (adev_close_*_stream() puts a stream into standby before it frees it).
StreamsAlive ==
    /\ active_output # NULL => out_open[active_output]
    /\ active_input # NULL => in_open[active_input]
    /\ \A t \in Threads : /\ outp[t] # NULL => out_open[outp[t]]
                          /\ pc[t] \in {"in", "inBody", "put", "add", "inOpen"}
                                => in_open[inp[t]]
    /\ \A o \in Outs : lock[o] # NULL => out_open[o]
    /\ \A i \in Ins : lock[i] # NULL => in_open[i]

\* While nobody holds the device mutex, a stream is active only if it is
\* running, and with one output, and inputs that are read one at a time, a
\* running stream is active: what select_mode() and the effect calls rely on
\* to reach every stream.
ActiveIsRunning == lock[ADEV] = NULL =>
    /\ \A o \in Outs : (active_output = o) = ~out_standby[o]
    /\ \A i \in Ins : (active_input = i) = ~in_standby[i]

\* A thread doing I/O with only the stream's mutex (out_write(), in_read())
\* has an open pcm for as long as it does, whatever others do meanwhile.
IoPcmOpen == \A t \in Threads : pc[t] = "io" =>
    IF op[t] = "out_write" THEN out_pcm[outp[t]] /\ ~out_standby[outp[t]]
    ELSE in_pcm[inp[t]] /\ ~in_standby[inp[t]]

\* No pointer to an echo reference outlives it: the device's is a live one;
\* no output, which the playback thread writes to its reference from with the
\* stream's mutex alone, and no input, whose echo canceller reads with the
\* stream's mutex alone, has another, however many inputs are open and started
\* in turn.  put_echo_reference() takes it from the active output before it
\* releases it.  The exception is an input whose start failed: it keeps its
\* pointer (pcm_open() fails after get_echo_reference()), the next input's
\* start releases the reference, and the first uses the pointer when it is
\* started again.  Nor is a reference left that can no longer be released:
\* every live one is the device's, whoever failed or was closed.
EchoSafe ==
    /\ echo_reference # NULL => echo_reference \in live
    /\ \A o \in Outs : out_echo[o] \in {NULL, echo_reference}
    /\ \A i \in Ins : in_echo[i] \in {NULL, echo_reference} \/ in_kept[i]
    /\ live \subseteq {echo_reference}

\* Between two critical sections of the device, a running output feeds the
\* echo reference the device has, so an echo canceller never reads from a
\* reference nobody writes to while there is playback.
EchoFed == lock[ADEV] = NULL /\ echo_reference # NULL =>
    \A o \in Outs : ~out_standby[o] => out_echo[o] = echo_reference

\* A voice communication input with an echo canceller that runs without an
\* echo reference next to a running output is about to be restarted by the
\* out_write() that started the output (unless the reference could not be
\* created): force_input_standby is not lost.
VoiceGetsEcho == lock[ADEV] = NULL =>
    \A i \in Ins :
        (/\ ~in_standby[i] /\ in_voice[i] /\ in_need[i] /\ in_echo[i] = NULL
         /\ active_output # NULL)
        => \E t \in Threads : op[t] = "out_write" /\ force[t]

\* Between two critical sections of the device, in_call says that the mode is
\* IN_CALL, and the modem pcms are open only in a call.
CallState == lock[ADEV] = NULL /\ ~dead =>
    /\ in_call = (mode = IN_CALL)
    /\ modem = "open" => in_call

\* A call begins with all streams in standby (force_all_standby()).
CallStartsInStandby ==
    [][~in_call /\ in_call' => /\ \A o \in Outs : out_standby[o]
                               /\ \A i \in Ins : in_standby[i]]_vars

\* The streams as StreamSessions sees them.
OpenStreams    == {o \in Outs : out_open[o]} \union {i \in Ins : in_open[i]}
RunningStreams == {o \in Outs : ~out_standby[o]} \union {i \in Ins : ~in_standby[i]}
IoThread(t, s) == pc[t] = "io" /\ s = IF op[t] = "out_write" THEN outp[t] ELSE inp[t]
IoStreams      == {s \in Streams : \E t \in Threads : IoThread(t, s)}

Sessions == INSTANCE StreamSessions
                WITH open <- OpenStreams, running <- RunningStreams,
                     transferring <- IoStreams

\* Whatever order the threads come in, the HAL gives its streams the sessions
\* of StreamSessions: nobody puts a stream into standby, closes it or starts a
\* second transfer while one is going on, whether it is out_write(), in_read()
\* or their callers, a parameter, an effect or select_mode() that asks for it.
KeepsSessions == Sessions!Spec

\* "acquiring hw device mutex systematically is useful if a low priority
\* thread is waiting on the output stream mutex - e.g. executing
\* select_mode()": whoever has the device mutex gets the stream mutexes it
\* waits for and gives the device back, though mutexes are not fair.
DeviceReleased == \A t \in Threads :
    (lock[ADEV] = t) ~> (lock[ADEV] # t \/ dead)

\* "Closing modem PCMs" (end_call()): the pcms a call's end closes were opened
\* at its start.
EndCallClosesOpenPcms == [][in_call /\ ~in_call' => modem = "open" \/ dead]_vars

=============================================================================
