--------------------------- MODULE AudioEchoProofs ---------------------------
(***************************************************************************)
(* The echo reference of AudioHal, and the streams that select_mode() and  *)
(* the effects reach through the active ones, for every number of threads  *)
(* and of inputs, with what audio_policy.conf says of outputs: one is open *)
(* at a time.                                                              *)
(*                                                                         *)
(* The framework reads one of the open inputs at a time.  So a running     *)
(* stream is the active one, and the thread that has the device mutex when *)
(* it releases the echo reference finds every pointer to it, but those of  *)
(* inputs in standby whose start failed.                                   *)
(***************************************************************************)
EXTENDS AudioStreamsProofs, FiniteSetTheorems

OneOutput == MaxOuts = 1

-----------------------------------------------------------------------------
(***************************************************************************)
(* The invariants.                                                         *)
(***************************************************************************)
OneOpen == \A o, p \in Outs : out_open[o] /\ out_open[p] => o = p

\* The framework has not stopped reading i.
Reads(i) == ~in_standby[i] \/ \E t \in Threads : op[t] = "in_read" /\ inp[t] = i

OneReads == \A i, j \in Ins : Reads(i) /\ Reads(j) => i = j

\* A running stream is active, but for an input that a thread is putting into
\* standby; an input that is being started is active and in standby.  A thread
\* that takes the active input from another call has the one that runs.
RunsActive ==
    /\ \A o \in Outs : ~out_standby[o] => active_output = o
    /\ \A i \in Ins : ~in_standby[i]
          => active_input = i \/ \E t \in Threads : Putting(t, i)
    /\ \A t \in Threads, i \in Ins : Starting(t, i) => in_standby[i] /\ active_input = i
    /\ \A t \in Threads, i \in Ins : Putting(t, i) => ~in_standby[i]
    /\ \A t \in Threads : op[t] \notin InOps /\ inp[t] # NULL
          => \A i \in Ins : i # inp[t] => in_standby[i]

\* Who points at the echo reference: the running output, the input that runs
\* or is being started, and an input whose start failed.
Pointers ==
    /\ \A o \in Outs : out_standby[o] => out_echo[o] = NULL
    /\ \A i \in Ins : in_echo[i] # NULL
          => ~in_standby[i] \/ in_kept[i] \/ \E t \in Threads : Starting(t, i)
    /\ \A t \in Threads : pc[t] \in {"put", "add"} /\ op[t] = "in_read"
          => in_echo[inp[t]] = NULL
    /\ \A t \in Threads : pc[t] = "add" => echo_reference # NULL

\* The running output feeds it, unless in_read() is about to tell it to.
Fed == echo_reference # NULL => \A o \in Outs :
    ~out_standby[o] => \/ out_echo[o] = echo_reference
                       \/ \E t \in Threads : pc[t] = "add"

EchoInv == Pointers /\ EchoSafe /\ Fed

\* select_mode() has put the output, and then the input, into standby.
Forced(t) ==
    /\ Selects(t) /\ pc[t] \notin {"out", "outBody"} => \A o \in Outs : out_standby[o]
    /\ Selects(t) /\ (pc[t] = "selmode" \/ inp[t] = NULL) => \A i \in Ins : in_standby[i]

\* in_read() is past get_echo_reference() without one although there is an output.
Unfed(i) == in_need[i] /\ in_echo[i] = NULL /\ active_output # NULL

Forcing == \E t \in Threads : op[t] = "out_write" /\ force[t]

VoiceInv ==
    /\ \A t \in Threads : pc[t] = "inOpen" => ~Unfed(inp[t])
    /\ \A i \in Ins : ~in_standby[i] /\ in_voice[i] /\ Unfed(i)
          => Forcing \/ \E t \in Threads : Putting(t, i)

-----------------------------------------------------------------------------
(***************************************************************************)
(* What a step does to the streams, whatever the entry point.              *)
(***************************************************************************)
\* An output changes at the hands of a thread in the body of its call, or
\* when the echo reference is taken from it or given to it.
OutShape(t) ==
    \/ UNCHANGED outSt
    \/ /\ pc[t] = "outBody" /\ UNCHANGED <<echo, inSt>>
       /\ \/ out_standby[outp[t]] /\ StartOutput(outp[t])
          \/ out_standby[outp[t]] /\ StartOutputFails
          \/ DoOutputStandby(outp[t])
    \/ /\ InputStandbyPut(t) \/ InReadPut(t) \/ InReadAdd(t)
       /\ UNCHANGED <<active_output, out_standby, out_pcm>>

InShape(t) ==
    \/ UNCHANGED <<echo, inSt>>
    \/ pc[t] = "inBody" /\ op[t] # "in_read" /\ DoInputStandby(t) /\ UNCHANGED outSt
    \/ InputStandbyPut(t) \/ InRead(t) \/ InReadPut(t) \/ InReadAdd(t) \/ InReadOpen(t)
    \/ FreeIn(t)

LEMMA StepShape ==
    ASSUME NEW t \in Threads, Step(t)
    PROVE  OutShape(t) /\ InShape(t)
<1>. "in_read" \notin OutOps
  BY DEF OutOps
<1>1. CASE LockDevice(t)
  BY <1>1 DEF LockDevice, OutShape, InShape
<1>2. CASE OutStep(t)
  BY <1>2 DEF OutStep, LockOut, OutWrite, OutWriteDone, OutWriteForce, OutStandby, FreeOut,
     OutSetParameters, At, OutShape, InShape
<1>3. CASE InStep(t)
  <2>1. OutShape(t)
    BY <1>3 DEF InStep, LockIn, InputStandbyPut, InStandby, FreeIn, InSetParameters, InAec,
       InNothing, InRead, InReadPut, InReadAdd, InReadOpen, InReadDone, inSt, OutShape
  <2>2. InShape(t)
    BY <1>3 DEF InStep, LockIn, InStandby, InSetParameters, InAec, InNothing, InReadDone,
       At, InShape
  <2> QED BY <2>1, <2>2
<1>4. CASE ModeStep(t)
  BY <1>4 DEF ModeStep, SetSameMode, SetMode, EnterCall, LeaveCall, ModeOutStandby,
     SelectModeEnd, At, OutShape, InShape
<1> QED BY <1>1, <1>2, <1>3, <1>4 DEF Step

\* A thread's streams are open.
LEMMA StreamsOpen ==
    ASSUME IInv, Discipline, AliveInv, NEW t \in Threads
    PROVE  /\ outp[t] # NULL => outp[t] \in Outs /\ out_open[outp[t]]
           /\ inp[t] # NULL => inp[t] \in Ins /\ in_open[inp[t]]
BY DEF AliveInv, Lent, Borrows, OutLent, InLent, Selects, Discipline, OutCalls, InCalls,
   IInv, TypedThreads

-----------------------------------------------------------------------------
(***************************************************************************)
(* At most one output is open, and one input read.                         *)
(***************************************************************************)
LEMMA OneOpenNext ==
    ASSUME OneOutput, IInv, OneOpen, [Next]_vars
    PROVE  OneOpen'
<1>. TypedOut /\ TypedIn
  BY DEF IInv
<1>1. CASE \E t \in Threads : Step(t)
  <2>1. PICK t \in Threads : Step(t)
    BY <1>1
  <2>2. out_open' = out_open \/ FreeOut(t)
    BY <2>1, StepOpened
  <2>3. \A o \in Outs : out_open'[o] => out_open[o]
    BY <2>2 DEF FreeOut, TypedOut
  <2> QED BY <2>3 DEF OneOpen
<1>2. CASE Begin
  <2>1. CASE \E t \in Threads : CallOut(t) \/ CallIn(t) \/ CallSetMode(t)
    BY <2>1 DEF CallOut, CallIn, CallSetMode, Call, opened, OneOpen
  <2>2. CASE \E o \in Outs : OpenOut(o)
    <3>1. PICK o \in Outs : OpenOut(o)
      BY <2>2
    <3> DEFINE S == {p \in Outs : out_open[p]}
    <3>2. S = {}
      <4>1. SUFFICES ASSUME NEW p \in S PROVE FALSE
        OBVIOUS
      <4>2. S = {p}
        BY <4>1 DEF OneOpen
      <4>3. Cardinality(S) = 1
        BY <4>2, FS_Singleton
      <4>4. Cardinality(S) < 1
        BY <3>1 DEF OpenOut, OneOutput
      <4> QED BY <4>3, <4>4
    <3>3. \A p \in Outs : out_open'[p] => p = o
      BY <3>1, <3>2 DEF OpenOut, TypedOut
    <3> QED BY <3>1, <3>3 DEF OpenOut, OneOpen
  <2>3. CASE \E i \in Ins : OpenIn(i)
    BY <2>3 DEF OpenIn, OneOpen
  <2> QED BY <1>2, <2>1, <2>2, <2>3 DEF Begin
<1>3. CASE Restart
  BY <1>3 DEF Restart, OneOpen
<1>4. CASE UNCHANGED vars
  BY <1>4 DEF vars, opened, OneOpen
<1> QED BY <1>1, <1>2, <1>3, <1>4 DEF Next

LEMMA OneReadsNext ==
    ASSUME IInv, OneReads, [Next]_vars
    PROVE  OneReads'
<1>. TypedThreads /\ TypedIn /\ "in_read" \in InOps /\ "none" # "in_read"
  BY DEF IInv, InOps
<1>1. CASE \E t \in Threads : Step(t)
  <2>1. PICK t \in Threads : Step(t)
    BY <1>1
  <2>2. Steady(t) /\ StartsOwn(t) /\ Frame(t)
    BY <2>1, StepSteady, StepStartsOwn, ThreadStepInv
  <2>3. ASSUME NEW i \in Ins, Reads(i)' PROVE Reads(i)
    <3>1. CASE ~in_standby'[i]
      BY <2>2, <3>1 DEF StartsOwn, Reads
    <3>2. CASE \E u \in Threads : op'[u] = "in_read" /\ inp'[u] = i
      BY <2>2, <3>2 DEF Steady, Frame, Reads
    <3> QED BY <2>3, <3>1, <3>2 DEF Reads
  <2> QED BY <2>3 DEF OneReads
<1>2. CASE Begin
  <2>1. UNCHANGED in_standby
    BY <1>2 DEF Begin, CallOut, CallIn, CallSetMode, Call, OpenOut, OpenIn, inSt
  <2>2. CASE UNCHANGED <<op, inp>>
    BY <2>1, <2>2 DEF OneReads, Reads
  <2>3. CASE \E t \in Threads : CallOut(t) \/ CallSetMode(t)
    <3>1. PICK t \in Threads : CallOut(t) \/ CallSetMode(t)
      BY <2>3
    <3>2. PICK c \in Ops \ {"in_read"}, o \in Outs \union {NULL} : Call(t, c, o, NULL)
      BY <3>1 DEF CallOut, CallSetMode, OutOps, InOps, Ops
    <3>4. \A u \in Threads : op'[u] = "in_read" => op[u] = "in_read" /\ inp'[u] = inp[u]
      BY <3>2 DEF Call, TypedThreads
    <3>3. \A i \in Ins : Reads(i)' => Reads(i)
      BY <2>1, <3>4 DEF Reads
    <3> QED BY <3>3 DEF OneReads
  <2>4. CASE \E t \in Threads : CallIn(t)
    <3>1. PICK t \in Threads : CallIn(t)
      BY <2>4
    <3>2. PICK i \in Ins, c \in InOps : /\ c = "in_read" => NobodyReads(Ins \ {i})
                                       /\ Call(t, c, NULL, i)
      BY <3>1 DEF CallIn
    <3>5. /\ op'[t] = c /\ inp'[t] = i
          /\ \A u \in Threads \ {t} : op'[u] = op[u] /\ inp'[u] = inp[u]
      BY <3>2 DEF Call, TypedThreads
    <3>3. CASE c = "in_read"
      <4>1. \A j \in Ins \ {i} : ~Reads(j)
        BY <3>2, <3>3 DEF NobodyReads, Reads
      <4>2. \A j \in Ins \ {i} : ~Reads(j)'
        BY <2>1, <3>5, <4>1 DEF Reads
      <4> QED BY <4>2 DEF OneReads
    <3>4. CASE c # "in_read"
      <4>1. \A j \in Ins : Reads(j)' => Reads(j)
        BY <2>1, <3>5, <3>4 DEF Reads
      <4> QED BY <4>1 DEF OneReads
    <3> QED BY <3>3, <3>4
  <2> QED BY <1>2, <2>2, <2>3, <2>4 DEF Begin, OpenOut, OpenIn, threads
<1>3. CASE Restart
  BY <1>3 DEF Restart, OneReads, Reads
<1>4. CASE UNCHANGED vars
  BY <1>4 DEF vars, threads, inSt, OneReads, Reads
<1> QED BY <1>1, <1>2, <1>3, <1>4 DEF Next

\* The output that runs is that of a thread that has one.
LEMMA OnlyRunning ==
    ASSUME IInv, Discipline, AliveInv, OneOpen, NEW t \in Threads
    PROVE  \A o \in Outs : outp[t] # NULL /\ ~out_standby[o] => o = outp[t]
<1>1. RunningIsOpen
  BY DEF AliveInv
<1> QED BY <1>1, StreamsOpen DEF OneOpen, RunningIsOpen

-----------------------------------------------------------------------------
(***************************************************************************)
(* Running streams are active.                                             *)
(***************************************************************************)
\* What a thread can do at, and come from to, the places in the middle of
\* putting an input into standby and of starting it.
LEMMA PutSteps ==
    ASSUME IInv, NEW t \in Threads, Step(t)
    PROVE  /\ pc[t] = "put" /\ op[t] # "in_read" => InputStandbyPut(t)
           /\ pc[t] = "put" /\ op[t] = "in_read" => InReadPut(t)
           /\ pc[t] = "add" => InReadAdd(t)
           /\ pc[t] = "inOpen" => InReadOpen(t)
           /\ pc'[t] \in {"put", "add", "inOpen"} /\ op'[t] = "in_read" =>
                 InRead(t) \/ InReadPut(t) \/ InReadAdd(t)
           /\ pc'[t] \in {"add", "inOpen"} => InRead(t) \/ InReadPut(t) \/ InReadAdd(t)
           /\ pc'[t] = "put" /\ op'[t] # "in_read" =>
                 pc[t] = "inBody" /\ op[t] # "in_read" /\ DoInputStandby(t)
<1>. TypedThreads
  BY DEF IInv
<1>1. CASE LockDevice(t)
  BY <1>1 DEF LockDevice, Goto, TypedThreads
<1>2. CASE OutStep(t)
  BY <1>2 DEF OutStep, LockOut, OutWrite, OutWriteDone, OutWriteForce, OutStandby, FreeOut,
     OutSetParameters, At, Goto, GotoIn, Return, TypedThreads
<1>3. CASE LockIn(t) \/ FreeIn(t) \/ InNothing(t) \/ InReadDone(t)
  BY <1>3 DEF LockIn, FreeIn, InNothing, InReadDone, At, Goto, Return, TypedThreads
<1>4. CASE InStandby(t) \/ InSetParameters(t) \/ InAec(t)
  <2>1. pc[t] = "inBody" /\ op[t] # "in_read" /\ DoInputStandby(t)
    BY <1>4 DEF InStandby, InSetParameters, InAec, At, OutOps
  <2>2. op'[t] # "in_read" /\ pc'[t] \notin {"add", "inOpen"}
    BY <2>1 DEF DoInputStandby, AfterInputStandby, Goto, Return, TypedThreads
  <2> QED BY <2>1, <2>2
<1>5. CASE InputStandbyPut(t)
  BY <1>5 DEF InputStandbyPut, AfterInputStandby, Goto, Return, TypedThreads
<1>6. CASE InRead(t) \/ InReadPut(t) \/ InReadAdd(t)
  BY <1>6 DEF InRead, InReadPut, InReadAdd, CreateEcho, At, Goto, TypedThreads
<1>7. CASE InReadOpen(t)
  BY <1>7 DEF InReadOpen, At, Goto, TypedThreads
<1>8. CASE ModeStep(t)
  BY <1>8 DEF ModeStep, SetSameMode, SetMode, EnterCall, LeaveCall, ModeOutStandby,
     SelectModeEnd, ForceAllStandby, At, Goto, Return, TypedThreads
<1> QED BY <1>1, <1>2, <1>3, <1>4, <1>5, <1>6, <1>7, <1>8 DEF Step, InStep

Base == IInv /\ Discipline /\ AliveInv /\ OneOpen /\ OneReads

\* The output a thread works on is the only one that may run, and so is the
\* input if it runs or is being read.
LEMMA WorkedOn ==
    ASSUME Base, NEW t \in Threads
    PROVE  /\ pc[t] = "outBody" => /\ outp[t] \in Outs /\ out_open[outp[t]]
                                   /\ \A o \in Outs : o # outp[t] => out_standby[o]
           /\ pc[t] \in {"in", "inBody", "put", "add", "inOpen"} =>
                 /\ inp[t] \in Ins /\ in_open[inp[t]]
                 /\ op[t] = "in_read" \/ ~in_standby[inp[t]]
                       => \A i \in Ins : i # inp[t] => in_standby[i]
<1>1. pc[t] = "outBody" => outp[t] \in Outs /\ outp[t] # NULL
  BY HeldOut, Distinct DEF Base, LockIds, Streams
<1>2. pc[t] \in {"in", "inBody", "put", "add", "inOpen"} => inp[t] \in Ins /\ inp[t] # NULL
  BY Distinct DEF Base, IInv, Mine, HasStreams, LockIds, Streams
<1> QED BY <1>1, <1>2, OnlyRunning, StreamsOpen DEF Base, OneReads, Reads

\* Nobody is in the middle of starting an input or of putting it into standby
\* while nobody, or a thread elsewhere, has the device mutex.
LEMMA NobodyBetween ==
    ASSUME IInv, NEW t \in Threads, NEW i \in Ins, Putting(t, i) \/ Starting(t, i)
    PROVE  lock[ADEV] = t /\ lock[ADEV] # NULL
BY HeldIn, Distinct DEF Putting, Starting, Held, LockIds

LEMMA StepRunsActive ==
    ASSUME Base, RunsActive, NEW t \in Threads, Step(t)
    PROVE  RunsActive'
<1>. IInv /\ ActiveRuns /\ TypedOut /\ TypedIn /\ TypedThreads
  BY DEF Base, AliveInv, IInv
<1>. Frame(t) /\ OnlyOwn(t) /\ OutShape(t) /\ InShape(t) /\ InChange(t)
  BY ThreadStepInv, StepOwn, StepShape, StepInChange
<1>1. ASSUME NEW o \in Outs, ~out_standby'[o]
      PROVE  active_output' = o
  <2>1. CASE UNCHANGED <<active_output, out_standby>>
    BY <1>1, <2>1 DEF RunsActive
  <2>2. CASE pc[t] = "outBody" /\ out_standby[outp[t]] /\ StartOutput(outp[t])
    BY <1>1, <2>2, WorkedOn DEF StartOutput, TypedOut
  <2>3. CASE pc[t] = "outBody" /\ out_standby[outp[t]] /\ StartOutputFails
    BY <1>1, <2>3, WorkedOn DEF StartOutputFails
  <2>4. CASE pc[t] = "outBody" /\ DoOutputStandby(outp[t])
    BY <1>1, <2>1, <2>4, WorkedOn DEF DoOutputStandby, outSt, TypedOut
  <2> QED BY <2>1, <2>2, <2>3, <2>4 DEF OutShape, outSt
<1>2. ASSUME NEW i \in Ins, ~in_standby'[i]
      PROVE  active_input' = i \/ \E u \in Threads : Putting(u, i)'
  <2>1. \A u \in Threads \ {t} : Putting(u, i) => Putting(u, i)'
    BY DEF Frame, Putting
  <2>2. CASE UNCHANGED <<active_input, in_standby>> /\ ~Putting(t, i)
    BY <1>2, <2>1, <2>2 DEF RunsActive
  <2>3. CASE UNCHANGED inSt \/ FreeIn(t) \/ InReadPut(t) \/ InReadAdd(t)
    <3>1. UNCHANGED <<active_input, in_standby>>
      BY <2>3 DEF FreeIn, InReadPut, InReadAdd, inSt
    <3>2. CASE Putting(t, i)
      BY <1>2, <3>1, <3>2, PutSteps DEF Putting, InputStandbyPut, TypedIn
    <3> QED BY <2>2, <3>1, <3>2
  <2>4. CASE pc[t] = "inBody" /\ op[t] # "in_read" /\ DoInputStandby(t)
    <3>1. inp[t] \in Ins /\ (~in_standby[inp[t]] => \A j \in Ins : j # inp[t] => in_standby[j])
      BY <2>4, WorkedOn
    <3>2. CASE UNCHANGED inSt
      BY <2>3, <3>2
    <3>3. CASE ~in_standby[inp[t]] /\ Goto(t, "put") /\ UNCHANGED in_standby
      BY <1>2, <2>4, <3>1, <3>3 DEF Goto, Putting, TypedThreads
    <3>4. CASE ~in_standby[inp[t]] /\ in_standby' = [in_standby EXCEPT ![inp[t]] = TRUE]
      BY <1>2, <3>1, <3>4 DEF TypedIn
    <3> QED BY <2>4, <3>2, <3>3, <3>4 DEF DoInputStandby
  <2>5. CASE InputStandbyPut(t)
    <3>1. pc[t] = "put" /\ inp[t] \in Ins /\ Putting(t, inp[t])
      BY <2>5, WorkedOn DEF InputStandbyPut, Putting
    <3>2. \A j \in Ins : j # inp[t] => in_standby[j]
      BY <3>1, WorkedOn DEF RunsActive
    <3> QED BY <1>2, <2>5, <3>1, <3>2 DEF InputStandbyPut, TypedIn
  <2>6. CASE InRead(t)
    <3>1. pc[t] = "inBody" /\ UNCHANGED in_standby /\ ~Putting(t, i)
      BY <2>6 DEF InRead, At, Putting
    <3>2. CASE UNCHANGED active_input
      BY <2>2, <3>1, <3>2
    <3>3. CASE in_standby[inp[t]]
      <4>1. op[t] = "in_read"
        BY <2>6 DEF InRead, At
      <4> QED BY <1>2, <3>1, <3>3, <4>1, WorkedOn
    <3> QED BY <2>6, <3>2, <3>3 DEF InRead
  <2>7. CASE InReadOpen(t)
    <3>1. pc[t] = "inOpen" /\ Starting(t, inp[t]) /\ inp[t] \in Ins
      BY <2>7, WorkedOn DEF InReadOpen, At, Starting
    <3>2. /\ in_standby[inp[t]] /\ active_input = inp[t]
          /\ \A j \in Ins : j # inp[t] => in_standby[j]
      BY <3>1, WorkedOn DEF RunsActive, Starting
    <3>3. CASE /\ in_standby' = [in_standby EXCEPT ![inp[t]] = FALSE]
               /\ UNCHANGED active_input
      BY <1>2, <3>1, <3>2, <3>3 DEF TypedIn
    <3>4. CASE UNCHANGED in_standby
      BY <1>2, <3>1, <3>2, <3>4
    <3> QED BY <2>7, <3>3, <3>4 DEF InReadOpen
  <2> QED BY <2>3, <2>4, <2>5, <2>6, <2>7 DEF InShape
<1>3. ASSUME NEW u \in Threads, NEW i \in Ins, Starting(u, i)'
      PROVE  in_standby'[i] /\ active_input' = i
  <2>1. CASE u # t
    <3>1. Starting(u, i)
      BY <1>3, <2>1 DEF Frame, Starting
    <3>2. lock[ADEV] = u
      BY <3>1, HeldIn DEF Starting, Held, LockIds
    <3>3. active_input' = active_input /\ in_standby'[i] = in_standby[i]
      BY <2>1, <3>2 DEF InChange, OnlyOwn, InKept
    <3> QED BY <3>1, <3>3 DEF RunsActive
  <2>2. CASE u = t
    <3>1. CASE InRead(t)
      <4>1. op' = op /\ inp' = inp /\ UNCHANGED in_standby /\ inp[t] = i
        BY <1>3, <2>2, <3>1 DEF InRead, CreateEcho, Goto, Starting
      <4>2. in_standby[inp[t]] /\ active_input' = inp[t]
        BY <1>3, <2>2, <3>1 DEF InRead, Goto, Starting, TypedThreads
      <4> QED BY <4>1, <4>2
    <3>2. CASE InReadPut(t) \/ InReadAdd(t)
      <4>1. Starting(t, i)
        BY <1>3, <2>2, <3>2 DEF InReadPut, InReadAdd, CreateEcho, At, Goto, Starting,
           TypedThreads
      <4>2. UNCHANGED <<in_standby, active_input>>
        BY <3>2 DEF InReadPut, InReadAdd, inSt
      <4> QED BY <4>1, <4>2 DEF RunsActive
    <3> QED BY <1>3, <2>2, <3>1, <3>2, PutSteps DEF Starting
  <2> QED BY <2>1, <2>2
<1>4. ASSUME NEW u \in Threads, NEW i \in Ins, Putting(u, i)'
      PROVE  ~in_standby'[i]
  <2>1. CASE u # t
    <3>1. Putting(u, i)
      BY <1>4, <2>1 DEF Frame, Putting
    <3>2. lock[ADEV] = u
      BY <3>1, HeldIn DEF Putting, Held, LockIds
    <3>3. in_standby'[i] = in_standby[i]
      BY <2>1, <3>2 DEF OnlyOwn, InKept
    <3> QED BY <3>1, <3>3 DEF RunsActive
  <2>2. CASE u = t
    <3>1. pc[t] = "inBody" /\ op[t] # "in_read" /\ DoInputStandby(t)
      BY <1>4, <2>2, PutSteps DEF Putting
    <3>2. CASE in_standby[inp[t]]
      BY <1>4, <2>2, <3>1, <3>2 DEF DoInputStandby, AfterInputStandby, Goto, Return, Putting,
         TypedThreads
    <3>3. CASE ~in_standby[inp[t]] /\ PutWaits(in_echo[inp[t]])
      BY <1>4, <2>2, <3>1, <3>3 DEF DoInputStandby, Goto, Putting
    <3>4. CASE ~in_standby[inp[t]] /\ ~PutWaits(in_echo[inp[t]])
      BY <1>4, <2>2, <3>1, <3>4 DEF DoInputStandby, AfterInputStandby, Goto, Return, Putting,
         TypedThreads
    <3> QED BY <3>2, <3>3, <3>4
  <2> QED BY <2>1, <2>2
<1>5. ASSUME NEW u \in Threads, op'[u] \notin InOps, inp'[u] # NULL, NEW i \in Ins,
             i # inp'[u]
      PROVE  in_standby'[i]
  <2>1. CASE u # t
    <3>1. op[u] \notin InOps /\ inp[u] # NULL /\ i # inp[u] /\ Borrows(u)
      BY <1>5, <2>1 DEF Frame, Base, AliveInv, Lent
    <3>2. lock[ADEV] = u
      BY <3>1, BorrowerHolds
    <3>3. in_standby'[i] = in_standby[i]
      BY <2>1, <3>2 DEF OnlyOwn, InKept
    <3> QED BY <3>1, <3>3 DEF RunsActive
  <2>2. CASE u = t /\ inp'[t] = inp[t] /\ op'[t] = op[t]
    <3>1. in_standby[i] /\ op[t] # "in_read"
      BY <1>5, <2>2 DEF RunsActive, InOps
    <3>2. StartsOwn(t)
      BY StepStartsOwn
    <3> QED BY <3>1, <3>2 DEF StartsOwn
  <2>3. CASE /\ u = t /\ inp'[t] = active_input
             /\ \/ lock[ADEV] = NULL
                \/ lock[ADEV] = t /\ pc[t] \in {"mode", "outBody"}
    <3>1. \A v \in Threads, j \in Ins : ~Putting(v, j)
      BY <2>3, NobodyBetween DEF Putting
    <3>2. in_standby[i]
      BY <1>5, <2>3, <3>1 DEF RunsActive
    <3>3. op[t] # "in_read"
      <4>1. Borrows(t)' /\ Steady(t)
        BY StepBorrows, StepSteady DEF Base, AliveInv, Lent
      <4>2. op'[t] # "none"
        BY <1>5, <2>3, <4>1 DEF Borrows, Selects, OutOps
      <4> QED BY <1>5, <2>3, <4>1, <4>2 DEF Steady, InOps
    <3>4. StartsOwn(t)
      BY StepStartsOwn
    <3> QED BY <3>2, <3>3, <3>4 DEF StartsOwn
  <2> QED BY <1>5, <2>1, <2>2, <2>3, StepTakes DEF TakesIn
<1> QED BY <1>1, <1>2, <1>3, <1>4, <1>5 DEF RunsActive

-----------------------------------------------------------------------------
(***************************************************************************)
(* The echo reference.                                                     *)
(***************************************************************************)
\* All pointers to the reference are those of the active output, of the input
\* a thread starts or stops, and of inputs whose start failed.
LEMMA WhoPoints ==
    ASSUME Base, RunsActive, EchoInv
    PROVE  /\ \A o \in Outs : o # active_output => out_echo[o] = NULL
           /\ \A t \in Threads :
                 /\ pc[t] \in {"inBody", "put", "add", "inOpen"}
                 /\ op[t] = "in_read" \/ ~in_standby[inp[t]]
                 => \A i \in Ins : i # inp[t] => in_echo[i] = NULL \/ in_kept[i]
<1>1. Pointers
  BY DEF EchoInv
<1>2. ASSUME NEW t \in Threads, pc[t] \in {"inBody", "put", "add", "inOpen"},
             op[t] = "in_read" \/ ~in_standby[inp[t]], NEW i \in Ins, i # inp[t]
      PROVE  in_echo[i] = NULL \/ in_kept[i]
  <2>1. in_standby[i]
    BY <1>2, WorkedOn
  <2>2. lock[ADEV] = t
    BY <1>2, HeldIn DEF Base, Held, LockIds
  <2>3. \A u \in Threads : ~Starting(u, i)
    BY <1>2, <2>2, NobodyBetween DEF Base, Starting
  <2> QED BY <1>1, <2>1, <2>3 DEF Pointers
<1>3. \A o \in Outs : o # active_output => out_echo[o] = NULL
  BY <1>1 DEF Pointers, RunsActive
<1> QED BY <1>2, <1>3

\* remove_echo_reference() on the active output leaves no output with one.
LEMMA RemoveEchoRemoves ==
    ASSUME Base, RunsActive, EchoInv, active_output \in Outs, RemoveEcho
    PROVE  \A o \in Outs : out_echo'[o] = NULL
<1>1. out_echo[active_output] \in {NULL, echo_reference}
  BY DEF EchoInv, EchoSafe
<1>2. TypedOut
  BY DEF Base, IInv
<1> QED BY <1>1, <1>2, WhoPoints DEF RemoveEcho, TypedOut

\* With no pointer left, the reference can be released, and another created.
LEMMA ReferenceReleased ==
    ASSUME Base, EchoInv, PutEcho(echo_reference)
    PROVE  echo_reference' = NULL /\ live' = {}
<1>1. live \subseteq {echo_reference} /\ live \subseteq Refs /\ NULL \notin Refs
  BY Distinct DEF Base, IInv, TypedEcho, EchoInv, EchoSafe
<1> QED BY <1>1 DEF PutEcho, echo

LEMMA EchoCreated ==
    ASSUME Base, EchoInv, NEW t \in Threads, CreateEcho(t)
    PROVE  \/ /\ echo_reference' = NULL /\ live' = {}
              /\ pc' = [pc EXCEPT ![t] = "inOpen"]
              /\ active_output = NULL \/ "echo" \in MayFail
           \/ /\ echo_reference' \in Refs /\ live' = {echo_reference'}
              /\ pc' = [pc EXCEPT ![t] = "add"]
<1>1. live \subseteq {echo_reference}
  BY DEF EchoInv, EchoSafe
<1> QED BY <1>1, ReferenceReleased DEF CreateEcho, Goto

\* A step that releases the reference, or replaces it, has taken it from all
\* streams but inputs whose start failed.
Untouched == /\ UNCHANGED echo
             /\ \A o \in Outs : out_echo'[o] \in {out_echo[o], NULL, echo_reference}
             /\ \A i \in Ins :
                    \/ in_echo'[i] \in {NULL, echo_reference}
                    \/ in_echo'[i] = in_echo[i] /\ (in_kept[i] => in_kept'[i])

Taken == /\ \A o \in Outs : out_echo'[o] = NULL
         /\ \A i \in Ins : in_echo'[i] = NULL \/ in_kept'[i]
         /\ \/ echo_reference' = NULL /\ live' = {}
            \/ echo_reference' \in Refs /\ live' = {echo_reference'}

LEMMA StepEcho ==
    ASSUME Base, RunsActive, EchoInv, NEW t \in Threads, Step(t)
    PROVE  /\ Untouched \/ Taken
           /\ echo' = echo \/ lock[ADEV] = t
           /\ echo_reference' \in {echo_reference, NULL} \/ pc'[t] = "add"
           /\ (\A i \in Ins : in_echo'[i] \in {in_echo[i], NULL}) \/ InReadAdd(t)
<1>. IInv /\ TypedOut /\ TypedIn /\ TypedThreads /\ TypedEcho /\ Pointers
  BY DEF Base, IInv, EchoInv
<1>. OutShape(t) /\ InShape(t)
  BY StepShape
<1>1. CASE UNCHANGED <<echo, inSt>> /\ ~(InputStandbyPut(t) \/ InReadPut(t) \/ InReadAdd(t))
  <2>1. CASE UNCHANGED outSt
    BY <1>1, <2>1 DEF Untouched, outSt, inSt, echo
  <2>2. CASE StartOutput(outp[t]) \/ StartOutputFails \/ DoOutputStandby(outp[t])
    <3>1. \A o \in Outs : out_echo'[o] \in {out_echo[o], NULL, echo_reference}
      BY <2>2 DEF StartOutput, StartOutputFails, DoOutputStandby, outSt, TypedOut
    <3> QED BY <1>1, <3>1 DEF Untouched, inSt, echo
  <2> QED BY <1>1, <2>1, <2>2 DEF OutShape
<1>2. CASE pc[t] = "inBody" /\ DoInputStandby(t) /\ UNCHANGED outSt
  <2>1. inp[t] \in Ins /\ lock[ADEV] = t
    BY <1>2, HeldIn DEF Held, LockIds
  <2>2. \A i \in Ins : in_echo'[i] \in {in_echo[i], NULL}
    BY <1>2, <2>1 DEF DoInputStandby, inSt, TypedIn
  <2>3. CASE UNCHANGED echo
    <3>1. \A i \in Ins : in_echo'[i] = NULL \/ (in_echo'[i] = in_echo[i] /\ in_kept'[i] = in_kept[i])
      BY <1>2, <2>1 DEF DoInputStandby, inSt, TypedIn
    <3>2. Untouched
      BY <1>2, <2>3, <3>1 DEF Untouched, outSt, echo
    <3> QED BY <2>1, <2>2, <2>3, <3>2 DEF echo
  <2>4. CASE ~UNCHANGED echo
    <3>1. /\ PutEcho(in_echo[inp[t]]) /\ ~PutWaits(in_echo[inp[t]]) /\ ~in_standby[inp[t]]
          /\ in_echo' = [in_echo EXCEPT ![inp[t]] = NULL]
          /\ in_kept' = [in_kept EXCEPT ![inp[t]] = FALSE]
      BY <1>2, <2>4 DEF DoInputStandby
    <3>2. /\ in_echo[inp[t]] = echo_reference /\ active_output = NULL
          /\ PutEcho(echo_reference)
      BY <2>4, <3>1 DEF PutEcho, PutWaits, echo
    <3>3. echo_reference' = NULL /\ live' = {}
      BY <3>2, ReferenceReleased
    <3>4. \A o \in Outs : out_echo'[o] = NULL
      BY <1>2, <3>2, WhoPoints, Distinct DEF outSt, LockIds, Streams
    <3>5. \A i \in Ins : in_echo'[i] = NULL \/ in_kept'[i]
      BY <1>2, <2>1, <3>1, WhoPoints DEF TypedIn
    <3> QED BY <2>1, <2>2, <3>3, <3>4, <3>5 DEF Taken
  <2> QED BY <2>3, <2>4
<1>3. CASE InputStandbyPut(t)
  <2>1. /\ pc[t] = "put" /\ inp[t] \in Ins /\ lock[ADEV] = t /\ active_output \in Outs
    BY <1>3, HeldIn DEF InputStandbyPut, Held, LockIds, IInv, Mine, HasStreams
  <2>2. \A o \in Outs : out_echo'[o] = NULL
    BY <1>3, <2>1, RemoveEchoRemoves DEF InputStandbyPut
  <2>5. ~in_standby[inp[t]]
    BY <1>3, <2>1 DEF InputStandbyPut, Putting, RunsActive
  <2>3. \A i \in Ins : /\ in_echo'[i] = NULL \/ in_kept'[i]
                       /\ in_echo'[i] \in {in_echo[i], NULL}
    BY <1>3, <2>1, <2>5, WhoPoints DEF InputStandbyPut, TypedIn
  <2>4. echo_reference' = NULL /\ live' = {}
    BY <1>3, ReferenceReleased DEF InputStandbyPut
  <2> QED BY <2>1, <2>2, <2>3, <2>4 DEF Taken
<1>4. CASE InRead(t)
  <2>1. pc[t] = "inBody" /\ inp[t] \in Ins /\ lock[ADEV] = t
    BY <1>4, HeldIn DEF InRead, At, Held, LockIds
  <2>2. UNCHANGED <<outSt, in_echo>>
    BY <1>4 DEF InRead
  <2>5. in_kept' = in_kept
    BY <1>4 DEF InRead
  <2>3. CASE UNCHANGED echo
    BY <2>1, <2>2, <2>3, <2>5 DEF Untouched, outSt, echo
  <2>4. CASE in_echo[inp[t]] = NULL /\ ~PutWaits(echo_reference) /\ CreateEcho(t)
    <3>1. echo_reference = NULL \/ active_output = NULL
      BY <2>4 DEF PutWaits
    <3>2. \A o \in Outs : out_echo'[o] = NULL
      BY <2>2, <3>1, WhoPoints, Distinct DEF outSt, LockIds, Streams, EchoInv, EchoSafe
    <3>3. \A i \in Ins : in_echo'[i] = NULL \/ in_kept'[i]
      BY <1>4, <2>1, <2>2, <2>4, <2>5, WhoPoints DEF InRead, At
    <3> QED BY <2>1, <2>2, <2>4, <3>2, <3>3, EchoCreated DEF Taken, TypedThreads
  <2> QED BY <1>4, <2>3, <2>4 DEF InRead
<1>5. CASE InReadPut(t)
  <2>1. /\ pc[t] = "put" /\ op[t] = "in_read" /\ inp[t] \in Ins /\ lock[ADEV] = t
        /\ active_output \in Outs /\ in_echo[inp[t]] = NULL
    BY <1>5, HeldIn DEF InReadPut, At, Held, LockIds, IInv, Mine, HasStreams, Pointers
  <2>2. \A o \in Outs : out_echo'[o] = NULL
    BY <1>5, <2>1, RemoveEchoRemoves DEF InReadPut
  <2>3. \A i \in Ins : (in_echo'[i] = NULL \/ in_kept'[i]) /\ in_echo'[i] = in_echo[i]
    BY <1>5, <2>1, WhoPoints DEF InReadPut, inSt
  <2> QED BY <1>5, <2>1, <2>2, <2>3, EchoCreated DEF InReadPut, Taken, TypedThreads
<1>6. CASE InReadAdd(t)
  <2>1. \A o \in Outs : out_echo'[o] \in {out_echo[o], NULL, echo_reference}
    BY <1>6 DEF InReadAdd, TypedOut
  <2>2. \A i \in Ins : /\ in_echo'[i] \in {in_echo[i], echo_reference}
                       /\ in_kept'[i] = in_kept[i]
    BY <1>6 DEF InReadAdd, TypedIn
  <2>3. UNCHANGED echo
    BY <1>6 DEF InReadAdd
  <2> QED BY <1>6, <2>1, <2>2, <2>3 DEF Untouched, echo
<1>7. CASE InReadOpen(t)
  <2>1. \A i \in Ins : /\ in_echo'[i] = in_echo[i]
                       /\ (in_echo[i] # NULL /\ in_kept[i] => in_kept'[i])
    BY <1>7 DEF InReadOpen, TypedIn
  <2>2. UNCHANGED <<echo, outSt>>
    BY <1>7 DEF InReadOpen
  <2>3. Untouched
    BY <2>1, <2>2 DEF Untouched, outSt, echo
  <2> QED BY <2>1, <2>2, <2>3 DEF echo
<1>8. CASE FreeIn(t)
  <2>1. \A i \in Ins :
            \/ in_echo'[i] = NULL
            \/ in_echo'[i] = in_echo[i] /\ in_kept'[i] = in_kept[i]
    BY <1>8 DEF FreeIn, TypedIn
  <2>2. UNCHANGED <<echo, outSt>>
    BY <1>8 DEF FreeIn
  <2>3. Untouched
    BY <2>1, <2>2 DEF Untouched, outSt, echo
  <2> QED BY <2>1, <2>2, <2>3 DEF echo
<1> QED BY <1>1, <1>2, <1>3, <1>4, <1>5, <1>6, <1>7, <1>8 DEF InShape

LEMMA StepPointers ==
    ASSUME Base, RunsActive, EchoInv, NEW t \in Threads, Step(t)
    PROVE  Pointers'
<1>. /\ IInv /\ ActiveRuns /\ TypedOut /\ TypedIn /\ TypedThreads /\ TypedEcho /\ Pointers
     /\ Frame(t) /\ OutShape(t) /\ InShape(t)
  BY ThreadStepInv, StepShape DEF Base, AliveInv, IInv, EchoInv
<1>1. ASSUME NEW o \in Outs, out_standby'[o]
      PROVE  out_echo'[o] = NULL
  <2>1. CASE UNCHANGED outSt
    BY <1>1, <2>1 DEF outSt, Pointers
  <2>2. CASE pc[t] = "outBody" /\ (StartOutput(outp[t]) \/ StartOutputFails)
    <3>1. out_standby[o]
      BY <1>1, <2>2, HeldOut DEF StartOutput, StartOutputFails, TypedOut
    <3>2. out_echo'[o] = out_echo[o]
      BY <1>1, <2>2, HeldOut DEF StartOutput, StartOutputFails, TypedOut
    <3> QED BY <3>1, <3>2 DEF Pointers
  <2>3. CASE pc[t] = "outBody" /\ DoOutputStandby(outp[t])
    BY <1>1, <2>1, <2>3 DEF DoOutputStandby, TypedOut, Pointers
  <2>4. CASE (InputStandbyPut(t) \/ InReadPut(t)) /\ UNCHANGED out_standby
    BY <1>1, <2>4 DEF InputStandbyPut, InReadPut, RemoveEcho, TypedOut, Pointers
  <2>5. CASE InReadAdd(t) /\ UNCHANGED out_standby
    BY <1>1, <2>5 DEF InReadAdd, ActiveRuns, TypedOut, Pointers
  <2> QED BY <2>1, <2>2, <2>3, <2>4, <2>5 DEF OutShape
<1>2. ASSUME NEW i \in Ins, in_echo'[i] # NULL
      PROVE  ~in_standby'[i] \/ in_kept'[i] \/ \E u \in Threads : Starting(u, i)'
  <2>1. CASE /\ in_echo'[i] = in_echo[i] /\ in_standby'[i] = in_standby[i]
             /\ in_kept'[i] = in_kept[i] /\ (Starting(t, i) => Starting(t, i)')
    <3>1. \A u \in Threads : Starting(u, i) => Starting(u, i)'
      BY <2>1 DEF Frame, Starting
    <3> QED BY <1>2, <2>1, <3>1 DEF Pointers
  <2>2. Starting(t, i) => InReadPut(t) \/ InReadAdd(t) \/ InReadOpen(t)
    BY PutSteps DEF Starting
  <2>3. CASE UNCHANGED inSt /\ ~(InReadPut(t) \/ InReadAdd(t) \/ InReadOpen(t))
    BY <2>1, <2>2, <2>3 DEF inSt
  <2>4. CASE pc[t] = "inBody" /\ op[t] # "in_read" /\ DoInputStandby(t)
    <3>1. inp[t] \in Ins /\ ~Starting(t, i)
      BY <2>4, WorkedOn DEF Starting
    <3>2. \/ in_echo'[i] = NULL
          \/ /\ in_echo'[i] = in_echo[i] /\ in_standby'[i] = in_standby[i]
             /\ in_kept'[i] = in_kept[i]
      BY <2>4, <3>1 DEF DoInputStandby, inSt, TypedIn
    <3> QED BY <1>2, <2>1, <3>1, <3>2
  <2>5. CASE InputStandbyPut(t)
    <3>1. inp[t] \in Ins /\ ~Starting(t, i)
      BY <2>5, WorkedOn DEF InputStandbyPut, Starting
    <3>2. i # inp[t] /\ in_echo'[i] = in_echo[i] /\ in_standby'[i] = in_standby[i]
          /\ in_kept'[i] = in_kept[i]
      BY <1>2, <2>5, <3>1 DEF InputStandbyPut, TypedIn
    <3> QED BY <2>1, <3>1, <3>2
  <2>6. CASE InRead(t)
    <3>1. UNCHANGED <<in_echo, in_standby, in_kept>> /\ ~Starting(t, i)
      BY <2>6 DEF InRead, At, Starting
    <3> QED BY <2>1, <3>1
  <2>7. CASE InReadPut(t)
    <3>1. UNCHANGED <<in_echo, in_standby, in_kept>>
      BY <2>7 DEF InReadPut, inSt
    <3>2. Starting(t, i) => Starting(t, i)'
      BY <2>7 DEF InReadPut, CreateEcho, Goto, Starting, TypedThreads
    <3> QED BY <2>1, <3>1, <3>2
  <2>8. CASE InReadAdd(t)
    <3>1. inp[t] \in Ins /\ pc[t] = "add" /\ op[t] = "in_read"
      BY <2>8, WorkedOn DEF InReadAdd, At
    <3>2. Starting(t, inp[t])'
      BY <2>8, <3>1 DEF InReadAdd, Goto, Starting, TypedThreads
    <3>3. i # inp[t] => in_echo'[i] = in_echo[i] /\ ~Starting(t, i)
      BY <2>8 DEF InReadAdd, Starting, TypedIn
    <3>4. CASE i = inp[t]
      <4>1. Starting(t, i)'
        BY <3>2, <3>4, <2>8 DEF InReadAdd, Goto
      <4> QED BY <4>1
    <3>5. CASE i # inp[t]
      BY <2>1, <2>8, <3>3, <3>5 DEF InReadAdd
    <3> QED BY <3>4, <3>5
  <2>9. CASE InReadOpen(t)
    <3>1. inp[t] \in Ins /\ in_echo' = in_echo
      BY <2>9, WorkedOn DEF InReadOpen, At
    <3>2. CASE i = inp[t]
      BY <1>2, <2>9, <3>1, <3>2 DEF InReadOpen, TypedIn
    <3>3. CASE i # inp[t]
      BY <2>1, <2>9, <3>1, <3>3 DEF InReadOpen, Starting, TypedIn
    <3> QED BY <3>2, <3>3
  <2>10. CASE FreeIn(t)
    <3>1. i # inp[t] /\ in_echo'[i] = in_echo[i] /\ in_kept'[i] = in_kept[i]
          /\ in_standby'[i] = in_standby[i] /\ ~Starting(t, i)
      BY <1>2, <2>10 DEF FreeIn, At, Starting, TypedIn
    <3> QED BY <2>1, <3>1
  <2> QED BY <2>3, <2>4, <2>5, <2>6, <2>7, <2>8, <2>9, <2>10 DEF InShape
<1>3. ASSUME NEW u \in Threads, pc'[u] \in {"put", "add"}, op'[u] = "in_read"
      PROVE  in_echo'[inp'[u]] = NULL
  <2>1. CASE u = t
    <3>1. CASE InRead(t)
      <4>1. inp' = inp /\ in_echo' = in_echo
        BY <3>1 DEF InRead, CreateEcho, Goto
      <4>2. in_echo[inp[t]] = NULL
        BY <1>3, <2>1, <3>1 DEF InRead, Goto, TypedThreads
      <4> QED BY <2>1, <4>1, <4>2
    <3>2. CASE InReadPut(t)
      BY <2>1, <3>2 DEF InReadPut, CreateEcho, inSt, Goto, At, Pointers
    <3>3. ~InReadAdd(t)
      BY <1>3, <2>1 DEF InReadAdd, Goto, TypedThreads
    <3> QED BY <1>3, <2>1, <3>1, <3>2, <3>3, PutSteps
  <2>2. CASE u # t
    <3>1. /\ pc[u] \in {"put", "add"} /\ op[u] = "in_read" /\ inp'[u] = inp[u]
          /\ inp[u] \in Ins
      BY <1>3, <2>2, WorkedOn DEF Frame
    <3>2. lock[ADEV] = u /\ lock[inp[u]] = u
      BY <3>1, HeldIn DEF Held, LockIds
    <3>3. ~InReadAdd(t)
      BY <2>2, <3>2, HeldIn DEF InReadAdd, At, Held, LockIds
    <3> QED BY <3>1, <3>3, StepEcho DEF Pointers
  <2> QED BY <2>1, <2>2
<1>4. ASSUME NEW u \in Threads, pc'[u] = "add"
      PROVE  echo_reference' # NULL
  <2>1. CASE u = t
    <3>1. CASE CreateEcho(t)
      BY <1>4, <2>1, <3>1, EchoCreated, Distinct DEF TypedThreads
    <3>2. CreateEcho(t)
      BY <1>4, <2>1, PutSteps DEF InRead, InReadPut, InReadAdd, Goto, TypedThreads
    <3> QED BY <3>1, <3>2
  <2>2. CASE u # t
    <3>1. pc[u] = "add" /\ lock[ADEV] = u
      BY <1>4, <2>2, HeldIn DEF Frame, Held, LockIds
    <3>2. echo' = echo
      BY <2>2, <3>1, StepEcho
    <3> QED BY <3>1, <3>2 DEF echo, Pointers
  <2> QED BY <2>1, <2>2
<1> QED BY <1>1, <1>2, <1>3, <1>4 DEF Pointers

LEMMA StepEchoSafe ==
    ASSUME Base, RunsActive, EchoInv, NEW t \in Threads, Step(t)
    PROVE  EchoSafe'
<1>. EchoSafe
  BY DEF EchoInv
<1>1. CASE Untouched
  BY <1>1 DEF Untouched, EchoSafe, echo
<1>2. CASE Taken
  BY <1>2 DEF Taken, EchoSafe
<1> QED BY <1>1, <1>2, StepEcho

LEMMA StepFed ==
    ASSUME Base, RunsActive, EchoInv, NEW t \in Threads, Step(t)
    PROVE  Fed'
<1>. /\ IInv /\ ActiveRuns /\ TypedOut /\ TypedThreads /\ Pointers /\ Fed
     /\ Frame(t) /\ OutShape(t)
  BY ThreadStepInv, StepShape DEF Base, AliveInv, IInv, EchoInv
<1>1. CASE pc'[t] = "add"
  BY <1>1 DEF Fed
<1>2. CASE echo_reference' = NULL
  BY <1>2 DEF Fed
<1>3. CASE pc'[t] # "add" /\ echo_reference' = echo_reference /\ echo_reference # NULL
  <2> SUFFICES ASSUME NEW o \in Outs, ~out_standby'[o]
               PROVE  \/ out_echo'[o] = echo_reference
                      \/ \E u \in Threads : pc'[u] = "add"
    BY <1>3 DEF Fed
  <2>1. CASE InReadAdd(t)
    <3>1. o = active_output /\ active_output \in Outs
      BY <2>1 DEF InReadAdd, At, RunsActive, IInv, Mine, HasStreams
    <3> QED BY <2>1, <3>1 DEF InReadAdd, TypedOut
  <2>2. CASE pc[t] # "add" /\ ~out_standby[o] /\ out_echo'[o] = out_echo[o]
    <3>1. CASE \E u \in Threads : pc[u] = "add"
      BY <2>2, <3>1 DEF Frame
    <3> QED BY <1>3, <2>2, <3>1 DEF Fed
  <2>3. pc[t] = "add" => InReadAdd(t)
    BY PutSteps
  <2>4. CASE UNCHANGED outSt
    BY <2>1, <2>2, <2>3, <2>4 DEF outSt
  <2>5. CASE pc[t] = "outBody" /\ StartOutput(outp[t])
    <3>1. o = outp[t] => out_echo'[o] = echo_reference
      BY <1>3, <2>5 DEF StartOutput, TypedOut
    <3>2. o # outp[t] => ~out_standby[o] /\ out_echo'[o] = out_echo[o]
      BY <2>5 DEF StartOutput, TypedOut
    <3> QED BY <2>2, <2>5, <3>1, <3>2
  <2>6. CASE pc[t] = "outBody" /\ StartOutputFails
    BY <2>2, <2>6 DEF StartOutputFails
  <2>7. CASE pc[t] = "outBody" /\ DoOutputStandby(outp[t])
    BY <2>2, <2>4, <2>7 DEF DoOutputStandby, TypedOut
  <2>8. ~InputStandbyPut(t) /\ ~InReadPut(t)
    <3>1. InputStandbyPut(t) => echo_reference' = NULL
      BY ReferenceReleased DEF InputStandbyPut
    <3>2. InReadPut(t) => echo_reference' = NULL \/ pc'[t] = "add"
      BY EchoCreated DEF InReadPut, TypedThreads
    <3> QED BY <1>3, <3>1, <3>2
  <2> QED BY <2>1, <2>4, <2>5, <2>6, <2>7, <2>8 DEF OutShape
<1> QED BY <1>1, <1>2, <1>3, StepEcho

-----------------------------------------------------------------------------
(***************************************************************************)
(* The calls of the framework, a restart, and the beginning.               *)
(***************************************************************************)
\* A step of the framework: what the streams share is left alone, and a
\* thread only comes from "idle" to "adev".
Quiet == /\ UNCHANGED <<outSt, inSt, inCfg, echo, force>>
         /\ \A t \in Threads : \/ /\ pc'[t] = pc[t] /\ op'[t] = op[t]
                                  /\ inp'[t] = inp[t]
                               \/ /\ pc[t] = "idle" /\ pc'[t] = "adev"
                                  /\ op'[t] \in InOps \/ inp'[t] = NULL

LEMMA QuietSteps ==
    ASSUME IInv, Begin \/ UNCHANGED vars
    PROVE  Quiet
<1>. TypedThreads /\ TypedIn
  BY DEF IInv
<1>1. CASE \E t \in Threads : CallOut(t) \/ CallIn(t) \/ CallSetMode(t)
  <2>1. PICK t \in Threads : CallOut(t) \/ CallIn(t) \/ CallSetMode(t)
    BY <1>1
  <2>2. PICK c \in Ops, o \in Outs \union {NULL}, i \in Ins \union {NULL} :
          Call(t, c, o, i) /\ (c \in InOps \/ i = NULL)
    <3>1. CASE CallIn(t)
      <4>1. PICK i \in Ins, c \in InOps : Call(t, c, NULL, i)
        BY <3>1 DEF CallIn
      <4> QED BY <4>1 DEF Ops
    <3>2. CASE CallOut(t) \/ CallSetMode(t)
      BY <3>2 DEF CallOut, CallSetMode, Ops
    <3> QED BY <2>1, <3>1, <3>2
  <2> QED BY <2>2 DEF Call, Quiet, TypedThreads
<1>2. CASE (\E o \in Outs : OpenOut(o)) \/ (\E i \in Ins : OpenIn(i))
  BY <1>2 DEF OpenOut, OpenIn, Quiet, threads, TypedIn
<1>3. CASE UNCHANGED vars
  BY <1>3 DEF vars, opened, threads, Quiet
<1> QED BY <1>1, <1>2, <1>3 DEF Begin

LEMMA QuietInv ==
    ASSUME IInv, Quiet
    PROVE  /\ RunsActive => RunsActive'
           /\ EchoInv => EchoInv'
<1>0. \A t \in Threads : pc[t] = "idle" => op[t] = "none"
  BY DEF IInv, Mine, Place
<1>1. ASSUME RunsActive PROVE RunsActive'
  <2>1. \A t \in Threads, i \in Ins : Putting(t, i)' <=> Putting(t, i)
    BY DEF Quiet, Putting
  <2>2. \A t \in Threads, i \in Ins : Starting(t, i)' <=> Starting(t, i)
    BY DEF Quiet, Starting
  <2>3. ASSUME NEW t \in Threads, op'[t] \notin InOps, inp'[t] # NULL
        PROVE  \A i \in Ins : i # inp'[t] => in_standby'[i]
    BY <1>1, <2>3 DEF RunsActive, Quiet, inSt
  <2> QED BY <1>1, <2>1, <2>2, <2>3 DEF RunsActive, Quiet, outSt, inSt
<1>2. ASSUME EchoInv PROVE EchoInv'
  <2>1. Pointers'
    <3>1. \A t \in Threads, i \in Ins : Starting(t, i)' <=> Starting(t, i)
      BY DEF Quiet, Starting
    <3> QED BY <1>2, <3>1 DEF EchoInv, Pointers, Quiet, outSt, inSt, echo
  <2>2. EchoSafe'
    BY <1>2 DEF EchoInv, EchoSafe, Quiet, outSt, inSt, echo
  <2>3. Fed'
    BY <1>2 DEF EchoInv, Fed, Quiet, outSt, echo
  <2> QED BY <2>1, <2>2, <2>3 DEF EchoInv
<1> QED BY <1>1, <1>2

LEMMA RestartEcho ==
    ASSUME Restart
    PROVE  RunsActive' /\ EchoInv'
BY DEF Restart, RunsActive, Starting, Putting, EchoInv, Pointers, EchoSafe, Fed

LEMMA InitEcho ==
    ASSUME Init
    PROVE  Base /\ RunsActive /\ EchoInv
<1>1. Base
  BY InitInv, DisciplineInit, AliveInvInit DEF Base, OneOpen, OneReads, Reads, Init
<1>2. RunsActive /\ EchoInv
  BY DEF Init, RunsActive, Starting, Putting, EchoInv, Pointers, EchoSafe, Fed
<1> QED BY <1>1, <1>2

LEMMA BaseNext == OneOutput /\ Base /\ [Next]_vars => Base'
BY NextInv, DisciplineNext, AliveInvNext, OneOpenNext, OneReadsNext DEF Base

LEMMA EchoNext ==
    OneOutput /\ Base /\ RunsActive /\ EchoInv /\ [Next]_vars => RunsActive' /\ EchoInv'
<1> SUFFICES ASSUME Base, RunsActive, EchoInv, [Next]_vars PROVE RunsActive' /\ EchoInv'
  OBVIOUS
<1>. IInv
  BY DEF Base
<1>1. CASE \E t \in Threads : Step(t)
  BY <1>1, StepRunsActive, StepPointers, StepEchoSafe, StepFed DEF EchoInv
<1>2. CASE Begin \/ UNCHANGED vars
  BY <1>2, QuietSteps, QuietInv
<1>3. CASE Restart
  BY <1>3, RestartEcho
<1> QED BY <1>1, <1>2, <1>3 DEF Next

\* Where nobody has the device mutex, the streams that run are the active ones.
THEOREM EchoInvariant ==
    ASSUME OneOutput
    PROVE  Spec => [](Base /\ RunsActive /\ EchoInv)
BY InitEcho, BaseNext, EchoNext, PTL DEF Spec

\* With one output open at a time, and any number of inputs of which one at a
\* time is read, whoever takes the device mutex finds every running stream
\* through adev->active_output and adev->active_input: select_mode() and the
\* effects miss none.
THEOREM ActiveIsRunningHolds ==
    ASSUME OneOutput
    PROVE  Spec => []ActiveIsRunning
<1>1. Base /\ RunsActive => ActiveIsRunning
  <2> SUFFICES ASSUME Base, RunsActive, lock[ADEV] = NULL
               PROVE  /\ \A o \in Outs : (active_output = o) = ~out_standby[o]
                      /\ \A i \in Ins : (active_input = i) = ~in_standby[i]
    BY DEF ActiveIsRunning
  <2>. IInv /\ ActiveRuns /\ TypedOut /\ TypedIn
    BY DEF Base, AliveInv, IInv
  <2>1. \A o \in Outs : (active_output = o) <=> ~out_standby[o]
    BY DEF ActiveRuns, RunsActive
  <2>2. \A i \in Ins : (active_input = i) <=> ~in_standby[i]
    BY NobodyBetween DEF ActiveRuns, RunsActive
  <2> QED BY <2>1, <2>2 DEF TypedOut, TypedIn
<1> QED BY <1>1, EchoInvariant, PTL

\* No stream but an input whose start failed keeps a pointer to an echo
\* reference after its release, and none is left that nobody can release: not
\* with any number of threads and of open inputs, whatever fails, and however
\* often one input's start releases the reference of another.
THEOREM EchoSafeHolds ==
    ASSUME OneOutput
    PROVE  Spec => []EchoSafe
<1>1. EchoInv => EchoSafe
  BY DEF EchoInv
<1> QED BY <1>1, EchoInvariant, PTL

\* Whoever takes the device mutex finds the running output feeding the echo
\* reference the device has.
THEOREM EchoFedHolds ==
    ASSUME OneOutput
    PROVE  Spec => []EchoFed
<1>1. Base /\ EchoInv => EchoFed
  <2> SUFFICES ASSUME Base, EchoInv, lock[ADEV] = NULL, echo_reference # NULL,
                      NEW o \in Outs, ~out_standby[o]
               PROVE  out_echo[o] = echo_reference
    BY DEF EchoFed
  <2>1. \A t \in Threads : pc[t] # "add"
    BY HeldIn, Distinct DEF Base, Held, LockIds
  <2> QED BY <2>1 DEF EchoInv, Fed
<1> QED BY <1>1, EchoInvariant, PTL

-----------------------------------------------------------------------------
(***************************************************************************)
(* select_mode() puts everything into standby before it starts a call.     *)
(***************************************************************************)
LEMMA StepSelects ==
    ASSUME IInv, NEW t \in Threads, Step(t), Selects(t)'
    PROVE  \/ EnterCall(t) \/ LeaveCall(t)
           \/ /\ Selects(t) /\ op[t] = "set_mode"
              /\ \/ LockOut(t) \/ ModeOutStandby(t) \/ LockIn(t) \/ InStandby(t)
                 \/ InputStandbyPut(t)
<1>. TypedThreads /\ Place(t)
  BY DEF IInv, Mine
<1>1. CASE SetMode(t) \/ SelectModeEnd(t)
  BY <1>1 DEF SetMode, SelectModeEnd, Return, Selects, TypedThreads
<1>2. CASE ~(SetMode(t) \/ EnterCall(t) \/ LeaveCall(t) \/ SelectModeEnd(t))
  <2>1. Selects(t) /\ op[t] = "set_mode" /\ pc[t] \in Selecting
    BY <1>2, StepKeepsCall DEF Selects
  <2> QED BY <1>2, <2>1 DEF Step, LockDevice, OutStep, InStep, ModeStep, OutWrite,
          OutWriteDone, OutWriteForce, OutStandby, FreeOut, OutSetParameters, FreeIn,
          InSetParameters, InAec, InNothing, InRead, InReadPut, InReadAdd, InReadOpen,
          InReadDone, SetSameMode, At, Selecting
<1> QED BY <1>1, <1>2

\* do_input_standby() ends with all inputs in standby, or waits to, unless it
\* is the framework that calls it for an input that does not run.
LEMMA InputStandbyEnds ==
    ASSUME Base, RunsActive, NEW t \in Threads, pc[t] = "inBody", op[t] # "in_read",
           DoInputStandby(t)
    PROVE  \/ \A i \in Ins : in_standby'[i]
           \/ /\ Goto(t, "put") /\ UNCHANGED in_standby
              /\ \A i \in Ins : in_standby[i] \/ Putting(t, i)'
           \/ op[t] \in InOps /\ in_standby[inp[t]] /\ UNCHANGED inSt
<1>. /\ inp[t] \in Ins /\ inp[t] # NULL /\ TypedIn /\ TypedThreads
     /\ ~in_standby[inp[t]] => \A i \in Ins : i # inp[t] => in_standby[i]
  BY WorkedOn, Distinct DEF Base, IInv, LockIds, Streams
<1>1. CASE in_standby[inp[t]]
  BY <1>1 DEF DoInputStandby, inSt, RunsActive
<1>2. CASE ~in_standby[inp[t]] /\ in_standby' = [in_standby EXCEPT ![inp[t]] = TRUE]
  BY <1>2 DEF TypedIn
<1>3. CASE ~in_standby[inp[t]] /\ Goto(t, "put") /\ UNCHANGED in_standby
  BY <1>3 DEF Goto, Putting, TypedThreads
<1> QED BY <1>1, <1>2, <1>3 DEF DoInputStandby

LEMMA InputPutEnds ==
    ASSUME Base, RunsActive, NEW t \in Threads, InputStandbyPut(t)
    PROVE  \A i \in Ins : in_standby'[i]
<1>1. pc[t] = "put" /\ inp[t] \in Ins /\ Putting(t, inp[t])
  BY WorkedOn DEF InputStandbyPut, Putting
<1>2. \A i \in Ins : i # inp[t] => in_standby[i]
  BY <1>1, WorkedOn DEF RunsActive
<1> QED BY <1>1, <1>2 DEF InputStandbyPut, Base, IInv, TypedIn

LEMMA StepForced ==
    ASSUME Base, RunsActive, NEW t \in Threads, Step(t), NEW u \in Threads, Forced(u)
    PROVE  Forced(u)'
<1>. IInv /\ TypedOut /\ TypedIn /\ TypedThreads /\ Frame(t) /\ OnlyOwn(t)
  BY ThreadStepInv, StepOwn DEF Base, IInv
<1>1. CASE u # t
  <2> SUFFICES ASSUME Selects(u)' PROVE Forced(u)'
    BY DEF Forced
  <2>1. Selects(u) /\ pc'[u] = pc[u] /\ inp'[u] = inp[u]
    BY <1>1 DEF Frame, Selects
  <2>2. lock[ADEV] = u
    BY <2>1 DEF IInv, Mine, Owner, HoldsDevice, Selects, Selecting
  <2> QED BY <1>1, <2>1, <2>2 DEF Forced, OnlyOwn, OutKept, InKept
<1>2. CASE u = t
  <2> SUFFICES ASSUME Selects(t)' PROVE Forced(t)'
    BY <1>2 DEF Forced
  <2>1. CASE EnterCall(t) \/ LeaveCall(t)
    <3>1. pc[t] = "mode" /\ lock[ADEV] = t /\ UNCHANGED <<out_standby, in_standby>>
      BY <2>1, HeldDevice DEF EnterCall, LeaveCall, Held, LockIds, outSt, inSt
    <3>2. active_output = NULL => \A o \in Outs : out_standby[o]
      BY Distinct DEF RunsActive, LockIds, Streams
    <3>3. \A v \in Threads, i \in Ins : ~Putting(v, i)
      BY <3>1, NobodyBetween DEF Putting
    <3>4. active_input = NULL => \A i \in Ins : in_standby[i]
      BY <3>3, Distinct DEF RunsActive, LockIds, Streams
    <3>5. /\ pc'[t] \notin {"out", "outBody"} => active_output = NULL
          /\ pc'[t] = "selmode" \/ inp'[t] = NULL => active_input = NULL
      BY <2>1 DEF EnterCall, LeaveCall, ForceAllStandby, TypedThreads
    <3> QED BY <3>1, <3>2, <3>4, <3>5 DEF Forced
  <2>2. CASE Selects(t) /\ (LockOut(t) \/ LockIn(t))
    <3>1. UNCHANGED <<out_standby, in_standby, inp>> /\ pc'[t] \in {"outBody", "inBody"}
      BY <2>2 DEF LockOut, LockIn, Goto, TypedThreads, outSt, inSt
    <3>2. pc'[t] = "inBody" => pc[t] = "in"
      BY <2>2 DEF LockOut, LockIn, Goto, TypedThreads
    <3>3. Forced(t) /\ (pc[t] = "selmode" => FALSE)
      BY <1>2, <2>2 DEF LockOut, LockIn
    <3> QED BY <2>2, <3>1, <3>2, <3>3 DEF Forced
  <2>3. CASE Selects(t) /\ ModeOutStandby(t)
    <3>1. pc[t] = "outBody" /\ UNCHANGED <<in_standby, inp>>
      BY <2>3 DEF ModeOutStandby, At, Goto, inSt
    <3>2. \A o \in Outs : out_standby'[o]
      BY <2>3, <3>1, WorkedOn DEF ModeOutStandby, DoOutputStandby, outSt, TypedOut
    <3>3. pc'[t] = "selmode" => inp[t] = NULL
      BY <2>3 DEF ModeOutStandby, Goto, TypedThreads
    <3> QED BY <1>2, <2>3, <3>1, <3>2, <3>3 DEF Forced
  <2>4. CASE Selects(t) /\ op[t] = "set_mode" /\ InStandby(t)
    <3>1. pc[t] = "inBody" /\ UNCHANGED out_standby /\ DoInputStandby(t) /\ inp[t] # NULL
      BY <2>4, WorkedOn, Distinct DEF InStandby, At, outSt, LockIds, Streams
    <3>2. \A o \in Outs : out_standby'[o]
      BY <1>2, <2>4, <3>1 DEF Forced
    <3>3. CASE \A i \in Ins : in_standby'[i]
      BY <3>2, <3>3 DEF Forced
    <3>4. CASE Goto(t, "put")
      BY <3>1, <3>2, <3>4 DEF Forced, Goto, TypedThreads
    <3> QED BY <2>4, <3>1, <3>3, <3>4, InputStandbyEnds DEF InOps
  <2>5. CASE Selects(t) /\ InputStandbyPut(t)
    <3>1. \A o \in Outs : out_standby'[o]
      BY <1>2, <2>5 DEF Forced, InputStandbyPut
    <3> QED BY <2>5, <3>1, InputPutEnds DEF Forced
  <2> QED BY <2>1, <2>2, <2>3, <2>4, <2>5, StepSelects
<1> QED BY <1>1, <1>2

LEMMA ForcedNext ==
    Base /\ RunsActive /\ (\A t \in Threads : Forced(t)) /\ [Next]_vars
       => (\A t \in Threads : Forced(t))'
<1> SUFFICES ASSUME Base, RunsActive, \A t \in Threads : Forced(t), [Next]_vars,
                    NEW t \in Threads
             PROVE  Forced(t)'
  OBVIOUS
<1>1. CASE \E u \in Threads : Step(u)
  BY <1>1, StepForced
<1>2. CASE Begin \/ UNCHANGED vars
  <2>1. Quiet
    BY <1>2, QuietSteps DEF Base
  <2> QED BY <2>1 DEF Quiet, Forced, Selects, Selecting, outSt, inSt
<1>3. CASE Restart
  BY <1>3 DEF Restart, Forced
<1> QED BY <1>1, <1>2, <1>3 DEF Next

\* A call begins with all streams in standby, whichever of them ran when the
\* mode was set and whatever other threads were doing with them.
THEOREM CallStartsInStandbyHolds ==
    ASSUME OneOutput
    PROVE  Spec => CallStartsInStandby
<1> DEFINE AllForced == \A t \in Threads : Forced(t)
           Starts == ~in_call /\ in_call' => /\ \A o \in Outs : out_standby[o]
                                             /\ \A i \in Ins : in_standby[i]
<1>1. Init => AllForced
  BY DEF Init, Forced
<1>2. Base /\ AllForced /\ [Next]_vars => [Starts]_vars
  <2> SUFFICES ASSUME Base, AllForced, Next, ~in_call, in_call'
               PROVE  /\ \A o \in Outs : out_standby[o]
                      /\ \A i \in Ins : in_standby[i]
    OBVIOUS
  <2>1. ~Begin
    BY DEF Begin, CallOut, CallIn, CallSetMode, Call, OpenOut, OpenIn, call
  <2>2. PICK t \in Threads : Step(t)
    BY <2>1 DEF Next, Restart
  <2>3. SelectModeEnd(t)
    <3>1. ~SetMode(t) /\ ~EnterCall(t) /\ ~LeaveCall(t)
      BY DEF SetMode, EnterCall, LeaveCall
    <3> QED BY <2>2, <3>1, StepKeepsCall DEF Base, call
  <2>4. pc[t] = "selmode" /\ op[t] = "set_mode"
    BY <2>3 DEF SelectModeEnd, Base, IInv, Mine, Place
  <2> QED BY <2>4 DEF Forced, Selects, Selecting
<1>3. AllForced /\ Base /\ RunsActive /\ [Next]_vars => AllForced'
  BY ForcedNext
<1> QED BY <1>1, <1>2, <1>3, EchoInvariant, PTL DEF Spec, CallStartsInStandby

-----------------------------------------------------------------------------
(***************************************************************************)
(* force_input_standby.  An input for voice communication that is started  *)
(* while there is an output has taken the reference; an output started     *)
(* next to one that runs without forces it into standby.                   *)
(***************************************************************************)
\* What an input that runs without a reference depends on.
VoiceKept == UNCHANGED <<in_standby, in_echo, in_need, in_voice>>

\* out_write() starts its output.
Plays(t) ==
    /\ pc[t] = "outBody" /\ op[t] = "out_write" /\ op'[t] = op[t]
    /\ force'[t] = VoiceInputActive

LEMMA StepVoice ==
    ASSUME IInv, NEW t \in Threads, Step(t)
    PROVE  \/ VoiceKept /\ active_output' \in {active_output, NULL}
           \/ VoiceKept /\ Plays(t)
           \/ /\ pc[t] = "inBody" /\ op[t] # "in_read" /\ DoInputStandby(t)
              /\ UNCHANGED active_output
              /\ \A i \in Ins : i # inp[t] => /\ in_need'[i] = in_need[i]
                                            /\ in_voice'[i] = in_voice[i]
           \/ InputStandbyPut(t) \/ InReadOpen(t) \/ FreeIn(t) \/ InReadAdd(t)
<1>. TypedThreads /\ "in_read" \notin OutOps
  BY DEF IInv, OutOps
<1>1. CASE OutWrite(t)
  BY <1>1 DEF OutWrite, At, StartOutput, StartOutputFails, VoiceKept, Plays, outSt, inSt,
     inCfg, TypedThreads
<1>2. CASE OutStandby(t) \/ OutSetParameters(t) \/ ModeOutStandby(t)
  BY <1>2 DEF OutStandby, OutSetParameters, ModeOutStandby, DoOutputStandby, VoiceKept,
     outSt, inSt, inCfg
<1>3. CASE \/ LockDevice(t) \/ LockOut(t) \/ OutWriteDone(t) \/ OutWriteForce(t)
           \/ FreeOut(t)
  BY <1>3 DEF LockDevice, LockOut, OutWriteDone, OutWriteForce, FreeOut, VoiceKept, outSt,
     inSt, inCfg
<1>4. CASE InStandby(t) \/ InSetParameters(t) \/ InAec(t)
  <2>1. TypedIn
    BY DEF IInv
  <2> QED BY <1>4, <2>1 DEF InStandby, InSetParameters, InAec, At, outSt, inCfg, TypedIn
<1>5. CASE LockIn(t) \/ InNothing(t) \/ InRead(t) \/ InReadPut(t) \/ InReadDone(t)
  BY <1>5 DEF LockIn, InNothing, InRead, InReadPut, InReadDone, VoiceKept, outSt, inSt, inCfg
<1>6. CASE SetSameMode(t) \/ SetMode(t) \/ EnterCall(t) \/ LeaveCall(t) \/ SelectModeEnd(t)
  BY <1>6 DEF SetSameMode, SetMode, EnterCall, LeaveCall, SelectModeEnd, VoiceKept, outSt,
     inSt, inCfg
<1> QED BY <1>1, <1>2, <1>3, <1>4, <1>5, <1>6 DEF Step, OutStep, InStep, ModeStep

\* A thread that is to force the input into standby comes to it.
LEMMA StepForce ==
    ASSUME IInv, NEW t \in Threads, Step(t)
    PROVE  /\ \A u \in Threads \ {t} : force'[u] = force[u]
           /\ op[t] = "out_write" /\ force[t] =>
                 \/ op'[t] = "out_write" /\ force'[t]
                 \/ Plays(t)
                 \/ pc[t] = "inBody" /\ op[t] # "in_read" /\ DoInputStandby(t)
                 \/ InputStandbyPut(t)
                 \/ /\ lock[ADEV] = NULL /\ active_input = NULL
                    /\ UNCHANGED in_standby
<1>. TypedThreads /\ Place(t) /\ "in_read" \notin OutOps
  BY DEF IInv, Mine, OutOps
<1>1. CASE OutWrite(t)
  BY <1>1 DEF OutWrite, At, Goto, Plays, TypedThreads
<1>2. CASE OutStep(t) /\ ~OutWrite(t)
  BY <1>2 DEF OutStep, LockOut, OutWriteDone, OutWriteForce, OutStandby, FreeOut,
     OutSetParameters, At, Goto, GotoIn, Return, inSt, TypedThreads
<1>3. CASE InStandby(t) \/ InSetParameters(t) \/ InAec(t)
  BY <1>3 DEF InStandby, InSetParameters, InAec, At, DoInputStandby, AfterInputStandby, Goto,
     Return, TypedThreads
<1>4. CASE InputStandbyPut(t)
  BY <1>4 DEF InputStandbyPut, AfterInputStandby, Goto, Return, TypedThreads
<1>5. CASE \/ LockIn(t) \/ FreeIn(t) \/ InNothing(t) \/ InRead(t) \/ InReadPut(t)
           \/ InReadAdd(t) \/ InReadOpen(t) \/ InReadDone(t)
  BY <1>5 DEF LockIn, FreeIn, InNothing, InRead, InReadPut, InReadAdd, InReadOpen,
     InReadDone, CreateEcho, At, Goto, Return, TypedThreads
<1>6. CASE ModeStep(t)
  BY <1>6 DEF ModeStep, SetSameMode, SetMode, EnterCall, LeaveCall, ModeOutStandby,
     SelectModeEnd, ForceAllStandby, At, Goto, Return, TypedThreads, Place
<1>7. CASE LockDevice(t)
  BY <1>7 DEF LockDevice, Goto, TypedThreads
<1> QED BY <1>1, <1>2, <1>3, <1>4, <1>5, <1>6, <1>7 DEF Step, InStep

\* Standby is not announced any more only when nothing is left to announce.
LEMMA ForcingKept ==
    ASSUME Base, RunsActive, NEW t \in Threads, Step(t), ~Plays(t), Forcing,
           NEW i \in Ins, ~in_standby'[i]
    PROVE  Forcing' \/ Putting(t, i)'
<1>. IInv /\ Frame(t) /\ TypedIn
  BY ThreadStepInv DEF Base, IInv
<1>1. PICK u \in Threads : op[u] = "out_write" /\ force[u]
  BY DEF Forcing
<1>2. CASE u # t \/ (op'[t] = "out_write" /\ force'[t])
  BY <1>1, <1>2, StepForce DEF Frame, Forcing
<1>3. CASE u = t /\ pc[t] = "inBody" /\ op[t] # "in_read" /\ DoInputStandby(t)
  BY <1>1, <1>3, InputStandbyEnds DEF InOps
<1>4. CASE InputStandbyPut(t)
  BY <1>4, InputPutEnds
<1>5. CASE lock[ADEV] = NULL /\ active_input = NULL /\ UNCHANGED in_standby
  BY <1>5, NobodyBetween, Distinct DEF RunsActive, LockIds, Streams
<1> QED BY <1>1, <1>2, <1>3, <1>4, <1>5, StepForce

EchoNeverFails == "echo" \notin MayFail

LEMMA StepOpensFed ==
    ASSUME EchoNeverFails, Base, RunsActive, EchoInv, VoiceInv, NEW t \in Threads, Step(t),
           NEW u \in Threads, pc'[u] = "inOpen"
    PROVE  ~Unfed(inp[u])' /\ inp'[u] = inp[u]
<1>. /\ IInv /\ Frame(t) /\ TypedIn /\ TypedThreads
  BY ThreadStepInv DEF Base, IInv
<1>1. CASE u = t
  <2>1. CASE CreateEcho(t) /\ UNCHANGED active_output
    <3>1. active_output = NULL /\ inp' = inp
      BY <1>1, <2>1, EchoCreated DEF EchoNeverFails, CreateEcho, Goto, TypedThreads
    <3> QED BY <1>1, <2>1, <3>1 DEF Unfed
  <2>2. CASE InRead(t) /\ ~CreateEcho(t)
    <3>1. /\ ~(in_need[inp[t]] /\ in_echo[inp[t]] = NULL) /\ inp' = inp
          /\ UNCHANGED <<in_need, in_echo>>
      BY <1>1, <2>2 DEF InRead, Goto, TypedThreads, inCfg
    <3> QED BY <1>1, <3>1 DEF Unfed
  <2>3. CASE InReadAdd(t)
    <3>1. inp[t] \in Ins /\ echo_reference # NULL /\ inp' = inp
      BY <2>3, WorkedOn DEF InReadAdd, At, Goto, EchoInv, Pointers
    <3> QED BY <1>1, <2>3, <3>1 DEF InReadAdd, Unfed, TypedIn
  <2> QED BY <1>1, <2>1, <2>2, <2>3, PutSteps DEF InRead, InReadPut, outSt
<1>2. CASE u # t
  <2>1. pc[u] = "inOpen" /\ inp'[u] = inp[u] /\ lock[ADEV] = u /\ inp[u] \in Ins
    BY <1>2, HeldIn DEF Frame, Held, LockIds
  <2>2. active_output' = active_output /\ ~Unfed(inp[u])
    BY <1>2, <2>1 DEF Frame, VoiceInv
  <2>3. lock[ADEV] # t
    BY <1>2, <2>1
  <2>4. CASE VoiceKept
    BY <2>1, <2>2, <2>4 DEF VoiceKept, Unfed
  <2>5. CASE FreeIn(t)
    BY <2>1, <2>2, <2>5 DEF FreeIn, Unfed, TypedIn
  <2>6. ~InputStandbyPut(t) /\ ~InReadOpen(t) /\ ~InReadAdd(t) /\ pc[t] # "inBody"
    BY <2>3, HeldIn DEF InputStandbyPut, InReadOpen, InReadAdd, At, Held, LockIds
  <2> QED BY <2>1, <2>4, <2>5, <2>6, StepVoice
<1> QED BY <1>1, <1>2

LEMMA StepVoiceInv ==
    ASSUME EchoNeverFails, Base, RunsActive, EchoInv, VoiceInv, NEW t \in Threads, Step(t)
    PROVE  VoiceInv'
<1>. /\ IInv /\ Frame(t) /\ TypedIn /\ TypedThreads
  BY ThreadStepInv DEF Base, IInv
<1>1. ASSUME NEW u \in Threads, pc'[u] = "inOpen" PROVE ~Unfed(inp[u])'
  BY <1>1, StepOpensFed
<1>2. ASSUME NEW i \in Ins, ~in_standby'[i], in_voice'[i], Unfed(i)'
      PROVE  Forcing' \/ \E u \in Threads : Putting(u, i)'
  <2>1. CASE Plays(t) /\ VoiceKept
    <3>1. lock[ADEV] = t
      BY <2>1, HeldOut DEF Plays, Held, LockIds
    <3>2. \A u \in Threads : ~Putting(u, i)
      BY <2>1, <3>1, NobodyBetween DEF Plays, Putting
    <3>3. active_input = i /\ in_voice[i] /\ i # NULL
      BY <1>2, <2>1, <3>2, Distinct DEF VoiceKept, RunsActive, LockIds, Streams
    <3>4. op'[t] = "out_write" /\ force'[t]
      BY <2>1, <3>3 DEF Plays, VoiceInputActive
    <3> QED BY <3>4 DEF Forcing
  <2>2. CASE ~Plays(t) /\ ~in_standby[i] /\ in_voice[i] /\ Unfed(i)
    <3>1. CASE Forcing
      BY <1>2, <2>2, <3>1, ForcingKept
    <3>2. CASE \E u \in Threads : Putting(u, i)
      <4>1. PICK u \in Threads : Putting(u, i)
        BY <3>2
      <4>2. CASE u = t
        BY <1>2, <4>1, <4>2, PutSteps, InputPutEnds DEF Putting
      <4>3. CASE u # t
        BY <4>1, <4>3 DEF Putting, Frame
      <4> QED BY <4>2, <4>3
    <3> QED BY <2>2, <3>1, <3>2 DEF VoiceInv
  <2>3. CASE VoiceKept /\ active_output' \in {active_output, NULL} /\ ~Plays(t)
    BY <1>2, <2>2, <2>3 DEF VoiceKept, Unfed
  <2>4. CASE VoiceKept /\ Plays(t)
    BY <2>1, <2>4
  <2>5. CASE /\ pc[t] = "inBody" /\ op[t] # "in_read" /\ DoInputStandby(t)
             /\ UNCHANGED active_output
             /\ \A j \in Ins : j # inp[t] => /\ in_need'[j] = in_need[j]
                                           /\ in_voice'[j] = in_voice[j]
    <3>1. CASE in_standby[inp[t]] /\ UNCHANGED inSt
      <4>1. i # inp[t] /\ ~in_standby[i] /\ in_voice[i] /\ Unfed(i)
        BY <1>2, <2>5, <3>1 DEF inSt, Unfed
      <4> QED BY <2>2, <2>5, <4>1 DEF Plays
    <3> QED BY <1>2, <2>5, <3>1, InputStandbyEnds
  <2>6. CASE InputStandbyPut(t)
    BY <1>2, <2>6, InputPutEnds
  <2>7. CASE InReadOpen(t)
    <3>1. inp[t] \in Ins /\ ~Unfed(inp[t]) /\ \A j \in Ins : j # inp[t] => in_standby[j]
      BY <2>7, WorkedOn DEF InReadOpen, At, VoiceInv
    <3>2. i = inp[t]
      BY <1>2, <2>7, <3>1 DEF InReadOpen, TypedIn
    <3> QED BY <1>2, <2>7, <3>1, <3>2 DEF InReadOpen, Unfed, outSt, inCfg
  <2>8. CASE FreeIn(t)
    <3>1. i # inp[t]
      BY <1>2, <2>8 DEF FreeIn, Unfed, TypedIn
    <3>2. ~in_standby[i] /\ in_voice[i] /\ Unfed(i)
      BY <1>2, <2>8, <3>1 DEF FreeIn, Unfed, TypedIn, outSt
    <3> QED BY <2>2, <2>8, <3>2 DEF FreeIn, At, Plays
  <2>9. CASE InReadAdd(t)
    BY <1>2, <2>9, WorkedOn DEF InReadAdd, At, RunsActive, Starting
  <2> QED BY <2>3, <2>4, <2>5, <2>6, <2>7, <2>8, <2>9, StepVoice
<1> QED BY <1>1, <1>2 DEF VoiceInv

LEMMA VoiceNext ==
    EchoNeverFails /\ Base /\ RunsActive /\ EchoInv /\ VoiceInv /\ [Next]_vars => VoiceInv'
<1> SUFFICES ASSUME EchoNeverFails, Base, RunsActive, EchoInv, VoiceInv, [Next]_vars
             PROVE  VoiceInv'
  OBVIOUS
<1>1. CASE \E u \in Threads : Step(u)
  BY <1>1, StepVoiceInv
<1>2. CASE Begin \/ UNCHANGED vars
  <2>1. Quiet /\ IInv
    BY <1>2, QuietSteps DEF Base
  <2>2. \A t \in Threads, i \in Ins : Putting(t, i)' <=> Putting(t, i)
    BY <2>1 DEF Quiet, Putting, IInv, Mine, Place
  <2>3. Forcing => Forcing'
    BY <2>1 DEF Quiet, Forcing, IInv, Mine, Place
  <2> QED BY <2>1, <2>2, <2>3 DEF Quiet, VoiceInv, Unfed, outSt, inSt, inCfg
<1>3. CASE Restart
  BY <1>3 DEF Restart, VoiceInv
<1> QED BY <1>1, <1>2, <1>3 DEF Next

\* force_input_standby is not lost: unless the reference cannot be created, a
\* voice communication input that runs without one next to an output is about
\* to be restarted, however many threads stop and start streams meanwhile.
THEOREM VoiceGetsEchoHolds ==
    ASSUME OneOutput, EchoNeverFails
    PROVE  Spec => []VoiceGetsEcho
<1>1. Init => VoiceInv
  BY DEF Init, VoiceInv
<1>2. Base /\ VoiceInv => VoiceGetsEcho
  <2> SUFFICES ASSUME Base, VoiceInv, lock[ADEV] = NULL, NEW i \in Ins, ~in_standby[i],
                      in_voice[i], Unfed(i)
               PROVE  Forcing
    BY DEF VoiceGetsEcho, Unfed, Forcing
  <2>1. \A t \in Threads : ~Putting(t, i)
    BY NobodyBetween DEF Base
  <2> QED BY <2>1 DEF VoiceInv
<1> QED BY <1>1, <1>2, VoiceNext, EchoInvariant, PTL DEF Spec
=============================================================================
