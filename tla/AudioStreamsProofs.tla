-------------------------- MODULE AudioStreamsProofs --------------------------
(***************************************************************************)
(* The streams of AudioHal, for every number of threads and of streams,    *)
(* whatever fails: AudioHal implements StreamSessions, no stream is used   *)
(* after it is freed, and the call state follows the mode.                 *)
(*                                                                         *)
(* A step of a thread changes the session of a stream only while it holds  *)
(* that stream's mutex, and a thread in a transfer holds it: so no step    *)
(* meets another thread's transfer.  That a stream is opened while it is   *)
(* used and in standby when it is freed needs what the framework promises  *)
(* (Discipline): it closes a stream that nobody else is calling.           *)
(*                                                                         *)
(* adev->active_output and adev->active_input are of streams that run, or  *)
(* that the thread with the device mutex is starting, and what runs is     *)
(* open.  A thread that borrows the active stream of another call has the  *)
(* device mutex for as long as it uses it; a thread that closes a stream   *)
(* must have the device mutex to put it into standby, and frees it later.  *)
(***************************************************************************)
EXTENDS AudioHalProofs

-----------------------------------------------------------------------------
(***************************************************************************)
(* The calls of the framework.                                             *)
(***************************************************************************)
OutCalls ==
    /\ \A t \in Threads : op[t] \in OutOps => out_open[outp[t]]
    /\ \A t, u \in Threads :
          t # u /\ op[t] = "out_close" /\ op[u] \in OutOps => outp[u] # outp[t]
    /\ \A t \in Threads : At(t, "free", {"out_close"}) => out_standby[outp[t]]

InCalls ==
    /\ \A t \in Threads : op[t] \in InOps => in_open[inp[t]]
    /\ \A t, u \in Threads :
          t # u /\ op[t] = "in_close" /\ op[u] \in InOps => inp[u] # inp[t]
    /\ \A t \in Threads : At(t, "free", {"in_close"}) => in_standby[inp[t]]

Discipline == OutCalls /\ InCalls

\* A thread stays in its call, on its stream, until it returns.
Steady(t) ==
    \/ op'[t] = "none"
    \/ /\ op'[t] = op[t]
       /\ op[t] \in OutOps => outp'[t] = outp[t]
       /\ op[t] \in InOps => inp'[t] = inp[t]

\* Only out_write() and in_read() start a session, of their own stream.
StartsOwn(t) ==
    /\ \A o \in Outs : out_standby[o] /\ ~out_standby'[o]
          => op[t] = "out_write" /\ outp[t] = o
    /\ \A i \in Ins : in_standby[i] /\ ~in_standby'[i]
          => op[t] = "in_read" /\ inp[t] = i

LEMMA StepSteady ==
    ASSUME IInv, NEW t \in Threads, Step(t)
    PROVE  Steady(t)
<1>. TypedThreads /\ Place(t)
  BY DEF IInv, Mine
<1>1. CASE LockDevice(t)
  BY <1>1 DEF LockDevice, Goto, Steady
<1>2. CASE OutStep(t)
  BY <1>2 DEF OutStep, LockOut, OutWrite, OutWriteDone, OutWriteForce, OutStandby, FreeOut,
     OutSetParameters, At, Goto, GotoIn, Return, Steady, TypedThreads, OutOps, InOps, Place
<1>3. CASE InStep(t)
  BY <1>3 DEF InStep, LockIn, InputStandbyPut, InStandby, FreeIn, InSetParameters, InAec,
     InNothing, InRead, InReadPut, InReadAdd, InReadOpen, InReadDone, DoInputStandby,
     AfterInputStandby, CreateEcho, Goto, Return, Steady, TypedThreads
<1>4. CASE ModeStep(t)
  <2>1. pc[t] \in {"mode", "outBody", "selmode"} /\ (pc[t] = "outBody" => op[t] = "set_mode")
    BY <1>4 DEF ModeStep, SetSameMode, SetMode, EnterCall, LeaveCall, ModeOutStandby,
       SelectModeEnd, At
  <2>2. op[t] = "set_mode"
    BY <2>1 DEF Place
  <2>3. op'[t] \in {op[t], "none"}
    BY <1>4 DEF ModeStep, SetSameMode, SetMode, EnterCall, LeaveCall, ModeOutStandby,
       SelectModeEnd, ForceAllStandby, Goto, Return, TypedThreads
  <2> QED BY <2>2, <2>3 DEF Steady, OutOps, InOps
<1> QED BY <1>1, <1>2, <1>3, <1>4 DEF Step

LEMMA StepStartsOwn ==
    ASSUME IInv, NEW t \in Threads, Step(t)
    PROVE  StartsOwn(t)
<1>. TypedOut /\ TypedIn
  BY DEF IInv
<1>1. CASE LockDevice(t)
  BY <1>1 DEF LockDevice, outSt, inSt, StartsOwn
<1>2. CASE OutStep(t)
  <2>1. CASE OutWrite(t)
    BY <2>1 DEF OutWrite, At, StartOutput, StartOutputFails, outSt, inSt, StartsOwn, TypedOut
  <2>2. CASE OutStandby(t) \/ OutSetParameters(t)
    BY <2>2 DEF OutStandby, OutSetParameters, DoOutputStandby, outSt, inSt, StartsOwn, TypedOut
  <2>3. CASE LockOut(t) \/ OutWriteDone(t) \/ OutWriteForce(t) \/ FreeOut(t)
    BY <2>3 DEF LockOut, OutWriteDone, OutWriteForce, FreeOut, outSt, inSt, StartsOwn
  <2> QED BY <1>2, <2>1, <2>2, <2>3 DEF OutStep
<1>3. CASE InStep(t)
  <2>1. CASE InStandby(t) \/ InSetParameters(t) \/ InAec(t)
    BY <2>1 DEF InStandby, InSetParameters, InAec, DoInputStandby, outSt, inSt, StartsOwn,
       TypedIn
  <2>2. CASE InputStandbyPut(t)
    BY <2>2 DEF InputStandbyPut, RemoveEcho, StartsOwn, TypedIn
  <2>3. CASE InReadOpen(t)
    BY <2>3 DEF InReadOpen, At, outSt, StartsOwn, TypedIn
  <2>4. CASE LockIn(t) \/ FreeIn(t) \/ InNothing(t) \/ InRead(t) \/ InReadPut(t)
             \/ InReadAdd(t) \/ InReadDone(t)
    BY <2>4 DEF LockIn, FreeIn, InNothing, InRead, InReadPut, InReadAdd, InReadDone, outSt,
       inSt, StartsOwn
  <2> QED BY <1>3, <2>1, <2>2, <2>3, <2>4 DEF InStep
<1>4. CASE ModeStep(t)
  BY <1>4 DEF ModeStep, SetSameMode, SetMode, EnterCall, LeaveCall, ModeOutStandby,
     SelectModeEnd, DoOutputStandby, outSt, inSt, StartsOwn, TypedOut
<1> QED BY <1>1, <1>2, <1>3, <1>4 DEF Step

\* Streams are closed only by free().
LEMMA StepOpened ==
    ASSUME IInv, NEW t \in Threads, Step(t)
    PROVE  /\ out_open' = out_open \/ FreeOut(t)
           /\ in_open' = in_open \/ FreeIn(t)
BY DEF Step, LockDevice, OutStep, LockOut, OutWrite, OutWriteDone, OutWriteForce,
   OutStandby, FreeOut, OutSetParameters, InStep, LockIn, InputStandbyPut, InStandby,
   FreeIn, InSetParameters, InAec, InNothing, InRead, InReadPut, InReadAdd, InReadOpen,
   InReadDone, ModeStep, SetSameMode, SetMode, EnterCall, LeaveCall, ModeOutStandby,
   SelectModeEnd, opened

\* A close reaches free() with its stream in standby.
LEMMA StepFrees ==
    ASSUME IInv, NEW t \in Threads, Step(t)
    PROVE  /\ At(t, "free", {"out_close"})' => out_standby'[outp'[t]]
           /\ At(t, "free", {"in_close"})' => in_standby'[inp'[t]]
<1>. TypedOut /\ TypedIn /\ TypedThreads /\ HasStreams(t) /\ Place(t)
  BY DEF IInv, Mine
<1>1. CASE OutStandby(t)
  BY <1>1 DEF OutStandby, DoOutputStandby, outSt, At, Goto, Return, TypedOut, TypedThreads,
     HasStreams
<1>2. CASE InStandby(t) \/ InSetParameters(t) \/ InAec(t)
  BY <1>2 DEF InStandby, InSetParameters, InAec, DoInputStandby, AfterInputStandby, inSt,
     At, Goto, Return, TypedIn, TypedThreads, HasStreams
<1>3. CASE InputStandbyPut(t)
  BY <1>3 DEF InputStandbyPut, AfterInputStandby, At, Goto, Return, TypedIn, TypedThreads,
     HasStreams
<1>4. CASE \/ LockDevice(t) \/ LockOut(t) \/ OutWrite(t) \/ OutWriteDone(t)
           \/ OutWriteForce(t) \/ FreeOut(t) \/ OutSetParameters(t)
  BY <1>4 DEF LockDevice, LockOut, OutWrite, OutWriteDone, OutWriteForce, FreeOut,
     OutSetParameters, At, Goto, GotoIn, Return, TypedThreads
<1>5. CASE \/ LockIn(t) \/ FreeIn(t) \/ InNothing(t) \/ InRead(t) \/ InReadPut(t)
           \/ InReadAdd(t) \/ InReadOpen(t) \/ InReadDone(t)
  BY <1>5 DEF LockIn, FreeIn, InNothing, InRead, InReadPut, InReadAdd, InReadOpen,
     InReadDone, CreateEcho, At, Goto, Return, TypedThreads
<1>6. CASE ModeStep(t)
  BY <1>6 DEF ModeStep, SetSameMode, SetMode, EnterCall, LeaveCall, ModeOutStandby,
     SelectModeEnd, ForceAllStandby, At, Goto, Return, TypedThreads
<1> QED BY <1>1, <1>2, <1>3, <1>4, <1>5, <1>6 DEF Step, OutStep, InStep

LEMMA StepOutCalls ==
    ASSUME IInv, OutCalls, NEW t \in Threads, Step(t)
    PROVE  OutCalls'
<1>. /\ Frame(t) /\ Steady(t) /\ StartsOwn(t) /\ OnlyOwn(t) /\ TypedOut /\ TypedThreads
     /\ out_open' = out_open \/ FreeOut(t)
  BY ThreadStepInv, StepSteady, StepStartsOwn, StepOwn, StepOpened DEF IInv
<1>1. ASSUME NEW u \in Threads, op'[u] \in OutOps
      PROVE  op[u] \in OutOps /\ op'[u] = op[u] /\ outp'[u] = outp[u]
  BY <1>1 DEF Steady, Frame, OutOps
<1>2. ASSUME NEW u \in Threads, op'[u] \in OutOps
      PROVE  out_open'[outp'[u]]
  <2>1. CASE out_open' = out_open
    BY <1>1, <1>2, <2>1 DEF OutCalls
  <2>2. CASE FreeOut(t)
    <3>1. op[t] = "out_close" /\ op'[t] = "none"
      BY <2>2 DEF FreeOut, At, Return, TypedThreads
    <3>2. u # t
      BY <1>2, <3>1 DEF OutOps
    <3>3. outp[u] # outp[t]
      BY <1>1, <1>2, <3>1, <3>2 DEF OutCalls
    <3>4. out_open'[outp[u]] = out_open[outp[u]]
      BY <2>2, <3>3, <1>1, <1>2 DEF FreeOut, TypedOut, IInv, Mine, HasStreams
    <3> QED BY <1>1, <1>2, <3>4 DEF OutCalls
  <2> QED BY <2>1, <2>2
<1>3. ASSUME NEW u \in Threads, NEW v \in Threads, u # v, op'[u] = "out_close",
             op'[v] \in OutOps
      PROVE  outp'[v] # outp'[u]
  BY <1>1, <1>3 DEF OutCalls, OutOps
<1>4. ASSUME NEW u \in Threads, At(u, "free", {"out_close"})'
      PROVE  out_standby'[outp'[u]]
  <2>1. CASE u = t
    BY <2>1, <1>4, StepFrees
  <2>2. CASE u # t
    <3>1. At(u, "free", {"out_close"}) /\ outp'[u] = outp[u] /\ outp[u] \in Outs
      BY <1>4, <2>2 DEF Frame, At, IInv, Mine, HasStreams, OutOps
    <3>2. op[t] = "out_write" => outp[t] # outp[u]
      BY <3>1, <2>2 DEF OutCalls, At, OutOps
    <3> QED BY <3>1, <3>2 DEF OutCalls, StartsOwn, TypedOut
  <2> QED BY <2>1, <2>2
<1> QED BY <1>2, <1>3, <1>4 DEF OutCalls

LEMMA StepInCalls ==
    ASSUME IInv, InCalls, NEW t \in Threads, Step(t)
    PROVE  InCalls'
<1>. /\ Frame(t) /\ Steady(t) /\ StartsOwn(t) /\ OnlyOwn(t) /\ TypedIn /\ TypedThreads
     /\ in_open' = in_open \/ FreeIn(t)
  BY ThreadStepInv, StepSteady, StepStartsOwn, StepOwn, StepOpened DEF IInv
<1>1. ASSUME NEW u \in Threads, op'[u] \in InOps
      PROVE  op[u] \in InOps /\ op'[u] = op[u] /\ inp'[u] = inp[u]
  BY <1>1 DEF Steady, Frame, InOps
<1>2. ASSUME NEW u \in Threads, op'[u] \in InOps
      PROVE  in_open'[inp'[u]]
  <2>1. CASE in_open' = in_open
    BY <1>1, <1>2, <2>1 DEF InCalls
  <2>2. CASE FreeIn(t)
    <3>1. op[t] = "in_close" /\ op'[t] = "none"
      BY <2>2 DEF FreeIn, At, Return, TypedThreads
    <3>2. u # t
      BY <1>2, <3>1 DEF InOps
    <3>3. inp[u] # inp[t]
      BY <1>1, <1>2, <3>1, <3>2 DEF InCalls
    <3>4. in_open'[inp[u]] = in_open[inp[u]]
      BY <2>2, <3>3, <1>1, <1>2 DEF FreeIn, TypedIn, IInv, Mine, HasStreams
    <3> QED BY <1>1, <1>2, <3>4 DEF InCalls
  <2> QED BY <2>1, <2>2
<1>3. ASSUME NEW u \in Threads, NEW v \in Threads, u # v, op'[u] = "in_close",
             op'[v] \in InOps
      PROVE  inp'[v] # inp'[u]
  BY <1>1, <1>3 DEF InCalls, InOps
<1>4. ASSUME NEW u \in Threads, At(u, "free", {"in_close"})'
      PROVE  in_standby'[inp'[u]]
  <2>1. CASE u = t
    BY <2>1, <1>4, StepFrees
  <2>2. CASE u # t
    <3>1. At(u, "free", {"in_close"}) /\ inp'[u] = inp[u] /\ inp[u] \in Ins
      BY <1>4, <2>2 DEF Frame, At, IInv, Mine, HasStreams, InOps
    <3>2. op[t] = "in_read" => inp[t] # inp[u]
      BY <3>1, <2>2 DEF InCalls, At, InOps
    <3> QED BY <3>1, <3>2 DEF InCalls, StartsOwn, TypedIn
  <2> QED BY <2>1, <2>2
<1> QED BY <1>2, <1>3, <1>4 DEF InCalls

LEMMA DisciplineNext == IInv /\ Discipline /\ [Next]_vars => Discipline'
<1> SUFFICES ASSUME IInv, Discipline, [Next]_vars PROVE Discipline'
  OBVIOUS
<1>1. CASE \E t \in Threads : Step(t)
  BY <1>1, StepOutCalls, StepInCalls DEF Discipline
<1>2. CASE Begin
  <2>1. CASE \E t \in Threads : CallOut(t) \/ CallIn(t) \/ CallSetMode(t)
    <3>1. PICK t \in Threads, c \in Ops, o \in Outs \union {NULL}, i \in Ins \union {NULL} :
            /\ Call(t, c, o, i)
            /\ c \in OutOps => /\ out_open[o]
                               /\ \A u \in Threads : OutCaller(u, o) =>
                                     op[u] # "out_close" /\ c # "out_close"
            /\ c \in InOps => /\ in_open[i]
                              /\ \A u \in Threads : InCaller(u, i) =>
                                    op[u] # "in_close" /\ c # "in_close"
      <4>1. PICK t \in Threads : CallOut(t) \/ CallIn(t) \/ CallSetMode(t)
        BY <2>1
      <4>2. CASE CallOut(t)
        BY <4>2 DEF CallOut, OutOps, InOps, Ops
      <4>3. CASE CallIn(t)
        <5>1. PICK i \in Ins, c \in InOps :
                /\ in_open[i]
                /\ \A u \in Threads : InCaller(u, i) => op[u] # "in_close" /\ c # "in_close"
                /\ Call(t, c, NULL, i)
          BY <4>3 DEF CallIn
        <5> QED BY <5>1 DEF OutOps, InOps, Ops
      <4>4. CASE CallSetMode(t)
        BY <4>4 DEF CallSetMode, OutOps, InOps, Ops
      <4> QED BY <4>1, <4>2, <4>3, <4>4
    <3>2. /\ pc[t] = "idle" /\ pc'[t] = "adev" /\ op'[t] = c /\ outp'[t] = o /\ inp'[t] = i
          /\ \A u \in Threads \ {t} : /\ pc'[u] = pc[u] /\ op'[u] = op[u]
                                      /\ outp'[u] = outp[u] /\ inp'[u] = inp[u]
          /\ UNCHANGED <<out_open, in_open, out_standby, in_standby>>
      BY <3>1 DEF Call, IInv, TypedThreads, opened, outSt, inSt
    <3>3. OutCalls'
      BY <3>1, <3>2 DEF Discipline, OutCalls, OutCaller, At, OutOps
    <3>4. InCalls'
      BY <3>1, <3>2 DEF Discipline, InCalls, InCaller, At, InOps
    <3> QED BY <3>3, <3>4 DEF Discipline
  <2>2. CASE (\E o \in Outs : OpenOut(o)) \/ (\E i \in Ins : OpenIn(i))
    <3>1. /\ UNCHANGED <<pc, op, outp, inp, out_standby, in_standby>>
          /\ \A o \in Outs : out_open[o] => out_open'[o]
          /\ \A i \in Ins : in_open[i] => in_open'[i]
      BY <2>2 DEF OpenOut, OpenIn, threads, outSt, inSt, IInv, TypedOut, TypedIn
    <3>2. \A t \in Threads : HasStreams(t)
      BY DEF IInv, Mine
    <3> QED BY <3>1, <3>2 DEF Discipline, OutCalls, InCalls, HasStreams, At
  <2> QED BY <1>2, <2>1, <2>2 DEF Begin
<1>3. CASE Restart
  BY <1>3 DEF Restart, Discipline, OutCalls, InCalls, OutOps, InOps, At
<1>4. CASE UNCHANGED vars
  BY <1>4 DEF vars, opened, outSt, inSt, threads, Discipline, OutCalls, InCalls, At
<1> QED BY <1>1, <1>2, <1>3, <1>4 DEF Next

LEMMA DisciplineInit == Init => Discipline
BY DEF Init, Discipline, OutCalls, InCalls, OutOps, InOps, At

-----------------------------------------------------------------------------
(***************************************************************************)
(* The refinement.                                                         *)
(***************************************************************************)
\* A thread in a transfer has the mutex of the stream.
LEMMA IoHolds ==
    ASSUME IInv, NEW t \in Threads, NEW s \in Streams, IoThread(t, s)
    PROVE  lock[s] = t /\ pc[t] = "io"
<1>1. op[t] \in {"out_write", "in_read"}
  BY DEF IoThread, IInv, Mine, Place
<1> QED BY <1>1, HeldIoOut, HeldIoIn DEF IoThread, Held

\* The transfers of other threads go on, and a stream whose mutex t has is in
\* none of them.
LEMMA OthersTransfer ==
    ASSUME IInv, NEW t \in Threads, Frame(t), NEW s \in Streams
    PROVE  /\ \A u \in Threads \ {t} : IoThread(u, s)' <=> IoThread(u, s)
           /\ lock[s] = t => \A u \in Threads \ {t} : ~IoThread(u, s)
<1>1. \A u \in Threads \ {t} : IoThread(u, s)' <=> IoThread(u, s)
  BY DEF Frame, IoThread
<1>2. lock[s] = t => \A u \in Threads \ {t} : ~IoThread(u, s)
  BY IoHolds
<1> QED BY <1>1, <1>2

\* A step that neither begins nor ends a transfer leaves the set of them.
LEMMA SameTransfers ==
    ASSUME IInv, NEW t \in Threads, Frame(t), pc[t] # "io", pc'[t] # "io"
    PROVE  IoStreams' = IoStreams
BY OthersTransfer DEF IoStreams, IoThread

\* The transfer of t on s begins.
LEMMA TransferBegins ==
    ASSUME IInv, NEW t \in Threads, Frame(t), NEW s \in Streams,
           lock[s] = t, pc[t] # "io",
           \A x \in Streams : IoThread(t, x)' <=> (x = s)
    PROVE  s \notin IoStreams /\ IoStreams' = IoStreams \union {s}
<1>1. \A x \in Streams : ~IoThread(t, x)
  BY DEF IoThread
<1> QED BY <1>1, OthersTransfer DEF IoStreams

\* The transfer of t on s ends.
LEMMA TransferEnds ==
    ASSUME IInv, NEW t \in Threads, Frame(t), NEW s \in Streams,
           IoThread(t, s), pc'[t] # "io"
    PROVE  s \in IoStreams /\ IoStreams' = IoStreams \ {s}
<1>1. lock[s] = t
  BY IoHolds
<1>2. \A x \in Streams : IoThread(t, x) => x = s
  BY DEF IoThread
<1>3. \A x \in Streams : ~IoThread(t, x)'
  BY DEF IoThread
<1> QED BY <1>1, <1>2, <1>3, OthersTransfer DEF IoStreams

\* do_output_standby() ends a session that nobody is using, or does nothing.
LEMMA OutStandbyStep ==
    ASSUME IInv, NEW t \in Threads, Frame(t), pc[t] = "outBody", pc'[t] # "io",
           DoOutputStandby(outp[t]), UNCHANGED <<opened, inSt>>
    PROVE  Sessions!Next \/ UNCHANGED Sessions!sessions
<1>1. outp[t] \in Outs /\ lock[outp[t]] = t /\ TypedOut
  BY HeldOut DEF Held, IInv
<1>2. UNCHANGED <<OpenStreams, IoStreams>>
  BY SameTransfers DEF opened, OpenStreams
<1>3. CASE out_standby[outp[t]]
  BY <1>2, <1>3 DEF DoOutputStandby, outSt, inSt, RunningStreams, Sessions!sessions
<1>4. CASE ~out_standby[outp[t]]
  <2>1. outp[t] \in RunningStreams \ IoStreams
    BY <1>1, <1>4, OthersTransfer DEF RunningStreams, IoStreams, IoThread, Streams
  <2>2. RunningStreams' = RunningStreams \ {outp[t]}
    BY <1>1, <1>4, Distinct DEF DoOutputStandby, inSt, RunningStreams, TypedOut
  <2> QED BY <1>1, <1>2, <2>1, <2>2 DEF Sessions!Next, Sessions!Standby, Streams
<1> QED BY <1>3, <1>4

\* So does a step that ends the session of the input of t.
LEMMA InStandbyStep ==
    ASSUME IInv, NEW t \in Threads, Frame(t), pc[t] \in {"inBody", "put"}, pc'[t] # "io",
           UNCHANGED <<opened, out_standby>>,
           \/ UNCHANGED in_standby
           \/ in_standby' = [in_standby EXCEPT ![inp[t]] = TRUE]
    PROVE  Sessions!Next \/ UNCHANGED Sessions!sessions
<1>1. inp[t] \in Ins /\ lock[inp[t]] = t /\ TypedIn
  BY HeldIn DEF Held, IInv
<1>2. UNCHANGED <<OpenStreams, IoStreams>>
  BY SameTransfers DEF opened, OpenStreams
<1>3. CASE UNCHANGED in_standby
  BY <1>2, <1>3 DEF RunningStreams, Sessions!sessions
<1>4. CASE in_standby[inp[t]] /\ in_standby' = [in_standby EXCEPT ![inp[t]] = TRUE]
  <2>1. in_standby' = in_standby
    BY <1>1, <1>4 DEF TypedIn
  <2> QED BY <1>3, <2>1
<1>5. CASE ~in_standby[inp[t]] /\ in_standby' = [in_standby EXCEPT ![inp[t]] = TRUE]
  <2>1. inp[t] \in RunningStreams \ IoStreams
    BY <1>1, <1>5, OthersTransfer DEF RunningStreams, IoStreams, IoThread, Streams
  <2>2. RunningStreams' = RunningStreams \ {inp[t]}
    BY <1>1, <1>5, Distinct DEF RunningStreams, TypedIn
  <2> QED BY <1>1, <1>2, <2>1, <2>2 DEF Sessions!Next, Sessions!Standby, Streams
<1> QED BY <1>3, <1>4, <1>5

\* A step outside of a transfer that touches no session and no opened stream.
LEMMA QuietStep ==
    ASSUME IInv, NEW t \in Threads, Frame(t), pc[t] # "io", pc'[t] # "io",
           UNCHANGED <<opened, out_standby, in_standby>>
    PROVE  UNCHANGED Sessions!sessions
BY SameTransfers DEF opened, OpenStreams, RunningStreams, Sessions!sessions

LEMMA OutWriteStep ==
    ASSUME IInv, Discipline, NEW t \in Threads, Frame(t), OutWrite(t)
    PROVE  Sessions!Next \/ UNCHANGED Sessions!sessions
<1> DEFINE o == outp[t]
<1>1. /\ pc[t] = "outBody" /\ op[t] = "out_write" /\ o \in Outs /\ lock[o] = t
      /\ out_open[o] /\ TypedOut /\ TypedThreads
  BY HeldOut DEF OutWrite, At, Held, IInv, Discipline, OutCalls, OutOps
<1>2. UNCHANGED <<opened, inSt>> /\ op'[t] = "out_write" /\ outp' = outp
  BY <1>1 DEF OutWrite, Goto
<1>3. CASE StartOutputFails /\ Goto(t, "fail")
  BY <1>1, <1>2, <1>3, QuietStep DEF StartOutputFails, Goto, inSt, TypedThreads
<1>4. CASE /\ pc'[t] = "io"
           /\ out_standby' = [out_standby EXCEPT ![o] = FALSE]
  <2>1. \A x \in Streams : IoThread(t, x)' <=> (x = o)
    BY <1>2, <1>4 DEF IoThread
  <2>2. o \notin IoStreams /\ IoStreams' = IoStreams \union {o}
    BY <1>1, <2>1, TransferBegins DEF Streams
  <2>3. RunningStreams' = RunningStreams \union {o}
    BY <1>1, <1>2, <1>4, Distinct DEF RunningStreams, TypedOut, inSt
  <2>4. o \in OpenStreams /\ OpenStreams' = OpenStreams
    BY <1>1, <1>2 DEF OpenStreams, opened
  <2> QED BY <1>1, <2>2, <2>3, <2>4 DEF Sessions!Next, Sessions!BeginTransfer, Streams
<1>5. CASE ~out_standby[o] /\ Goto(t, "io") /\ UNCHANGED outSt
  <2>1. pc'[t] = "io" /\ out_standby' = [out_standby EXCEPT ![o] = FALSE]
    BY <1>1, <1>5 DEF Goto, outSt, TypedOut, TypedThreads
  <2> QED BY <1>4, <2>1
<1>6. CASE StartOutput(o) /\ pc' = [pc EXCEPT ![t] = "io"]
  BY <1>1, <1>4, <1>6 DEF StartOutput, TypedThreads
<1> QED BY <1>3, <1>5, <1>6 DEF OutWrite

LEMMA InReadStep ==
    ASSUME IInv, Discipline, NEW t \in Threads, Frame(t), InRead(t) \/ InReadOpen(t)
    PROVE  Sessions!Next \/ UNCHANGED Sessions!sessions
<1> DEFINE i == inp[t]
<1>1. /\ pc[t] \in {"inBody", "inOpen"} /\ op[t] = "in_read" /\ i \in Ins /\ lock[i] = t
      /\ in_open[i] /\ TypedIn /\ TypedThreads
  BY HeldIn DEF InRead, InReadOpen, At, Held, IInv, Discipline, InCalls, InOps
<1>2. UNCHANGED <<opened, out_standby>>
  BY DEF InRead, InReadOpen, outSt
<1>3. CASE pc'[t] # "io" /\ UNCHANGED in_standby
  BY <1>1, <1>2, <1>3, QuietStep
<1>4. CASE /\ Goto(t, "io")
           /\ in_standby' = [in_standby EXCEPT ![i] = FALSE]
  <2>1. pc'[t] = "io" /\ op'[t] = "in_read" /\ inp' = inp
    BY <1>1, <1>4 DEF Goto, TypedThreads
  <2>2. \A x \in Streams : IoThread(t, x)' <=> (x = i)
    BY <2>1 DEF IoThread
  <2>3. i \notin IoStreams /\ IoStreams' = IoStreams \union {i}
    BY <1>1, <2>2, TransferBegins DEF Streams
  <2>4. RunningStreams' = RunningStreams \union {i}
    BY <1>1, <1>2, <1>4, Distinct DEF RunningStreams, TypedIn
  <2>5. i \in OpenStreams /\ OpenStreams' = OpenStreams
    BY <1>1, <1>2 DEF OpenStreams, opened
  <2> QED BY <1>1, <2>3, <2>4, <2>5 DEF Sessions!Next, Sessions!BeginTransfer, Streams
<1>5. CASE InRead(t)
  <2>1. UNCHANGED in_standby
    BY <1>5 DEF InRead
  <2>2. CASE ~in_standby[i] /\ Goto(t, "io")
    <3>1. in_standby' = [in_standby EXCEPT ![i] = FALSE]
      BY <1>1, <2>1, <2>2 DEF TypedIn
    <3> QED BY <1>4, <2>2, <3>1
  <2>3. CASE in_standby[i]
    BY <1>1, <1>3, <1>5, <2>1, <2>3 DEF InRead, CreateEcho, Goto, TypedThreads
  <2> QED BY <1>5, <2>2, <2>3 DEF InRead
<1>6. CASE InReadOpen(t)
  <2>1. CASE Goto(t, "io") /\ in_standby' = [in_standby EXCEPT ![i] = FALSE]
    BY <1>4, <2>1
  <2>2. CASE Goto(t, "fail") /\ UNCHANGED in_standby
    BY <1>1, <1>3, <2>2 DEF Goto, TypedThreads
  <2> QED BY <1>6, <2>1, <2>2 DEF InReadOpen
<1> QED BY <1>5, <1>6

\* The end of out_write()'s or in_read()'s I/O, or of their sleep.
LEMMA DoneStep ==
    ASSUME IInv, NEW t \in Threads, Frame(t), OutWriteDone(t) \/ InReadDone(t)
    PROVE  Sessions!Next \/ UNCHANGED Sessions!sessions
<1>1. /\ UNCHANGED <<opened, out_standby, in_standby>> /\ pc'[t] # "io"
      /\ pc[t] \in {"io", "fail"} /\ op[t] \in {"out_write", "in_read"}
  BY DEF OutWriteDone, InReadDone, Goto, Return, outSt, inSt, IInv, TypedThreads
<1>2. CASE pc[t] = "io"
  <2>1. PICK s \in Streams : IoThread(t, s)
    BY <1>1, <1>2, HeldIoOut, HeldIoIn DEF IoThread, Streams
  <2>2. s \in IoStreams /\ IoStreams' = IoStreams \ {s}
    BY <1>1, <2>1, TransferEnds
  <2> QED BY <1>1, <2>2 DEF Sessions!Next, Sessions!EndTransfer, opened, OpenStreams,
     RunningStreams
<1>3. CASE pc[t] # "io"
  BY <1>1, <1>3, QuietStep
<1> QED BY <1>2, <1>3

\* free(): its stream is open, and no longer running.
LEMMA FreeStep ==
    ASSUME IInv, Discipline, NEW t \in Threads, Frame(t), FreeOut(t) \/ FreeIn(t)
    PROVE  Sessions!Next \/ UNCHANGED Sessions!sessions
<1>1. /\ pc[t] = "free" /\ pc'[t] # "io" /\ TypedOut /\ TypedIn
      /\ UNCHANGED <<out_standby, in_standby>>
  BY DEF FreeOut, FreeIn, At, Return, outSt, inSt, IInv, TypedThreads
<1>2. IoStreams' = IoStreams /\ RunningStreams' = RunningStreams
  BY <1>1, SameTransfers DEF RunningStreams
<1>3. CASE FreeOut(t)
  <2>1. outp[t] \in Outs /\ out_open[outp[t]] /\ out_standby[outp[t]]
    BY <1>3 DEF FreeOut, At, OutOps, Discipline, OutCalls, IInv, Mine, HasStreams
  <2>2. outp[t] \in OpenStreams \ RunningStreams
    BY <2>1, Distinct DEF OpenStreams, RunningStreams
  <2>3. OpenStreams' = OpenStreams \ {outp[t]}
    BY <1>1, <1>3, <2>1, Distinct DEF FreeOut, OpenStreams, TypedOut
  <2> QED BY <1>2, <2>1, <2>2, <2>3 DEF Sessions!Next, Sessions!Close, Streams
<1>4. CASE FreeIn(t)
  <2>1. inp[t] \in Ins /\ in_open[inp[t]] /\ in_standby[inp[t]]
    BY <1>4 DEF FreeIn, At, InOps, Discipline, InCalls, IInv, Mine, HasStreams
  <2>2. inp[t] \in OpenStreams \ RunningStreams
    BY <2>1, Distinct DEF OpenStreams, RunningStreams
  <2>3. OpenStreams' = OpenStreams \ {inp[t]}
    BY <1>1, <1>4, <2>1, Distinct DEF FreeIn, OpenStreams, TypedIn
  <2> QED BY <1>2, <2>1, <2>2, <2>3 DEF Sessions!Next, Sessions!Close, Streams
<1> QED BY <1>3, <1>4

LEMMA StepRefines ==
    ASSUME IInv, Discipline, NEW t \in Threads, Step(t)
    PROVE  Sessions!Next \/ UNCHANGED Sessions!sessions
<1>. Frame(t) /\ TypedThreads
  BY ThreadStepInv DEF IInv
<1>1. CASE OutWrite(t)
  BY <1>1, OutWriteStep
<1>2. CASE InRead(t) \/ InReadOpen(t)
  BY <1>2, InReadStep
<1>3. CASE OutWriteDone(t) \/ InReadDone(t)
  BY <1>3, DoneStep
<1>4. CASE FreeOut(t) \/ FreeIn(t)
  BY <1>4, FreeStep
<1>5. CASE OutStandby(t) \/ ModeOutStandby(t)
  BY <1>5, OutStandbyStep DEF OutStandby, ModeOutStandby, At, Goto, Return, TypedThreads
<1>6. CASE OutSetParameters(t)
  <2>1. pc[t] = "outBody" /\ pc'[t] # "io" /\ UNCHANGED <<opened, inSt>>
    BY <1>6 DEF OutSetParameters, At, Goto, GotoIn, Return, TypedThreads
  <2>2. CASE UNCHANGED outSt
    BY <2>1, <2>2, QuietStep DEF outSt, inSt
  <2>3. CASE DoOutputStandby(outp[t])
    BY <2>1, <2>3, OutStandbyStep
  <2> QED BY <1>6, <2>2, <2>3 DEF OutSetParameters
<1>7. CASE InStandby(t) \/ InSetParameters(t) \/ InAec(t)
  <2>1. /\ pc[t] = "inBody" /\ pc'[t] # "io" /\ UNCHANGED <<opened, out_standby>>
        /\ DoInputStandby(t)
    BY <1>7 DEF InStandby, InSetParameters, InAec, DoInputStandby, AfterInputStandby, At,
       Goto, Return, outSt, TypedThreads
  <2>2. \/ UNCHANGED in_standby
        \/ in_standby' = [in_standby EXCEPT ![inp[t]] = TRUE]
    BY <2>1 DEF DoInputStandby, inSt
  <2> QED BY <2>1, <2>2, InStandbyStep
<1>8. CASE InputStandbyPut(t)
  <2>1. /\ pc[t] = "put" /\ pc'[t] # "io" /\ UNCHANGED <<opened, out_standby>>
        /\ in_standby' = [in_standby EXCEPT ![inp[t]] = TRUE]
    BY <1>8 DEF InputStandbyPut, AfterInputStandby, Goto, Return, TypedThreads
  <2> QED BY <2>1, InStandbyStep
<1>9. CASE \/ LockDevice(t) \/ LockOut(t) \/ OutWriteForce(t) \/ LockIn(t) \/ InNothing(t)
           \/ InReadPut(t) \/ InReadAdd(t) \/ SetSameMode(t) \/ SetMode(t) \/ EnterCall(t)
           \/ LeaveCall(t) \/ SelectModeEnd(t)
  <2>1. pc[t] # "io" /\ pc'[t] # "io"
    BY <1>9 DEF LockDevice, LockOut, OutWriteForce, LockIn, InNothing, InReadPut,
       InReadAdd, SetSameMode, SetMode, EnterCall, LeaveCall, SelectModeEnd, CreateEcho,
       ForceAllStandby, At, Goto, GotoIn, Return, TypedThreads
  <2>2. UNCHANGED <<opened, out_standby, in_standby>>
    BY <1>9 DEF LockDevice, LockOut, OutWriteForce, LockIn, InNothing, InReadPut,
       InReadAdd, SetSameMode, SetMode, EnterCall, LeaveCall, SelectModeEnd, outSt, inSt
  <2> QED BY <2>1, <2>2, QuietStep
<1> QED BY <1>1, <1>2, <1>3, <1>4, <1>5, <1>6, <1>7, <1>8, <1>9
   DEF Step, OutStep, InStep, ModeStep

LEMMA BeginRefines ==
    ASSUME IInv, Begin
    PROVE  Sessions!Next \/ UNCHANGED Sessions!sessions
<1>1. UNCHANGED RunningStreams
  BY BeginOwn DEF outSt, inSt, RunningStreams
<1>2. CASE \E t \in Threads : CallOut(t) \/ CallIn(t) \/ CallSetMode(t)
  <2>1. PICK t \in Threads : CallOut(t) \/ CallIn(t) \/ CallSetMode(t)
    BY <1>2
  <2>2. Frame(t) /\ TypedThreads
    BY <2>1, CallInv DEF IInv
  <2>3. /\ pc[t] # "io" /\ pc'[t] # "io"
        /\ UNCHANGED <<opened, out_standby, in_standby>>
    BY <2>1, <2>2 DEF CallOut, CallIn, CallSetMode, Call, outSt, inSt, TypedThreads
  <2> QED BY <2>2, <2>3, QuietStep
<1>3. CASE \E o \in Outs : OpenOut(o)
  <2>1. PICK o \in Outs : OpenOut(o)
    BY <1>3
  <2>2. o \notin OpenStreams /\ OpenStreams' = OpenStreams \union {o} /\ IoStreams' = IoStreams
    BY <2>1, Distinct DEF OpenOut, OpenStreams, IoStreams, IoThread, threads, IInv, TypedOut
  <2> QED BY <1>1, <2>2 DEF Sessions!Next, Sessions!Open, Streams
<1>4. CASE \E i \in Ins : OpenIn(i)
  <2>1. PICK i \in Ins : OpenIn(i)
    BY <1>4
  <2>2. i \notin OpenStreams /\ OpenStreams' = OpenStreams \union {i} /\ IoStreams' = IoStreams
    BY <2>1, Distinct DEF OpenIn, OpenStreams, IoStreams, IoThread, threads, IInv, TypedIn
  <2> QED BY <1>1, <2>2 DEF Sessions!Next, Sessions!Open, Streams
<1> QED BY <1>2, <1>3, <1>4 DEF Begin

LEMMA NextRefines ==
    IInv /\ Discipline /\ [Next]_vars => [Sessions!Next]_(Sessions!sessions)
<1> SUFFICES ASSUME IInv, Discipline, [Next]_vars
             PROVE  Sessions!Next \/ UNCHANGED Sessions!sessions
  OBVIOUS
<1>1. CASE \E t \in Threads : Step(t)
  BY <1>1, StepRefines
<1>2. CASE Begin
  BY <1>2, BeginRefines
<1>3. CASE Restart
  BY <1>3 DEF Restart, OpenStreams, RunningStreams, IoStreams, IoThread,
     Sessions!Next, Sessions!Restart
<1>4. CASE UNCHANGED vars
  BY <1>4 DEF vars, opened, outSt, inSt, threads, OpenStreams, RunningStreams, IoStreams,
     IoThread, Sessions!sessions
<1> QED BY <1>1, <1>2, <1>3, <1>4 DEF Next

LEMMA InitRefines == Init => Sessions!Init
BY DEF Init, OpenStreams, RunningStreams, IoStreams, IoThread, Sessions!Init

\* However many threads call the HAL on however many streams, and whatever
\* fails, the streams have the sessions StreamSessions says: audio_hw.c
\* implements it.
THEOREM SessionsKept == Spec => KeepsSessions
BY Invariant, DisciplineInit, DisciplineNext, InitRefines, NextRefines, PTL
   DEF Spec, KeepsSessions, Sessions!Spec

-----------------------------------------------------------------------------
(***************************************************************************)
(* The call state.                                                         *)
(***************************************************************************)
\* select_mode() works between the two halves of its change of in_call.
Selecting == {"out", "outBody", "in", "inBody", "put", "selmode"}

Selects(t) == op[t] = "set_mode" /\ pc[t] \in Selecting

CallFits == ~dead =>
    /\ modem = "open" => in_call
    /\ \A t \in Threads : Selects(t) => ~in_call
    /\ (\A t \in Threads : ~Selects(t)) => in_call = (mode = IN_CALL)

\* While a thread selects the mode no other thread has the device mutex.
LEMMA SelectsAlone ==
    ASSUME IInv, NEW t \in Threads, NEW u \in Threads \ {t}, pc[t] \in HoldsDevice
    PROVE  ~Selects(u)
BY DEF IInv, Mine, Owner, HoldsDevice, Selects, Selecting

\* Every other step leaves the call state alone, and a thread that selects
\* the mode goes on with it.
LEMMA StepKeepsCall ==
    ASSUME IInv, NEW t \in Threads, Step(t),
           ~(SetMode(t) \/ EnterCall(t) \/ LeaveCall(t) \/ SelectModeEnd(t))
    PROVE  UNCHANGED call /\ (Selects(t)' <=> Selects(t))
<1>. TypedThreads /\ Place(t)
  BY DEF IInv, Mine
<1>1. CASE \/ LockDevice(t) \/ LockOut(t) \/ OutWrite(t) \/ OutWriteDone(t)
           \/ OutWriteForce(t) \/ FreeOut(t)
  BY <1>1 DEF LockDevice, LockOut, OutWrite, OutWriteDone, OutWriteForce, FreeOut,
     At, Goto, GotoIn, Return, Selects, Selecting, TypedThreads, OutOps, InOps, Place
<1>2. CASE OutStandby(t) \/ OutSetParameters(t)
  BY <1>2 DEF OutStandby, OutSetParameters, At, Goto, GotoIn, Return, Selects, TypedThreads
<1>3. CASE LockIn(t)
  BY <1>3 DEF LockIn, Goto, Selects, Selecting, TypedThreads
<1>4. CASE InputStandbyPut(t) \/ InStandby(t) \/ InSetParameters(t) \/ InAec(t)
  BY <1>4 DEF InputStandbyPut, InStandby, InSetParameters, InAec, DoInputStandby,
     AfterInputStandby, At, Goto, Return, Selects, Selecting, TypedThreads
<1>5. CASE \/ FreeIn(t) \/ InNothing(t) \/ InRead(t) \/ InReadPut(t) \/ InReadAdd(t)
           \/ InReadOpen(t) \/ InReadDone(t)
  BY <1>5 DEF FreeIn, InNothing, InRead, InReadPut, InReadAdd, InReadOpen, InReadDone,
     CreateEcho, At, Goto, Return, Selects, TypedThreads
<1>6. CASE SetSameMode(t) \/ ModeOutStandby(t)
  BY <1>6 DEF SetSameMode, ModeOutStandby, At, Goto, Return, Selects, Selecting, TypedThreads
<1> QED BY <1>1, <1>2, <1>3, <1>4, <1>5, <1>6 DEF Step, OutStep, InStep, ModeStep

LEMMA StepCallFits ==
    ASSUME IInv, CallFits, NEW t \in Threads, Step(t)
    PROVE  CallFits'
<1>. Frame(t) /\ TypedThreads /\ TypedCall /\ ~dead
  BY ThreadStepInv DEF IInv, Step
<1>1. \A u \in Threads \ {t} : Selects(u)' <=> Selects(u)
  BY DEF Frame, Selects
<1>2. CASE SetMode(t) \/ EnterCall(t) \/ LeaveCall(t) \/ SelectModeEnd(t)
  <2>1. pc[t] \in {"mode", "selmode"} /\ op[t] = "set_mode" /\ pc[t] \in HoldsDevice
    BY <1>2 DEF SetMode, EnterCall, LeaveCall, SelectModeEnd, HoldsDevice, IInv, Mine, Place
  <2>2. \A u \in Threads \ {t} : ~Selects(u)'
    BY <1>1, <2>1, SelectsAlone
  <2>3. CASE SetMode(t)
    <3>1. ~Selects(t)'
      BY <2>3 DEF SetMode, Return, Selects, TypedThreads
    <3>2. \A u \in Threads : ~Selects(u)
      BY <1>1, <2>2, <2>3 DEF SetMode, Selects, Selecting
    <3> QED BY <2>2, <2>3, <3>1, <3>2 DEF SetMode, CallFits
  <2>4. CASE EnterCall(t) \/ LeaveCall(t)
    <3>1. Selects(t)'
      BY <2>1, <2>4 DEF EnterCall, LeaveCall, ForceAllStandby, Selects, Selecting, TypedThreads
    <3>2. ~in_call' /\ (modem' = "open" => modem = "open" /\ ~in_call)
      BY <2>4 DEF EnterCall, LeaveCall
    <3> QED BY <3>1, <3>2 DEF CallFits
  <2>5. CASE SelectModeEnd(t)
    <3>1. ~Selects(t)' /\ Selects(t)
      BY <2>1, <2>5 DEF SelectModeEnd, Return, Selects, Selecting, TypedThreads
    <3>2. \A u \in Threads : ~Selects(u)'
      BY <2>2, <3>1
    <3>3. in_call = FALSE /\ modem # "open" /\ mode' = mode
      BY <2>5, <3>1 DEF SelectModeEnd, CallFits, TypedCall
    <3>4. CASE mode # IN_CALL /\ UNCHANGED <<modem, in_call>>
      BY <3>2, <3>3, <3>4 DEF CallFits
    <3>5. CASE mode = IN_CALL /\ in_call' = TRUE
      BY <3>2, <3>3, <3>5 DEF CallFits
    <3> QED BY <2>5, <3>4, <3>5 DEF SelectModeEnd
  <2> QED BY <1>2, <2>3, <2>4, <2>5
<1>3. CASE ~(SetMode(t) \/ EnterCall(t) \/ LeaveCall(t) \/ SelectModeEnd(t))
  BY <1>1, <1>3, StepKeepsCall DEF CallFits, call
<1> QED BY <1>2, <1>3

LEMMA CallFitsNext == IInv /\ CallFits /\ [Next]_vars => CallFits'
<1> SUFFICES ASSUME IInv, CallFits, [Next]_vars PROVE CallFits'
  OBVIOUS
<1>1. CASE \E t \in Threads : Step(t)
  BY <1>1, StepCallFits
<1>2. CASE Begin
  <2>1. CASE \E t \in Threads : CallOut(t) \/ CallIn(t) \/ CallSetMode(t)
    <3>1. PICK t \in Threads : CallOut(t) \/ CallIn(t) \/ CallSetMode(t)
      BY <2>1
    <3>2. UNCHANGED call /\ ~Selects(t) /\ ~Selects(t)'
      BY <3>1 DEF CallOut, CallIn, CallSetMode, Call, Selects, Selecting, IInv, TypedThreads
    <3>3. \A u \in Threads \ {t} : Selects(u)' <=> Selects(u)
      BY <3>1 DEF CallOut, CallIn, CallSetMode, Call, Selects, IInv, TypedThreads
    <3> QED BY <3>2, <3>3 DEF CallFits, call
  <2>2. CASE (\E o \in Outs : OpenOut(o)) \/ (\E i \in Ins : OpenIn(i))
    BY <2>2 DEF OpenOut, OpenIn, threads, call, CallFits, Selects
  <2> QED BY <1>2, <2>1, <2>2 DEF Begin
<1>3. CASE Restart
  BY <1>3, CallMode DEF Restart, CallFits, Selects
<1>4. CASE UNCHANGED vars
  BY <1>4 DEF vars, call, threads, CallFits, Selects
<1> QED BY <1>1, <1>2, <1>3, <1>4 DEF Next

\* Whichever threads set the mode, and whatever else goes on meanwhile, in_call
\* follows the mode, and the modem pcms are open only in a call.
THEOREM CallStateHolds == Spec => []CallState
<1>1. Init => CallFits
  BY CallMode DEF Init, CallFits, Selects
<1>2. IInv /\ CallFits => CallState
  <2> SUFFICES ASSUME IInv, CallFits, lock[ADEV] = NULL PROVE CallState
    BY DEF CallState
  <2>1. \A t \in Threads : ~Selects(t)
    BY Distinct DEF IInv, Mine, Owner, HoldsDevice, Selects, Selecting
  <2> QED BY <2>1 DEF CallFits, CallState
<1> QED BY <1>1, <1>2, CallFitsNext, Invariant, PTL DEF Spec

-----------------------------------------------------------------------------
(***************************************************************************)
(* The streams a thread works on.                                          *)
(***************************************************************************)
\* in_read() has made i the active input and has not started it yet.
Starting(t, i) ==
    pc[t] \in {"put", "add", "inOpen"} /\ op[t] = "in_read" /\ inp[t] = i

ActiveRuns ==
    /\ \A o \in Outs : active_output = o => ~out_standby[o]
    /\ \A i \in Ins : active_input = i
          => ~in_standby[i] \/ \E t \in Threads : Starting(t, i)
    /\ \A t \in Threads : pc[t] = "put" /\ op[t] # "in_read" => active_input = NULL

RunningIsOpen ==
    /\ \A o \in Outs : ~out_standby[o] => out_open[o]
    /\ \A i \in Ins : ~in_standby[i] => in_open[i]

\* A thread has a stream other than that of its call only with the device mutex.
Borrows(t) ==
    /\ outp[t] # NULL => op[t] \in OutOps \/ Selects(t)
    /\ inp[t] # NULL => \/ op[t] \in InOps
                        \/ Selects(t)
                        \/ op[t] \in OutOps /\ pc[t] \in {"in", "inBody", "put"}

\* A stream a thread has borrowed is open, and nobody is about to free it.
OutLent(t) == outp[t] # NULL /\ op[t] = "set_mode" =>
    /\ out_open[outp[t]]
    /\ \A u \in Threads : At(u, "free", {"out_close"}) => outp[u] # outp[t]

InLent(t) == inp[t] # NULL /\ op[t] \notin InOps =>
    /\ in_open[inp[t]]
    /\ \A u \in Threads : At(u, "free", {"in_close"}) => inp[u] # inp[t]

Lent == \A t \in Threads : Borrows(t) /\ OutLent(t) /\ InLent(t)

AliveInv == ActiveRuns /\ RunningIsOpen /\ Lent

-----------------------------------------------------------------------------
(***************************************************************************)
(* The active streams.                                                     *)
(***************************************************************************)
\* An output is made active when it starts, and is no longer when it goes into
\* standby.
OutChange == \A o \in Outs : active_output' = o
    => ~out_standby'[o] \/ (active_output = o /\ out_standby'[o] = out_standby[o])

\* An input is made active before it starts.
InChange(t) ==
    /\ \A i \in Ins : active_input' = i
          => \/ ~in_standby'[i] \/ Starting(t, i)'
             \/ /\ active_input = i /\ in_standby'[i] = in_standby[i]
                /\ ~Starting(t, i)
    /\ pc'[t] = "put" /\ op'[t] # "in_read" => active_input' = NULL
    /\ active_input' = active_input \/ lock[ADEV] = t

LEMMA StepOutChange ==
    ASSUME IInv, NEW t \in Threads, Step(t)
    PROVE  OutChange
<1>. TypedOut
  BY DEF IInv
<1>1. CASE UNCHANGED <<active_output, out_standby>>
  BY <1>1 DEF OutChange
<1>2. CASE OutWrite(t)
  BY <1>2, Distinct DEF OutWrite, StartOutput, StartOutputFails, outSt, OutChange, TypedOut,
     LockIds, Streams
<1>3. CASE OutStandby(t) \/ OutSetParameters(t) \/ ModeOutStandby(t)
  BY <1>3, Distinct DEF OutStandby, OutSetParameters, ModeOutStandby, DoOutputStandby, outSt,
     OutChange, TypedOut, LockIds, Streams
<1>4. CASE LockDevice(t) \/ LockOut(t) \/ OutWriteDone(t) \/ OutWriteForce(t) \/ FreeOut(t)
  BY <1>1, <1>4 DEF LockDevice, LockOut, OutWriteDone, OutWriteForce, FreeOut, outSt
<1>5. CASE InStep(t)
  BY <1>1, <1>5 DEF InStep, LockIn, InputStandbyPut, InStandby, FreeIn, InSetParameters,
     InAec, InNothing, InRead, InReadPut, InReadAdd, InReadOpen, InReadDone, outSt
<1>6. CASE SetSameMode(t) \/ SetMode(t) \/ EnterCall(t) \/ LeaveCall(t) \/ SelectModeEnd(t)
  BY <1>1, <1>6 DEF SetSameMode, SetMode, EnterCall, LeaveCall, SelectModeEnd, outSt
<1> QED BY <1>2, <1>3, <1>4, <1>5, <1>6 DEF Step, OutStep, ModeStep

LEMMA StepInChange ==
    ASSUME IInv, ActiveRuns, NEW t \in Threads, Step(t)
    PROVE  InChange(t)
<1>. TypedIn /\ TypedThreads /\ Place(t)
  BY DEF IInv, Mine
<1>1. CASE InRead(t)
  <2>1. pc[t] = "inBody" /\ lock[ADEV] = t /\ op[t] = "in_read" /\ op' = op /\ inp' = inp
    BY <1>1, HeldIn DEF InRead, CreateEcho, At, Goto, Held, LockIds
  <2>2. CASE UNCHANGED active_input /\ pc'[t] = "io"
    BY <1>1, <2>1, <2>2 DEF InRead, InChange, Starting
  <2>3. CASE active_input' = inp[t] /\ pc'[t] \in {"put", "add", "inOpen"}
    BY <1>1, <2>1, <2>3 DEF InChange, Starting
  <2> QED BY <1>1, <2>2, <2>3 DEF InRead, CreateEcho, Goto, TypedThreads
<1>2. CASE InReadPut(t) \/ InReadAdd(t)
  BY <1>2 DEF InReadPut, InReadAdd, CreateEcho, inSt, At, Goto, InChange, Starting,
     TypedThreads
<1>3. CASE InReadOpen(t)
  <2>1. pc[t] = "inOpen" /\ lock[ADEV] = t /\ inp[t] \in Ins /\ op' = op
    BY <1>3, HeldIn DEF InReadOpen, At, Goto, Held, LockIds
  <2>2. CASE /\ in_standby' = [in_standby EXCEPT ![inp[t]] = FALSE]
             /\ UNCHANGED active_input /\ pc'[t] = "io"
    BY <2>1, <2>2 DEF InChange, Starting, TypedIn
  <2>3. CASE active_input' = NULL /\ pc'[t] = "fail"
    BY <2>1, <2>3, Distinct DEF InChange, LockIds, Streams
  <2> QED BY <1>3, <2>2, <2>3 DEF InReadOpen, Goto, TypedThreads
<1>4. CASE InStandby(t) \/ InSetParameters(t) \/ InAec(t)
  <2>1. pc[t] = "inBody" /\ lock[ADEV] = t /\ inp[t] \in Ins /\ DoInputStandby(t)
    BY <1>4, HeldIn DEF InStandby, InSetParameters, InAec, At, Held, LockIds
  <2>2. CASE UNCHANGED inSt /\ AfterInputStandby(t)
    BY <2>1, <2>2 DEF AfterInputStandby, Goto, Return, inSt, InChange, Starting, TypedThreads
  <2>3. CASE active_input' = NULL
    BY <2>1, <2>3, Distinct DEF InChange, LockIds, Streams
  <2> QED BY <2>1, <2>2, <2>3 DEF DoInputStandby
<1>5. CASE InputStandbyPut(t)
  <2>1. active_input' = NULL
    BY <1>5 DEF InputStandbyPut, ActiveRuns
  <2>2. active_input' = active_input
    BY <1>5 DEF InputStandbyPut
  <2> QED BY <2>1, <2>2, Distinct DEF InChange, LockIds, Streams
<1>6. CASE /\ UNCHANGED <<active_input, in_standby>>
           /\ \A i \in Ins : ~Starting(t, i)
           /\ pc'[t] # "put"
  BY <1>6 DEF InChange
<1>7. CASE LockDevice(t) \/ OutStep(t) \/ ModeStep(t)
  <2>1. UNCHANGED <<active_input, in_standby>>
    BY <1>7 DEF LockDevice, OutStep, LockOut, OutWrite, OutWriteDone, OutWriteForce,
       OutStandby, FreeOut, OutSetParameters, ModeStep, SetSameMode, SetMode, EnterCall,
       LeaveCall, ModeOutStandby, SelectModeEnd, inSt
  <2>2. pc[t] \notin {"put", "add", "inOpen"}
    BY <1>7 DEF LockDevice, OutStep, LockOut, OutWrite, OutWriteDone, OutWriteForce,
       OutStandby, FreeOut, OutSetParameters, ModeStep, SetSameMode, SetMode, EnterCall,
       LeaveCall, ModeOutStandby, SelectModeEnd, At
  <2>3. pc'[t] # "put"
    BY <1>7 DEF LockDevice, OutStep, LockOut, OutWrite, OutWriteDone, OutWriteForce,
       OutStandby, FreeOut, OutSetParameters, ModeStep, SetSameMode, SetMode, EnterCall,
       LeaveCall, ModeOutStandby, SelectModeEnd, ForceAllStandby, Goto, GotoIn, Return,
       TypedThreads
  <2> QED BY <1>6, <2>1, <2>2, <2>3 DEF Starting
<1>8. CASE LockIn(t) \/ FreeIn(t) \/ InNothing(t) \/ InReadDone(t)
  <2>1. UNCHANGED <<active_input, in_standby>> /\ pc'[t] # "put"
    BY <1>8 DEF LockIn, FreeIn, InNothing, InReadDone, inSt, Goto, Return, TypedThreads
  <2>2. pc[t] \notin {"put", "add", "inOpen"}
    BY <1>8 DEF LockIn, FreeIn, InNothing, InReadDone, At
  <2> QED BY <1>6, <2>1, <2>2 DEF Starting
<1> QED BY <1>1, <1>2, <1>3, <1>4, <1>5, <1>7, <1>8 DEF Step, InStep

LEMMA StepActiveRuns ==
    ASSUME IInv, ActiveRuns, NEW t \in Threads, Step(t)
    PROVE  ActiveRuns'
<1>. Frame(t) /\ OutChange /\ InChange(t) /\ OnlyOwn(t)
  BY ThreadStepInv, StepOutChange, StepInChange, StepOwn
<1>1. ASSUME NEW o \in Outs, active_output' = o
      PROVE  ~out_standby'[o]
  BY <1>1 DEF OutChange, ActiveRuns
<1>2. ASSUME NEW i \in Ins, active_input' = i
      PROVE  ~in_standby'[i] \/ \E u \in Threads : Starting(u, i)'
  <2>1. CASE ~in_standby'[i] \/ Starting(t, i)'
    BY <2>1
  <2>2. CASE /\ active_input = i /\ in_standby'[i] = in_standby[i]
             /\ ~Starting(t, i)
    <3>1. CASE ~in_standby[i]
      BY <2>2, <3>1
    <3>2. CASE \E u \in Threads \ {t} : Starting(u, i)
      <4>1. PICK u \in Threads \ {t} : Starting(u, i)
        BY <3>2
      <4>2. Starting(u, i)'
        BY <4>1 DEF Starting, Frame
      <4> QED BY <4>2
    <3> QED BY <2>2, <3>1, <3>2 DEF ActiveRuns
  <2> QED BY <1>2, <2>1, <2>2 DEF InChange
<1>3. ASSUME NEW u \in Threads, pc'[u] = "put", op'[u] # "in_read"
      PROVE  active_input' = NULL
  <2>1. CASE u = t
    BY <1>3, <2>1 DEF InChange
  <2>2. CASE u # t
    <3>1. pc[u] = "put" /\ op[u] # "in_read"
      BY <1>3, <2>2 DEF Frame
    <3>2. lock[ADEV] = u
      BY <3>1, HeldIn DEF Held, LockIds
    <3>3. active_input' = active_input
      BY <2>2, <3>2 DEF InChange
    <3> QED BY <3>1, <3>3 DEF ActiveRuns
  <2> QED BY <2>1, <2>2
<1> QED BY <1>1, <1>2, <1>3 DEF ActiveRuns

LEMMA StepRunningIsOpen ==
    ASSUME IInv, Discipline, RunningIsOpen, NEW t \in Threads, Step(t)
    PROVE  RunningIsOpen'
<1>. /\ StartsOwn(t) /\ TypedOut /\ TypedIn
     /\ out_open' = out_open \/ FreeOut(t)
     /\ in_open' = in_open \/ FreeIn(t)
  BY StepStartsOwn, StepOpened DEF IInv
<1>1. ASSUME NEW o \in Outs, ~out_standby'[o]
      PROVE  out_open'[o]
  <2>1. out_open[o]
    BY <1>1 DEF StartsOwn, RunningIsOpen, Discipline, OutCalls, OutOps
  <2>2. CASE FreeOut(t)
    <3>1. UNCHANGED out_standby /\ out_standby[outp[t]]
      BY <2>2 DEF FreeOut, outSt, Discipline, OutCalls
    <3> QED BY <1>1, <2>1, <2>2, <3>1 DEF FreeOut, TypedOut
  <2> QED BY <2>1, <2>2
<1>2. ASSUME NEW i \in Ins, ~in_standby'[i]
      PROVE  in_open'[i]
  <2>1. in_open[i]
    BY <1>2 DEF StartsOwn, RunningIsOpen, Discipline, InCalls, InOps
  <2>2. CASE FreeIn(t)
    <3>1. UNCHANGED in_standby /\ in_standby[inp[t]]
      BY <2>2 DEF FreeIn, Discipline, InCalls
    <3> QED BY <1>2, <2>1, <2>2, <3>1 DEF FreeIn, TypedIn
  <2> QED BY <2>1, <2>2
<1> QED BY <1>1, <1>2 DEF RunningIsOpen

-----------------------------------------------------------------------------
(***************************************************************************)
(* Borrowed streams.                                                       *)
(***************************************************************************)
\* The active input runs when nobody else is between the steps of a start.
LEMMA ActiveInputRuns ==
    ASSUME IInv, ActiveRuns, NEW t \in Threads, active_input # NULL,
           \/ lock[ADEV] = NULL
           \/ lock[ADEV] = t /\ pc[t] \in {"mode", "outBody"}
    PROVE  active_input \in Ins /\ ~in_standby[active_input]
<1>1. active_input \in Ins
  BY DEF IInv, TypedIn
<1>2. ASSUME NEW u \in Threads PROVE ~Starting(u, active_input)
  BY Distinct DEF IInv, Mine, Owner, HoldsDevice, Starting
<1> QED BY <1>1, <1>2 DEF ActiveRuns

\* Where a thread has its streams from after a step: they are those it had in
\* the same call, or the active ones.
TakesOut(t) ==
    \/ outp'[t] = NULL
    \/ outp'[t] = outp[t] /\ op'[t] = op[t]
    \/ outp'[t] = active_output /\ pc[t] = "mode" /\ lock[ADEV] = t

TakesIn(t) ==
    \/ inp'[t] = NULL
    \/ inp'[t] = inp[t] /\ op'[t] = op[t]
    \/ /\ inp'[t] = active_input
       /\ \/ lock[ADEV] = NULL
          \/ lock[ADEV] = t /\ pc[t] \in {"mode", "outBody"}

LEMMA StepTakes ==
    ASSUME IInv, NEW t \in Threads, Step(t)
    PROVE  TakesOut(t) /\ TakesIn(t) /\ (pc'[t] = "free" => lock[ADEV] = t)
<1>. TypedThreads
  BY DEF IInv
<1>1. CASE /\ outp'[t] \in {NULL, outp[t]} /\ inp'[t] \in {NULL, inp[t]}
           /\ op'[t] = op[t] \/ (outp'[t] = NULL /\ inp'[t] = NULL)
           /\ pc'[t] = "free" => pc[t] \in {"outBody", "inBody", "put"}
  BY <1>1, HeldOut, HeldIn DEF TakesOut, TakesIn, Held, LockIds
<1>2. CASE \/ LockDevice(t) \/ LockOut(t) \/ OutWrite(t) \/ OutWriteDone(t)
           \/ OutStandby(t) \/ FreeOut(t)
  BY <1>1, <1>2 DEF LockDevice, LockOut, OutWrite, OutWriteDone, OutStandby, FreeOut,
     At, Goto, Return, TypedThreads
<1>3. CASE OutWriteForce(t)
  BY <1>3 DEF OutWriteForce, GotoIn, Return, TakesOut, TakesIn, TypedThreads
<1>4. CASE OutSetParameters(t)
  <2>1. pc[t] = "outBody" /\ lock[ADEV] = t
    BY <1>4, HeldOut DEF OutSetParameters, At, Held, LockIds
  <2> QED BY <1>4, <2>1 DEF OutSetParameters, GotoIn, Return, TakesOut, TakesIn, TypedThreads
<1>5. CASE InStep(t)
  BY <1>1, <1>5 DEF InStep, LockIn, InputStandbyPut, InStandby, FreeIn, InSetParameters,
     InAec, InNothing, InRead, InReadPut, InReadAdd, InReadOpen, InReadDone, DoInputStandby,
     AfterInputStandby, CreateEcho, At, Goto, Return, TypedThreads
<1>6. CASE EnterCall(t) \/ LeaveCall(t)
  <2>1. pc[t] = "mode" /\ lock[ADEV] = t
    BY <1>6, HeldDevice DEF EnterCall, LeaveCall, Held, LockIds
  <2> QED BY <1>6, <2>1 DEF EnterCall, LeaveCall, ForceAllStandby, TakesOut, TakesIn,
     TypedThreads
<1>7. CASE SetSameMode(t) \/ SetMode(t) \/ ModeOutStandby(t) \/ SelectModeEnd(t)
  BY <1>1, <1>7 DEF SetSameMode, SetMode, ModeOutStandby, SelectModeEnd, At, Goto, Return,
     TypedThreads
<1> QED BY <1>2, <1>3, <1>4, <1>5, <1>6, <1>7 DEF Step, OutStep, ModeStep

LEMMA StepBorrows ==
    ASSUME IInv, NEW t \in Threads, Borrows(t), Step(t)
    PROVE  Borrows(t)'
<1>. TypedThreads /\ Place(t)
  BY DEF IInv, Mine
<1>1. CASE outp'[t] = NULL /\ inp'[t] = NULL
  BY <1>1 DEF Borrows
<1>2. CASE LockDevice(t) \/ LockOut(t) \/ OutWrite(t) \/ OutWriteDone(t)
  BY <1>1, <1>2 DEF LockDevice, LockOut, OutWrite, OutWriteDone, At, Goto, Return, Borrows,
     Selects, Selecting, TypedThreads, Place, OutOps, InOps
<1>3. CASE OutWriteForce(t)
  BY <1>1, <1>3 DEF OutWriteForce, GotoIn, Return, Borrows, Place, TypedThreads, OutOps
<1>4. CASE OutStandby(t) \/ FreeOut(t)
  BY <1>1, <1>4 DEF OutStandby, FreeOut, At, Goto, Return, Borrows, Selects, TypedThreads,
     OutOps, InOps
<1>5. CASE OutSetParameters(t)
  BY <1>1, <1>5 DEF OutSetParameters, At, GotoIn, Return, Borrows, TypedThreads, OutOps
<1>6. CASE LockIn(t)
  BY <1>6 DEF LockIn, Goto, Borrows, Selects, Selecting, TypedThreads
<1>7. CASE InStandby(t) \/ InSetParameters(t) \/ InAec(t)
  <2>1. pc[t] = "inBody" /\ DoInputStandby(t)
    BY <1>7 DEF InStandby, InSetParameters, InAec, At
  <2>2. CASE AfterInputStandby(t)
    BY <1>1, <2>1, <2>2 DEF AfterInputStandby, Goto, Return, Borrows, Selects, Selecting,
       TypedThreads, OutOps, InOps
  <2>3. CASE Goto(t, "put")
    BY <2>1, <2>3 DEF Goto, Borrows, Selects, Selecting, TypedThreads
  <2> QED BY <2>1, <2>2, <2>3 DEF DoInputStandby
<1>8. CASE InputStandbyPut(t)
  BY <1>1, <1>8 DEF InputStandbyPut, AfterInputStandby, Goto, Return, Borrows, Selects,
     Selecting, TypedThreads, OutOps, InOps
<1>9. CASE FreeIn(t) \/ InNothing(t) \/ InReadDone(t)
  BY <1>1, <1>9 DEF FreeIn, InNothing, InReadDone, Return, TypedThreads
<1>10. CASE InRead(t) \/ InReadPut(t) \/ InReadAdd(t) \/ InReadOpen(t)
  BY <1>10 DEF InRead, InReadPut, InReadAdd, InReadOpen, CreateEcho, At, Goto, Borrows,
     Selects, TypedThreads, OutOps, InOps
<1>11. CASE EnterCall(t) \/ LeaveCall(t)
  BY <1>11 DEF EnterCall, LeaveCall, ForceAllStandby, Borrows, Selects, Selecting,
     TypedThreads, Place
<1>12. CASE ModeOutStandby(t)
  BY <1>12 DEF ModeOutStandby, At, Goto, Borrows, Selects, Selecting, TypedThreads,
     OutOps, InOps
<1>13. CASE SetSameMode(t) \/ SetMode(t) \/ SelectModeEnd(t)
  BY <1>1, <1>13 DEF SetSameMode, SetMode, SelectModeEnd, Return, TypedThreads
<1> QED BY <1>2, <1>3, <1>4, <1>5, <1>6, <1>7, <1>8, <1>9, <1>10, <1>11, <1>12, <1>13
   DEF Step, OutStep, InStep, ModeStep

\* A thread with a borrowed stream has the device mutex.
LEMMA BorrowerHolds ==
    ASSUME IInv, NEW t \in Threads, Borrows(t)
    PROVE  /\ outp[t] # NULL /\ op[t] = "set_mode" => lock[ADEV] = t
           /\ inp[t] # NULL /\ op[t] \notin InOps => lock[ADEV] = t
BY DEF IInv, Mine, Owner, HoldsDevice, Borrows, Selects, Selecting, OutOps

\* A thread that is about to free a stream after a step was so before it, if
\* another thread has the device mutex.
LEMMA FreeingBefore ==
    ASSUME IInv, NEW t \in Threads, Step(t), NEW u \in Threads, NEW c, At(u, "free", {c})',
           u # t \/ lock[ADEV] # t
    PROVE  u # t /\ At(u, "free", {c}) /\ outp'[u] = outp[u] /\ inp'[u] = inp[u]
BY ThreadStepInv, StepTakes DEF Frame, At

LEMMA StepOutLent ==
    ASSUME IInv, Discipline, AliveInv, NEW t \in Threads, Step(t), NEW u \in Threads
    PROVE  OutLent(u)'
<1>. /\ Frame(t) /\ TypedOut /\ TypedThreads
     /\ out_open' = out_open \/ FreeOut(t)
  BY ThreadStepInv, StepOpened DEF IInv
<1>1. SUFFICES ASSUME outp'[u] # NULL, op'[u] = "set_mode"
               PROVE  /\ out_open'[outp'[u]]
                      /\ \A v \in Threads : At(v, "free", {"out_close"})'
                            => outp'[v] # outp'[u]
  BY DEF OutLent
<1>2. CASE u # t
  <2>1. outp[u] # NULL /\ op[u] = "set_mode" /\ outp'[u] = outp[u]
    BY <1>1, <1>2 DEF Frame
  <2>2. lock[ADEV] = u
    BY <2>1, BorrowerHolds DEF AliveInv, Lent
  <2>3. out_open[outp[u]] /\ \A v \in Threads : At(v, "free", {"out_close"})
                                => outp[v] # outp[u]
    BY <2>1 DEF AliveInv, Lent, OutLent
  <2>4. out_open'[outp[u]]
    BY <2>1, <2>3 DEF FreeOut, TypedOut, TypedThreads
  <2> QED BY <1>2, <2>1, <2>2, <2>3, <2>4, FreeingBefore
<1>3. CASE u = t
  <2>1. ~FreeOut(t)
    BY <1>1, <1>3 DEF FreeOut, Return, TypedThreads
  <2>2. \A v \in Threads : At(v, "free", {"out_close"})'
           => At(v, "free", {"out_close"}) /\ outp'[v] = outp[v]
    BY <1>1, <1>3 DEF Frame, At
  <2>3. CASE outp'[t] = outp[t] /\ op'[t] = op[t]
    <3>1. out_open[outp[t]] /\ \A v \in Threads : At(v, "free", {"out_close"})
                                  => outp[v] # outp[t]
      BY <1>1, <1>3, <2>3 DEF AliveInv, Lent, OutLent
    <3> QED BY <1>3, <2>1, <2>2, <2>3, <3>1
  <2>4. CASE outp'[t] = active_output
    <3>1. active_output \in Outs
      BY <1>1, <1>3, <2>4 DEF TypedOut
    <3>2. ~out_standby[active_output] /\ out_open[active_output]
      BY <3>1 DEF AliveInv, ActiveRuns, RunningIsOpen
    <3>3. \A v \in Threads : At(v, "free", {"out_close"}) => outp[v] # active_output
      BY <3>2 DEF Discipline, OutCalls
    <3> QED BY <1>3, <2>1, <2>2, <2>4, <3>2, <3>3
  <2> QED BY <1>1, <1>3, <2>3, <2>4, StepTakes DEF TakesOut
<1> QED BY <1>2, <1>3

LEMMA StepInLent ==
    ASSUME IInv, Discipline, AliveInv, NEW t \in Threads, Step(t), NEW u \in Threads
    PROVE  InLent(u)'
<1>. /\ Frame(t) /\ TypedIn /\ TypedThreads
     /\ in_open' = in_open \/ FreeIn(t)
  BY ThreadStepInv, StepOpened DEF IInv
<1>1. SUFFICES ASSUME inp'[u] # NULL, op'[u] \notin InOps
               PROVE  /\ in_open'[inp'[u]]
                      /\ \A v \in Threads : At(v, "free", {"in_close"})'
                            => inp'[v] # inp'[u]
  BY DEF InLent
<1>2. CASE u # t
  <2>1. inp[u] # NULL /\ op[u] \notin InOps /\ inp'[u] = inp[u]
    BY <1>1, <1>2 DEF Frame
  <2>2. lock[ADEV] = u
    BY <2>1, BorrowerHolds DEF AliveInv, Lent
  <2>3. in_open[inp[u]] /\ \A v \in Threads : At(v, "free", {"in_close"})
                              => inp[v] # inp[u]
    BY <2>1 DEF AliveInv, Lent, InLent
  <2>4. in_open'[inp[u]]
    BY <2>1, <2>3 DEF FreeIn, TypedIn, TypedThreads
  <2> QED BY <1>2, <2>1, <2>2, <2>3, <2>4, FreeingBefore
<1>3. CASE u = t
  <2>1. ~FreeIn(t)
    BY <1>1, <1>3 DEF FreeIn, Return, TypedThreads
  <2>2. \A v \in Threads : At(v, "free", {"in_close"})'
           => At(v, "free", {"in_close"}) /\ inp'[v] = inp[v]
    BY <1>1, <1>3 DEF Frame, At, InOps
  <2>3. CASE inp'[t] = inp[t] /\ op'[t] = op[t]
    <3>1. in_open[inp[t]] /\ \A v \in Threads : At(v, "free", {"in_close"})
                                => inp[v] # inp[t]
      BY <1>1, <1>3, <2>3 DEF AliveInv, Lent, InLent
    <3> QED BY <1>3, <2>1, <2>2, <2>3, <3>1
  <2>4. CASE /\ inp'[t] = active_input
             /\ \/ lock[ADEV] = NULL
                \/ lock[ADEV] = t /\ pc[t] \in {"mode", "outBody"}
    <3>1. active_input \in Ins /\ ~in_standby[active_input]
      BY <1>1, <1>3, <2>4, ActiveInputRuns DEF AliveInv
    <3>2. in_open[active_input]
      BY <3>1 DEF AliveInv, RunningIsOpen
    <3>3. \A v \in Threads : At(v, "free", {"in_close"}) => inp[v] # active_input
      BY <3>1 DEF Discipline, InCalls
    <3> QED BY <1>3, <2>1, <2>2, <2>4, <3>2, <3>3
  <2> QED BY <1>1, <1>3, <2>3, <2>4, StepTakes DEF TakesIn
<1> QED BY <1>2, <1>3

LEMMA StepAliveInv ==
    ASSUME IInv, Discipline, AliveInv, NEW t \in Threads, Step(t)
    PROVE  AliveInv'
<1>1. ASSUME NEW u \in Threads PROVE Borrows(u)'
  <2>1. CASE u = t
    BY <2>1, StepBorrows DEF AliveInv, Lent
  <2>2. CASE u # t
    BY <2>2, ThreadStepInv DEF Frame, Borrows, Selects, AliveInv, Lent
  <2> QED BY <2>1, <2>2
<1> QED BY <1>1, StepActiveRuns, StepRunningIsOpen, StepOutLent, StepInLent
   DEF AliveInv, Lent

\* A call begins on a stream of its own.
LEMMA CallAliveInv ==
    ASSUME IInv, AliveInv, NEW t \in Threads, CallOut(t) \/ CallIn(t) \/ CallSetMode(t)
    PROVE  AliveInv'
<1>1. /\ pc[t] = "idle" /\ op[t] = "none" /\ pc'[t] = "adev"
      /\ UNCHANGED <<outSt, inSt, opened>>
      /\ \A u \in Threads \ {t} : /\ pc'[u] = pc[u] /\ op'[u] = op[u]
                                  /\ outp'[u] = outp[u] /\ inp'[u] = inp[u]
  BY DEF CallOut, CallIn, CallSetMode, Call, IInv, TypedThreads, Mine, Place
<1>2. /\ outp'[t] # NULL => op'[t] \in OutOps
      /\ inp'[t] # NULL => op'[t] \in InOps
  BY DEF CallOut, CallIn, CallSetMode, Call, IInv, TypedThreads
<1>3. ActiveRuns' /\ RunningIsOpen'
  <2>1. \A u \in Threads, i \in Ins : Starting(u, i) => Starting(u, i)'
    BY <1>1 DEF Starting
  <2> QED BY <1>1, <2>1 DEF AliveInv, ActiveRuns, RunningIsOpen, outSt, inSt, opened
<1>4. \A v \in Threads : pc'[v] = "free"
         => pc[v] = "free" /\ op'[v] = op[v] /\ outp'[v] = outp[v] /\ inp'[v] = inp[v]
  BY <1>1
<1>5. ASSUME NEW u \in Threads PROVE Borrows(u)' /\ OutLent(u)' /\ InLent(u)'
  <2>1. CASE u = t
    BY <1>2, <2>1 DEF Borrows, OutLent, InLent, OutOps
  <2>2. CASE u # t
    <3>1. Borrows(u)'
      BY <1>1, <2>2 DEF Borrows, Selects, AliveInv, Lent
    <3>2. OutLent(u)'
      BY <1>1, <1>4, <2>2 DEF OutLent, AliveInv, Lent, opened, At
    <3>3. InLent(u)'
      <4>1. inp'[u] = inp[u] /\ op'[u] = op[u] /\ in_open' = in_open
        BY <1>1, <2>2 DEF opened
      <4>2. InLent(u)
        BY DEF AliveInv, Lent
      <4> QED BY <1>4, <4>1, <4>2 DEF InLent, At
    <3> QED BY <3>1, <3>2, <3>3
  <2> QED BY <2>1, <2>2
<1> QED BY <1>3, <1>5 DEF AliveInv, Lent

LEMMA AliveInvNext == IInv /\ Discipline /\ AliveInv /\ [Next]_vars => AliveInv'
<1> SUFFICES ASSUME IInv, Discipline, AliveInv, [Next]_vars PROVE AliveInv'
  OBVIOUS
<1>1. CASE \E t \in Threads : Step(t)
  BY <1>1, StepAliveInv
<1>2. CASE Begin
  <2>1. CASE \E t \in Threads : CallOut(t) \/ CallIn(t) \/ CallSetMode(t)
    BY <2>1, CallAliveInv
  <2>2. CASE (\E o \in Outs : OpenOut(o)) \/ (\E i \in Ins : OpenIn(i))
    <3>1. /\ UNCHANGED <<outSt, inSt, threads>>
          /\ \A o \in Outs : out_open[o] => out_open'[o]
          /\ \A i \in Ins : in_open[i] => in_open'[i]
      BY <2>2 DEF OpenOut, OpenIn, IInv, TypedOut, TypedIn
    <3>2. ActiveRuns' /\ RunningIsOpen'
      BY <3>1 DEF AliveInv, ActiveRuns, RunningIsOpen, Starting, outSt, inSt, threads
    <3>3. Lent'
      BY <3>1 DEF AliveInv, Lent, Borrows, OutLent, InLent, Selects, At, threads, IInv,
         TypedThreads
    <3> QED BY <3>2, <3>3 DEF AliveInv
  <2> QED BY <1>2, <2>1, <2>2 DEF Begin
<1>3. CASE Restart
  BY <1>3, Distinct DEF Restart, AliveInv, ActiveRuns, RunningIsOpen, Lent, Borrows,
     OutLent, InLent, LockIds, Streams
<1>4. CASE UNCHANGED vars
  BY <1>4 DEF vars, outSt, inSt, opened, threads, AliveInv, ActiveRuns, RunningIsOpen,
     Starting, Lent, Borrows, OutLent, InLent, Selects, At
<1> QED BY <1>1, <1>2, <1>3, <1>4 DEF Next

LEMMA AliveInvInit == Init => AliveInv
BY Distinct DEF Init, AliveInv, ActiveRuns, RunningIsOpen, Lent, Borrows, OutLent, InLent,
   LockIds, Streams

LEMMA AliveFollows == IInv /\ Discipline /\ AliveInv => StreamsAlive
<1> SUFFICES ASSUME IInv, Discipline, AliveInv PROVE StreamsAlive
  OBVIOUS
<1>. TypedOut /\ TypedIn /\ TypedThreads /\ \A t \in Threads : Mine(t)
  BY DEF IInv
<1>1. active_output # NULL => out_open[active_output]
  BY DEF AliveInv, ActiveRuns, RunningIsOpen, TypedOut
<1>2. active_input # NULL => in_open[active_input]
  <2> SUFFICES ASSUME active_input \in Ins PROVE in_open[active_input]
    BY DEF TypedIn
  <2>1. CASE ~in_standby[active_input]
    BY <2>1 DEF AliveInv, RunningIsOpen
  <2>2. CASE \E t \in Threads : Starting(t, active_input)
    BY <2>2 DEF Starting, Discipline, InCalls, InOps
  <2> QED BY <2>1, <2>2 DEF AliveInv, ActiveRuns
<1>3. ASSUME NEW t \in Threads
      PROVE  /\ outp[t] # NULL => out_open[outp[t]]
             /\ inp[t] # NULL => in_open[inp[t]]
  BY DEF AliveInv, Lent, Borrows, OutLent, InLent, Selects, Discipline, OutCalls, InCalls
<1>4. ASSUME NEW t \in Threads, pc[t] \in {"in", "inBody", "put", "add", "inOpen"}
      PROVE  in_open[inp[t]]
  BY <1>3, <1>4, Distinct DEF Mine, HasStreams, LockIds, Streams
<1>5. ASSUME NEW o \in Outs, lock[o] # NULL PROVE out_open[o]
  <2>1. PICK t \in Threads : lock[o] = t
    BY <1>5 DEF TypedThreads, LockIds, Streams
  <2> QED BY <1>3, <2>1, Distinct DEF Mine, Owner, HoldsOut, LockIds, Streams
<1>6. ASSUME NEW i \in Ins, lock[i] # NULL PROVE in_open[i]
  <2>1. PICK t \in Threads : lock[i] = t
    BY <1>6 DEF TypedThreads, LockIds, Streams
  <2> QED BY <1>3, <2>1, Distinct DEF Mine, Owner, HoldsIn, LockIds, Streams
<1> QED BY <1>1, <1>2, <1>3, <1>4, <1>5, <1>6 DEF StreamsAlive

\* However many threads call the HAL on however many streams, and whatever
\* fails, nobody uses or locks a stream after adev_close_output_stream() or
\* adev_close_input_stream() has freed it.
THEOREM StreamsAliveHolds == Spec => []StreamsAlive
BY Invariant, DisciplineInit, DisciplineNext, AliveInvInit, AliveInvNext, AliveFollows, PTL
   DEF Spec
=============================================================================
