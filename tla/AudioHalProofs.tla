--------------------------- MODULE AudioHalProofs ---------------------------
(***************************************************************************)
(* What AudioHal guarantees for every number of threads, streams and echo  *)
(* references, whatever fails.                                             *)
(*                                                                         *)
(* The inductive invariant adds to TypeOK which mutexes a thread holds at  *)
(* each place, in both directions: so two threads are never at places that *)
(* need the same mutex, and a step of one thread leaves the places and the *)
(* mutexes of the others alone (Frame, OthersInv).                         *)
(***************************************************************************)
EXTENDS AudioHal, TLAPS

-----------------------------------------------------------------------------
(***************************************************************************)
(* The inductive invariant.                                                *)
(***************************************************************************)
\* Which entry points reach which place.
Place(t) ==
    /\ (pc[t] = "idle") <=> (op[t] = "none")
    /\ pc[t] \in {"out", "outBody"} => op[t] \in OutOps \union {"set_mode"}
    /\ pc[t] \in {"mode", "selmode"} => op[t] = "set_mode"
    /\ pc[t] = "force" => op[t] = "out_write"
    /\ pc[t] \in {"add", "inOpen"} => op[t] = "in_read"
    /\ pc[t] \in {"io", "fail"} => op[t] \in {"out_write", "in_read"}
    /\ pc[t] = "free" => op[t] \in {"out_close", "in_close"}

\* The places where a thread has the mutex of its output, of its input.
HoldsOut(t, o) ==
    /\ outp[t] = o
    /\ \/ pc[t] = "outBody"
       \/ pc[t] \in {"io", "fail"} /\ op[t] = "out_write"

HoldsIn(t, i) ==
    /\ inp[t] = i
    /\ \/ pc[t] \in {"inBody", "put", "add", "inOpen"}
       \/ pc[t] \in {"io", "fail"} /\ op[t] = "in_read"

Owner(t) ==
    /\ (lock[ADEV] = t) <=> (pc[t] \in HoldsDevice)
    /\ \A o \in Outs : (lock[o] = t) <=> HoldsOut(t, o)
    /\ \A i \in Ins : (lock[i] = t) <=> HoldsIn(t, i)

\* What a step of one thread has to say of itself.
Mine(t) == HasStreams(t) /\ Place(t) /\ Owner(t)

IInv ==
    /\ TypedCall /\ TypedEcho /\ TypedOut /\ TypedIn /\ TypedThreads
    /\ \A t \in Threads : Mine(t)

\* A step of thread t leaves the other threads and the mutexes they have
\* alone, and changes the active output only with the device mutex.
Frame(t) ==
    /\ \A u \in Threads \ {t} :
        /\ pc'[u] = pc[u] /\ op'[u] = op[u]
        /\ outp'[u] = outp[u] /\ inp'[u] = inp[u]
        /\ \A l \in LockIds : (lock'[l] = u) <=> (lock[l] = u)
    /\ active_output' = active_output \/ lock[ADEV] = t

-----------------------------------------------------------------------------
(***************************************************************************)
(* Lemmas about the operators of the module.                               *)
(***************************************************************************)
\* The invariant of the other threads survives a step framed by t: only those
\* at "put" or "add" look at the active output, and they have the device.
LEMMA OthersInv ==
    ASSUME IInv, NEW t \in Threads, Frame(t), NEW u \in Threads \ {t}
    PROVE  Mine(u)'
<1> USE DEF IInv, Mine, Frame
<1>1. HasStreams(u)'
  BY DEF HasStreams, Owner, HoldsDevice
<1>2. Place(u)'
  BY DEF Place
<1>3. Owner(u)'
  BY DEF Owner, HoldsOut, HoldsIn, LockIds, Streams
<1> QED BY <1>1, <1>2, <1>3

\* Every step of thread t is checked by these four facts.
LEMMA StepInv ==
    ASSUME IInv, NEW t \in Threads, Frame(t), Mine(t)',
           TypedCall', TypedEcho', TypedOut', TypedIn', TypedThreads'
    PROVE  IInv'
BY OthersInv DEF IInv

\* The thread operators keep the types and touch no other thread.
LEMMA GotoFacts ==
    ASSUME TypedThreads, NEW t \in Threads, NEW l \in PCs, Goto(t, l)
    PROVE  /\ pc' \in [Threads -> PCs] /\ op' \in [Threads -> Ops]
           /\ outp' \in [Threads -> Outs \union {NULL}]
           /\ inp' \in [Threads -> Ins \union {NULL}]
           /\ force' \in [Threads -> BOOLEAN]
           /\ pc'[t] = l /\ op' = op /\ outp' = outp /\ inp' = inp
           /\ \A u \in Threads \ {t} : pc'[u] = pc[u]
BY DEF TypedThreads, Goto

LEMMA ReturnFacts ==
    ASSUME TypedThreads, NEW t \in Threads, Return(t)
    PROVE  /\ pc' \in [Threads -> PCs] /\ op' \in [Threads -> Ops]
           /\ outp' \in [Threads -> Outs \union {NULL}]
           /\ inp' \in [Threads -> Ins \union {NULL}]
           /\ force' \in [Threads -> BOOLEAN]
           /\ pc'[t] = "idle" /\ op'[t] = "none"
           /\ \A u \in Threads \ {t} : /\ pc'[u] = pc[u] /\ op'[u] = op[u]
                                       /\ outp'[u] = outp[u] /\ inp'[u] = inp[u]
BY DEF TypedThreads, Return, PCs, Ops

LEMMA GotoInFacts ==
    ASSUME TypedThreads, NEW t \in Threads, NEW i \in Ins, GotoIn(t, i)
    PROVE  /\ pc' \in [Threads -> PCs] /\ op' \in [Threads -> Ops]
           /\ outp' \in [Threads -> Outs \union {NULL}]
           /\ inp' \in [Threads -> Ins \union {NULL}]
           /\ force' \in [Threads -> BOOLEAN]
           /\ pc'[t] = "in" /\ op' = op /\ outp' = outp /\ inp'[t] = i
           /\ \A u \in Threads \ {t} : pc'[u] = pc[u] /\ inp'[u] = inp[u]
BY DEF TypedThreads, GotoIn, PCs

\* A mutex is taken only when it is free, and a thread releases its own.
LEMMA AcquireFacts ==
    ASSUME TypedThreads, NEW t \in Threads, NEW l \in LockIds, Acquire(t, l)
    PROVE  /\ lock' \in [LockIds -> Threads \union {NULL}]
           /\ lock[l] = NULL /\ lock'[l] = t
           /\ \A k \in LockIds : k # l => lock'[k] = lock[k]
           /\ \A u \in Threads \ {t}, k \in LockIds : (lock'[k] = u) <=> (lock[k] = u)
BY Distinct DEF TypedThreads, Acquire

LEMMA ReleaseFacts ==
    ASSUME TypedThreads, NEW t \in Threads, NEW S \in SUBSET LockIds,
           \A l \in S : lock[l] = t, Release(S)
    PROVE  /\ lock' \in [LockIds -> Threads \union {NULL}]
           /\ \A k \in LockIds : lock'[k] = IF k \in S THEN NULL ELSE lock[k]
           /\ \A u \in Threads \ {t}, k \in LockIds : (lock'[k] = u) <=> (lock[k] = u)
BY Distinct DEF TypedThreads, Release

\* Which mutexes a thread holds, by the place it is at.
Held(t, S) == /\ S \subseteq LockIds
              /\ \A l \in LockIds : (lock[l] = t) <=> (l \in S)

LEMMA HeldOut ==
    ASSUME IInv, NEW t \in Threads, pc[t] = "outBody"
    PROVE  outp[t] \in Outs /\ Held(t, {outp[t], ADEV})
BY Distinct DEF IInv, Mine, HasStreams, Owner, HoldsOut, HoldsIn, HoldsDevice,
   Held, LockIds, Streams

LEMMA HeldIn ==
    ASSUME IInv, NEW t \in Threads, pc[t] \in {"inBody", "put", "add", "inOpen"}
    PROVE  inp[t] \in Ins /\ Held(t, {inp[t], ADEV})
BY Distinct DEF IInv, Mine, HasStreams, Owner, HoldsOut, HoldsIn, HoldsDevice,
   Held, LockIds, Streams

LEMMA HeldDevice ==
    ASSUME IInv, NEW t \in Threads, pc[t] \in {"out", "in", "mode", "selmode"}
    PROVE  Held(t, {ADEV})
BY Distinct DEF IInv, Mine, Owner, HoldsOut, HoldsIn, HoldsDevice, Held, LockIds, Streams

LEMMA HeldIoOut ==
    ASSUME IInv, NEW t \in Threads, pc[t] \in {"io", "fail"}, op[t] = "out_write"
    PROVE  outp[t] \in Outs /\ Held(t, {outp[t]})
BY Distinct DEF IInv, Mine, HasStreams, Owner, HoldsOut, HoldsIn, HoldsDevice,
   OutOps, Held, LockIds, Streams

LEMMA HeldIoIn ==
    ASSUME IInv, NEW t \in Threads, pc[t] \in {"io", "fail"}, op[t] = "in_read"
    PROVE  inp[t] \in Ins /\ Held(t, {inp[t]})
BY Distinct DEF IInv, Mine, HasStreams, Owner, HoldsOut, HoldsIn, HoldsDevice,
   InOps, Held, LockIds, Streams

LEMMA HeldNone ==
    ASSUME IInv, NEW t \in Threads, pc[t] \in {"idle", "adev", "force", "free"}
    PROVE  Held(t, {})
BY DEF IInv, Mine, Owner, HoldsOut, HoldsIn, HoldsDevice, Held, LockIds, Streams

\* What a thread holds after it has released some of it.
LEMMA ReleaseHeld ==
    ASSUME TypedThreads, NEW t \in Threads, NEW S, NEW R \in SUBSET S,
           Held(t, S), Release(R)
    PROVE  /\ lock' \in [LockIds -> Threads \union {NULL}]
           /\ \A k \in LockIds : (lock'[k] = t) <=> (k \in S \ R)
           /\ \A u \in Threads \ {t}, k \in LockIds : (lock'[k] = u) <=> (lock[k] = u)
BY ReleaseFacts, Distinct DEF Held

\* A thread that releases all it holds and returns.
LEMMA LeaveFacts ==
    ASSUME IInv, NEW t \in Threads, NEW S, Held(t, S), Release(S), Return(t),
           active_output' = active_output \/ lock[ADEV] = t
    PROVE  TypedThreads' /\ Mine(t)' /\ Frame(t)
<1>1. /\ lock' \in [LockIds -> Threads \union {NULL}]
      /\ \A k \in LockIds : lock'[k] # t
      /\ \A u \in Threads \ {t}, k \in LockIds : (lock'[k] = u) <=> (lock[k] = u)
  BY ReleaseFacts, Distinct DEF IInv, Held
<1>2. TypedThreads'
  BY <1>1, ReturnFacts DEF IInv, TypedThreads
<1>3. Frame(t)
  BY <1>1, ReturnFacts DEF IInv, Frame
<1>4. Mine(t)'
  BY <1>1, ReturnFacts DEF IInv, Mine, HasStreams, Place, Owner, HoldsOut, HoldsIn,
     HoldsDevice, OutOps, InOps, LockIds, Streams
<1> QED BY <1>2, <1>3, <1>4

\* A thread that releases some of what it holds and goes on.
LEMMA MoveFacts ==
    ASSUME IInv, NEW t \in Threads, NEW S, NEW R \in SUBSET S, NEW l \in PCs,
           Held(t, S), Release(R), Goto(t, l),
           active_output' = active_output \/ lock[ADEV] = t
    PROVE  /\ TypedThreads' /\ Frame(t)
           /\ pc'[t] = l /\ op' = op /\ outp' = outp /\ inp' = inp
           /\ \A k \in LockIds : (lock'[k] = t) <=> (k \in S \ R)
<1>1. /\ lock' \in [LockIds -> Threads \union {NULL}]
      /\ \A k \in LockIds : (lock'[k] = t) <=> (k \in S \ R)
      /\ \A u \in Threads \ {t}, k \in LockIds : (lock'[k] = u) <=> (lock[k] = u)
  BY ReleaseHeld DEF IInv
<1>2. TypedThreads'
  BY <1>1, GotoFacts DEF IInv, TypedThreads
<1>3. Frame(t)
  BY <1>1, GotoFacts DEF IInv, Frame
<1> QED BY <1>1, <1>2, <1>3, GotoFacts DEF IInv

-----------------------------------------------------------------------------
(***************************************************************************)
(* One lemma per action.                                                   *)
(***************************************************************************)
\* A thread starts a call: it takes no mutex and touches nobody.
LEMMA CallInv ==
    ASSUME IInv, NEW t \in Threads, CallOut(t) \/ CallIn(t) \/ CallSetMode(t)
    PROVE  IInv' /\ Frame(t)
<1>1. PICK c \in Ops \ {"none"}, o \in Outs \union {NULL}, i \in Ins \union {NULL} :
        /\ Call(t, c, o, i)
        /\ c \in OutOps => o \in Outs
        /\ c \in InOps => i \in Ins
  <2>1. CASE CallOut(t)
    BY <2>1 DEF CallOut, OutOps, InOps, Ops
  <2>2. CASE CallIn(t)
    <3>1. PICK i \in Ins, c \in InOps : Call(t, c, NULL, i)
      BY <2>2 DEF CallIn
    <3> QED BY <3>1 DEF OutOps, InOps, Ops
  <2>3. CASE CallSetMode(t)
    BY <2>3 DEF CallSetMode, OutOps, InOps, Ops
  <2> QED BY <2>1, <2>2, <2>3
<1>2. /\ TypedCall' /\ TypedEcho' /\ TypedOut' /\ TypedIn' /\ TypedThreads'
      /\ pc'[t] = "adev" /\ op'[t] = c /\ outp'[t] = o /\ inp'[t] = i
      /\ lock' = lock
  BY <1>1 DEF IInv, TypedCall, TypedEcho, TypedOut, TypedIn, TypedThreads, Call,
     call, echo, outSt, inSt, inCfg, opened, PCs
<1>3. Frame(t)
  BY <1>1 DEF Frame, Call, outSt, IInv, TypedThreads
<1>4. Mine(t)'
  <2>1. pc[t] = "idle" /\ Mine(t)
    BY <1>1 DEF Call, IInv
  <2> QED BY <1>1, <1>2, <2>1
     DEF Mine, HasStreams, Place, Owner, HoldsOut, HoldsIn, HoldsDevice, OutOps, InOps
<1> QED BY <1>2, <1>3, <1>4, StepInv

\* A stream is opened.
LEMMA OpenInv ==
    ASSUME IInv, (\E o \in Outs : OpenOut(o)) \/ (\E i \in Ins : OpenIn(i))
    PROVE  IInv'
<1>1. /\ UNCHANGED <<lock, threads, call, echo, outSt, inSt, inCfg>>
      /\ out_open' \in [Outs -> BOOLEAN] /\ in_open' \in [Ins -> BOOLEAN]
  BY DEF OpenOut, OpenIn, IInv, TypedOut, TypedIn
<1>2. /\ TypedCall' /\ TypedEcho' /\ TypedOut' /\ TypedIn' /\ TypedThreads'
  BY <1>1 DEF IInv, TypedCall, TypedEcho, TypedOut, TypedIn, TypedThreads,
     call, echo, outSt, inSt, inCfg, threads
<1>3. ASSUME NEW t \in Threads PROVE Mine(t)'
  BY <1>1 DEF IInv, Mine, HasStreams, Place, Owner, HoldsOut, HoldsIn, outSt, threads
<1> QED BY <1>2, <1>3 DEF IInv

\* A thread takes the device mutex.
LEMMA LockDeviceInv ==
    ASSUME IInv, NEW t \in Threads, LockDevice(t)
    PROVE  IInv' /\ Frame(t)
<1>1. PICK l \in {"out", "in", "mode"} :
        /\ Goto(t, l)
        /\ l = "out" => op[t] \in OutOps
        /\ l = "in" => op[t] \in InOps
        /\ l = "mode" => op[t] = "set_mode"
  BY DEF LockDevice
<1>2. pc[t] = "adev" /\ Acquire(t, ADEV) /\ TypedThreads /\ ADEV \in LockIds
  BY DEF LockDevice, IInv, LockIds
<1>3. /\ pc'[t] = l /\ op' = op /\ outp' = outp /\ inp' = inp
      /\ \A u \in Threads \ {t} : pc'[u] = pc[u]
      /\ lock'[ADEV] = t /\ \A k \in Streams : lock'[k] = lock[k]
      /\ \A u \in Threads \ {t}, k \in LockIds : (lock'[k] = u) <=> (lock[k] = u)
      /\ TypedThreads'
  BY <1>1, <1>2, GotoFacts, AcquireFacts, Distinct DEF TypedThreads, PCs, LockIds
<1>4. /\ TypedCall' /\ TypedEcho' /\ TypedOut' /\ TypedIn'
      /\ Frame(t)
  BY <1>3 DEF IInv, TypedCall, TypedEcho, TypedOut, TypedIn, LockDevice, Frame,
     call, echo, outSt, inSt, inCfg, opened
<1>5. Mine(t)'
  BY <1>1, <1>2, <1>3, <1>4
  DEF IInv, Mine, HasStreams, Place, Owner, HoldsOut, HoldsIn, HoldsDevice,
      OutOps, InOps, Streams
<1> QED BY <1>3, <1>4, <1>5, StepInv

\* A thread with the device mutex takes the mutex of its output or input.
LEMMA LockOutInv ==
    ASSUME IInv, NEW t \in Threads, LockOut(t)
    PROVE  IInv' /\ Frame(t)
<1>1. /\ pc[t] = "out" /\ outp[t] \in Outs /\ outp[t] \in LockIds
      /\ Acquire(t, outp[t]) /\ Goto(t, "outBody") /\ TypedThreads
  BY DEF LockOut, IInv, Mine, HasStreams, LockIds, Streams
<1>2. /\ pc'[t] = "outBody" /\ op' = op /\ outp' = outp /\ inp' = inp
      /\ \A u \in Threads \ {t} : pc'[u] = pc[u]
      /\ lock'[outp[t]] = t /\ \A k \in LockIds : k # outp[t] => lock'[k] = lock[k]
      /\ \A u \in Threads \ {t}, k \in LockIds : (lock'[k] = u) <=> (lock[k] = u)
      /\ TypedThreads'
  BY <1>1, GotoFacts, AcquireFacts DEF TypedThreads, PCs
<1>3. /\ TypedCall' /\ TypedEcho' /\ TypedOut' /\ TypedIn'
      /\ Frame(t)
  BY <1>2 DEF IInv, TypedCall, TypedEcho, TypedOut, TypedIn, LockOut, Frame,
     call, echo, outSt, inSt, inCfg, opened
<1>4. Mine(t)'
  BY <1>1, <1>2, <1>3, Distinct
  DEF IInv, Mine, HasStreams, Place, Owner, HoldsOut, HoldsIn, HoldsDevice, LockIds, Streams
<1> QED BY <1>2, <1>3, <1>4, StepInv

LEMMA LockInInv ==
    ASSUME IInv, NEW t \in Threads, LockIn(t)
    PROVE  IInv' /\ Frame(t)
<1>1. /\ pc[t] = "in" /\ inp[t] \in Ins /\ inp[t] \in LockIds
      /\ Acquire(t, inp[t]) /\ Goto(t, "inBody") /\ TypedThreads
  BY DEF LockIn, IInv, Mine, HasStreams, LockIds, Streams
<1>2. /\ pc'[t] = "inBody" /\ op' = op /\ outp' = outp /\ inp' = inp
      /\ \A u \in Threads \ {t} : pc'[u] = pc[u]
      /\ lock'[inp[t]] = t /\ \A k \in LockIds : k # inp[t] => lock'[k] = lock[k]
      /\ \A u \in Threads \ {t}, k \in LockIds : (lock'[k] = u) <=> (lock[k] = u)
      /\ TypedThreads'
  BY <1>1, GotoFacts, AcquireFacts DEF TypedThreads, PCs
<1>3. /\ TypedCall' /\ TypedEcho' /\ TypedOut' /\ TypedIn'
      /\ Frame(t)
  BY <1>2 DEF IInv, TypedCall, TypedEcho, TypedOut, TypedIn, LockIn, Frame,
     call, echo, outSt, inSt, inCfg, opened
<1>4. Mine(t)'
  BY <1>1, <1>2, <1>3, Distinct
  DEF IInv, Mine, HasStreams, Place, Owner, HoldsOut, HoldsIn, HoldsDevice, LockIds, Streams
<1> QED BY <1>2, <1>3, <1>4, StepInv

-----------------------------------------------------------------------------
LEMMA DoOutputStandbyTyped ==
    ASSUME TypedOut, NEW o \in Outs, DoOutputStandby(o), out_open' = out_open
    PROVE  TypedOut'
BY DEF TypedOut, DoOutputStandby, outSt

\* out_write() up to its I/O: the device mutex is released, the stream's kept.
LEMMA OutWriteInv ==
    ASSUME IInv, NEW t \in Threads, OutWrite(t)
    PROVE  IInv' /\ Frame(t)
<1>1. /\ pc[t] = "outBody" /\ op[t] = "out_write" /\ outp[t] \in Outs
      /\ Held(t, {outp[t], ADEV}) /\ Release({ADEV}) /\ lock[ADEV] = t
  BY HeldOut DEF OutWrite, At, Held, LockIds
<1>2. PICK l \in {"io", "fail"} :
        /\ pc' = [pc EXCEPT ![t] = l] /\ op' = op /\ outp' = outp /\ inp' = inp
        /\ force' \in [Threads -> BOOLEAN]
        /\ pc'[t] = l /\ \A u \in Threads \ {t} : pc'[u] = pc[u]
  BY DEF OutWrite, Goto, VoiceInputActive, IInv, TypedThreads
<1>3. /\ lock' \in [LockIds -> Threads \union {NULL}]
      /\ \A k \in LockIds : (lock'[k] = t) <=> (k \in {outp[t], ADEV} \ {ADEV})
      /\ \A u \in Threads \ {t}, k \in LockIds : (lock'[k] = u) <=> (lock[k] = u)
  BY <1>1, ReleaseHeld DEF IInv
<1>4. TypedThreads'
  BY <1>2, <1>3 DEF IInv, TypedThreads, PCs
<1>5. TypedOut'
  <2>1. /\ active_output' \in Outs \union {NULL}
        /\ out_standby' \in [Outs -> BOOLEAN] /\ out_pcm' \in [Outs -> BOOLEAN]
    BY <1>1 DEF OutWrite, StartOutput, StartOutputFails, outSt, IInv, TypedOut
  <2>2. out_echo' \in [Outs -> Refs \union {NULL}]
    BY <1>1 DEF OutWrite, StartOutput, StartOutputFails, outSt, IInv, TypedOut, TypedEcho
  <2> QED BY <2>1, <2>2 DEF OutWrite, opened, IInv, TypedOut
<1>6. TypedCall' /\ TypedEcho' /\ TypedIn'
  BY DEF OutWrite, call, echo, inSt, inCfg, opened, IInv, TypedCall, TypedEcho, TypedIn
<1>7. Frame(t)
  BY <1>1, <1>2, <1>3 DEF Frame
<1>8. Mine(t)'
  BY <1>1, <1>2, <1>3, Distinct DEF IInv, Mine, HasStreams, Place, Owner,
     HoldsOut, HoldsIn, HoldsDevice, OutOps, InOps, LockIds, Streams
<1> QED BY <1>4, <1>5, <1>6, <1>7, <1>8, StepInv

\* The actions that leave all mutexes or move on, and change at most the
\* output's or the input's state, which their lemmas type.
LEMMA OutWriteDoneInv ==
    ASSUME IInv, NEW t \in Threads, OutWriteDone(t)
    PROVE  IInv' /\ Frame(t)
<1>1. /\ pc[t] \in {"io", "fail"} /\ op[t] = "out_write" /\ outp[t] \in Outs
      /\ Held(t, {outp[t]}) /\ Release({outp[t]}) /\ active_output' = active_output
  BY HeldIoOut DEF OutWriteDone, outSt
<1>2. TypedCall' /\ TypedEcho' /\ TypedOut' /\ TypedIn'
  BY DEF OutWriteDone, call, echo, outSt, inSt, inCfg, opened,
     IInv, TypedCall, TypedEcho, TypedOut, TypedIn
<1>3. CASE Return(t)
  BY <1>1, <1>2, <1>3, LeaveFacts, StepInv
<1>4. CASE Goto(t, "force")
  <2>1. /\ TypedThreads' /\ Frame(t)
        /\ pc'[t] = "force" /\ op' = op /\ outp' = outp /\ inp' = inp
        /\ \A k \in LockIds : lock'[k] # t
    BY <1>1, <1>4, MoveFacts DEF PCs
  <2>2. Mine(t)'
    BY <1>1, <2>1 DEF IInv, Mine, HasStreams, Place, Owner, HoldsOut, HoldsIn,
       HoldsDevice, OutOps, InOps, LockIds, Streams
  <2> QED BY <1>2, <2>1, <2>2, StepInv
<1> QED BY <1>3, <1>4 DEF OutWriteDone

LEMMA OutWriteForceInv ==
    ASSUME IInv, NEW t \in Threads, OutWriteForce(t)
    PROVE  IInv' /\ Frame(t)
<1>1. TypedCall' /\ TypedEcho' /\ TypedOut' /\ TypedIn' /\ active_output' = active_output
  BY DEF OutWriteForce, call, echo, outSt, inSt, inCfg, opened,
     IInv, TypedCall, TypedEcho, TypedOut, TypedIn
<1>2. pc[t] = "force" /\ op[t] = "out_write" /\ Held(t, {}) /\ Mine(t)
  BY HeldNone DEF OutWriteForce, IInv, Mine, Place
<1>3. CASE active_input # NULL
  <2>1. active_input \in Ins /\ Acquire(t, ADEV) /\ GotoIn(t, active_input)
    BY <1>3 DEF OutWriteForce, IInv, TypedIn
  <2>2. /\ TypedThreads'
        /\ pc'[t] = "in" /\ op' = op /\ outp' = outp /\ inp'[t] = active_input
        /\ lock'[ADEV] = t /\ \A k \in LockIds : k # ADEV => lock'[k] = lock[k]
        /\ \A u \in Threads \ {t}, k \in LockIds : (lock'[k] = u) <=> (lock[k] = u)
        /\ \A u \in Threads \ {t} : pc'[u] = pc[u] /\ inp'[u] = inp[u]
    BY <2>1, GotoInFacts, AcquireFacts DEF IInv, TypedThreads, LockIds
  <2>3. Frame(t)
    BY <1>1, <2>2 DEF Frame
  <2>4. Mine(t)'
    BY <1>2, <2>1, <2>2, Distinct DEF Held, Mine, HasStreams, Place, Owner, HoldsOut,
       HoldsIn, HoldsDevice, OutOps, InOps, LockIds, Streams
  <2> QED BY <1>1, <2>2, <2>3, <2>4, StepInv
<1>4. CASE active_input = NULL
  <2>1. Return(t) /\ Release({})
    BY <1>4 DEF OutWriteForce, Release, IInv, TypedThreads
  <2> QED BY <1>1, <1>2, <2>1, LeaveFacts, StepInv
<1> QED BY <1>3, <1>4

LEMMA OutStandbyInv ==
    ASSUME IInv, NEW t \in Threads, OutStandby(t)
    PROVE  IInv' /\ Frame(t)
<1>1. /\ pc[t] = "outBody" /\ op[t] \in {"out_standby", "out_close"}
      /\ outp[t] \in Outs /\ Held(t, {outp[t], ADEV}) /\ Release({outp[t], ADEV})
      /\ lock[ADEV] = t
  BY HeldOut DEF OutStandby, At, Held, LockIds
<1>2. TypedCall' /\ TypedEcho' /\ TypedOut' /\ TypedIn'
  BY <1>1, DoOutputStandbyTyped DEF OutStandby, call, echo, inSt, inCfg, opened,
     IInv, TypedCall, TypedEcho, TypedIn
<1>3. CASE Return(t)
  BY <1>1, <1>2, <1>3, LeaveFacts, StepInv
<1>4. CASE op[t] = "out_close" /\ Goto(t, "free")
  <2>1. /\ TypedThreads' /\ Frame(t)
        /\ pc'[t] = "free" /\ op' = op /\ outp' = outp /\ inp' = inp
        /\ \A k \in LockIds : lock'[k] # t
    BY <1>1, <1>4, MoveFacts DEF PCs
  <2>2. Mine(t)'
    BY <1>1, <1>4, <2>1 DEF IInv, Mine, HasStreams, Place, Owner, HoldsOut, HoldsIn,
       HoldsDevice, OutOps, InOps, LockIds, Streams
  <2> QED BY <1>2, <2>1, <2>2, StepInv
<1> QED BY <1>3, <1>4 DEF OutStandby

LEMMA FreeOutInv ==
    ASSUME IInv, NEW t \in Threads, FreeOut(t)
    PROVE  IInv' /\ Frame(t)
<1>1. /\ pc[t] = "free" /\ Held(t, {}) /\ Release({}) /\ Return(t)
      /\ active_output' = active_output
  BY HeldNone DEF FreeOut, At, Release, outSt, IInv, TypedThreads
<1>2. TypedCall' /\ TypedEcho' /\ TypedOut' /\ TypedIn'
  BY DEF FreeOut, call, echo, outSt, inSt, inCfg,
     IInv, TypedCall, TypedEcho, TypedOut, TypedIn
<1> QED BY <1>1, <1>2, LeaveFacts, StepInv

LEMMA OutSetParametersInv ==
    ASSUME IInv, NEW t \in Threads, OutSetParameters(t)
    PROVE  IInv' /\ Frame(t)
<1>1. /\ pc[t] = "outBody" /\ op[t] = "out_set_parameters"
      /\ outp[t] \in Outs /\ Held(t, {outp[t], ADEV}) /\ lock[ADEV] = t
  BY HeldOut DEF OutSetParameters, At, Held, LockIds
<1>2. TypedCall' /\ TypedEcho' /\ TypedIn'
  BY DEF OutSetParameters, call, echo, inSt, inCfg, opened,
     IInv, TypedCall, TypedEcho, TypedIn
<1>3. TypedOut'
  <2>1. CASE UNCHANGED outSt
    BY <2>1 DEF OutSetParameters, outSt, opened, IInv, TypedOut
  <2>2. CASE DoOutputStandby(outp[t])
    BY <1>1, <2>2, DoOutputStandbyTyped DEF OutSetParameters, opened, IInv
  <2> QED BY <2>1, <2>2 DEF OutSetParameters
<1>4. CASE Release({outp[t], ADEV}) /\ Return(t)
  BY <1>1, <1>2, <1>3, <1>4, LeaveFacts, StepInv
<1>5. CASE VoiceInputActive /\ Release({outp[t]}) /\ GotoIn(t, active_input)
  <2>1. active_input \in Ins
    BY <1>5 DEF VoiceInputActive, IInv, TypedIn
  <2>2. /\ lock' \in [LockIds -> Threads \union {NULL}]
        /\ \A k \in LockIds : (lock'[k] = t) <=> (k \in {outp[t], ADEV} \ {outp[t]})
        /\ \A u \in Threads \ {t}, k \in LockIds : (lock'[k] = u) <=> (lock[k] = u)
    BY <1>1, <1>5, ReleaseHeld DEF IInv
  <2>3. /\ TypedThreads'
        /\ pc'[t] = "in" /\ op' = op /\ outp' = outp /\ inp'[t] = active_input
        /\ \A u \in Threads \ {t} : pc'[u] = pc[u] /\ inp'[u] = inp[u]
    BY <1>5, <2>1, <2>2, GotoInFacts DEF IInv, TypedThreads
  <2>4. Frame(t)
    BY <1>1, <2>2, <2>3 DEF Frame
  <2>5. Mine(t)'
    BY <1>1, <2>1, <2>2, <2>3, Distinct DEF IInv, Mine, HasStreams, Place, Owner,
       HoldsOut, HoldsIn, HoldsDevice, OutOps, InOps, LockIds, Streams
  <2> QED BY <1>2, <1>3, <2>3, <2>4, <2>5, StepInv
<1> QED BY <1>4, <1>5 DEF OutSetParameters

-----------------------------------------------------------------------------
\* What follows do_input_standby().
LEMMA AfterInputStandbyFacts ==
    ASSUME IInv, NEW t \in Threads, pc[t] \in {"inBody", "put"},
           AfterInputStandby(t), active_output' = active_output
    PROVE  TypedThreads' /\ Frame(t) /\ Mine(t)'
<1>1. inp[t] \in Ins /\ Held(t, {inp[t], ADEV}) /\ Mine(t)
  BY HeldIn DEF IInv
<1>2. CASE op[t] = "set_mode"
  <2>1. Release({inp[t]}) /\ Goto(t, "selmode")
    BY <1>2 DEF AfterInputStandby
  <2>2. /\ TypedThreads' /\ Frame(t)
        /\ pc'[t] = "selmode" /\ op' = op /\ outp' = outp /\ inp' = inp
        /\ \A k \in LockIds : (lock'[k] = t) <=> (k \in {inp[t], ADEV} \ {inp[t]})
    BY <1>1, <2>1, MoveFacts DEF PCs
  <2>3. Mine(t)'
    BY <1>1, <1>2, <2>2, Distinct DEF Mine, HasStreams, Place, Owner, HoldsOut, HoldsIn,
       HoldsDevice, OutOps, InOps, LockIds, Streams
  <2> QED BY <2>2, <2>3
<1>3. CASE Release({inp[t], ADEV}) /\ Return(t)
  BY <1>1, <1>3, LeaveFacts
<1>4. CASE op[t] = "in_close" /\ Release({inp[t], ADEV}) /\ Goto(t, "free")
  <2>1. /\ TypedThreads' /\ Frame(t)
        /\ pc'[t] = "free" /\ op' = op /\ outp' = outp /\ inp' = inp
        /\ \A k \in LockIds : lock'[k] # t
    BY <1>1, <1>4, MoveFacts DEF PCs
  <2>2. Mine(t)'
    BY <1>1, <1>4, <2>1 DEF Mine, HasStreams, Place, Owner, HoldsOut, HoldsIn,
       HoldsDevice, OutOps, InOps, LockIds, Streams
  <2> QED BY <2>1, <2>2
<1> QED BY <1>2, <1>3, <1>4 DEF AfterInputStandby

\* A thread that keeps its mutexes and moves between places with the same.
LEMMA StayFacts ==
    ASSUME IInv, NEW t \in Threads, NEW l \in PCs, Goto(t, l), lock' = lock,
           active_output' = active_output
    PROVE  /\ TypedThreads' /\ Frame(t)
           /\ pc'[t] = l /\ op' = op /\ outp' = outp /\ inp' = inp
BY GotoFacts DEF IInv, TypedThreads, Frame

LEMMA PutEchoTyped ==
    ASSUME TypedEcho, NEW r, PutEcho(r)
    PROVE  TypedEcho'
BY DEF TypedEcho, PutEcho, echo

\* do_input_standby(), up to the end or to the active output's mutex.
LEMMA DoInputStandbyFacts ==
    ASSUME IInv, NEW t \in Threads, pc[t] = "inBody", DoInputStandby(t),
           active_output' = active_output
    PROVE  /\ TypedEcho' /\ TypedThreads' /\ Frame(t) /\ Mine(t)'
           /\ active_input' \in Ins \union {NULL}
           /\ in_standby' \in [Ins -> BOOLEAN] /\ in_pcm' \in [Ins -> BOOLEAN]
           /\ in_echo' \in [Ins -> Refs \union {NULL}] /\ in_kept' \in [Ins -> BOOLEAN]
<1>1. inp[t] \in Ins /\ Mine(t) /\ TypedEcho /\ TypedIn
  BY HeldIn DEF IInv
<1>2. CASE in_standby[inp[t]]
  <2>1. AfterInputStandby(t) /\ UNCHANGED <<echo, inSt>>
    BY <1>2 DEF DoInputStandby
  <2> QED BY <1>1, <2>1, AfterInputStandbyFacts DEF TypedEcho, TypedIn, echo, inSt
<1>3. CASE ~in_standby[inp[t]]
  <2>1. /\ active_input' = NULL /\ in_pcm' \in [Ins -> BOOLEAN]
    BY <1>1, <1>3 DEF DoInputStandby, TypedIn
  <2>2. CASE PutWaits(in_echo[inp[t]])
    <3>1. Goto(t, "put") /\ UNCHANGED <<echo, in_standby, in_echo, in_kept, lock>>
      BY <1>3, <2>2 DEF DoInputStandby
    <3>2. /\ TypedThreads' /\ Frame(t)
          /\ pc'[t] = "put" /\ op' = op /\ outp' = outp /\ inp' = inp
      BY <3>1, StayFacts DEF PCs
    <3>3. active_output' \in Outs
      BY <2>2 DEF PutWaits, IInv, TypedOut
    <3>4. Mine(t)'
      BY <1>1, <3>1, <3>2, <3>3 DEF Mine, HasStreams, Place, Owner, HoldsOut, HoldsIn,
         HoldsDevice
    <3> QED BY <1>1, <2>1, <3>1, <3>2, <3>4 DEF TypedEcho, TypedIn, echo
  <2>3. CASE ~PutWaits(in_echo[inp[t]])
    <3>1. /\ PutEcho(in_echo[inp[t]]) /\ AfterInputStandby(t)
          /\ in_echo' = [in_echo EXCEPT ![inp[t]] = NULL]
          /\ in_kept' = [in_kept EXCEPT ![inp[t]] = FALSE]
          /\ in_standby' = [in_standby EXCEPT ![inp[t]] = TRUE]
      BY <1>3, <2>3 DEF DoInputStandby
    <3> QED BY <1>1, <2>1, <3>1, AfterInputStandbyFacts, PutEchoTyped DEF TypedIn
  <2> QED BY <2>2, <2>3
<1> QED BY <1>2, <1>3

LEMMA InStandbyInv ==
    ASSUME IInv, NEW t \in Threads, InStandby(t) \/ InSetParameters(t) \/ InAec(t)
    PROVE  IInv' /\ Frame(t)
<1>1. /\ pc[t] = "inBody" /\ DoInputStandby(t) /\ UNCHANGED <<call, outSt, opened>>
      /\ inp[t] \in Ins
  BY DEF InStandby, InSetParameters, InAec, At, IInv, Mine, HasStreams
<1>2. /\ in_need' \in [Ins -> BOOLEAN] /\ in_voice' \in [Ins -> BOOLEAN]
  <2>1. CASE InStandby(t)
    BY <2>1 DEF InStandby, inCfg, IInv, TypedIn
  <2>2. CASE InSetParameters(t)
    BY <2>2 DEF InSetParameters, IInv, TypedIn
  <2>3. CASE InAec(t)
    BY <1>1, <2>3 DEF InAec, IInv, TypedIn
  <2> QED BY <2>1, <2>2, <2>3
<1>3. TypedCall' /\ TypedOut'
  BY <1>1 DEF call, outSt, opened, IInv, TypedCall, TypedOut
<1>4. /\ TypedEcho' /\ TypedThreads' /\ Frame(t) /\ Mine(t)' /\ TypedIn'
  BY <1>1, <1>2, DoInputStandbyFacts DEF outSt, opened, IInv, TypedIn
<1> QED BY <1>3, <1>4, StepInv

LEMMA InputStandbyPutInv ==
    ASSUME IInv, NEW t \in Threads, InputStandbyPut(t)
    PROVE  IInv' /\ Frame(t)
<1>1. /\ pc[t] = "put" /\ inp[t] \in Ins /\ active_output \in Outs
      /\ active_output' = active_output
  BY DEF InputStandbyPut, IInv, Mine, HasStreams
<1>2. TypedCall' /\ TypedEcho'
  BY PutEchoTyped DEF InputStandbyPut, call, IInv, TypedCall
<1>3. TypedOut' /\ TypedIn'
  BY <1>1 DEF InputStandbyPut, RemoveEcho, inCfg, opened, IInv, TypedOut, TypedIn
<1>4. TypedThreads' /\ Frame(t) /\ Mine(t)'
  BY <1>1, AfterInputStandbyFacts DEF InputStandbyPut
<1> QED BY <1>2, <1>3, <1>4, StepInv

LEMMA FreeInInv ==
    ASSUME IInv, NEW t \in Threads, FreeIn(t)
    PROVE  IInv' /\ Frame(t)
<1>1. /\ pc[t] = "free" /\ Held(t, {}) /\ Release({}) /\ Return(t)
      /\ active_output' = active_output
  BY HeldNone DEF FreeIn, At, Release, outSt, IInv, TypedThreads
<1>2. TypedCall' /\ TypedEcho' /\ TypedOut' /\ TypedIn'
  BY DEF FreeIn, call, echo, outSt, IInv, TypedCall, TypedEcho, TypedOut, TypedIn
<1> QED BY <1>1, <1>2, LeaveFacts, StepInv

LEMMA InNothingInv ==
    ASSUME IInv, NEW t \in Threads, InNothing(t)
    PROVE  IInv' /\ Frame(t)
<1>1. /\ Held(t, {inp[t], ADEV}) /\ Release({inp[t], ADEV}) /\ Return(t)
      /\ active_output' = active_output
  BY HeldIn DEF InNothing, At, outSt
<1>2. TypedCall' /\ TypedEcho' /\ TypedOut' /\ TypedIn'
  BY DEF InNothing, call, echo, outSt, inSt, inCfg, opened,
     IInv, TypedCall, TypedEcho, TypedOut, TypedIn
<1> QED BY <1>1, <1>2, LeaveFacts, StepInv

-----------------------------------------------------------------------------
\* get_echo_reference(): a reference for the active output, or none.
LEMMA CreateEchoFacts ==
    ASSUME TypedEcho, TypedOut, NEW t \in Threads, CreateEcho(t)
    PROVE  /\ TypedEcho'
           /\ \/ active_output \in Outs /\ Goto(t, "add")
              \/ Goto(t, "inOpen")
<1>1. CASE /\ active_output # NULL
           /\ \E r \in Refs : /\ echo_reference' = r
                              /\ live' = (live \ {echo_reference}) \union {r}
           /\ Goto(t, "add")
  BY <1>1 DEF TypedEcho, TypedOut
<1>2. CASE PutEcho(echo_reference) /\ Goto(t, "inOpen")
  BY <1>2, PutEchoTyped
<1> QED BY <1>1, <1>2 DEF CreateEcho

\* A reading thread that keeps device and stream and moves to "put", "add" or
\* "inOpen".
LEMMA ReadingFacts ==
    ASSUME IInv, NEW t \in Threads, pc[t] \in {"inBody", "put", "add"}, op[t] = "in_read",
           NEW l \in {"put", "add", "inOpen"}, Goto(t, l), lock' = lock,
           active_output' = active_output, l # "inOpen" => active_output \in Outs
    PROVE  TypedThreads' /\ Frame(t) /\ Mine(t)'
<1>1. /\ TypedThreads' /\ Frame(t)
      /\ pc'[t] = l /\ op' = op /\ outp' = outp /\ inp' = inp
  BY StayFacts DEF PCs
<1>2. Mine(t)'
  BY <1>1 DEF IInv, Mine, HasStreams, Place, Owner, HoldsOut, HoldsIn, HoldsDevice
<1> QED BY <1>1, <1>2

\* A reading thread that leaves the device mutex.
LEMMA ReadLeavesDevice ==
    ASSUME IInv, NEW t \in Threads, pc[t] \in {"inBody", "inOpen"}, op[t] = "in_read",
           NEW l \in {"io", "fail"}, Goto(t, l), Release({ADEV}),
           active_output' = active_output
    PROVE  TypedThreads' /\ Frame(t) /\ Mine(t)'
<1>1. inp[t] \in Ins /\ Held(t, {inp[t], ADEV}) /\ Mine(t)
  BY HeldIn DEF IInv
<1>2. /\ TypedThreads' /\ Frame(t)
      /\ pc'[t] = l /\ op' = op /\ outp' = outp /\ inp' = inp
      /\ \A k \in LockIds : (lock'[k] = t) <=> (k \in {inp[t], ADEV} \ {ADEV})
  BY <1>1, MoveFacts DEF PCs
<1>3. Mine(t)'
  BY <1>1, <1>2, Distinct DEF Mine, HasStreams, Place, Owner, HoldsOut, HoldsIn,
     HoldsDevice, OutOps, InOps, LockIds, Streams
<1> QED BY <1>2, <1>3

LEMMA InReadInv ==
    ASSUME IInv, NEW t \in Threads, InRead(t)
    PROVE  IInv' /\ Frame(t)
<1>1. /\ pc[t] = "inBody" /\ op[t] = "in_read" /\ inp[t] \in Ins
      /\ UNCHANGED <<call, outSt, in_standby, in_pcm, in_echo, in_kept, inCfg, opened>>
      /\ active_output' = active_output
  BY HeldIn DEF InRead, At, outSt
<1>2. TypedCall' /\ TypedOut'
  BY <1>1 DEF call, outSt, opened, IInv, TypedCall, TypedOut
<1>3. CASE Goto(t, "io") /\ Release({ADEV}) /\ UNCHANGED <<active_input, echo>>
  <2>1. TypedIn' /\ TypedEcho'
    BY <1>1, <1>3 DEF inCfg, opened, echo, IInv, TypedIn, TypedEcho
  <2> QED BY <1>1, <1>2, <1>3, <2>1, ReadLeavesDevice, StepInv
<1>4. CASE /\ active_input' = inp[t] /\ lock' = lock
           /\ \/ PutWaits(echo_reference) /\ Goto(t, "put") /\ UNCHANGED echo
              \/ CreateEcho(t)
              \/ Goto(t, "inOpen") /\ UNCHANGED echo
  <2>1. TypedIn'
    BY <1>1, <1>4 DEF inCfg, opened, IInv, TypedIn
  <2>2. PICK l \in {"put", "add", "inOpen"} :
          Goto(t, l) /\ (l # "inOpen" => active_output \in Outs)
    BY <1>4, CreateEchoFacts DEF PutWaits, IInv, TypedOut
  <2>3. TypedEcho'
    BY <1>4, CreateEchoFacts DEF echo, IInv, TypedEcho
  <2>4. TypedThreads' /\ Frame(t) /\ Mine(t)'
    BY <1>1, <1>4, <2>2, ReadingFacts
  <2> QED BY <1>2, <2>1, <2>3, <2>4, StepInv
<1> QED BY <1>3, <1>4 DEF InRead

LEMMA InReadPutInv ==
    ASSUME IInv, NEW t \in Threads, InReadPut(t)
    PROVE  IInv' /\ Frame(t)
<1>1. /\ pc[t] = "put" /\ op[t] = "in_read" /\ active_output \in Outs
      /\ active_output' = active_output /\ lock' = lock
  BY DEF InReadPut, At, IInv, Mine, HasStreams
<1>2. TypedCall' /\ TypedOut' /\ TypedIn'
  BY <1>1 DEF InReadPut, RemoveEcho, call, inSt, inCfg, opened,
     IInv, TypedCall, TypedOut, TypedIn
<1>3. PICK l \in {"add", "inOpen"} : Goto(t, l) /\ TypedEcho'
  BY CreateEchoFacts DEF InReadPut, IInv
<1>4. TypedThreads' /\ Frame(t) /\ Mine(t)'
  BY <1>1, <1>3, ReadingFacts
<1> QED BY <1>2, <1>3, <1>4, StepInv

LEMMA InReadAddInv ==
    ASSUME IInv, NEW t \in Threads, InReadAdd(t)
    PROVE  IInv' /\ Frame(t)
<1>1. /\ pc[t] = "add" /\ op[t] = "in_read" /\ active_output \in Outs /\ inp[t] \in Ins
      /\ active_output' = active_output /\ lock' = lock /\ Goto(t, "inOpen")
  BY DEF InReadAdd, At, IInv, Mine, HasStreams
<1>2. TypedCall' /\ TypedEcho' /\ TypedOut' /\ TypedIn'
  BY <1>1 DEF InReadAdd, call, echo, inCfg, opened,
     IInv, TypedCall, TypedEcho, TypedOut, TypedIn
<1>3. TypedThreads' /\ Frame(t) /\ Mine(t)'
  BY <1>1, ReadingFacts
<1> QED BY <1>2, <1>3, StepInv

LEMMA InReadOpenInv ==
    ASSUME IInv, NEW t \in Threads, InReadOpen(t)
    PROVE  IInv' /\ Frame(t)
<1>1. /\ pc[t] = "inOpen" /\ op[t] = "in_read" /\ inp[t] \in Ins
      /\ active_output' = active_output /\ Release({ADEV})
  BY HeldIn DEF InReadOpen, At, outSt
<1>2. TypedCall' /\ TypedEcho' /\ TypedOut' /\ TypedIn'
  BY <1>1 DEF InReadOpen, call, echo, outSt, inCfg, opened,
     IInv, TypedCall, TypedEcho, TypedOut, TypedIn
<1>3. PICK l \in {"io", "fail"} : Goto(t, l)
  BY DEF InReadOpen
<1>4. TypedThreads' /\ Frame(t) /\ Mine(t)'
  BY <1>1, <1>3, ReadLeavesDevice
<1> QED BY <1>2, <1>4, StepInv

LEMMA InReadDoneInv ==
    ASSUME IInv, NEW t \in Threads, InReadDone(t)
    PROVE  IInv' /\ Frame(t)
<1>1. /\ Held(t, {inp[t]}) /\ Release({inp[t]}) /\ Return(t)
      /\ active_output' = active_output
  BY HeldIoIn DEF InReadDone, outSt
<1>2. TypedCall' /\ TypedEcho' /\ TypedOut' /\ TypedIn'
  BY DEF InReadDone, call, echo, outSt, inSt, inCfg, opened,
     IInv, TypedCall, TypedEcho, TypedOut, TypedIn
<1> QED BY <1>1, <1>2, LeaveFacts, StepInv

-----------------------------------------------------------------------------
\* adev_set_mode() that returns at once, and the end of select_mode().
LEMMA ModeReturnInv ==
    ASSUME IInv, NEW t \in Threads, SetSameMode(t) \/ SetMode(t) \/ SelectModeEnd(t)
    PROVE  IInv' /\ Frame(t)
<1>1. /\ Held(t, {ADEV}) /\ Release({ADEV}) /\ Return(t)
      /\ UNCHANGED <<dead, echo, outSt, inSt, inCfg, opened>>
      /\ active_output' = active_output
  BY HeldDevice DEF SetSameMode, SetMode, SelectModeEnd, outSt, call
<1>2. TypedEcho' /\ TypedOut' /\ TypedIn'
  BY <1>1 DEF echo, outSt, inSt, inCfg, opened, IInv, TypedEcho, TypedOut, TypedIn
<1>3. TypedCall'
  BY DEF SetSameMode, SetMode, SelectModeEnd, call, IInv, TypedCall
<1> QED BY <1>1, <1>2, <1>3, LeaveFacts, StepInv

\* select_mode() goes to the active output, to the active input or on.
LEMMA ForceAllInv ==
    ASSUME IInv, NEW t \in Threads, EnterCall(t) \/ LeaveCall(t)
    PROVE  IInv' /\ Frame(t)
<1>1. /\ pc[t] = "mode" /\ op[t] = "set_mode" /\ ForceAllStandby(t) /\ lock' = lock
      /\ UNCHANGED <<echo, outSt, inSt, inCfg, opened>>
      /\ active_output' = active_output /\ Mine(t)
  BY DEF EnterCall, LeaveCall, outSt, IInv, Mine, Place
<1>2. TypedEcho' /\ TypedOut' /\ TypedIn'
  BY <1>1 DEF echo, outSt, inSt, inCfg, opened, IInv, TypedEcho, TypedOut, TypedIn
<1>3. TypedCall'
  BY CallMode DEF EnterCall, LeaveCall, IInv, TypedCall
<1>4. /\ pc'[t] \in {"out", "in", "selmode"} /\ op' = op
      /\ outp'[t] = active_output /\ inp'[t] = active_input
      /\ pc'[t] = "out" => active_output # NULL
      /\ pc'[t] = "in" => active_input # NULL
      /\ \A u \in Threads \ {t} : pc'[u] = pc[u] /\ outp'[u] = outp[u] /\ inp'[u] = inp[u]
  BY <1>1 DEF ForceAllStandby, IInv, TypedThreads
<1>5. TypedThreads'
  BY <1>1 DEF ForceAllStandby, IInv, TypedThreads, TypedOut, TypedIn, PCs
<1>6. Frame(t)
  BY <1>1, <1>4 DEF Frame
<1>7. Mine(t)'
  BY <1>1, <1>4 DEF IInv, TypedOut, TypedIn, Mine, HasStreams, Place, Owner, HoldsOut,
     HoldsIn, HoldsDevice, OutOps, InOps
<1> QED BY <1>2, <1>3, <1>5, <1>6, <1>7, StepInv

LEMMA ModeOutStandbyInv ==
    ASSUME IInv, NEW t \in Threads, ModeOutStandby(t)
    PROVE  IInv' /\ Frame(t)
<1>1. /\ pc[t] = "outBody" /\ op[t] = "set_mode" /\ outp[t] \in Outs
      /\ Held(t, {outp[t], ADEV}) /\ Release({outp[t]}) /\ lock[ADEV] = t /\ Mine(t)
  BY HeldOut DEF ModeOutStandby, At, Held, LockIds, IInv
<1>2. TypedCall' /\ TypedEcho' /\ TypedOut' /\ TypedIn'
  BY <1>1, DoOutputStandbyTyped DEF ModeOutStandby, call, echo, inSt, inCfg, opened,
     IInv, TypedCall, TypedEcho, TypedIn
<1>3. PICK l \in {"in", "selmode"} : Goto(t, l) /\ (l = "in" => inp[t] # NULL)
  BY DEF ModeOutStandby
<1>4. /\ TypedThreads' /\ Frame(t)
      /\ pc'[t] = l /\ op' = op /\ outp' = outp /\ inp' = inp
      /\ \A k \in LockIds : (lock'[k] = t) <=> (k \in {outp[t], ADEV} \ {outp[t]})
  BY <1>1, <1>3, MoveFacts DEF PCs
<1>5. Mine(t)'
  BY <1>1, <1>3, <1>4, Distinct DEF IInv, TypedThreads, Mine, HasStreams, Place, Owner,
     HoldsOut, HoldsIn, HoldsDevice, OutOps, InOps, LockIds, Streams
<1> QED BY <1>2, <1>4, <1>5, StepInv

-----------------------------------------------------------------------------
(***************************************************************************)
(* The theorems.                                                           *)
(***************************************************************************)
LEMMA InitInv == Init => IInv
<1> SUFFICES ASSUME Init PROVE IInv
  OBVIOUS
<1>1. TypedCall /\ TypedEcho /\ TypedOut /\ TypedIn
  BY CallMode DEF Init, TypedCall, TypedEcho, TypedOut, TypedIn
<1>2. TypedThreads
  BY DEF Init, TypedThreads, PCs, Ops
<1>3. ASSUME NEW t \in Threads PROVE Mine(t)
  BY Distinct DEF Init, Mine, HasStreams, Place, Owner, HoldsOut, HoldsIn, HoldsDevice,
     OutOps, InOps, LockIds, Streams
<1> QED BY <1>1, <1>2, <1>3 DEF IInv

\* A restarted process is in the initial state.
LEMMA RestartInv == ASSUME Restart PROVE IInv'
<1>1. TypedCall' /\ TypedEcho' /\ TypedOut' /\ TypedIn'
  BY CallMode DEF Restart, TypedCall, TypedEcho, TypedOut, TypedIn
<1>2. TypedThreads'
  BY DEF Restart, TypedThreads, PCs, Ops
<1>3. ASSUME NEW t \in Threads PROVE Mine(t)'
  BY Distinct DEF Restart, Mine, HasStreams, Place, Owner, HoldsOut, HoldsIn, HoldsDevice,
     OutOps, InOps, LockIds, Streams
<1> QED BY <1>1, <1>2, <1>3 DEF IInv

LEMMA ThreadStepInv ==
    ASSUME IInv, NEW t \in Threads, Step(t)
    PROVE  IInv' /\ Frame(t)
<1>1. CASE LockDevice(t)
  BY <1>1, LockDeviceInv
<1>2. CASE OutStep(t)
  BY <1>2, LockOutInv, OutWriteInv, OutWriteDoneInv, OutWriteForceInv, OutStandbyInv,
     FreeOutInv, OutSetParametersInv DEF OutStep
<1>3. CASE InStep(t)
  BY <1>3, LockInInv, InputStandbyPutInv, InStandbyInv, FreeInInv, InNothingInv,
     InReadInv, InReadPutInv, InReadAddInv, InReadOpenInv, InReadDoneInv DEF InStep
<1>4. CASE ModeStep(t)
  BY <1>4, ModeReturnInv, ForceAllInv, ModeOutStandbyInv DEF ModeStep
<1> QED BY <1>1, <1>2, <1>3, <1>4 DEF Step

LEMMA NextInv == IInv /\ [Next]_vars => IInv'
<1> SUFFICES ASSUME IInv, [Next]_vars PROVE IInv'
  OBVIOUS
<1>1. CASE Begin
  BY <1>1, CallInv, OpenInv DEF Begin
<1>2. CASE \E t \in Threads : Step(t)
  BY <1>2, ThreadStepInv
<1>3. CASE Restart
  BY <1>3, RestartInv
<1>4. CASE UNCHANGED vars
  BY <1>4 DEF IInv, TypedCall, TypedEcho, TypedOut, TypedIn, TypedThreads, Mine, HasStreams,
     Place, Owner, HoldsOut, HoldsIn, vars, call, echo, outSt, inSt, inCfg, opened, threads
<1> QED BY <1>1, <1>2, <1>3, <1>4 DEF Next

\* The inductive invariant holds of every behaviour: every thread holds
\* exactly the mutexes its place in audio_hw.c says it does.
THEOREM Invariant == Spec => []IInv
BY InitInv, NextInv, PTL DEF Spec

\* Type correctness, and every thread that is about to lock or use a stream
\* has one, whatever the other threads do to adev->active_output/active_input
\* meanwhile.
THEOREM TypeCorrect == Spec => []TypeOK
<1>1. IInv => TypeOK
  BY DEF IInv, Mine, TypeOK
<1> QED BY <1>1, Invariant, PTL

\* The mutexes are acquired in the order the NOTE in audio_hw.c demands, by
\* any number of threads on any number of streams.
THEOREM LockOrderHolds == Spec => []LockOrder
<1>1. IInv => LockOrder
  <2> SUFFICES ASSUME IInv, NEW t \in Threads
               PROVE  /\ pc[t] \in {"adev", "force"} => \A l \in LockIds : lock[l] # t
                      /\ pc[t] = "in" => \A o \in Outs : lock[o] # t
    BY DEF LockOrder
  <2> QED BY HeldNone, HeldDevice, Distinct DEF Held, LockIds, Streams
<1> QED BY <1>1, Invariant, PTL

-----------------------------------------------------------------------------
(***************************************************************************)
(* A stream is started and put into standby only by the thread that holds  *)
(* both its mutex and the device's, so a thread doing I/O under the        *)
(* stream's mutex alone keeps its pcm.                                     *)
(***************************************************************************)
OutKept(o) == out_standby'[o] = out_standby[o] /\ out_pcm'[o] = out_pcm[o]
InKept(i)  == in_standby'[i] = in_standby[i] /\ in_pcm'[i] = in_pcm[i]

OnlyOwn(t) ==
    /\ \A o \in Outs : OutKept(o) \/ (lock[ADEV] = t /\ lock[o] = t)
    /\ \A i \in Ins : InKept(i) \/ (lock[ADEV] = t /\ lock[i] = t)

LEMMA OutStepOwn ==
    ASSUME IInv, NEW t \in Threads, OutStep(t)
    PROVE  OnlyOwn(t)
<1>1. \A i \in Ins : InKept(i)
  BY DEF OutStep, LockOut, OutWrite, OutWriteDone, OutWriteForce, OutStandby, FreeOut,
     OutSetParameters, inSt, InKept
<1>2. CASE UNCHANGED outSt
  BY <1>1, <1>2 DEF outSt, OnlyOwn, OutKept
<1>3. CASE pc[t] = "outBody" /\ \A o \in Outs : o # outp[t] => OutKept(o)
  <2>1. lock[ADEV] = t /\ lock[outp[t]] = t
    BY <1>3, HeldOut DEF Held, LockIds
  <2> QED BY <1>1, <1>3, <2>1 DEF OnlyOwn
<1>4. UNCHANGED outSt \/ (pc[t] = "outBody" /\ \A o \in Outs : o # outp[t] => OutKept(o))
  <2>1. CASE OutWrite(t)
    BY <2>1 DEF OutWrite, At, StartOutput, StartOutputFails, OutKept, outSt, IInv, TypedOut
  <2>2. CASE OutStandby(t) \/ OutSetParameters(t)
    BY <2>2 DEF OutStandby, OutSetParameters, At, DoOutputStandby, OutKept, outSt,
       IInv, TypedOut
  <2>3. CASE LockOut(t) \/ OutWriteDone(t) \/ OutWriteForce(t) \/ FreeOut(t)
    BY <2>3 DEF LockOut, OutWriteDone, OutWriteForce, FreeOut
  <2> QED BY <2>1, <2>2, <2>3 DEF OutStep
<1> QED BY <1>2, <1>3, <1>4

LEMMA InStepOwn ==
    ASSUME IInv, NEW t \in Threads, InStep(t)
    PROVE  OnlyOwn(t)
<1>1. \A o \in Outs : OutKept(o)
  BY DEF InStep, LockIn, InputStandbyPut, InStandby, FreeIn, InSetParameters, InAec,
     InNothing, InRead, InReadPut, InReadAdd, InReadOpen, InReadDone, outSt, OutKept
<1>2. CASE UNCHANGED <<in_standby, in_pcm>>
  BY <1>1, <1>2 DEF OnlyOwn, InKept
<1>3. CASE /\ pc[t] \in {"inBody", "put", "inOpen"}
           /\ \A i \in Ins : i # inp[t] => InKept(i)
  <2>1. lock[ADEV] = t /\ lock[inp[t]] = t
    BY <1>3, HeldIn DEF Held, LockIds
  <2> QED BY <1>1, <1>3, <2>1 DEF OnlyOwn
<1>4. \/ UNCHANGED <<in_standby, in_pcm>>
      \/ /\ pc[t] \in {"inBody", "put", "inOpen"}
         /\ \A i \in Ins : i # inp[t] => InKept(i)
  <2>1. CASE InStandby(t) \/ InSetParameters(t) \/ InAec(t)
    <3>1. pc[t] = "inBody" /\ DoInputStandby(t)
      BY <2>1 DEF InStandby, InSetParameters, InAec, At
    <3> QED BY <3>1 DEF DoInputStandby, InKept, inSt, IInv, TypedIn
  <2>2. CASE InputStandbyPut(t) \/ InReadOpen(t)
    BY <2>2 DEF InputStandbyPut, InReadOpen, At, InKept, IInv, TypedIn
  <2>3. CASE LockIn(t) \/ FreeIn(t) \/ InNothing(t) \/ InRead(t) \/ InReadPut(t)
             \/ InReadAdd(t) \/ InReadDone(t)
    BY <2>3 DEF LockIn, FreeIn, InNothing, InRead, InReadPut, InReadAdd, InReadDone, inSt
  <2> QED BY <2>1, <2>2, <2>3 DEF InStep
<1> QED BY <1>2, <1>3, <1>4

LEMMA ModeStepOwn ==
    ASSUME IInv, NEW t \in Threads, ModeStep(t)
    PROVE  OnlyOwn(t)
<1>1. \A i \in Ins : InKept(i)
  BY DEF ModeStep, SetSameMode, SetMode, EnterCall, LeaveCall, ModeOutStandby,
     SelectModeEnd, inSt, InKept
<1>2. CASE ModeOutStandby(t)
  <2>1. lock[ADEV] = t /\ lock[outp[t]] = t
    BY <1>2, HeldOut DEF ModeOutStandby, At, Held, LockIds
  <2>2. \A o \in Outs : o # outp[t] => OutKept(o)
    BY <1>2 DEF ModeOutStandby, DoOutputStandby, OutKept, outSt, IInv, TypedOut
  <2> QED BY <1>1, <2>1, <2>2 DEF OnlyOwn
<1>3. CASE SetSameMode(t) \/ SetMode(t) \/ EnterCall(t) \/ LeaveCall(t) \/ SelectModeEnd(t)
  BY <1>1, <1>3 DEF SetSameMode, SetMode, EnterCall, LeaveCall, SelectModeEnd, outSt,
     OnlyOwn, OutKept
<1> QED BY <1>2, <1>3 DEF ModeStep

LEMMA StepOwn ==
    ASSUME IInv, NEW t \in Threads, Step(t)
    PROVE  OnlyOwn(t)
BY OutStepOwn, InStepOwn, ModeStepOwn
   DEF Step, LockDevice, outSt, inSt, OnlyOwn, OutKept, InKept

LEMMA BeginOwn == Begin => UNCHANGED <<outSt, inSt>>
BY DEF Begin, CallOut, CallIn, CallSetMode, Call, OpenOut, OpenIn

StandbyWithLocks ==
    /\ \A o \in Outs : out_standby'[o] # out_standby[o]
          => \E t \in Threads : lock[ADEV] = t /\ lock[o] = t
    /\ \A i \in Ins : in_standby'[i] # in_standby[i]
          => \E t \in Threads : lock[ADEV] = t /\ lock[i] = t

\* "must be called with hw device and output (input) stream mutexes locked":
\* a stream starts or goes into standby only in a step of a thread that holds
\* the device's and the stream's mutex.
StandbyUnderLocks == [][~dead => StandbyWithLocks]_vars

\* "must be called with hw device and output (input) stream mutexes locked":
\* no step of any thread starts a stream or puts it into standby without them.
THEOREM StandbyUnderLocksHolds == Spec => StandbyUnderLocks
<1>1. IInv /\ [Next]_vars => [~dead => StandbyWithLocks]_vars
  <2> SUFFICES ASSUME IInv, Next, ~dead PROVE StandbyWithLocks
    OBVIOUS
  <2>1. CASE Begin
    BY <2>1, BeginOwn DEF outSt, inSt, StandbyWithLocks
  <2>2. CASE \E t \in Threads : Step(t)
    BY <2>2, StepOwn DEF OnlyOwn, OutKept, InKept, StandbyWithLocks
  <2> QED BY <2>1, <2>2 DEF Next, Restart
<1> QED BY <1>1, Invariant, PTL DEF Spec, StandbyUnderLocks


-----------------------------------------------------------------------------
(***************************************************************************)
(* I/O under the stream's mutex alone.  A stream that is not in standby    *)
(* has its pcm, except an input that a thread is putting into standby and  *)
(* that waits, with the input's mutex, for the active output's.            *)
(***************************************************************************)
Putting(t, i) == pc[t] = "put" /\ op[t] # "in_read" /\ inp[t] = i

OutRun == \A o \in Outs : ~out_standby[o] => out_pcm[o]

InRun == \A i \in Ins : ~in_standby[i] =>
            in_pcm[i] \/ \E t \in Threads : Putting(t, i)

IoOf(t) == pc[t] = "io" =>
    IF op[t] = "out_write" THEN out_pcm[outp[t]] /\ ~out_standby[outp[t]]
    ELSE in_pcm[inp[t]] /\ ~in_standby[inp[t]]

RunInv == OutRun /\ InRun /\ \A t \in Threads : IoOf(t)

\* The I/O of another thread is not disturbed: it has the stream's mutex.
LEMMA OthersIo ==
    ASSUME IInv, NEW t \in Threads, Step(t), NEW u \in Threads \ {t}, IoOf(u)
    PROVE  IoOf(u)'
<1>1. Frame(t) /\ OnlyOwn(t)
  BY ThreadStepInv, StepOwn
<1>2. SUFFICES ASSUME pc[u] = "io", pc'[u] = "io", op'[u] = op[u],
                      outp'[u] = outp[u], inp'[u] = inp[u]
               PROVE  IoOf(u)'
  BY <1>1 DEF Frame, IoOf
<1>3. CASE op[u] = "out_write"
  <2>1. outp[u] \in Outs /\ lock[outp[u]] = u
    BY <1>2, <1>3, HeldIoOut DEF Held
  <2> QED BY <1>1, <1>2, <1>3, <2>1 DEF OnlyOwn, OutKept, IoOf
<1>4. CASE op[u] # "out_write"
  <2>1. op[u] = "in_read"
    BY <1>2, <1>4 DEF IInv, Mine, Place
  <2>2. inp[u] \in Ins /\ lock[inp[u]] = u
    BY <1>2, <2>1, HeldIoIn DEF Held
  <2> QED BY <1>1, <1>2, <1>4, <2>2 DEF OnlyOwn, InKept, IoOf
<1> QED BY <1>3, <1>4

\* The thread's own steps to "io": out_write() has started the output or found
\* it running, in_read() the input, and no thread is putting it into standby.
LEMMA OwnIo ==
    ASSUME IInv, RunInv, NEW t \in Threads, Step(t)
    PROVE  IoOf(t)'
<1>1. CASE OutWrite(t)
  <2>1. outp[t] \in Outs /\ op'[t] = "out_write" /\ outp' = outp /\ TypedThreads /\ TypedOut
    BY <1>1, HeldOut DEF OutWrite, At, Goto, IInv
  <2>2. CASE ~out_standby[outp[t]] /\ UNCHANGED outSt
    BY <2>1, <2>2 DEF RunInv, OutRun, outSt, IoOf
  <2>3. CASE StartOutput(outp[t])
    BY <2>1, <2>3 DEF StartOutput, IoOf, TypedOut
  <2>4. CASE Goto(t, "fail")
    BY <2>4, <2>1 DEF Goto, IoOf, TypedThreads
  <2> QED BY <1>1, <2>2, <2>3, <2>4 DEF OutWrite
<1>2. CASE InRead(t)
  <2>1. /\ pc[t] = "inBody" /\ op[t] = "in_read" /\ inp[t] \in Ins /\ lock[inp[t]] = t
    BY <1>2, HeldIn DEF InRead, At, Held
  <2>2. CASE ~in_standby[inp[t]] /\ Goto(t, "io")
    <3>1. \A u \in Threads : ~Putting(u, inp[t])
      <4> SUFFICES ASSUME NEW u \in Threads, Putting(u, inp[t]) PROVE FALSE
        OBVIOUS
      <4>1. lock[inp[t]] = u
        BY HeldIn DEF Putting, Held
      <4> QED BY <4>1, <2>1 DEF Putting
    <3> QED BY <1>2, <2>1, <2>2, <3>1 DEF RunInv, InRun, InRead, Goto, IoOf
  <2>3. CASE in_standby[inp[t]]
    BY <1>2, <2>3 DEF InRead, CreateEcho, Goto, IoOf, IInv, TypedThreads
  <2> QED BY <1>2, <2>2, <2>3 DEF InRead
<1>3. CASE InReadOpen(t)
  <2>1. inp[t] \in Ins /\ op[t] = "in_read"
    BY <1>3, HeldIn DEF InReadOpen, At
  <2> QED BY <1>3, <2>1 DEF InReadOpen, Goto, IoOf, IInv, TypedThreads, TypedIn
<1>4. CASE LockDevice(t) \/ ModeStep(t)
  BY <1>4 DEF LockDevice, ModeStep, SetSameMode, SetMode, EnterCall, LeaveCall, ForceAllStandby,
     ModeOutStandby, SelectModeEnd, Goto, Return, IoOf, IInv, TypedThreads
<1>5. CASE LockOut(t) \/ OutWriteDone(t) \/ OutWriteForce(t) \/ OutStandby(t)
           \/ FreeOut(t) \/ OutSetParameters(t)
  BY <1>5 DEF LockOut, OutWriteDone, OutWriteForce, OutStandby, FreeOut, OutSetParameters,
     Goto, GotoIn, Return, IoOf, IInv, TypedThreads
<1>6. CASE InStandby(t) \/ InSetParameters(t) \/ InAec(t) \/ InputStandbyPut(t)
  BY <1>6 DEF InStandby, InSetParameters, InAec, InputStandbyPut, DoInputStandby,
     AfterInputStandby, Goto, Return, IoOf, IInv, TypedThreads
<1>7. CASE LockIn(t) \/ FreeIn(t) \/ InNothing(t) \/ InReadPut(t) \/ InReadAdd(t)
           \/ InReadDone(t)
  BY <1>7 DEF LockIn, FreeIn, InNothing, InReadPut, InReadAdd, InReadDone, CreateEcho,
     Goto, Return, IoOf, IInv, TypedThreads
<1> QED BY <1>1, <1>2, <1>3, <1>4, <1>5, <1>6, <1>7 DEF Step, OutStep, InStep

LEMMA OutRunStep ==
    ASSUME IInv, OutRun, NEW t \in Threads, Step(t)
    PROVE  OutRun'
<1>1. CASE OutWrite(t)
  BY <1>1, HeldOut DEF OutWrite, At, StartOutput, StartOutputFails, outSt, OutRun, IInv, TypedOut
<1>2. CASE OutStandby(t) \/ OutSetParameters(t) \/ ModeOutStandby(t)
  BY <1>2, HeldOut DEF OutStandby, OutSetParameters, ModeOutStandby, At, DoOutputStandby,
     outSt, OutRun, IInv, TypedOut
<1>3. CASE UNCHANGED <<out_standby, out_pcm>>
  BY <1>3 DEF OutRun
<1>4. CASE InStep(t)
  BY <1>3, <1>4 DEF InStep, LockIn, InputStandbyPut, InStandby, FreeIn, InSetParameters,
     InAec, InNothing, InRead, InReadPut, InReadAdd, InReadOpen, InReadDone, outSt
<1> QED BY <1>1, <1>2, <1>3, <1>4 DEF Step, LockDevice, OutStep, LockOut, OutWriteDone,
   OutWriteForce, FreeOut, ModeStep, SetSameMode, SetMode, EnterCall, LeaveCall,
   SelectModeEnd, outSt

LEMMA InRunStep ==
    ASSUME IInv, InRun, NEW t \in Threads, Step(t)
    PROVE  InRun'
<1> SUFFICES ASSUME NEW i \in Ins, ~in_standby'[i]
             PROVE  in_pcm'[i] \/ \E u \in Threads : Putting(u, i)'
  BY DEF InRun
<1>f. Frame(t) /\ OnlyOwn(t) /\ TypedIn /\ TypedThreads
  BY ThreadStepInv, StepOwn DEF IInv
<1>1. CASE \E u \in Threads \ {t} : Putting(u, i)
  BY <1>1, <1>f DEF Frame, Putting
<1>2. CASE InReadOpen(t)
  <2>1. inp[t] \in Ins
    BY <1>2, HeldIn DEF InReadOpen, At
  <2>2. pc[t] = "inOpen"
    BY <1>2 DEF InReadOpen, At
  <2> QED BY <1>1, <1>2, <1>f, <2>1, <2>2 DEF InReadOpen, InRun, Putting, TypedIn
<1>3. CASE InputStandbyPut(t)
  BY <1>1, <1>3, <1>f DEF InputStandbyPut, InRun, Putting, TypedIn
<1>4. CASE InStandby(t) \/ InSetParameters(t) \/ InAec(t)
  <2>1. pc[t] = "inBody" /\ inp[t] \in Ins /\ DoInputStandby(t) /\ op[t] # "in_read"
    BY <1>4, HeldIn DEF InStandby, InSetParameters, InAec, At, OutOps
  <2>2. CASE in_standby[inp[t]]
    BY <1>1, <2>1, <2>2 DEF DoInputStandby, inSt, InRun, Putting
  <2>3. CASE ~in_standby[inp[t]] /\ Goto(t, "put") /\ UNCHANGED in_standby
    <3>1. pc'[t] = "put" /\ op'[t] # "in_read" /\ inp'[t] = inp[t]
      BY <2>1, <2>3, GotoFacts, <1>f DEF PCs
    <3>2. i # inp[t] => InKept(i)
      BY <2>1, <2>3 DEF DoInputStandby, InKept, TypedIn, IInv
    <3> QED BY <1>1, <2>1, <3>1, <3>2 DEF InRun, InKept, Putting
  <2>4. CASE in_standby' = [in_standby EXCEPT ![inp[t]] = TRUE]
    <3>1. i # inp[t]
      BY <2>1, <2>4, <1>f DEF TypedIn
    <3>2. InKept(i)
      BY <2>1, <2>4, <3>1, <1>f DEF DoInputStandby, InKept, inSt, TypedIn
    <3> QED BY <1>1, <2>1, <3>2 DEF InRun, InKept, Putting
  <2> QED BY <2>1, <2>2, <2>3, <2>4 DEF DoInputStandby
<1>5. CASE UNCHANGED <<in_standby, in_pcm>> /\ (pc[t] # "put" \/ op[t] = "in_read")
  BY <1>1, <1>5 DEF InRun, Putting
<1>6. CASE OutStep(t) \/ ModeStep(t) \/ LockDevice(t)
  <2>1. UNCHANGED <<in_standby, in_pcm>> /\ pc[t] # "put"
    BY <1>6 DEF OutStep, LockOut, OutWrite, OutWriteDone, OutWriteForce, OutStandby, FreeOut,
       OutSetParameters, ModeStep, SetSameMode, SetMode, EnterCall, LeaveCall,
       ModeOutStandby, SelectModeEnd, LockDevice, At, inSt
  <2> QED BY <1>5, <2>1
<1>7. CASE LockIn(t) \/ FreeIn(t) \/ InNothing(t) \/ InRead(t) \/ InReadPut(t)
           \/ InReadAdd(t) \/ InReadDone(t)
  BY <1>5, <1>7 DEF LockIn, FreeIn, InNothing, InRead, InReadPut, InReadAdd, InReadDone,
     At, inSt
<1> QED BY <1>2, <1>3, <1>4, <1>6, <1>7 DEF Step, InStep

LEMMA RunInvInit == Init => RunInv
BY DEF Init, RunInv, OutRun, InRun, IoOf

LEMMA RunInvNext == IInv /\ RunInv /\ [Next]_vars => RunInv'
<1> SUFFICES ASSUME IInv, RunInv, [Next]_vars PROVE RunInv'
  OBVIOUS
<1>1. CASE \E t \in Threads : Step(t)
  <2>1. PICK t \in Threads : Step(t)
    BY <1>1
  <2>2. \A u \in Threads : IoOf(u)'
    BY <2>1, OthersIo, OwnIo DEF RunInv
  <2> QED BY <2>1, <2>2, OutRunStep, InRunStep DEF RunInv
<1>2. CASE Begin
  <2>1. UNCHANGED <<outSt, inSt>>
    BY <1>2, BeginOwn
  <2>2. ASSUME NEW u \in Threads
        PROVE  /\ pc[u] \notin {"idle", "adev"} <=> pc'[u] \notin {"idle", "adev"}
               /\ pc[u] \notin {"idle", "adev"} =>
                     pc'[u] = pc[u] /\ op'[u] = op[u] /\ outp'[u] = outp[u] /\ inp'[u] = inp[u]
    BY <1>2 DEF Begin, CallOut, CallIn, CallSetMode, Call, OpenOut, OpenIn, threads,
       IInv, TypedThreads
  <2> QED BY <2>1, <2>2 DEF RunInv, OutRun, InRun, IoOf, Putting, outSt, inSt
<1>3. CASE Restart
  BY <1>3 DEF Restart, RunInv, OutRun, InRun, IoOf
<1>4. CASE UNCHANGED vars
  BY <1>4 DEF vars, outSt, inSt, threads, RunInv, OutRun, InRun, IoOf, Putting
<1> QED BY <1>1, <1>2, <1>3, <1>4 DEF Next

\* Whatever other threads do, a thread in the I/O of out_write() or in_read(),
\* which it does with the stream's mutex alone, has a running stream with an
\* open pcm: for any number of threads and of open streams.
THEOREM IoPcmOpenHolds == Spec => []IoPcmOpen
<1>1. RunInv => IoPcmOpen
  BY DEF RunInv, IoOf, IoPcmOpen
<1> QED BY <1>1, Invariant, RunInvInit, RunInvNext, PTL DEF Spec

=============================================================================
