-------------------------- MODULE AudioCaptureProofs --------------------------
(***************************************************************************)
(* Theorems about AudioCapture, for every period, ratio, request and set   *)
(* of effects: the buffers are large enough for what is put into them, a   *)
(* stream that starts has nothing of its last session in its resampler,    *)
(* the delay the echo canceller is told is the age of its frames, and      *)
(* in_read() gives the frames in the order of their capture.               *)
(***************************************************************************)
EXTENDS AudioCapture, SequenceTheorems, WellFoundedInduction, TLAPS

-----------------------------------------------------------------------------
(***************************************************************************)
(* The inductive invariant.                                                *)
(***************************************************************************)
Typed ==
    /\ resampler \in BOOLEAN /\ mono \in BOOLEAN /\ remix \in BOOLEAN
    /\ standby \in BOOLEAN /\ need \in BOOLEAN /\ echo \in BOOLEAN
    /\ remix => mono
    /\ preprocessors \subseteq Effects
    /\ pc \in {"idle", "direct", "frames", "push", "process"}
    /\ frames \in Nat /\ wr \in Nat /\ frames_in \in 0 .. Period
    /\ proc_buf_size \in Nat /\ ref_frames_in \in Nat /\ ref_buf_size \in Nat
    /\ next \in Nat \ {0} /\ started \in 0 .. next

\* All that waits has been captured, or is junk.
Past ==
    /\ buffer \in [1 .. Period -> 0 .. next - 1]
    /\ rs \in Seq(0 .. next - 1) /\ got \in Seq(0 .. next - 1)
    /\ proc \in Seq(0 .. next - 1) /\ fx \in Seq(0 .. next - 1)

\* What the calls that are under way rely on.
Sized ==
    /\ Len(rs) < Rate
    /\ Len(proc) <= proc_buf_size /\ ref_frames_in <= ref_buf_size
    /\ pc = "idle" \/ (frames > 0 /\ wr < frames /\ ~standby)
    /\ pc = "frames" => /\ Wanted > 0 /\ Len(got) <= Wanted
                        /\ preprocessors # {} => frames <= proc_buf_size
    /\ pc # "frames" => got = <<>>
    /\ pc = "direct" => preprocessors = {} /\ ~resampler
    /\ pc \in {"push", "process"} => preprocessors # {}
    /\ pc = "push" => Len(proc) >= frames

\* A resampled stream that runs has no frames of before its start.
Recent ==
    resampler /\ ~standby =>
        LET Since == {i \in Nat : i >= started}
        IN  /\ rs \in Seq(Since) /\ got \in Seq(Since)
            /\ \A i \in Period - frames_in + 1 .. Period : buffer[i] \in Since

CInv == Typed /\ Past /\ Sized /\ Recent

(***************************************************************************)
(* Without a resampler, a frame has its place behind the driver: the next  *)
(* frame is at 0, then come the frames of the period buffer, those of the  *)
(* read_frames() in progress and those of proc_buf, the youngest first.    *)
(***************************************************************************)
Waits == frames_in + Len(got) + Len(proc)

At(o) ==
    IF o = 0 THEN next
    ELSE IF o <= frames_in THEN buffer[Period + 1 - o]
    ELSE IF o <= frames_in + Len(got) THEN got[frames_in + Len(got) + 1 - o]
    ELSE proc[Waits + 1 - o]

\* Is a frame from before a break?
Cut(i) == \E b \in breaks : ~(b <= i)

\* A frame that is not has the younger ones next to it.
Contiguous == \A o \in 1 .. Waits : Cut(At(o)) \/ \A p \in 0 .. o - 1 : At(p) = At(o) + (o - p)

\* What a path without effects leaves behind is cut off.
LeftBehind ==
    /\ pc = "frames" /\ preprocessors = {} => \A i \in 1 .. Len(proc) : Cut(proc[i])
    /\ pc = "direct" /\ Waits > 0 => next \in breaks

AInv == ~resampler => Contiguous /\ LeftBehind

-----------------------------------------------------------------------------
(***************************************************************************)
(* The resampler.                                                          *)
(***************************************************************************)
LEMMA Quotient ==
    ASSUME NEW n \in Nat, NEW d \in Nat \ {0}
    PROVE  /\ n \div d \in Nat /\ d * (n \div d) \in Nat
           /\ d * (n \div d) <= n /\ n < d * (n \div d) + d
  BY SMT

LEMMA QuotientBelow ==
    ASSUME NEW n \in Nat, NEW d \in Nat \ {0}, NEW m \in Nat, n <= d * m
    PROVE  n \div d <= m
  BY SMT

LEMMA MultipleBelow ==
    ASSUME NEW d \in Nat \ {0}, NEW q \in Nat, NEW i \in 1 .. q
    PROVE  d * (i - 1) + 1 \in 1 .. d * q
  <1>1. d * (i - 1) \in Nat /\ d * (i - 1) + d = d * i /\ d * i \in Nat /\ d * q \in Nat
    BY SMT
  <1>2. d * i <= d * q
    BY SMT
  <1> QED
    BY <1>1, <1>2

LEMMA RateIsPositive == Rate \in Nat \ {0}
  BY SizesPositive DEF Rate

LEMMA ResampledSeq ==
    ASSUME NEW S, NEW s \in Seq(S)
    PROVE  /\ Resampled(s) \in Seq(S) /\ Len(Resampled(s)) = Len(s) \div Rate
           /\ Kept(s) \in Seq(S) /\ Len(Kept(s)) < Rate
  <1> DEFINE q == Len(s) \div Rate
  <1>1. Len(s) \in Nat /\ \A i \in 1 .. Len(s) : s[i] \in S
    OBVIOUS
  <1>2. q \in Nat /\ Rate * q \in Nat /\ Rate * q <= Len(s) /\ Len(s) < Rate * q + Rate
    BY <1>1, RateIsPositive, Quotient
  <1>3. Resampled(s) = [i \in 1 .. q |-> s[Rate * (i - 1) + 1]]
    BY DEF Resampled
  <1>4. Kept(s) = SubSeq(s, Rate * q + 1, Len(s))
    BY DEF Kept
  <1> HIDE DEF q
  <1>5. \A i \in 1 .. q : s[Rate * (i - 1) + 1] \in S
    <2> TAKE i \in 1 .. q
    <2>1. Rate * (i - 1) + 1 \in 1 .. Rate * q
      BY <1>2, RateIsPositive, MultipleBelow
    <2> QED
      BY <1>1, <1>2, <2>1
  <1>6. Resampled(s) \in Seq(S) /\ Len(Resampled(s)) = q
    BY <1>2, <1>3, <1>5
  <1>7. Kept(s) \in Seq(S) /\ Len(Kept(s)) < Rate
    <2> DEFINE m == Rate * q + 1
    <2>1. m \in Int /\ m >= 1 /\ m - 1 <= Len(s) /\ Len(s) < m - 1 + Rate
      BY <1>2
    <2>2. Kept(s) = SubSeq(s, m, Len(s))
      BY <1>4
    <2> HIDE DEF m
    <2>3. /\ SubSeq(s, m, Len(s)) \in Seq(S)
          /\ Len(SubSeq(s, m, Len(s))) = IF m <= Len(s) THEN Len(s) - m + 1 ELSE 0
      BY <1>1, <2>1, SubSeqProperties
    <2> QED
      BY <1>1, <2>1, <2>2, <2>3, RateIsPositive
  <1> QED
    BY <1>6, <1>7 DEF q

LEMMA UnreadSeq ==
    ASSUME NEW S, NEW b, NEW n \in 0 .. Period,
           \A i \in Period - n + 1 .. Period : b[i] \in S
    PROVE  /\ Unread(b, n) \in Seq(S) /\ Len(Unread(b, n)) = n
           /\ \A i \in 1 .. n : Unread(b, n)[i] = b[Period - n + i]
  <1> DEFINE m == Period - n + 1
  <1>1. m \in Int /\ Period \in Int /\ \A i \in m .. Period : b[i] \in S
    BY SizesPositive
  <1>2. Unread(b, n) = SubSeq(b, m, Period)
    BY DEF Unread
  <1>3. /\ SubSeq(b, m, Period) \in Seq(S)
        /\ Len(SubSeq(b, m, Period)) = IF m <= Period THEN Period - m + 1 ELSE 0
        /\ \A i \in 1 .. Period - m + 1 : SubSeq(b, m, Period)[i] = b[m + i - 1]
    <2> HIDE DEF m
    <2> QED
      BY <1>1, SubSeqProperties
  <1>4. /\ (IF m <= Period THEN Period - m + 1 ELSE 0) = n
        /\ Period - m + 1 = n /\ \A i \in 1 .. n : m + i - 1 = Period - n + i
    BY SizesPositive
  <1> QED
    BY <1>2, <1>3, <1>4

\* The first k frames of a sequence.
LEMMA FirstSeq ==
    ASSUME NEW S, NEW s \in Seq(S), NEW k \in 0 .. Len(s)
    PROVE  /\ SubSeq(s, 1, k) \in Seq(S) /\ Len(SubSeq(s, 1, k)) = k
           /\ \A i \in 1 .. k : SubSeq(s, 1, k)[i] = s[i]
           /\ SubSeq(s, k + 1, Len(s)) \in Seq(S)
           /\ Len(SubSeq(s, k + 1, Len(s))) = Len(s) - k
           /\ \A i \in 1 .. Len(s) - k : SubSeq(s, k + 1, Len(s))[i] = s[k + i]
  OBVIOUS

\* What a turn of read_frames() leaves; S is what its frames have in common.
LEMMA TakenFrom ==
    ASSUME NEW S, Rate * (Wanted - Len(got)) \in Nat, Wanted \in Nat,
           got \in Seq(S), rs \in Seq(S), Len(rs) < Rate, Len(got) < Wanted,
           NEW b, NEW n \in 0 .. Period, \A i \in Period - n + 1 .. Period : b[i] \in S,
           Take(b, n), resampler' = resampler
    PROVE  /\ got' \in Seq(S) /\ Len(got') <= Wanted
           /\ rs' \in Seq(S) /\ Len(rs') < Rate
           /\ buffer' = b /\ frames_in' \in 0 .. n
  <1> DEFINE u     == Unread(b, n)
             k     == Least(n, Needed)
             first == SubSeq(u, 1, k)
             taken == rs \o first
             left  == Wanted - Len(got)
  <1>1. u \in Seq(S) /\ Len(u) = n
    BY UnreadSeq
  <1>2. Needed \in Nat /\ Needed = Rate * left - Len(rs)
    <2>1. Rate * left >= Rate
      BY RateIsPositive
    <2> QED
      BY <2>1, RateIsPositive DEF Needed
  <1>3. k \in 0 .. n /\ k <= Needed
    BY <1>2 DEF Least
  <1>4. /\ got' = got \o Resampled(taken) /\ rs' = Kept(taken)
        /\ buffer' = b /\ frames_in' = n - k
    BY DEF Take
  <1> HIDE DEF u, k
  <1>5. first \in Seq(S) /\ Len(first) = k
    BY <1>1, <1>3, FirstSeq
  <1> HIDE DEF first
  <1>6. taken \in Seq(S) /\ Len(taken) = Len(rs) + k
    BY <1>5
  <1> HIDE DEF taken
  <1>7. /\ Resampled(taken) \in Seq(S) /\ Len(Resampled(taken)) = Len(taken) \div Rate
        /\ Kept(taken) \in Seq(S) /\ Len(Kept(taken)) < Rate
    BY <1>6, ResampledSeq
  <1>8. Len(taken) \div Rate <= left
    <2>1. left \in Nat /\ Len(taken) \in Nat
      BY <1>6
    <2>2. Len(taken) <= Rate * left
      BY <1>2, <1>3, <1>6
    <2> HIDE DEF left
    <2> QED
      BY <2>1, <2>2, RateIsPositive, QuotientBelow
  <1>9. got' \in Seq(S) /\ Len(got') = Len(got) + Len(Resampled(taken))
    <2> DEFINE r == Resampled(taken)
    <2>1. r \in Seq(S) /\ got' = got \o r
      BY <1>4, <1>7
    <2> HIDE DEF r
    <2>2. got \o r \in Seq(S) /\ Len(got \o r) = Len(got) + Len(r)
      BY <2>1, ConcatProperties
    <2> QED
      BY <2>1, <2>2 DEF r
  <1>10. Len(got) + Len(Resampled(taken)) <= Wanted
    BY <1>7, <1>8
  <1> QED
    BY <1>3, <1>4, <1>7, <1>9, <1>10

LEMMA SeqSubset ==
    ASSUME NEW S, NEW T, S \subseteq T, NEW s \in Seq(S)
    PROVE  s \in Seq(T)
  OBVIOUS

-----------------------------------------------------------------------------
(***************************************************************************)
(* The invariant holds at first, and has the properties.                   *)
(***************************************************************************)
LEMMA InitInv == Init => CInv
  <1> SUFFICES ASSUME Init
               PROVE  CInv
    OBVIOUS
  <1> USE SizesPositive DEF Init
  <1>1. Typed
    <2>1. /\ resampler \in BOOLEAN /\ mono \in BOOLEAN /\ remix = FALSE
          /\ standby = TRUE /\ need = FALSE /\ echo = FALSE
      OBVIOUS
    <2>2. /\ preprocessors \subseteq Effects
          /\ pc \in {"idle", "direct", "frames", "push", "process"}
          /\ frames \in Nat /\ wr \in Nat /\ frames_in \in 0 .. Period
          /\ proc_buf_size \in Nat /\ ref_frames_in \in Nat /\ ref_buf_size \in Nat
          /\ next \in Nat \ {0} /\ started \in 0 .. next
      OBVIOUS
    <2> HIDE DEF Init
    <2> QED
      BY <2>1, <2>2 DEF Typed
  <1>2. Past
    BY DEF Past, Junk
  <1>3. Sized
    BY RateIsPositive DEF Sized
  <1>4. Recent
    BY DEF Recent
  <1> QED
    BY <1>1, <1>2, <1>3, <1>4 DEF CInv

LEMMA InvTypeOK == CInv => TypeOK
  <1> SUFFICES ASSUME CInv
               PROVE  TypeOK
    OBVIOUS
  <1> USE DEF CInv
  <1>1. Len(buffer) = Period
    BY SizesPositive DEF Past
  <1>2. ASSUME pc = "frames", preprocessors # {}
        PROVE  Len(proc) + Wanted <= proc_buf_size
    BY <1>2 DEF Sized, Wanted, Typed, Past
  <1>3. pc = "frames" => Len(got) <= Wanted
    BY DEF Sized
  <1>4. Len(rs) < Rate /\ Len(proc) <= proc_buf_size /\ ref_frames_in <= ref_buf_size
    BY DEF Sized
  <1>5. pc \in {"push", "process"} => wr < frames /\ preprocessors # {}
    BY DEF Sized
  <1>6. {resampler, mono, remix, standby, need, echo} \subseteq BOOLEAN
    BY DEF Typed
  <1>7. /\ remix => mono
        /\ preprocessors \subseteq Effects
        /\ pc \in {"idle", "direct", "frames", "push", "process"}
        /\ frames_in \in 0 .. Period
    BY DEF Typed
  <1> QED
    BY <1>1, <1>2, <1>3, <1>4, <1>5, <1>6, <1>7 DEF TypeOK

LEMMA InvFresh == CInv => Fresh
  <1> SUFFICES ASSUME CInv, pc = "frames", preprocessors = {}, resampler,
                      NEW i \in ToSet(got \o rs)
               PROVE  i >= started
    BY DEF Fresh
  <1> DEFINE Since == {j \in Nat : j >= started}
  <1>1. ~standby
    BY DEF CInv, Sized
  <1>2. rs \in Seq(Since) /\ got \in Seq(Since)
    BY <1>1 DEF CInv, Recent
  <1> HIDE DEF Since
  <1>3. got \o rs \in Seq(Since)
    BY <1>2
  <1>4. i \in Since
    BY <1>3 DEF ToSet
  <1> QED
    BY <1>4 DEF Since

-----------------------------------------------------------------------------
(***************************************************************************)
(* in_read(): starting the stream.                                         *)
(***************************************************************************)
\* What ChoosePath() leaves to be relied on.
PathLeft(n) ==
    /\ pc' \in {"direct", "frames", "push"} /\ frames' = n /\ wr' = 0 /\ got' = <<>>
    /\ proc_buf_size' \in Nat /\ Len(proc') <= proc_buf_size'
    /\ pc' = "frames" => /\ Wanted' > 0 /\ Len(got') <= Wanted'
                         /\ preprocessors' # {} => frames' <= proc_buf_size'
    /\ pc' = "direct" => preprocessors' = {} /\ ~resampler'
    /\ pc' = "push" => preprocessors' # {} /\ Len(proc') >= frames'

LEMMA PathSized ==
    ASSUME Typed, Past, NEW n \in Nat \ {0}, pc = "idle", got = <<>>, ChoosePath(n),
           UNCHANGED <<preprocessors, proc, resampler>>, remix' \in BOOLEAN,
           Len(proc) <= proc_buf_size, ~standby'
    PROVE  PathLeft(n)
  <1>1. Len(proc) \in Nat /\ proc_buf_size \in Nat
    BY DEF Typed, Past
  <1>2. CASE preprocessors = {}
    <2>1. pc' = (IF resampler \/ remix' THEN "frames" ELSE "direct")
      BY <1>2 DEF ChoosePath
    <2>2. got' = <<>> /\ proc_buf_size' = proc_buf_size /\ frames' = n /\ wr' = 0
      BY <1>2 DEF ChoosePath
    <2>3. Wanted' = n
      BY <1>2, <2>2 DEF Wanted
    <2> QED
      BY <1>1, <1>2, <2>1, <2>2, <2>3 DEF Typed, PathLeft
  <1>3. CASE preprocessors # {}
    <2>1. got' = <<>> /\ frames' = n /\ wr' = 0
      BY <1>3 DEF ChoosePath, Reload
    <2>2. CASE Len(proc) < n
      <3>1. pc' = "frames" /\ proc_buf_size' = Most(proc_buf_size, n)
        BY <1>3, <2>2 DEF ChoosePath, Reload
      <3>2. Wanted' = n - Len(proc)
        BY <1>3, <2>1 DEF Wanted
      <3> QED
        BY <1>1, <1>3, <2>1, <2>2, <3>1, <3>2 DEF Most, PathLeft
    <2>3. CASE ~(Len(proc) < n)
      <3>1. pc' = "push" /\ proc_buf_size' = proc_buf_size
        BY <1>3, <2>3 DEF ChoosePath, Reload
      <3> QED
        BY <1>1, <1>3, <2>1, <2>3, <3>1 DEF PathLeft
    <2> QED
      BY <2>2, <2>3
  <1> QED
    BY <1>2, <1>3

LEMMA StartInv ==
    ASSUME CInv, NEW n \in Requests, Start(n)
    PROVE  CInv'
  <1> USE DEF CInv
  <1>1. n \in Nat \ {0} /\ got = <<>>
    BY RequestsPositive DEF Start, Sized
  <1>2. /\ pc = "idle" /\ standby /\ standby' = FALSE /\ next' = next + 1 /\ started' = next'
        /\ ChoosePath(n)
        /\ UNCHANGED <<resampler, mono, preprocessors, need, proc, fx, ref_frames_in,
                       ref_buf_size>>
    BY DEF Start, effects
  <1>3. /\ remix' \in BOOLEAN
        /\ remix' => mono
    BY DEF Start, Remix, Typed
  <1>4. echo' \in BOOLEAN
    BY DEF Start, GetEcho, Typed
  <1>5. buffer' \in [1 .. Period -> 0 .. next' - 1]
    <2>1. buffer' = buffer \/ buffer' = [i \in 1 .. Period |-> Junk]
      BY DEF Start, Remix
    <2> QED
      BY <1>2, <2>1 DEF Past, Typed, Junk
  <1>6. \/ resampler /\ frames_in' = 0 /\ rs' = <<>>
        \/ ~resampler /\ frames_in' = frames_in /\ rs' = rs
    BY DEF Start, Typed
  <1>7. PathLeft(n)
    <2>1. Len(proc) <= proc_buf_size
      BY DEF Sized
    <2>2. Typed /\ Past /\ pc = "idle" /\ UNCHANGED <<preprocessors, proc, resampler>>
      BY <1>2
    <2>3. remix' \in BOOLEAN /\ ~standby' /\ ChoosePath(n)
      BY <1>2, <1>3
    <2> QED
      BY <1>1, <2>1, <2>2, <2>3, PathSized
  <1>8. Typed'
    <2>1. /\ resampler' \in BOOLEAN /\ mono' \in BOOLEAN /\ need' \in BOOLEAN
          /\ preprocessors' \subseteq Effects /\ standby' \in BOOLEAN
      BY <1>2 DEF Typed
    <2>2. frames_in' \in 0 .. Period
      BY <1>6, SizesPositive DEF Typed
    <2>3. /\ ref_frames_in' \in Nat /\ ref_buf_size' \in Nat
          /\ next' \in Nat \ {0} /\ started' \in 0 .. next'
      BY <1>2 DEF Typed
    <2>4. /\ pc' \in {"idle", "direct", "frames", "push", "process"}
          /\ frames' \in Nat /\ wr' \in Nat /\ proc_buf_size' \in Nat
      BY <1>1, <1>7 DEF PathLeft
    <2>5. remix' => mono'
      BY <1>2, <1>3
    <2> QED
      BY <1>3, <1>4, <2>1, <2>2, <2>3, <2>4, <2>5 DEF Typed
  <1>9. Past'
    <2>1. next \in Nat /\ 0 .. next - 1 \subseteq 0 .. next' - 1
      BY <1>2 DEF Typed
    <2>2. /\ rs \in Seq(0 .. next' - 1) /\ proc \in Seq(0 .. next' - 1)
          /\ fx \in Seq(0 .. next' - 1)
      BY <2>1, SeqSubset DEF Past
    <2>3. (rs' = rs \/ rs' = <<>>) /\ got' = <<>>
      BY <1>6, <1>7 DEF PathLeft
    <2> DEFINE S == Seq(0 .. next' - 1)
    <2>4. rs \in S /\ <<>> \in S
      BY <2>2
    <2> HIDE DEF S
    <2>5. rs' \in S /\ got' \in S
      BY <2>3, <2>4
    <2> QED
      BY <1>2, <1>5, <2>2, <2>5 DEF Past, S
  <1>10. Rate' = Rate
    BY <1>2 DEF Rate
  <1>11. Sized'
    <2>1. Len(rs') < Rate'
      BY <1>6, <1>10, RateIsPositive DEF Sized
    <2>2. ref_frames_in' <= ref_buf_size'
      BY <1>2 DEF Sized
    <2>3. frames' > 0 /\ wr' < frames' /\ ~standby'
      BY <1>1, <1>2, <1>7 DEF PathLeft
    <2> QED
      BY <1>7, <2>1, <2>2, <2>3 DEF Sized, PathLeft
  <1>12. Recent'
    BY <1>2, <1>6, <1>7, SizesPositive DEF Recent, PathLeft
  <1> QED
    BY <1>8, <1>9, <1>11, <1>12

LEMMA ReadInv ==
    ASSUME CInv, NEW n \in Requests, Read(n)
    PROVE  CInv'
  <1> USE DEF CInv
  <1>1. n \in Nat \ {0} /\ got = <<>>
    BY RequestsPositive DEF Read, Sized
  <1>2. /\ pc = "idle" /\ ~standby /\ ~standby' /\ ChoosePath(n)
        /\ UNCHANGED <<resampler, mono, remix, standby, preprocessors, need, proc, fx,
                       echo, ref_frames_in, ref_buf_size, buffer, frames_in, rs, next,
                       started>>
    BY DEF Read, stream, effects, input, reverse
  <1>3. PathLeft(n)
    <2>1. Len(proc) <= proc_buf_size /\ remix' \in BOOLEAN
      BY <1>2 DEF Sized, Typed
    <2> QED
      BY <1>1, <1>2, <2>1, PathSized
  <1>4. Typed'
    BY <1>1, <1>2, <1>3 DEF Typed, PathLeft
  <1>5. Past'
    BY <1>2, <1>3 DEF Past, PathLeft
  <1>6. Sized'
    <2>1. Len(rs') < Rate' /\ ref_frames_in' <= ref_buf_size'
      BY <1>2 DEF Sized, Rate
    <2>2. frames' > 0 /\ wr' < frames' /\ ~standby'
      BY <1>1, <1>2, <1>3 DEF PathLeft
    <2> QED
      BY <1>3, <2>1, <2>2 DEF Sized, PathLeft
  <1>7. Recent'
    BY <1>2, <1>3 DEF Recent, PathLeft
  <1> QED
    BY <1>4, <1>5, <1>6, <1>7

LEMMA StartFailsInv ==
    ASSUME CInv, StartFails
    PROVE  CInv'
  <1> USE DEF CInv
  <1>1. /\ pc = "idle" /\ standby
        /\ UNCHANGED <<resampler, mono, standby, preprocessors, need, pc, frames, wr, got,
                       frames_in, rs, proc, proc_buf_size, fx, ref_frames_in, ref_buf_size,
                       next, started>>
    BY DEF StartFails, effects, call, process
  <1>2. /\ remix' \in BOOLEAN
        /\ remix' => mono
        /\ buffer' = buffer \/ buffer' = [i \in 1 .. Period |-> Junk]
    BY DEF StartFails, Remix, Typed
  <1>3. echo' \in BOOLEAN
    BY DEF StartFails, GetEcho, Typed
  <1>4. Typed'
    <2>1. remix' => mono'
      BY <1>1, <1>2
    <2> QED
      BY <1>1, <1>2, <1>3, <2>1 DEF Typed
  <1>5. buffer' \in [1 .. Period -> 0 .. next' - 1]
    BY <1>1, <1>2 DEF Past, Typed, Junk
  <1>6. Past'
    BY <1>1, <1>5 DEF Past
  <1>7. Sized'
    BY <1>1 DEF Sized, Rate, Wanted
  <1>8. Recent'
    BY <1>1 DEF Recent
  <1> QED
    BY <1>4, <1>6, <1>7, <1>8

-----------------------------------------------------------------------------
(***************************************************************************)
(* in_read(): the frames.                                                  *)
(***************************************************************************)
LEMMA WiderRange ==
    ASSUME NEW m \in Nat, NEW n \in Nat, n >= m
    PROVE  0 .. m - 1 \subseteq 0 .. n - 1
  OBVIOUS

LEMMA LaterRange ==
    ASSUME NEW n \in Nat, NEW m \in 0 .. n, NEW p \in Nat
    PROVE  p - m + 1 .. p \subseteq p - n + 1 .. p
  OBVIOUS

\* The frames of before are still past when younger ones have been captured.
LEMMA StillPast ==
    ASSUME Typed, next' \in Nat, next' >= next
    PROVE  /\ \A s : s \in Seq(0 .. next - 1) => s \in Seq(0 .. next' - 1)
           /\ buffer \in [1 .. Period -> 0 .. next - 1]
                 => buffer \in [1 .. Period -> 0 .. next' - 1]
  <1>1. next \in Nat
    BY DEF Typed
  <1>2. 0 .. next - 1 \subseteq 0 .. next' - 1
    BY <1>1, WiderRange
  <1> QED
    BY <1>2, SeqSubset

\* in_read() returns, with its frames or a failure, and leaves the buffers.
LEMMA ReturnInv ==
    ASSUME CInv, Return, pc \in {"direct", "frames"}, got' = <<>>,
           next' \in Nat, next' >= next,
           UNCHANGED <<stream, effects, input, process, reverse, started>>
    PROVE  CInv'
  <1> USE DEF CInv
  <1>1. /\ pc' = "idle" /\ frames' = 0 /\ wr' = 0
        /\ UNCHANGED <<resampler, mono, remix, standby, preprocessors, need, buffer,
                       frames_in, rs, proc, proc_buf_size, fx, echo, ref_frames_in,
                       ref_buf_size, started>>
    BY DEF Return, stream, effects, input, process, reverse
  <1>2. Typed'
    BY <1>1 DEF Typed
  <1>3. Past'
    <2>1. /\ buffer \in [1 .. Period -> 0 .. next' - 1] /\ rs \in Seq(0 .. next' - 1)
          /\ proc \in Seq(0 .. next' - 1) /\ fx \in Seq(0 .. next' - 1)
      BY StillPast DEF Past
    <2>2. <<>> \in Seq(0 .. next' - 1)
      OBVIOUS
    <2> QED
      BY <1>1, <2>1, <2>2 DEF Past
  <1>4. Sized'
    BY <1>1 DEF Sized, Rate
  <1>5. Recent'
    <2>1. <<>> \in Seq({i \in Nat : i >= started})
      OBVIOUS
    <2> QED
      BY <1>1, <2>1 DEF Recent
  <1> QED
    BY <1>2, <1>3, <1>4, <1>5

LEMMA ReadDirectInv ==
    ASSUME CInv, ReadDirect \/ ReadDirectFails
    PROVE  CInv'
  <1>1. /\ pc = "direct" /\ Return
        /\ UNCHANGED <<stream, effects, input, process, reverse, started>>
    BY DEF ReadDirect, ReadDirectFails
  <1>2. got' = <<>>
    BY <1>1 DEF ReadDirect, ReadDirectFails, CInv, Sized
  <1>3. next' \in Nat /\ next' >= next
    BY DEF ReadDirect, ReadDirectFails, CInv, Typed
  <1> QED
    BY <1>1, <1>2, <1>3, ReturnInv

LEMMA FramesReadInv ==
    ASSUME CInv, FramesRead \/ ReadPeriodFails
    PROVE  CInv'
  <1>1. /\ pc = "frames" /\ Return /\ got' = <<>>
        /\ UNCHANGED <<stream, effects, input, process, reverse, started>>
    BY DEF FramesRead, ReadPeriodFails
  <1>2. next' \in Nat /\ next' >= next
    BY DEF FramesRead, ReadPeriodFails, CInv, Typed
  <1> QED
    BY <1>1, <1>2, ReturnInv

LEMMA ProductInNat ==
    ASSUME NEW d \in Nat, NEW m \in Nat
    PROVE  d * m \in Nat
  BY SMT

\* A turn of read_frames() with n frames of b unread.
LEMMA TurnInv ==
    ASSUME CInv, pc = "frames", Len(got) < Wanted, next' \in Nat, next' >= next,
           NEW b \in [1 .. Period -> 0 .. next' - 1], NEW n \in 0 .. Period,
           resampler => \A i \in Period - n + 1 .. Period : b[i] >= started,
           Take(b, n),
           UNCHANGED <<stream, effects, pc, frames, wr, process, reverse, started>>
    PROVE  CInv'
  <1> USE DEF CInv
  <1>1. /\ UNCHANGED <<resampler, mono, remix, standby, preprocessors, need, pc, frames, wr,
                       proc, proc_buf_size, fx, echo, ref_frames_in, ref_buf_size, started>>
    BY DEF stream, effects, process, reverse
  <1> DEFINE New   == 0 .. next' - 1
             Since == {i \in Nat : i >= started}
  <1>2. rs \in Seq(New) /\ got \in Seq(New) /\ proc \in Seq(New) /\ fx \in Seq(New)
    BY StillPast DEF Past
  <1>3. Wanted \in Nat /\ Len(got) \in Nat /\ Rate * (Wanted - Len(got)) \in Nat
    <2>1. Len(got) \in Nat /\ Len(proc) \in Nat /\ frames \in Nat
      BY DEF Past, Typed
    <2>2. Wanted \in Nat
      BY <2>1 DEF Sized, Wanted
    <2>3. Wanted - Len(got) \in Nat
      BY <2>1, <2>2
    <2> QED
      BY <2>1, <2>2, <2>3, RateIsPositive, ProductInNat
  <1>4. \A i \in Period - n + 1 .. Period : b[i] \in New /\ i \in 1 .. Period
    BY SizesPositive
  <1>5. Len(rs) < Rate
    BY DEF Sized
  <1> HIDE DEF New, Since
  <1>6. /\ got' \in Seq(New) /\ Len(got') <= Wanted
        /\ rs' \in Seq(New) /\ Len(rs') < Rate
        /\ buffer' = b /\ frames_in' \in 0 .. n
    BY <1>1, <1>2, <1>3, <1>4, <1>5, TakenFrom
  <1>7. Typed'
    <2>1. frames_in' \in 0 .. Period
      BY <1>6, SizesPositive
    <2>2. next' \in Nat \ {0} /\ started' \in 0 .. next'
      BY <1>1 DEF Typed
    <2> QED
      BY <1>1, <2>1, <2>2 DEF Typed
  <1>8. Past'
    BY <1>1, <1>2, <1>6 DEF Past, New
  <1>9. Sized'
    <2>1. Rate' = Rate /\ Wanted' = Wanted
      BY <1>1 DEF Rate, Wanted
    <2> QED
      BY <1>1, <1>6, <2>1 DEF Sized
  <1>10. Recent'
    <2> SUFFICES ASSUME resampler, ~standby
                 PROVE  /\ rs' \in Seq(Since) /\ got' \in Seq(Since)
                        /\ \A i \in Period - frames_in' + 1 .. Period : buffer'[i] \in Since
      BY <1>1 DEF Recent, Since
    <2>1. rs \in Seq(Since) /\ got \in Seq(Since)
      BY DEF Recent, Since
    <2>2. \A i \in Period - n + 1 .. Period : b[i] \in Since
      BY <1>4 DEF Since, New
    <2>3. /\ got' \in Seq(Since) /\ rs' \in Seq(Since)
      BY <1>1, <1>3, <1>5, <2>1, <2>2, TakenFrom
    <2>4. Period - frames_in' + 1 .. Period \subseteq Period - n + 1 .. Period
      <3>1. n \in Nat /\ Period \in Nat
        BY SizesPositive
      <3> QED
        BY <1>6, <3>1, LaterRange, Zenon
    <2> QED
      BY <1>6, <2>2, <2>3, <2>4
  <1> QED
    BY <1>7, <1>8, <1>9, <1>10

LEMMA ReadBufferedInv ==
    ASSUME CInv, ReadBuffered
    PROVE  CInv'
  <1>1. /\ pc = "frames" /\ Len(got) < Wanted /\ Take(buffer, frames_in)
        /\ UNCHANGED <<stream, effects, pc, frames, wr, process, reverse, next, started>>
    BY DEF ReadBuffered, history
  <1>2. next' \in Nat /\ next' >= next
    BY <1>1 DEF CInv, Typed
  <1>3. buffer \in [1 .. Period -> 0 .. next' - 1] /\ frames_in \in 0 .. Period
    BY <1>1 DEF CInv, Past, Typed
  <1>4. resampler => \A i \in Period - frames_in + 1 .. Period : buffer[i] >= started
    BY <1>1 DEF CInv, Recent, Sized
  <1> QED
    BY <1>1, <1>2, <1>3, <1>4, TurnInv

LEMMA CapturedFrames ==
    ASSUME next \in Nat \ {0}, next' = next + Period
    PROVE  /\ Captured(next, Period) \in [1 .. Period -> 0 .. next' - 1]
           /\ \A i \in 1 .. Period : Captured(next, Period)[i] = next + i - 1
  BY SizesPositive DEF Captured

LEMMA ReadPeriodInv ==
    ASSUME CInv, ReadPeriod
    PROVE  CInv'
  <1>1. /\ pc = "frames" /\ Len(got) < Wanted /\ next' = next + Period
        /\ Take(Captured(next, Period), Period)
        /\ UNCHANGED <<stream, effects, pc, frames, wr, process, reverse, started>>
    BY DEF ReadPeriod
  <1>2. next \in Nat \ {0} /\ started \in 0 .. next
    BY DEF CInv, Typed
  <1>3. next' \in Nat /\ next' >= next /\ Period \in 0 .. Period
    BY <1>1, <1>2, SizesPositive
  <1> DEFINE b == Captured(next, Period)
  <1>4. b \in [1 .. Period -> 0 .. next' - 1] /\ \A i \in 1 .. Period : b[i] = next + i - 1
    BY <1>1, <1>2, CapturedFrames
  <1>5. Take(b, Period)
    BY <1>1
  <1> HIDE DEF b
  <1>6. \A i \in Period - Period + 1 .. Period : b[i] >= started
    BY <1>2, <1>4, SizesPositive
  <1> QED
    BY <1>1, <1>3, <1>4, <1>5, <1>6, TurnInv

LEMMA ReloadedInv ==
    ASSUME CInv, Reloaded
    PROVE  CInv'
  <1> USE DEF CInv
  <1>1. /\ pc = "frames" /\ Len(got) = Wanted /\ preprocessors # {}
        /\ proc' = proc \o got /\ got' = <<>> /\ pc' = "push"
        /\ UNCHANGED <<resampler, mono, remix, standby, preprocessors, need, frames, wr,
                       buffer, frames_in, rs, proc_buf_size, fx, echo, ref_frames_in,
                       ref_buf_size, next, started>>
    BY DEF Reloaded, stream, effects, input, reverse, history
  <1>2. Typed'
    BY <1>1 DEF Typed
  <1> DEFINE New == 0 .. next - 1
  <1>3. proc \in Seq(New) /\ got \in Seq(New) /\ rs \in Seq(New) /\ fx \in Seq(New)
    BY DEF Past
  <1>4. proc' \in Seq(New) /\ got' \in Seq(New) /\ Len(proc') = Len(proc) + Len(got)
    <2> HIDE DEF New
    <2>1. <<>> \in Seq(New)
      OBVIOUS
    <2> QED
      BY <1>1, <1>3, <2>1, ConcatProperties
  <1>5. Past'
    BY <1>1, <1>3, <1>4 DEF Past
  <1>6. Sized'
    <2>1. Len(proc) \in Nat /\ frames \in Nat /\ Wanted = frames - Len(proc)
      BY <1>1 DEF Past, Typed, Wanted
    <2>2. Len(proc') = frames
      BY <1>1, <1>4, <2>1
    <2>3. Rate' = Rate
      BY <1>1 DEF Rate
    <2> QED
      BY <1>1, <2>1, <2>2, <2>3 DEF Sized
  <1>7. Recent'
    <2>1. <<>> \in Seq({i \in Nat : i >= started})
      OBVIOUS
    <2> QED
      BY <1>1, <2>1 DEF Recent
  <1> QED
    BY <1>2, <1>5, <1>6, <1>7

-----------------------------------------------------------------------------
(***************************************************************************)
(* process_frames(): the effects.                                          *)
(***************************************************************************)
LEMMA PushInv ==
    ASSUME CInv, PushEcho \/ NoEcho
    PROVE  CInv'
  <1> USE DEF CInv
  <1>1. /\ pc = "push" /\ pc' = "process"
        /\ UNCHANGED <<resampler, mono, remix, standby, preprocessors, need, frames, wr, got,
                       buffer, frames_in, rs, proc, proc_buf_size, fx, echo, next, started>>
    BY DEF PushEcho, NoEcho, stream, effects, input, process, reverse, history
  <1>2. /\ ref_frames_in' \in Nat /\ ref_buf_size' \in Nat
        /\ ref_frames_in' <= ref_buf_size'
    <2>1. Len(proc) \in Nat /\ ref_frames_in \in Nat /\ ref_buf_size \in Nat
          /\ ref_frames_in <= ref_buf_size
      BY DEF Typed, Past, Sized
    <2>2. CASE NoEcho
      BY <2>1, <2>2 DEF NoEcho, reverse
    <2>3. CASE PushEcho
      <3>1. ref_buf_size' = Most(ref_buf_size, Len(proc))
        BY <2>3 DEF PushEcho
      <3>2. PICK n \in {Most(ref_frames_in, Len(proc)), ref_frames_in} : ProcessReverse(n)
        BY <2>3 DEF PushEcho
      <3>3. n \in Nat /\ n <= ref_buf_size' /\ ref_buf_size' \in Nat
        BY <2>1, <3>1, <3>2 DEF Most
      <3>4. Least(n, Len(proc)) \in 0 .. n
        BY <2>1, <3>3 DEF Least
      <3>5. PICK k \in 0 .. Least(n, Len(proc)) : ref_frames_in' = n - k
        BY <3>2, <3>4 DEF ProcessReverse
      <3> QED
        BY <3>3, <3>4, <3>5
    <2> QED
      BY <2>2, <2>3
  <1>3. Typed'
    BY <1>1, <1>2 DEF Typed
  <1>4. Past'
    BY <1>1 DEF Past
  <1>5. Sized'
    <2>1. Rate' = Rate
      BY <1>1 DEF Rate
    <2> QED
      BY <1>1, <1>2, <2>1 DEF Sized
  <1>6. Recent'
    BY <1>1 DEF Recent
  <1> QED
    BY <1>3, <1>4, <1>5, <1>6

LEMMA ProcessInv ==
    ASSUME CInv, Process
    PROVE  CInv'
  <1> USE DEF CInv
  <1>1. /\ pc = "process"
        /\ UNCHANGED <<resampler, mono, remix, standby, preprocessors, need, buffer,
                       frames_in, rs, echo, ref_frames_in, ref_buf_size, next, started>>
    BY DEF Process, stream, effects, input, reverse
  <1> DEFINE New == 0 .. next - 1
  <1>2. proc \in Seq(New) /\ fx \in Seq(New) /\ got = <<>> /\ frames \in Nat /\ wr \in Nat
        /\ wr < frames /\ preprocessors # {} /\ proc_buf_size \in Nat
        /\ Len(proc) <= proc_buf_size
    BY <1>1 DEF Past, Sized, Typed
  <1> HIDE DEF New
  <1>3. PICK k \in 0 .. Len(proc) :
            LET inside == fx \o SubSeq(proc, 1, k)
            IN  \E n \in 0 .. Least(frames - wr, Len(inside)) :
                    /\ fx' = SubSeq(inside, n + 1, Len(inside))
                    /\ proc' = SubSeq(proc, k + 1, Len(proc))
                    /\ IF wr + n < frames
                       THEN wr' = wr + n /\ Reload(proc', frames) /\ UNCHANGED frames
                       ELSE Return /\ UNCHANGED <<got, proc_buf_size>>
    BY DEF Process
  <1> DEFINE first  == SubSeq(proc, 1, k)
             inside == fx \o first
  <1>4. first \in Seq(New) /\ proc' \in Seq(New) /\ Len(proc') = Len(proc) - k
    BY <1>2, <1>3, FirstSeq
  <1> HIDE DEF first
  <1>5. inside \in Seq(New) /\ Len(inside) \in Nat
    BY <1>2, <1>4, ConcatProperties
  <1>6. PICK n \in 0 .. Least(frames - wr, Len(inside)) :
            /\ fx' = SubSeq(inside, n + 1, Len(inside))
            /\ IF wr + n < frames
               THEN wr' = wr + n /\ Reload(proc', frames) /\ UNCHANGED frames
               ELSE Return /\ UNCHANGED <<got, proc_buf_size>>
    BY <1>3 DEF first
  <1> HIDE DEF inside
  <1>7. n \in 0 .. Len(inside)
    BY <1>2, <1>5 DEF Least
  <1>8. fx' \in Seq(New)
    BY <1>5, <1>6, <1>7, FirstSeq
  <1>9. Len(proc') \in Nat /\ Len(proc') <= proc_buf_size
    BY <1>2, <1>3, <1>4
  <1>10. /\ got' = <<>> /\ frames' \in Nat /\ wr' \in Nat /\ proc_buf_size' \in Nat
         /\ Len(proc') <= proc_buf_size'
         /\ pc' = "idle" \/ (frames' > 0 /\ wr' < frames')
         /\ pc' = "frames" => frames' - Len(proc') > 0 /\ frames' <= proc_buf_size'
         /\ pc' = "push" => Len(proc') >= frames'
         /\ pc' \in {"idle", "frames", "push"}
    <2>1. CASE ~(wr + n < frames)
      <3>1. /\ pc' = "idle" /\ frames' = 0 /\ wr' = 0
            /\ got' = got /\ proc_buf_size' = proc_buf_size
        BY <1>6, <2>1 DEF Return
      <3>2. got' = <<>> /\ frames' \in Nat /\ wr' \in Nat
        BY <1>2, <3>1
      <3>3. proc_buf_size' \in Nat /\ Len(proc') <= proc_buf_size'
        BY <1>2, <1>9, <3>1, Zenon
      <3>4. /\ pc' = "idle" /\ pc' \in {"idle", "frames", "push"}
            /\ ~(pc' = "frames") /\ ~(pc' = "push")
        BY <3>1
      <3> QED
        BY <3>2, <3>3, <3>4
    <2>2. CASE wr + n < frames
      <3>1. wr' = wr + n /\ Reload(proc', frames) /\ frames' = frames
        BY <1>6, <2>2
      <3>2. n \in Nat
        BY <1>7, <1>5
      <3>3. CASE Len(proc') < frames
        BY <1>2, <1>9, <2>2, <3>1, <3>2, <3>3 DEF Reload, Most
      <3>4. CASE ~(Len(proc') < frames)
        BY <1>2, <1>9, <2>2, <3>1, <3>2, <3>4 DEF Reload
      <3> QED
        BY <3>3, <3>4
    <2> QED
      BY <2>1, <2>2
  <1>11. Typed'
    BY <1>1, <1>10 DEF Typed
  <1>12. Past'
    <2>1. got' \in Seq(New)
      BY <1>10
    <2> QED
      BY <1>1, <1>4, <1>8, <2>1 DEF Past, New
  <1>13. Sized'
    <2>1. Rate' = Rate
      BY <1>1 DEF Rate
    <2>2. Wanted' = frames' - Len(proc')
      BY <1>1, <1>2 DEF Wanted
    <2>3. pc' = "frames" => Wanted' > 0 /\ Len(got') <= Wanted' /\ frames' <= proc_buf_size'
      BY <1>10, <2>2
    <2>4. ~standby
      BY <1>1 DEF Sized
    <2> QED
      BY <1>1, <1>2, <1>10, <2>1, <2>3, <2>4 DEF Sized
  <1>14. Recent'
    <2>1. <<>> \in Seq({i \in Nat : i >= started})
      OBVIOUS
    <2> QED
      BY <1>1, <1>10, <2>1 DEF Recent
  <1> QED
    BY <1>11, <1>12, <1>13, <1>14

-----------------------------------------------------------------------------
(***************************************************************************)
(* The other calls.                                                        *)
(***************************************************************************)
LEMMA StandbyInv ==
    ASSUME CInv, in_standby
    PROVE  CInv'
  <1> USE DEF CInv
  <1>1. /\ pc = "idle" /\ standby' = TRUE /\ echo' = FALSE
        /\ UNCHANGED <<resampler, mono, remix, preprocessors, need, pc, frames, wr, got,
                       buffer, frames_in, rs, proc, proc_buf_size, fx, ref_frames_in,
                       ref_buf_size, next, started>>
    BY DEF in_standby, Standby, effects, call, input, process, history
  <1>2. Typed'
    BY <1>1 DEF Typed
  <1>3. Past'
    BY <1>1 DEF Past
  <1>4. Sized'
    BY <1>1 DEF Sized, Rate
  <1>5. Recent'
    BY <1>1 DEF Recent
  <1> QED
    BY <1>2, <1>3, <1>4, <1>5

LEMMA EffectInv ==
    ASSUME CInv, NEW e \in Effects, in_add_audio_effect(e) \/ in_remove_audio_effect(e)
    PROVE  CInv'
  <1> USE DEF CInv
  <1>1. /\ pc = "idle"
        /\ UNCHANGED <<resampler, mono, remix, pc, frames, wr, got, buffer, frames_in, rs,
                       proc, proc_buf_size, ref_frames_in, ref_buf_size, next, started>>
    BY DEF in_add_audio_effect, in_remove_audio_effect, call, input, process, history
  <1>2. /\ preprocessors' \subseteq Effects
        /\ need' \in BOOLEAN
    BY DEF in_add_audio_effect, in_remove_audio_effect, Typed
  <1>3. \/ UNCHANGED <<standby, echo>>
        \/ standby' = TRUE /\ echo' = FALSE
    BY DEF in_add_audio_effect, in_remove_audio_effect, Standby
  <1>4. fx' = fx \/ fx' = <<>>
    BY DEF in_add_audio_effect, in_remove_audio_effect, DropFx, process
  <1>5. Typed'
    <2>1. standby' \in BOOLEAN /\ echo' \in BOOLEAN
      BY <1>3 DEF Typed
    <2> QED
      BY <1>1, <1>2, <2>1 DEF Typed
  <1>6. Past'
    <2>1. fx' \in Seq(0 .. next - 1)
      <3>1. <<>> \in Seq(0 .. next - 1)
        OBVIOUS
      <3> QED
        BY <1>4, <3>1 DEF Past
    <2> QED
      BY <1>1, <2>1 DEF Past
  <1>7. Sized'
    BY <1>1 DEF Sized, Rate
  <1>8. Recent'
    <2>1. standby => standby'
      BY <1>3
    <2> QED
      BY <1>1, <2>1 DEF Recent
  <1> QED
    BY <1>5, <1>6, <1>7, <1>8

-----------------------------------------------------------------------------
(***************************************************************************)
(* Where the frames are.                                                   *)
(***************************************************************************)
LEMMA HeldPast ==
    ASSUME CInv
    PROVE  /\ \A i \in 1 .. Period : buffer[i] \in 0 .. next - 1
           /\ \A i \in 1 .. Len(got) : got[i] \in 0 .. next - 1
           /\ \A i \in 1 .. Len(proc) : proc[i] \in 0 .. next - 1
  <1> DEFINE New == 0 .. next - 1
  <1>1. buffer \in [1 .. Period -> New] /\ got \in Seq(New) /\ proc \in Seq(New)
    BY DEF CInv, Past
  <1> HIDE DEF New
  <1>2. /\ \A i \in 1 .. Period : buffer[i] \in New
        /\ \A i \in 1 .. Len(got) : got[i] \in New
        /\ \A i \in 1 .. Len(proc) : proc[i] \in New
    BY <1>1
  <1> QED
    BY <1>2 DEF New

LEMMA Places ==
    ASSUME CInv
    PROVE  /\ Waits \in Nat /\ Len(got) \in Nat /\ Len(proc) \in Nat /\ frames_in \in Nat
           /\ Period \in Nat /\ frames_in <= Period
           /\ \A o \in 1 .. Waits : At(o) \in 0 .. next - 1
           /\ At(0) = next /\ next \in Nat
  <1>1. /\ Len(got) \in Nat /\ Len(proc) \in Nat /\ frames_in \in Nat /\ Period \in Nat
        /\ frames_in <= Period /\ next \in Nat
    BY SizesPositive DEF CInv, Typed, Past
  <1>2. Waits \in Nat /\ Waits = frames_in + Len(got) + Len(proc)
    BY <1>1 DEF Waits
  <1>3. ASSUME NEW o \in 1 .. Waits
        PROVE  At(o) \in 0 .. next - 1
    <2>1. CASE o <= frames_in
      <3>1. At(o) = buffer[Period + 1 - o]
        BY <2>1, <1>2 DEF At
      <3>2. Period + 1 - o \in 1 .. Period
        BY <1>1, <1>2, <2>1
      <3> QED
        BY <3>1, <3>2, HeldPast
    <2>2. CASE o > frames_in /\ o <= frames_in + Len(got)
      <3>1. At(o) = got[frames_in + Len(got) + 1 - o]
        BY <1>1, <1>2, <2>2 DEF At
      <3>2. frames_in + Len(got) + 1 - o \in 1 .. Len(got)
        BY <1>1, <1>2, <2>2
      <3> QED
        BY <3>1, <3>2, HeldPast
    <2>3. CASE o > frames_in + Len(got)
      <3>1. At(o) = proc[Waits + 1 - o]
        BY <1>1, <1>2, <2>3 DEF At
      <3>2. Waits + 1 - o \in 1 .. Len(proc)
        BY <1>1, <1>2, <2>3
      <3> QED
        BY <3>1, <3>2, HeldPast
    <2> QED
      BY <1>1, <1>2, <2>1, <2>2, <2>3
  <1> QED
    BY <1>1, <1>2, <1>3 DEF At

\* Without a resampler nothing is between the driver and the buffers.
LEMMA NoResampler ==
    ASSUME CInv, ~resampler
    PROVE  Rate = 1 /\ rs = <<>>
  <1>1. Rate = 1
    BY DEF Rate
  <1>2. Len(rs) < 1 /\ rs \in Seq(0 .. next - 1)
    BY <1>1 DEF CInv, Sized, Past
  <1> QED
    BY <1>1, <1>2

\* Where the next frame is a break, all that waits is cut off.
NextIsBreak == next \in breaks

LEMMA AllCut == CInv /\ NextIsBreak => Contiguous /\ LeftBehind
  <1> SUFFICES ASSUME CInv, NextIsBreak
               PROVE  Contiguous /\ LeftBehind
    OBVIOUS
  <1> USE DEF NextIsBreak
  <1>1. \A o \in 1 .. Waits : Cut(At(o))
    BY Places DEF Cut
  <1>2. \A i \in 1 .. Len(proc) : Cut(proc[i])
    <2>1. next \in Nat
      BY Places
    <2> QED
      BY <2>1, HeldPast DEF Cut
  <1> QED
    BY <1>1, <1>2 DEF Contiguous, LeftBehind

\* A step that moves no frame, or takes the oldest away.
LEMMA KeptInPlace ==
    ASSUME Contiguous, Waits \in Nat, Waits' \in Nat, Waits' <= Waits,
           \A o \in 0 .. Waits' : At(o)' = At(o),
           breaks \subseteq breaks'
    PROVE  Contiguous'
  <1> SUFFICES ASSUME NEW o \in 1 .. Waits'
               PROVE  Cut(At(o))' \/ \A p \in 0 .. o - 1 : At(p)' = At(o)' + (o - p)
    BY DEF Contiguous
  <1>1. o \in 1 .. Waits /\ At(o)' = At(o) /\ 0 .. o - 1 \subseteq 0 .. Waits'
    OBVIOUS
  <1>2. CASE Cut(At(o))
    BY <1>1, <1>2 DEF Cut
  <1>3. CASE \A p \in 0 .. o - 1 : At(p) = At(o) + (o - p)
    BY <1>1, <1>3
  <1> QED
    BY <1>1, <1>2, <1>3 DEF Contiguous

LEMMA SamePlaces ==
    ASSUME CInv, Contiguous, UNCHANGED <<buffer, frames_in, got, proc, next>>,
           breaks \subseteq breaks'
    PROVE  Contiguous'
  <1>1. Waits' = Waits /\ \A o \in 0 .. Waits' : At(o)' = At(o)
    BY DEF Waits, At
  <1>2. Waits \in Nat /\ Waits' \in Nat /\ Waits' <= Waits
    BY <1>1, Places
  <1> QED
    BY <1>1, <1>2, KeptInPlace

LEMMA HasMember ==
    ASSUME NEW S, NEW s \in Seq(S), Len(s) >= 1
    PROVE  ToSet(s) # {}
  <1>1. s[1] \in ToSet(s)
    BY DEF ToSet
  <1> QED
    BY <1>1

-----------------------------------------------------------------------------
(***************************************************************************)
(* The frames stay where they are, or are cut off.                         *)
(***************************************************************************)
LEMMA AllCutNext ==
    ASSUME CInv', next' \in breaks'
    PROVE  Contiguous' /\ LeftBehind'
  <1>1. NextIsBreak'
    BY DEF NextIsBreak
  <1> QED
    BY <1>1, AllCut, PTL

LEMMA StartPlaces ==
    ASSUME CInv', NEW n \in Requests, Start(n)
    PROVE  AInv'
  <1>1. next' \in breaks'
    BY DEF Start
  <1> QED
    BY <1>1, AllCutNext DEF AInv

LEMMA StartFailsPlaces ==
    ASSUME CInv, CInv', AInv, StartFails
    PROVE  AInv'
  <1> SUFFICES ASSUME ~resampler
               PROVE  Contiguous' /\ LeftBehind'
    BY DEF AInv, StartFails
  <1>1. UNCHANGED <<pc, preprocessors, frames_in, got, proc, next>>
    BY DEF StartFails, effects, call, process
  <1>2. CASE buffer' = buffer
    <2>1. breaks' = breaks
      BY <1>2 DEF StartFails
    <2>2. Contiguous'
      BY <1>1, <1>2, <2>1, SamePlaces DEF AInv
    <2>3. Waits' = Waits
      BY <1>1 DEF Waits
    <2> QED
      BY <1>1, <2>1, <2>2, <2>3 DEF AInv, LeftBehind, Cut
  <1>3. CASE buffer' # buffer
    <2>1. next' \in breaks'
      BY <1>1, <1>3 DEF StartFails
    <2> QED
      BY <2>1, AllCutNext
  <1> QED
    BY <1>2, <1>3

\* The first frame that the path through the period buffer gives.
LEMMA FirstInPlace ==
    ASSUME CInv, ~resampler
    PROVE  Head(rs \o Unread(buffer, frames_in) \o <<next>>) = At(frames_in)
  <1> DEFINE u == Unread(buffer, frames_in)
             New == 0 .. next
  <1>1. rs = <<>>
    BY NoResampler
  <1>2. frames_in \in 0 .. Period /\ next \in Nat
    BY Places
  <1>3. \A i \in Period - frames_in + 1 .. Period : buffer[i] \in New
    BY <1>2, SizesPositive, HeldPast
  <1>4. /\ u \in Seq(New) /\ Len(u) = frames_in
        /\ \A i \in 1 .. frames_in : u[i] = buffer[Period - frames_in + i]
    <2> HIDE DEF New
    <2> HIDE DEF u
    <2>1. ASSUME NEW n \in 0 .. Period, NEW b, \A i \in Period - n + 1 .. Period : b[i] \in New
          PROVE  /\ Unread(b, n) \in Seq(New) /\ Len(Unread(b, n)) = n
                 /\ \A i \in 1 .. n : Unread(b, n)[i] = b[Period - n + i]
      BY <2>1, UnreadSeq
    <2> QED
      BY <1>2, <1>3, <2>1 DEF u
  <1> HIDE DEF u
  <1>5. next \in New
    BY <1>2
  <1> HIDE DEF New
  <1>6. /\ rs \o u = u
        /\ u \o <<next>> \in Seq(New)
        /\ Len(u \o <<next>>) = frames_in + 1
        /\ \A i \in 1 .. frames_in : (u \o <<next>>)[i] = u[i]
        /\ (u \o <<next>>)[frames_in + 1] = next
    BY <1>1, <1>2, <1>4, <1>5
  <1>7. Head(u \o <<next>>) = (u \o <<next>>)[1]
    BY <1>6
  <1>8. CASE frames_in = 0
    BY <1>6, <1>7, <1>8 DEF At, u
  <1>9. CASE frames_in # 0
    <2>1. 1 \in 1 .. frames_in /\ Period - frames_in + 1 = Period + 1 - frames_in
      BY <1>2, <1>9, SizesPositive
    <2>2. u[1] = buffer[Period + 1 - frames_in]
      BY <1>4, <2>1
    <2>3. (u \o <<next>>)[1] = buffer[Period + 1 - frames_in]
      BY <1>6, <2>1, <2>2
    <2> QED
      BY <1>2, <1>6, <1>7, <1>9, <2>3 DEF At, u
  <1> QED
    BY <1>8, <1>9

\* What proc_buf holds is cut off by the first frame of the next path.
LEMMA LeftIsCut ==
    ASSUME CInv, Contiguous, got = <<>>, NEW i \in 1 .. Len(proc)
    PROVE  Cut(proc[i]) \/ (proc[i] \in Int /\ At(frames_in) > proc[i])
  <1> DEFINE o == frames_in + Len(proc) + 1 - i
  <1>1. /\ Len(proc) \in Nat /\ frames_in \in Nat /\ Len(got) = 0
        /\ Waits = frames_in + Len(proc)
    BY Places DEF Waits
  <1>2. o \in 1 .. Waits /\ frames_in \in 0 .. o - 1 /\ Waits + 1 - o = i
        /\ o > frames_in + Len(got)
    BY <1>1
  <1>3. At(o) = proc[i]
    <2> HIDE DEF o
    <2> QED
      BY <1>1, <1>2 DEF At
  <1>4. At(o) \in Int
    BY <1>2, Places
  <1> HIDE DEF o
  <1>5. CASE Cut(At(o))
    BY <1>3, <1>5
  <1>6. CASE \A p \in 0 .. o - 1 : At(p) = At(o) + (o - p)
    BY <1>1, <1>2, <1>3, <1>4, <1>6
  <1> QED
    BY <1>2, <1>5, <1>6 DEF Contiguous

LEMMA ReadPlaces ==
    ASSUME CInv, CInv', AInv, NEW n \in Requests, Read(n)
    PROVE  AInv'
  <1> SUFFICES ASSUME ~resampler
               PROVE  Contiguous' /\ LeftBehind'
    BY DEF AInv, Read, stream
  <1>1. /\ UNCHANGED <<resampler, remix, preprocessors, buffer, frames_in, rs, proc, next>>
        /\ got = <<>> /\ got' = <<>>
    BY DEF Read, stream, effects, input, ChoosePath, Reload, CInv, Sized
  <1>2. breaks' = IF Shortcut = {} THEN breaks ELSE breaks \union {FirstOfPath}
    BY DEF Read
  <1>3. Waits' = Waits
    BY <1>1 DEF Waits
  <1>4. Contiguous'
    BY <1>1, <1>2, SamePlaces DEF AInv
  <1>5. CASE preprocessors # {}
    <2>1. pc' # "direct"
      BY <1>5 DEF Read, ChoosePath, Reload
    <2> QED
      BY <1>1, <1>4, <1>5, <2>1 DEF LeftBehind
  <1>6. CASE preprocessors = {} /\ remix
    <2>1. pc' = "frames"
      BY <1>1, <1>6 DEF Read, ChoosePath
    <2>2. Shortcut = ToSet(fx \o proc)
      BY <1>1, <1>6 DEF Shortcut
    <2>3. FirstOfPath = At(frames_in)
      BY <1>1, <1>6, FirstInPlace DEF FirstOfPath
    <2>4. ASSUME NEW i \in 1 .. Len(proc)
          PROVE  Cut(proc[i])'
      <3>1. Shortcut # {}
        <4> DEFINE New == 0 .. next - 1
        <4>1. fx \in Seq(New) /\ proc \in Seq(New)
          BY DEF CInv, Past
        <4> HIDE DEF New
        <4>2. Len(fx) \in Nat /\ Len(proc) \in Nat /\ Len(proc) >= 1
          BY <4>1, <2>4
        <4>3. fx \o proc \in Seq(New) /\ Len(fx \o proc) = Len(fx) + Len(proc)
          BY <4>1, ConcatProperties
        <4>4. Len(fx \o proc) >= 1
          BY <4>2, <4>3
        <4> QED
          BY <2>2, <4>3, <4>4, HasMember
      <3>2. breaks' = breaks \union {At(frames_in)}
        BY <1>2, <2>3, <3>1
      <3>3. CASE Cut(proc[i])
        BY <1>1, <3>2, <3>3 DEF Cut
      <3>4. CASE proc[i] \in Int /\ At(frames_in) > proc[i]
        <4>1. At(frames_in) \in Int
          <5>1. frames_in = 0 \/ frames_in \in 1 .. Waits
            BY Places DEF Waits
          <5> QED
            BY <5>1, Places
        <4>2. ~(At(frames_in) <= proc[i])
          BY <3>4, <4>1
        <4> QED
          BY <1>1, <3>2, <4>2 DEF Cut
      <3> QED
        BY <1>1, <3>3, <3>4, LeftIsCut DEF AInv
    <2> QED
      BY <1>1, <1>4, <2>1, <2>4 DEF LeftBehind
  <1>7. CASE preprocessors = {} /\ ~remix
    <2>1. pc' = "direct"
      BY <1>1, <1>7 DEF Read, ChoosePath
    <2>2. Shortcut = ToSet(fx \o proc \o rs \o Unread(buffer, frames_in))
      BY <1>1, <1>7 DEF Shortcut
    <2>3. CASE Waits = 0
      BY <1>3, <1>4, <2>1, <2>3 DEF LeftBehind
    <2>4. CASE Waits # 0
      <3>1. FirstOfPath = next'
        BY <1>1, <1>7 DEF FirstOfPath
      <3>2. Shortcut # {}
        <4> DEFINE u == Unread(buffer, frames_in)
                   New == 0 .. next - 1
        <4>1. fx \in Seq(New) /\ proc \in Seq(New) /\ rs \in Seq(New)
          BY DEF CInv, Past
        <4>2. /\ frames_in \in 0 .. Period
              /\ \A i \in Period - frames_in + 1 .. Period : buffer[i] \in New
          BY SizesPositive, Places, HeldPast
        <4> HIDE DEF New
        <4>3. u \in Seq(New) /\ Len(u) = frames_in
          BY <4>2, UnreadSeq
        <4> HIDE DEF u
        <4>4. fx \o proc \o rs \o u \in Seq(New)
              /\ Len(fx \o proc \o rs \o u) = Len(fx) + Len(proc) + Len(rs) + Len(u)
          BY <4>1, <4>3
        <4>5. Len(fx \o proc \o rs \o u) >= 1
          <5>1. Len(fx) \in Nat /\ Len(rs) \in Nat /\ Len(proc) \in Nat /\ frames_in \in Nat
                /\ Len(got) = 0
            BY <1>1, <4>1, Places
          <5> QED
            BY <2>4, <4>3, <4>4, <5>1 DEF Waits
        <4> QED
          BY <2>2, <4>4, <4>5, HasMember DEF u
      <3>3. next' \in breaks'
        BY <1>2, <3>1, <3>2
      <3> QED
        BY <3>3, AllCutNext
    <2> QED
      BY <2>3, <2>4
  <1> QED
    BY <1>5, <1>6, <1>7

LEMMA ReadDirectPlaces ==
    ASSUME CInv, CInv', AInv, ReadDirect \/ ReadDirectFails
    PROVE  AInv'
  <1> SUFFICES ASSUME ~resampler
               PROVE  Contiguous' /\ LeftBehind'
    BY DEF AInv, ReadDirect, ReadDirectFails, stream
  <1>1. CASE ReadDirectFails
    <2>1. next' \in breaks'
      BY <1>1 DEF ReadDirectFails
    <2> QED
      BY <2>1, AllCutNext
  <1>2. CASE ReadDirect
    <2>1. /\ pc = "direct" /\ pc' = "idle" /\ breaks' = breaks
          /\ UNCHANGED <<frames_in, got, proc, buffer>>
      BY <1>2 DEF ReadDirect, Return, input, process
    <2>2. Waits' = Waits /\ \A o \in 1 .. Waits' : At(o)' = At(o)
      BY <2>1 DEF Waits, At
    <2>3. CASE Waits > 0
      <3>1. NextIsBreak
        BY <2>1, <2>3 DEF NextIsBreak, AInv, LeftBehind
      <3>2. \A o \in 1 .. Waits : Cut(At(o))
        BY <3>1, Places DEF Cut, NextIsBreak
      <3>3. \A o \in 1 .. Waits' : Cut(At(o))'
        BY <2>1, <2>2, <3>2 DEF Cut
      <3> QED
        BY <2>1, <3>3 DEF Contiguous, LeftBehind
    <2>4. CASE ~(Waits > 0)
      <3>1. 1 .. Waits' = {}
        BY <2>2, <2>4, Places
      <3> QED
        BY <2>1, <3>1 DEF Contiguous, LeftBehind
    <2> QED
      BY <2>3, <2>4
  <1> QED
    BY <1>1, <1>2

LEMMA FramesReadPlaces ==
    ASSUME CInv, CInv', AInv, FramesRead \/ ReadPeriodFails
    PROVE  AInv'
  <1> SUFFICES ASSUME ~resampler
               PROVE  Contiguous' /\ LeftBehind'
    BY DEF AInv, FramesRead, ReadPeriodFails, stream
  <1>1. CASE ReadPeriodFails
    <2>1. next' \in breaks'
      BY <1>1 DEF ReadPeriodFails
    <2> QED
      BY <2>1, AllCutNext
  <1>2. CASE FramesRead
    <2>1. /\ pc = "frames" /\ preprocessors = {} /\ pc' = "idle" /\ got' = <<>>
          /\ UNCHANGED <<breaks, frames_in, proc, buffer, next>>
      BY <1>2 DEF FramesRead, Return, input, process
    <2>2. /\ Len(got) \in Nat /\ Len(proc) \in Nat /\ frames_in \in Nat
          /\ Waits = frames_in + Len(got) + Len(proc)
          /\ Waits' = frames_in + Len(proc) /\ Len(got') = 0
      BY <2>1, Places DEF Waits
    <2>3. \A i \in 1 .. Len(proc) : Cut(proc[i])
      BY <2>1 DEF AInv, LeftBehind
    <2>4. LeftBehind'
      BY <2>1 DEF LeftBehind
    <2>5. ASSUME NEW o \in 1 .. Waits'
          PROVE  Cut(At(o))' \/ \A p \in 0 .. o - 1 : At(p)' = At(o)' + (o - p)
      <3>1. CASE o <= frames_in
        <4>1. \A p \in 0 .. o : At(p)' = At(p)
          BY <2>1, <2>2, <3>1 DEF At
        <4>2. o \in 1 .. Waits /\ o \in 0 .. o /\ \A p \in 0 .. o - 1 : p \in 0 .. o
          BY <2>2, <3>1
        <4>3. Cut(At(o)) \/ \A p \in 0 .. o - 1 : At(p) = At(o) + (o - p)
          BY <4>2 DEF AInv, Contiguous
        <4>4. CASE Cut(At(o))
          BY <2>1, <4>1, <4>2, <4>4 DEF Cut
        <4>5. CASE \A p \in 0 .. o - 1 : At(p) = At(o) + (o - p)
          BY <4>1, <4>2, <4>5
        <4> QED
          BY <4>3, <4>4, <4>5
      <3>2. CASE o > frames_in
        <4> DEFINE i == frames_in + Len(proc) + 1 - o
        <4>1. i \in 1 .. Len(proc) /\ Waits' + 1 - o = i /\ o # 0
              /\ ~(o <= frames_in) /\ ~(o <= frames_in + 0)
          BY <2>2, <3>2
        <4> HIDE DEF i
        <4>2. At(o)' = proc[i]
          BY <2>1, <2>2, <4>1 DEF At
        <4>3. Cut(proc[i])
          BY <2>3, <4>1
        <4> QED
          BY <2>1, <4>2, <4>3 DEF Cut
      <3> QED
        BY <2>2, <3>1, <3>2
    <2> QED
      BY <2>4, <2>5 DEF Contiguous
  <1> QED
    BY <1>1, <1>2

LEMMA ReloadedPlaces ==
    ASSUME CInv, CInv', AInv, Reloaded
    PROVE  AInv'
  <1> SUFFICES ASSUME ~resampler
               PROVE  Contiguous' /\ LeftBehind'
    BY DEF AInv, Reloaded, stream
  <1>1. /\ proc' = proc \o got /\ got' = <<>> /\ pc' = "push"
        /\ UNCHANGED <<breaks, frames_in, buffer, next>>
    BY DEF Reloaded, input, history
  <1>2. /\ Len(got) \in Nat /\ Len(proc) \in Nat /\ frames_in \in Nat
        /\ Waits = frames_in + Len(got) + Len(proc)
    BY Places DEF Waits
  <1>3. /\ Len(proc') = Len(proc) + Len(got) /\ Len(got') = 0
        /\ \A i \in 1 .. Len(proc) : proc'[i] = proc[i]
        /\ \A i \in 1 .. Len(got) : proc'[Len(proc) + i] = got[i]
    <2> DEFINE New == 0 .. next - 1
    <2>1. got \in Seq(New) /\ proc \in Seq(New)
      BY DEF CInv, Past
    <2> HIDE DEF New
    <2> QED
      BY <1>1, <2>1
  <1>4. Waits' = Waits
    BY <1>1, <1>2, <1>3 DEF Waits
  <1>5. ASSUME NEW o \in 0 .. Waits
        PROVE  At(o)' = At(o)
    <2>1. CASE o <= frames_in
      BY <1>1, <1>2, <2>1 DEF At
    <2>2. CASE o > frames_in /\ o <= frames_in + Len(got)
      <3> DEFINE i == frames_in + Len(got) + 1 - o
      <3>1. i \in 1 .. Len(got) /\ Waits' + 1 - o = Len(proc) + i /\ o # 0
            /\ ~(o <= frames_in) /\ ~(o <= frames_in' + Len(got'))
        BY <1>1, <1>2, <1>3, <1>4, <2>2
      <3>2. At(o) = got[i]
        BY <2>2, <3>1 DEF At
      <3> HIDE DEF i
      <3>3. At(o)' = proc'[Len(proc) + i]
        BY <1>1, <3>1 DEF At
      <3> QED
        BY <1>3, <3>1, <3>2, <3>3
    <2>3. CASE o > frames_in + Len(got)
      <3> DEFINE i == Waits + 1 - o
      <3>1. i \in 1 .. Len(proc) /\ o # 0 /\ ~(o <= frames_in)
            /\ ~(o <= frames_in' + Len(got')) /\ ~(o <= frames_in + Len(got))
        BY <1>1, <1>2, <1>3, <2>3
      <3>2. At(o) = proc[i] /\ At(o)' = proc'[i]
        BY <1>1, <1>4, <3>1 DEF At
      <3> HIDE DEF i
      <3> QED
        BY <1>3, <3>1, <3>2
    <2> QED
      BY <1>2, <2>1, <2>2, <2>3
  <1>6. Contiguous'
    <2>1. Waits \in Nat /\ Waits' \in Nat /\ Waits' <= Waits
      BY <1>4, Places
    <2> QED
      BY <1>1, <1>4, <1>5, <2>1, KeptInPlace DEF AInv
  <1>7. LeftBehind'
    BY <1>1 DEF LeftBehind
  <1> QED
    BY <1>6, <1>7

LEMMA ProcessPlaces ==
    ASSUME CInv, CInv', AInv, Process
    PROVE  AInv'
  <1> SUFFICES ASSUME ~resampler
               PROVE  Contiguous' /\ LeftBehind'
    BY DEF AInv, Process, stream
  <1>1. /\ pc = "process" /\ preprocessors # {} /\ got = <<>>
        /\ UNCHANGED <<preprocessors, breaks, frames_in, buffer, next>>
    BY DEF Process, CInv, Sized, effects, input
  <1>2. PICK k \in 0 .. Len(proc) : proc' = SubSeq(proc, k + 1, Len(proc))
    BY DEF Process
  <1>3. got' = <<>> /\ pc' # "direct"
    BY <1>1 DEF Process, Reload, Return
  <1>4. /\ Len(got) = 0 /\ Len(got') = 0 /\ Len(proc) \in Nat /\ frames_in \in Nat
        /\ Waits = frames_in + Len(proc)
    BY <1>1, <1>3, Places DEF Waits
  <1>5. /\ Len(proc') = Len(proc) - k
        /\ \A i \in 1 .. Len(proc) - k : proc'[i] = proc[k + i]
    <2> DEFINE New == 0 .. next - 1
    <2>1. proc \in Seq(New)
      BY DEF CInv, Past
    <2> HIDE DEF New
    <2> QED
      BY <1>2, <2>1, FirstSeq
  <1>6. Waits' = Waits - k /\ Waits' \in Nat
    BY <1>1, <1>3, <1>4, <1>5 DEF Waits
  <1>7. ASSUME NEW o \in 0 .. Waits'
        PROVE  At(o)' = At(o)
    <2>1. CASE o <= frames_in
      BY <1>1, <1>4, <2>1 DEF At
    <2>2. CASE o > frames_in
      <3> DEFINE i == Waits' + 1 - o
      <3>1. i \in 1 .. Len(proc) - k /\ o # 0 /\ ~(o <= frames_in)
            /\ ~(o <= frames_in' + Len(got')) /\ ~(o <= frames_in + Len(got))
            /\ Waits + 1 - o = k + i
        BY <1>1, <1>4, <1>5, <1>6, <2>2
      <3>2. At(o)' = proc'[i]
        BY <1>1, <3>1 DEF At
      <3> HIDE DEF i
      <3>3. At(o) = proc[k + i]
        BY <3>1 DEF At
      <3> QED
        BY <1>5, <3>1, <3>2, <3>3
    <2> QED
      BY <1>4, <1>6, <2>1, <2>2
  <1>8. Contiguous'
    <2>1. Waits \in Nat /\ Waits' \in Nat /\ Waits' <= Waits
      BY <1>4, <1>6
    <2> QED
      BY <1>1, <1>7, <2>1, KeptInPlace DEF AInv
  <1>9. LeftBehind'
    BY <1>1, <1>3 DEF LeftBehind
  <1> QED
    BY <1>8, <1>9

LEMMA OthersPlaces ==
    ASSUME CInv, AInv, UNCHANGED <<resampler, got, buffer, frames_in, proc, next>>,
           breaks \subseteq breaks', pc' \notin {"frames", "direct"}
    PROVE  AInv'
  <1> SUFFICES ASSUME ~resampler
               PROVE  Contiguous' /\ LeftBehind'
    BY DEF AInv
  <1>1. Contiguous'
    BY SamePlaces DEF AInv
  <1>2. LeftBehind'
    BY DEF LeftBehind
  <1> QED
    BY <1>1, <1>2

LEMMA PushPlaces ==
    ASSUME CInv, AInv, PushEcho \/ NoEcho
    PROVE  AInv'
  <1>1. /\ UNCHANGED <<resampler, got, buffer, frames_in, proc, next, breaks>>
        /\ pc' = "process"
    BY DEF PushEcho, NoEcho, stream, input, process, history
  <1> QED
    BY <1>1, OthersPlaces

LEMMA StandbyPlaces ==
    ASSUME CInv, AInv, in_standby
    PROVE  AInv'
  <1>1. /\ UNCHANGED <<resampler, got, buffer, frames_in, proc, next, breaks>>
        /\ pc' = "idle"
    BY DEF in_standby, call, input, process, history
  <1> QED
    BY <1>1, OthersPlaces

LEMMA EffectPlaces ==
    ASSUME CInv, AInv, NEW e \in Effects, in_add_audio_effect(e) \/ in_remove_audio_effect(e)
    PROVE  AInv'
  <1>1. /\ UNCHANGED <<resampler, got, buffer, frames_in, proc, next>>
        /\ pc' = "idle"
    BY DEF in_add_audio_effect, in_remove_audio_effect, call, input, process, history
  <1>2. breaks \subseteq breaks'
    BY DEF in_add_audio_effect, in_remove_audio_effect, DropFx, history
  <1> QED
    BY <1>1, <1>2, OthersPlaces

LEMMA NotResampled ==
    ASSUME NEW S, NEW s \in Seq(S), Rate = 1
    PROVE  Resampled(s) = s
  <1>1. Len(s) \in Nat /\ Len(s) \div 1 = Len(s)
    BY SMT
  <1>2. \A i \in 1 .. Len(s) : 1 * (i - 1) + 1 = i
    OBVIOUS
  <1>3. Resampled(s) = [i \in 1 .. Len(s) |-> s[i]]
    BY <1>1, <1>2 DEF Resampled
  <1> QED
    BY <1>3

LEMMA ConcatParts ==
    ASSUME NEW S, NEW T, NEW s \in Seq(S), NEW t \in Seq(T)
    PROVE  /\ Len(s \o t) = Len(s) + Len(t)
           /\ \A i \in 1 .. Len(s) : (s \o t)[i] = s[i]
           /\ \A i \in 1 .. Len(t) : (s \o t)[Len(s) + i] = t[i]
  OBVIOUS

LEMMA UnreadFrame ==
    ASSUME NEW S, NEW b, NEW n \in 0 .. Period,
           \A i \in Period - n + 1 .. Period : b[i] \in S,
           NEW j \in 1 .. n
    PROVE  Unread(b, n)[j] = b[Period - n + j]
  <1> DEFINE m == Period - n + 1
  <1>1. m \in Int /\ Period \in Int /\ \A i \in m .. Period : b[i] \in S
    BY SizesPositive
  <1>2. Unread(b, n)[j] = SubSeq(b, m, Period)[j]
    BY DEF Unread
  <1>3. j \in 1 .. Period - m + 1 /\ m + j - 1 = Period - n + j
    BY SizesPositive
  <1> HIDE DEF m
  <1>4. \A i \in 1 .. Period - m + 1 : SubSeq(b, m, Period)[i] = b[m + i - 1]
    BY <1>1, SubSeqProperties
  <1> QED
    BY <1>2, <1>3, <1>4

LEMMA FirstUnread ==
    ASSUME NEW S, NEW b \in [1 .. Period -> S], NEW n \in 0 .. Period, NEW k \in 0 .. n
    PROVE  /\ SubSeq(Unread(b, n), 1, k) \in Seq(S) /\ Len(SubSeq(Unread(b, n), 1, k)) = k
           /\ \A i \in 1 .. k : SubSeq(Unread(b, n), 1, k)[i] = b[Period - n + i]
  <1> DEFINE u == Unread(b, n)
  <1>1. \A i \in Period - n + 1 .. Period : b[i] \in S
    BY SizesPositive
  <1>2. u \in Seq(S) /\ Len(u) = n /\ \A i \in 1 .. n : u[i] = b[Period - n + i]
    <2>1. u \in Seq(S) /\ Len(u) = n
      BY <1>1, UnreadSeq
    <2>2. ASSUME NEW i \in 1 .. n
          PROVE  u[i] = b[Period - n + i]
      BY <1>1, UnreadFrame, ZenonT(30)
    <2> QED
      BY <2>1, <2>2
  <1> HIDE DEF u
  <1>3. /\ SubSeq(u, 1, k) \in Seq(S) /\ Len(SubSeq(u, 1, k)) = k
        /\ \A i \in 1 .. k : SubSeq(u, 1, k)[i] = u[i]
    BY <1>2, FirstSeq
  <1> QED
    BY <1>2, <1>3 DEF u

\* Where a turn of read_frames() with n frames of b unread puts them.
LEMMA TakenPlaces ==
    ASSUME CInv, ~resampler, Len(got) < Wanted, Wanted \in Nat,
           NEW S, NEW b \in [1 .. Period -> S], NEW n \in 0 .. Period,
           Take(b, n), UNCHANGED proc
    PROVE  /\ Waits' = n + Len(got) + Len(proc)
           /\ \A o \in 1 .. Waits' :
                 At(o)' = IF o <= n THEN b[Period + 1 - o]
                          ELSE IF o <= n + Len(got) THEN got[n + Len(got) + 1 - o]
                          ELSE proc[Waits' + 1 - o]
  <1> DEFINE k     == Least(n, Needed)
             first == SubSeq(Unread(b, n), 1, k)
  <1>1. /\ Len(got) \in Nat /\ Len(proc) \in Nat /\ Period \in Nat /\ n \in Nat /\ n <= Period
    BY Places
  <1>2. Needed = Wanted - Len(got) /\ Needed \in Nat
    <2>1. Rate = 1 /\ Len(rs) = 0
      BY NoResampler
    <2>2. Wanted - Len(got) \in Nat
      BY <1>1
    <2> HIDE DEF k
    <2> QED
      BY <2>1, <2>2 DEF Needed
  <1>3. k \in 0 .. n
    BY <1>1, <1>2 DEF Least
  <1>4. got' = got \o Resampled(rs \o first) /\ buffer' = b /\ frames_in' = n - k
    BY DEF Take
  <1> HIDE DEF k
  <1>5. /\ first \in Seq(S) /\ Len(first) = k
        /\ \A i \in 1 .. k : first[i] = b[Period - n + i]
    BY <1>3, FirstUnread
  <1> HIDE DEF first
  <1>6. got' = got \o first
    <2>1. rs \o first = first
      BY <1>5, NoResampler
    <2>2. Resampled(first) = first
      BY <1>5, NoResampler, NotResampled
    <2> QED
      BY <1>4, <2>1, <2>2
  <1>7. /\ Len(got') = Len(got) + k
        /\ \A i \in 1 .. Len(got) : got'[i] = got[i]
        /\ \A i \in 1 .. k : got'[Len(got) + i] = b[Period - n + i]
    <2>1. got \in Seq(0 .. next - 1) /\ first \in Seq(S)
      BY <1>5 DEF CInv, Past
    <2>2. /\ Len(got \o first) = Len(got) + Len(first)
          /\ \A i \in 1 .. Len(got) : (got \o first)[i] = got[i]
          /\ \A i \in 1 .. Len(first) : (got \o first)[Len(got) + i] = first[i]
      BY <2>1, ConcatParts
    <2> QED
      BY <1>5, <1>6, <2>2
  <1>8. Waits' = n + Len(got) + Len(proc) /\ frames_in' + Len(got') = n + Len(got)
    BY <1>1, <1>3, <1>4, <1>7 DEF Waits
  <1>9. ASSUME NEW o \in 1 .. Waits'
        PROVE  At(o)' = IF o <= n THEN b[Period + 1 - o]
                        ELSE IF o <= n + Len(got) THEN got[n + Len(got) + 1 - o]
                        ELSE proc[Waits' + 1 - o]
    <2>1. o \in Nat /\ o # 0 /\ k \in Nat /\ k <= n
      BY <1>1, <1>3, <1>8
    <2>2. At(o)' = IF o <= n - k THEN b[Period + 1 - o]
                   ELSE IF o <= n + Len(got) THEN got'[n + Len(got) + 1 - o]
                   ELSE proc[Waits' + 1 - o]
      BY <1>4, <1>8, <2>1 DEF At
    <2>3. CASE o <= n - k
      BY <1>1, <2>1, <2>2, <2>3
    <2>4. CASE o > n - k /\ o <= n
      <3> DEFINE i == n + 1 - o
      <3>1. /\ i \in 1 .. k /\ n + Len(got) + 1 - o = Len(got) + i
            /\ Period - n + i = Period + 1 - o
            /\ ~(o <= n - k) /\ o <= n + Len(got) /\ o <= n
        BY <1>1, <2>1, <2>4
      <3> HIDE DEF i
      <3>2. At(o)' = got'[Len(got) + i]
        BY <2>2, <3>1
      <3> QED
        BY <1>7, <3>1, <3>2
    <2>5. CASE o > n /\ o <= n + Len(got)
      <3> DEFINE i == n + Len(got) + 1 - o
      <3>1. i \in 1 .. Len(got) /\ ~(o <= n - k) /\ ~(o <= n)
        BY <1>1, <2>1, <2>5
      <3>2. At(o)' = got'[i]
        BY <2>2, <2>5, <3>1
      <3> HIDE DEF i
      <3>3. At(o)' = got[i]
        BY <1>7, <3>1, <3>2
      <3> QED
        BY <2>5, <3>1, <3>3 DEF i
    <2>6. CASE o > n + Len(got)
      BY <1>1, <2>1, <2>2, <2>6
    <2> QED
      BY <1>1, <2>1, <2>3, <2>4, <2>5, <2>6
  <1> QED
    BY <1>8, <1>9

LEMMA WantedIsNat ==
    ASSUME CInv, pc = "frames"
    PROVE  Wanted \in Nat
  BY Places DEF CInv, Typed, Sized, Wanted

LEMMA ReadBufferedPlaces ==
    ASSUME CInv, AInv, ReadBuffered
    PROVE  AInv'
  <1> SUFFICES ASSUME ~resampler
               PROVE  Contiguous' /\ LeftBehind'
    BY DEF AInv, ReadBuffered, stream
  <1>1. /\ pc = "frames" /\ Len(got) < Wanted /\ Take(buffer, frames_in)
        /\ UNCHANGED <<pc, preprocessors, proc, next, breaks>>
    BY DEF ReadBuffered, effects, process, history
  <1>2. buffer \in [1 .. Period -> 0 .. next - 1] /\ frames_in \in 0 .. Period
    BY DEF CInv, Past, Typed
  <1>3. /\ Waits' = frames_in + Len(got) + Len(proc)
        /\ \A o \in 1 .. Waits' :
              At(o)' = IF o <= frames_in THEN buffer[Period + 1 - o]
                       ELSE IF o <= frames_in + Len(got) THEN got[frames_in + Len(got) + 1 - o]
                       ELSE proc[Waits' + 1 - o]
    <2> DEFINE S == 0 .. next - 1
    <2>1. buffer \in [1 .. Period -> S]
      BY <1>2
    <2> HIDE DEF S
    <2>2. ASSUME NEW b \in [1 .. Period -> S], NEW n \in 0 .. Period, Take(b, n)
          PROVE  /\ Waits' = n + Len(got) + Len(proc)
                 /\ \A o \in 1 .. Waits' :
                       At(o)' = IF o <= n THEN b[Period + 1 - o]
                                ELSE IF o <= n + Len(got) THEN got[n + Len(got) + 1 - o]
                                ELSE proc[Waits' + 1 - o]
      BY <1>1, <2>2, WantedIsNat, TakenPlaces
    <2> QED
      BY <1>1, <1>2, <2>1, <2>2
  <1>4. Waits' = Waits
    BY <1>3 DEF Waits
  <1>5. ASSUME NEW o \in 0 .. Waits'
        PROVE  At(o)' = At(o)
    <2>1. CASE o = 0
      BY <1>1, <2>1 DEF At
    <2>2. CASE o # 0
      <3>1. o \in 1 .. Waits'
        BY <1>4, <2>2, Places
      <3> QED
        BY <1>3, <1>4, <2>2, <3>1 DEF At
    <2> QED
      BY <2>1, <2>2
  <1>6. Contiguous'
    <2>1. Waits \in Nat /\ Waits' \in Nat /\ Waits' <= Waits
      BY <1>4, Places
    <2> QED
      BY <1>1, <1>5, <2>1, KeptInPlace DEF AInv
  <1>7. LeftBehind'
    BY <1>1 DEF AInv, LeftBehind, Cut
  <1> QED
    BY <1>6, <1>7

\* A new period is in its place between the driver and what had been read.
LEMMA ReadPeriodPlaces ==
    ASSUME CInv, AInv, ReadPeriod
    PROVE  AInv'
  <1> SUFFICES ASSUME ~resampler
               PROVE  Contiguous' /\ LeftBehind'
    BY DEF AInv, ReadPeriod, stream
  <1> DEFINE b == Captured(next, Period)
  <1>1. /\ pc = "frames" /\ Len(got) < Wanted /\ Take(b, Period) /\ frames_in = 0
        /\ next' = next + Period
        /\ UNCHANGED <<pc, preprocessors, proc, breaks>>
    BY DEF ReadPeriod, effects, process
  <1>2. /\ next \in Nat \ {0} /\ Period \in Nat /\ Len(got) \in Nat /\ Len(proc) \in Nat
        /\ At(0) = next /\ Waits = Len(got) + Len(proc) /\ Waits \in Nat
    <2>1. next \in Nat \ {0}
      BY DEF CInv, Typed
    <2> QED
      BY <1>1, <2>1, Places DEF Waits
  <1>3. /\ b \in [1 .. Period -> 0 .. next' - 1]
        /\ \A i \in 1 .. Period : b[i] = next + i - 1
    BY <1>1, <1>2, CapturedFrames
  <1> HIDE DEF b
  <1>4. /\ Waits' = Period + Len(got) + Len(proc)
        /\ \A o \in 1 .. Waits' :
              At(o)' = IF o <= Period THEN b[Period + 1 - o]
                       ELSE IF o <= Period + Len(got) THEN got[Period + Len(got) + 1 - o]
                       ELSE proc[Waits' + 1 - o]
    <2>1. Wanted \in Nat /\ Period \in 0 .. Period /\ b \in [1 .. Period -> Nat]
      <3>1. \A i \in 1 .. Period : b[i] \in Nat
        BY <1>2, <1>3
      <3> QED
        BY <1>1, <1>2, <1>3, <3>1, WantedIsNat
    <2> QED
      BY <1>1, <2>1, TakenPlaces
  <1>5. ASSUME NEW o \in 0 .. Period
        PROVE  At(o)' = next + Period - o
    <2>1. CASE o = 0
      BY <1>1, <1>2, <2>1 DEF At
    <2>2. CASE o # 0
      <3>1. o \in 1 .. Waits' /\ o <= Period /\ Period + 1 - o \in 1 .. Period
        BY <1>2, <1>4, <2>2
      <3>2. At(o)' = b[Period + 1 - o]
        BY <1>4, <3>1
      <3> QED
        BY <1>2, <1>3, <3>1, <3>2
    <2> QED
      BY <2>1, <2>2
  <1>6. ASSUME NEW o \in Period + 1 .. Waits'
        PROVE  /\ o - Period \in 1 .. Waits
               /\ At(o)' = At(o - Period)
    <2>1. o \in 1 .. Waits' /\ ~(o <= Period) /\ o - Period \in 1 .. Waits
      BY <1>2, <1>4
    <2>2. At(o)' = IF o <= Period + Len(got) THEN got[Period + Len(got) + 1 - o]
                   ELSE proc[Waits' + 1 - o]
      BY <1>4, <2>1
    <2> DEFINE q == o - Period
    <2>3. /\ q \in 1 .. Waits /\ q # 0 /\ ~(q <= frames_in)
          /\ (q <= frames_in + Len(got)) <=> (o <= Period + Len(got))
          /\ frames_in + Len(got) + 1 - q = Period + Len(got) + 1 - o
          /\ Waits + 1 - q = Waits' + 1 - o
      BY <1>1, <1>2, <1>4, <2>1
    <2> HIDE DEF q
    <2>4. At(q) = IF o <= Period + Len(got) THEN got[Period + Len(got) + 1 - o]
                  ELSE proc[Waits' + 1 - o]
      BY <2>3 DEF At
    <2> QED
      BY <2>1, <2>2, <2>4 DEF q
  <1>7. ASSUME NEW o \in 1 .. Waits'
        PROVE  Cut(At(o))' \/ \A p \in 0 .. o - 1 : At(p)' = At(o)' + (o - p)
    <2>1. CASE o <= Period
      <3>1. o \in 0 .. Period /\ \A p \in 0 .. o - 1 : p \in 0 .. Period
        BY <1>2, <2>1
      <3> QED
        BY <1>2, <1>5, <3>1
    <2>2. CASE o > Period
      <3> DEFINE q == o - Period
      <3>1. o \in Period + 1 .. Waits'
        BY <1>2, <1>4, <2>2
      <3>2. q \in 1 .. Waits /\ At(o)' = At(q)
        BY <1>6, <3>1
      <3>3. At(q) \in Int /\ o = q + Period
        BY <1>2, <3>2, Places
      <3> HIDE DEF q
      <3>4. CASE Cut(At(q))
        BY <1>1, <3>2, <3>4 DEF Cut
      <3>5. CASE \A p \in 0 .. q - 1 : At(p) = At(q) + (q - p)
        <4>1. next = At(q) + q
          BY <1>2, <3>2, <3>5
        <4>2. ASSUME NEW p \in 0 .. o - 1
              PROVE  At(p)' = At(o)' + (o - p)
          <5>1. CASE p <= Period
            <6>1. At(p)' = next + Period - p
              BY <1>2, <1>5, <5>1
            <6> QED
              BY <1>2, <3>2, <3>3, <4>1, <6>1
          <5>2. CASE p > Period
            <6> DEFINE r == p - Period
            <6>1. p \in Period + 1 .. Waits' /\ r \in 0 .. q - 1 /\ p = r + Period
              BY <1>2, <1>4, <3>2, <3>3, <5>2
            <6>2. At(p)' = At(r)
              BY <1>6, <6>1
            <6> HIDE DEF r
            <6>3. At(r) = At(q) + (q - r)
              BY <3>5, <6>1
            <6> QED
              BY <1>2, <3>2, <3>3, <6>1, <6>2, <6>3
          <5> QED
            BY <1>2, <5>1, <5>2
        <4> QED
          BY <4>2
      <3> QED
        BY <3>2, <3>4, <3>5 DEF AInv, Contiguous
    <2> QED
      BY <1>2, <1>4, <2>1, <2>2
  <1>8. LeftBehind'
    BY <1>1 DEF AInv, LeftBehind, Cut
  <1> QED
    BY <1>7, <1>8 DEF Contiguous

-----------------------------------------------------------------------------
(***************************************************************************)
(* The invariant holds, and the properties with it.                        *)
(***************************************************************************)
LEMMA StutterInv ==
    ASSUME CInv, UNCHANGED vars
    PROVE  CInv'
  <1>1. /\ UNCHANGED <<resampler, mono, remix, standby, preprocessors, need, pc, frames, wr,
                       got, buffer, frames_in, rs, proc, proc_buf_size, fx, echo,
                       ref_frames_in, ref_buf_size, next, started>>
    BY DEF vars, stream, effects, call, input, process, reverse, history
  <1> QED
    BY <1>1 DEF CInv, Typed, Past, Sized, Recent, Rate, Wanted

LEMMA NextInv ==
    ASSUME CInv, [Next]_vars
    PROVE  CInv'
  <1>1. CASE UNCHANGED vars
    BY <1>1, StutterInv
  <1>2. ASSUME NEW n \in Requests, Start(n)
        PROVE  CInv'
    BY <1>2, StartInv
  <1>3. ASSUME NEW n \in Requests, Read(n)
        PROVE  CInv'
    BY <1>3, ReadInv
  <1>4. CASE StartFails
    BY <1>4, StartFailsInv
  <1>5. CASE ReadDirect \/ ReadDirectFails
    BY <1>5, ReadDirectInv
  <1>6. CASE ReadBuffered
    BY <1>6, ReadBufferedInv
  <1>7. CASE ReadPeriod
    BY <1>7, ReadPeriodInv
  <1>8. CASE FramesRead \/ ReadPeriodFails
    BY <1>8, FramesReadInv
  <1>9. CASE Reloaded
    BY <1>9, ReloadedInv
  <1>10. CASE PushEcho \/ NoEcho
    BY <1>10, PushInv
  <1>11. CASE Process
    BY <1>11, ProcessInv
  <1>12. CASE in_standby
    BY <1>12, StandbyInv
  <1>13. ASSUME NEW e \in Effects, in_add_audio_effect(e) \/ in_remove_audio_effect(e)
         PROVE  CInv'
    BY <1>13, EffectInv
  <1>14. CASE Full
    BY <1>14, StutterInv DEF Full
  <1> QED
    BY <1>1, <1>2, <1>3, <1>4, <1>5, <1>6, <1>7, <1>8, <1>9, <1>10, <1>11, <1>12, <1>13,
       <1>14 DEF Next

\* The inductive invariant holds.
THEOREM Invariant == Spec => []CInv
  BY InitInv, NextInv, PTL DEF Spec

\* What a step does to the places, whatever the step.
LEMMA NextPlaces ==
    ASSUME CInv, CInv', AInv, [Next]_vars
    PROVE  AInv'
  <1>1. CASE UNCHANGED vars
    <2>1. UNCHANGED <<resampler, got, buffer, frames_in, proc, next, breaks, pc,
                      preprocessors>>
      BY <1>1 DEF vars, stream, effects, call, input, process, history
    <2> QED
      BY <2>1 DEF AInv, Contiguous, LeftBehind, Cut, At, Waits
  <1>2. ASSUME NEW n \in Requests, Start(n)
        PROVE  AInv'
    BY <1>2, StartPlaces
  <1>3. ASSUME NEW n \in Requests, Read(n)
        PROVE  AInv'
    BY <1>3, ReadPlaces
  <1>4. CASE StartFails
    BY <1>4, StartFailsPlaces
  <1>5. CASE ReadDirect \/ ReadDirectFails
    BY <1>5, ReadDirectPlaces
  <1>6. CASE ReadBuffered
    BY <1>6, ReadBufferedPlaces
  <1>7. CASE ReadPeriod
    BY <1>7, ReadPeriodPlaces
  <1>8. CASE FramesRead \/ ReadPeriodFails
    BY <1>8, FramesReadPlaces
  <1>9. CASE Reloaded
    BY <1>9, ReloadedPlaces
  <1>10. CASE PushEcho \/ NoEcho
    BY <1>10, PushPlaces
  <1>11. CASE Process
    BY <1>11, ProcessPlaces
  <1>12. CASE in_standby
    BY <1>12, StandbyPlaces
  <1>13. ASSUME NEW e \in Effects, in_add_audio_effect(e) \/ in_remove_audio_effect(e)
         PROVE  AInv'
    BY <1>13, EffectPlaces
  <1>14. ASSUME Full
         PROVE  UNCHANGED vars
    BY <1>14 DEF Full
  <1> QED
    BY <1>1, <1>2, <1>3, <1>4, <1>5, <1>6, <1>7, <1>8, <1>9, <1>10, <1>11, <1>12, <1>13,
       <1>14 DEF Next

LEMMA InitPlaces == Init => AInv
  <1> SUFFICES ASSUME Init
               PROVE  Contiguous /\ LeftBehind
    BY DEF AInv
  <1>1. frames_in = 0 /\ got = <<>> /\ proc = <<>> /\ pc = "idle"
    BY DEF Init
  <1>2. Waits = 0
    BY <1>1 DEF Waits
  <1> QED
    BY <1>1, <1>2 DEF Contiguous, LeftBehind

\* The oldest frame of proc_buf is as many frames behind the driver as wait.
LEMMA PlacesDelay == CInv /\ AInv => DelayIsAge
  <1> SUFFICES ASSUME CInv, AInv, pc = "push", echo, ~resampler,
                      \A b \in breaks : b <= Head(proc)
               PROVE  BufDelay = next - Head(proc)
    BY DEF DelayIsAge
  <1> DEFINE o == frames_in + Len(proc)
  <1>1. /\ got = <<>> /\ Len(got) = 0 /\ Len(proc) \in Nat /\ Len(proc) >= 1
        /\ frames_in \in Nat /\ At(0) = next /\ next \in Nat /\ Waits = o
    <2>1. got = <<>> /\ Len(proc) >= frames /\ frames > 0 /\ frames \in Nat
      BY DEF CInv, Sized, Typed
    <2> QED
      BY <2>1, Places DEF Waits
  <1>2. /\ o \in 1 .. Waits /\ ~(o <= frames_in + Len(got)) /\ Waits + 1 - o = 1
        /\ 0 \in 0 .. o - 1
    BY <1>1
  <1>3. At(o) = Head(proc)
    <2>1. At(o) = proc[1]
      BY <1>1, <1>2 DEF At
    <2>2. Head(proc) = proc[1]
      BY <1>1 DEF CInv, Past
    <2> QED
      BY <2>1, <2>2
  <1>4. At(o) \in Int
    BY <1>2, Places
  <1>5. ~Cut(At(o))
    BY <1>3 DEF Cut
  <1>6. At(0) = At(o) + (o - 0)
    BY <1>2, <1>5 DEF AInv, Contiguous
  <1> QED
    BY <1>1, <1>3, <1>4, <1>6 DEF BufDelay

\* The frames that wait keep their places behind the driver.
THEOREM InPlace == Spec => []AInv
  BY Invariant, InitPlaces, NextPlaces, PTL DEF Spec

\* No request, failure or effect makes a buffer of the stream hold more than
\* was allocated for it.
THEOREM TypeCorrect == Spec => []TypeOK
  BY Invariant, InvTypeOK, PTL

\* A resampled stream without effects gives nothing captured before its
\* last start.
THEOREM FreshHolds == Spec => []Fresh
  BY Invariant, InvFresh, PTL

\* The delay that the echo canceller is told for what the HAL holds is the
\* age of the first frame it will be given.
THEOREM DelayIsAgeHolds == Spec => []DelayIsAge
  BY Invariant, InPlace, PlacesDelay, PTL

-----------------------------------------------------------------------------
(***************************************************************************)
(* A sequence of frames in order: of those that count, who is in P does    *)
(* not, each joins the one before it or follows a break in B.  The first   *)
(* wl wait behind the resampler, a frame of which is r of the driver.      *)
(***************************************************************************)
\* A sequence of frames.
Frames(s) == Len(s) \in Nat /\ \A i \in 1 .. Len(s) : s[i] \in Nat

Given(s, P, j)      == s[j] \notin P
Before(s, P, j, x)  == \A i \in 1 .. j - 1 : Given(s, P, i) => s[i] < x
Step(wl, r, j)      == IF j <= wl + 1 THEN r ELSE 1

\* A break is what parts it from the frames before it ...
Broken(s, wl, l, P, B, r, j) ==
    \E b \in B : b <= s[j] /\ s[j] < b + Step(wl, r, j) /\ l < b /\ Before(s, P, j, b)

\* ... or it comes right after its neighbour ...
Linked(s, wl, P, r, j) == j > 1 /\ Given(s, P, j - 1) /\ s[j] = s[j - 1] + Step(wl, r, j)

\* ... or after the frame in_read() has given last.
Leads(s, l, P, r, j) == s[j] = l + r /\ \A i \in 1 .. j - 1 : ~Given(s, P, i)

Joins(s, wl, l, P, B, r, j) ==
    /\ l < s[j] /\ Before(s, P, j, s[j])
    /\ Broken(s, wl, l, P, B, r, j) \/ Linked(s, wl, P, r, j) \/ Leads(s, l, P, r, j)

Chain(s, wl, l, P, B, r) ==
    \A j \in 1 .. Len(s) : Given(s, P, j) => Joins(s, wl, l, P, B, r, j)

\* t is s without the q frames after the first p.
Without(s, t, p, q) ==
    /\ Len(t) + q = Len(s) /\ p + q <= Len(s)
    /\ \A i \in 1 .. p : t[i] = s[i]
    /\ \A i \in p + 1 .. Len(t) : t[i] = s[i + q]

LEMMA ChainGrows ==
    ASSUME NEW s, Frames(s), NEW wl \in Nat, NEW l \in Nat, NEW P, NEW B, NEW C, B \subseteq C,
           NEW r \in Nat \ {0}, Chain(s, wl, l, P, B, r)
    PROVE  Chain(s, wl, l, P, C, r)
  BY DEF Chain, Joins, Broken

\* in_read() has given q frames.
LEMMA ChainGiven ==
    ASSUME NEW s, NEW t, Frames(s), Frames(t), NEW p \in Nat, NEW q \in Nat,
           NEW wl \in Nat, p + q <= wl, NEW l \in Nat, NEW k \in Nat, NEW P,
           NEW B \in SUBSET Nat, NEW r \in Nat \ {0},
           Without(s, t, p, q), Chain(s, wl, l, P, B, r),
           \A i \in 1 .. p : ~Given(s, P, i),
           \/ k = l /\ \A i \in p + 1 .. p + q : ~Given(s, P, i)
           \/ \E m \in p + 1 .. p + q :
                k = s[m] /\ Given(s, P, m) /\ \A i \in m + 1 .. p + q : ~Given(s, P, i)
    PROVE  Chain(t, wl - q, k, P, B, r)
  <1> SUFFICES ASSUME NEW j \in 1 .. Len(t), Given(t, P, j)
               PROVE  Joins(t, wl - q, k, P, B, r, j)
    BY DEF Chain
  <1>1. /\ Len(s) \in Nat /\ Len(t) \in Nat /\ Len(t) + q = Len(s) /\ p + q <= Len(s)
        /\ \A i \in 1 .. Len(s) : s[i] \in Nat
        /\ \A i \in 1 .. Len(t) : t[i] \in Nat
    BY DEF Without, Frames
  <1>2. \A i \in p + 1 .. Len(t) : t[i] = s[i + q]
    BY DEF Without
  <1>3. j > p
    BY <1>1 DEF Without, Given
  <1>4. j + q \in 1 .. Len(s) /\ t[j] = s[j + q] /\ Given(s, P, j + q)
    BY <1>1, <1>2, <1>3 DEF Given
  <1>5. Joins(s, wl, l, P, B, r, j + q)
    BY <1>4 DEF Chain
  <1>6. \A i \in 1 .. j - 1 : Given(t, P, i) =>
            i > p /\ t[i] = s[i + q] /\ Given(s, P, i + q) /\ i + q \in 1 .. j + q - 1
    BY <1>1, <1>2 DEF Without, Given
  <1>7. k < s[j + q]
    BY <1>1, <1>3, <1>5 DEF Joins, Before
  <1>8. Before(t, P, j, t[j])
    BY <1>4, <1>5, <1>6 DEF Joins, Before
  <1>9. Step(wl, r, j + q) = Step(wl - q, r, j)
    BY DEF Step
  <1>10. CASE Broken(s, wl, l, P, B, r, j + q)
    <2>1. PICK b \in B : /\ b <= s[j + q] /\ s[j + q] < b + Step(wl, r, j + q)
                         /\ l < b /\ Before(s, P, j + q, b)
      BY <1>10 DEF Broken
    <2>2. Before(t, P, j, b)
      BY <1>6, <2>1 DEF Before
    <2>3. k < b
      BY <1>1, <1>3, <2>1 DEF Before
    <2> QED
      BY <1>4, <1>7, <1>8, <1>9, <2>1, <2>2, <2>3 DEF Joins, Broken
  <1>11. CASE Linked(s, wl, P, r, j + q)
    <2>1. j + q > 1 /\ Given(s, P, j + q - 1) /\ s[j + q] = s[j + q - 1] + Step(wl, r, j + q)
      BY <1>11 DEF Linked
    <2>2. CASE j - 1 > p
      <3>1. j > 1 /\ j - 1 \in p + 1 .. Len(t)
        BY <1>1, <2>2
      <3>2. t[j - 1] = s[j - 1 + q] /\ j - 1 + q = j + q - 1
        BY <1>2, <3>1
      <3>3. Linked(t, wl - q, P, r, j)
        BY <1>4, <1>9, <2>1, <3>1, <3>2 DEF Linked, Given
      <3> QED
        BY <1>4, <1>7, <1>8, <3>3 DEF Joins
    <2>3. CASE ~(j - 1 > p)
      <3>1. j - 1 = p /\ j + q - 1 = p + q
        BY <1>3, <2>3
      <3>2. q > 0 /\ k = s[p + q]
        <4>1. Given(s, P, p + q)
          BY <2>1, <3>1 DEF Given
        <4>2. q # 0
          <5>1. ~(p + q \in 1 .. p)
            BY <4>1
          <5> QED
            BY <1>1, <2>1, <3>1, <5>1
        <4>3. q > 0 /\ p + q \in p + 1 .. p + q
          BY <4>2
        <4>4. PICK m \in p + 1 .. p + q :
                  k = s[m] /\ Given(s, P, m) /\ \A i \in m + 1 .. p + q : ~Given(s, P, i)
          BY <4>1, <4>3
        <4>5. ~(p + q \in m + 1 .. p + q)
          BY <4>1, <4>4
        <4>6. m = p + q
          BY <4>4, <4>5
        <4> QED
          BY <4>3, <4>4, <4>6
      <3>3. Step(wl, r, j + q) = r
        BY <3>1 DEF Step
      <3>4. \A i \in 1 .. j - 1 : ~Given(t, P, i)
        BY <1>6, <3>1
      <3>5. Leads(t, k, P, r, j)
        BY <1>4, <2>1, <3>1, <3>2, <3>3, <3>4 DEF Leads
      <3> QED
        BY <1>4, <1>7, <1>8, <3>5 DEF Joins
    <2> QED
      BY <2>2, <2>3
  <1>12. CASE Leads(s, l, P, r, j + q)
    <2>1. s[j + q] = l + r /\ \A i \in 1 .. j + q - 1 : ~Given(s, P, i)
      BY <1>12 DEF Leads
    <2>2. k = l
      BY <1>1, <1>3, <2>1
    <2>3. \A i \in 1 .. j - 1 : ~Given(t, P, i)
      BY <1>6, <2>1
    <2> QED
      BY <1>4, <1>7, <1>8, <2>1, <2>2, <2>3 DEF Joins, Leads
  <1> QED
    BY <1>5, <1>10, <1>11, <1>12 DEF Joins

\* q frames are lost, and the frame behind them is one before which others are.
LEMMA ChainDropped ==
    ASSUME NEW s, NEW t, Frames(s), Frames(t), NEW p \in Nat, NEW q \in Nat,
           NEW wl \in Nat, p + q <= wl, NEW l \in Nat, NEW P,
           NEW B \in SUBSET Nat, NEW r \in Nat \ {0},
           Without(s, t, p, q), Chain(s, wl, l, P, B, r),
           p < Len(t) => t[p + 1] \in B
    PROVE  Chain(t, wl - q, l, P, B, r)
  <1> SUFFICES ASSUME NEW j \in 1 .. Len(t), Given(t, P, j)
               PROVE  Joins(t, wl - q, l, P, B, r, j)
    BY DEF Chain
  <1> DEFINE m == IF j <= p THEN j ELSE j + q
             Back(i) == IF i <= p THEN i ELSE i + q
  <1>1. /\ Len(s) \in Nat /\ Len(t) \in Nat /\ Len(t) + q = Len(s) /\ p + q <= Len(s)
        /\ \A i \in 1 .. Len(s) : s[i] \in Nat
        /\ \A i \in 1 .. Len(t) : t[i] \in Nat
    BY DEF Without, Frames
  <1>2. \A i \in 1 .. Len(t) : t[i] = s[Back(i)] /\ Back(i) \in 1 .. Len(s)
    BY <1>1 DEF Without
  <1>3. m \in 1 .. Len(s) /\ t[j] = s[m] /\ Given(s, P, m)
    BY <1>2 DEF Given
  <1>4. Joins(s, wl, l, P, B, r, m)
    BY <1>3 DEF Chain
  <1>5. \A i \in 1 .. j - 1 : Given(t, P, i) =>
            t[i] = s[Back(i)] /\ Given(s, P, Back(i)) /\ Back(i) \in 1 .. m - 1
    <2> SUFFICES ASSUME NEW i \in 1 .. j - 1, Given(t, P, i)
                 PROVE  t[i] = s[Back(i)] /\ Given(s, P, Back(i)) /\ Back(i) \in 1 .. m - 1
      OBVIOUS
    <2>1. i \in 1 .. Len(t)
      BY <1>1
    <2>2. t[i] = s[Back(i)]
      BY <1>2, <2>1
    <2>3. Back(i) \in 1 .. m - 1
      BY <1>1, <2>1
    <2> QED
      BY <2>2, <2>3 DEF Given
  <1>6. l < t[j] /\ Before(t, P, j, t[j])
    BY <1>3, <1>4, <1>5 DEF Joins, Before
  <1>7. j # p + 1 => Step(wl, r, m) = Step(wl - q, r, j)
    BY <1>1 DEF Step
  <1>8. CASE j = p + 1
    <2>1. t[j] \in B /\ t[j] <= t[j] /\ t[j] < t[j] + Step(wl - q, r, j)
      BY <1>1, <1>8 DEF Step
    <2> QED
      BY <1>6, <2>1 DEF Joins, Broken
  <1>9. CASE j # p + 1 /\ Broken(s, wl, l, P, B, r, m)
    <2>1. PICK b \in B : /\ b <= s[m] /\ s[m] < b + Step(wl, r, m)
                         /\ l < b /\ Before(s, P, m, b)
      BY <1>9 DEF Broken
    <2>2. Before(t, P, j, b)
      BY <1>5, <2>1 DEF Before
    <2> QED
      BY <1>3, <1>6, <1>7, <1>9, <2>1, <2>2 DEF Joins, Broken
  <1>10. CASE j # p + 1 /\ Linked(s, wl, P, r, m)
    <2>1. m > 1 /\ Given(s, P, m - 1) /\ s[m] = s[m - 1] + Step(wl, r, m)
      BY <1>10 DEF Linked
    <2>2. j > 1 /\ j - 1 \in 1 .. Len(t) /\ Back(j - 1) = m - 1
      BY <1>1, <1>10, <2>1
    <2>3. t[j - 1] = s[m - 1]
      BY <1>2, <2>2
    <2> QED
      BY <1>3, <1>6, <1>7, <1>10, <2>1, <2>2, <2>3 DEF Joins, Linked, Given
  <1>11. CASE j # p + 1 /\ Leads(s, l, P, r, m)
    BY <1>3, <1>5, <1>6, <1>11 DEF Joins, Leads
  <1> QED
    BY <1>4, <1>8, <1>9, <1>10, <1>11 DEF Joins

\* A path leaves the first p frames behind.
LEMMA ChainMarked ==
    ASSUME NEW s, Frames(s), NEW p \in Nat, NEW wl \in Nat, NEW l \in Nat,
           NEW P, NEW Q, P \subseteq Q,
           NEW B \in SUBSET Nat, NEW r \in Nat \ {0}, Chain(s, wl, l, P, B, r),
           \A i \in 1 .. p : s[i] \in Q,
           \A x \in Q : x \in P \/ \E i \in 1 .. p : s[i] = x,
           p < Len(s), s[p + 1] \in B
    PROVE  Chain(s, wl, l, Q, B, r)
  <1> SUFFICES ASSUME NEW j \in 1 .. Len(s), Given(s, Q, j)
               PROVE  Joins(s, wl, l, Q, B, r, j)
    BY DEF Chain
  <1>1. Len(s) \in Nat /\ \A i \in 1 .. Len(s) : s[i] \in Nat
    BY DEF Frames
  <1>2. Given(s, P, j) /\ Joins(s, wl, l, P, B, r, j) /\ j > p
    BY <1>1 DEF Given, Chain
  <1>3. \A i \in 1 .. j : Given(s, Q, i) => Given(s, P, i)
    BY DEF Given
  <1>4. l < s[j] /\ Before(s, Q, j, s[j])
    BY <1>2, <1>3 DEF Joins, Before
  <1>5. CASE j = p + 1
    <2>1. s[j] \in B /\ s[j] <= s[j] /\ s[j] < s[j] + Step(wl, r, j)
      BY <1>1, <1>5 DEF Step
    <2> QED
      BY <1>4, <2>1 DEF Joins, Broken
  <1>6. CASE j # p + 1 /\ Broken(s, wl, l, P, B, r, j)
    BY <1>3, <1>4, <1>6 DEF Joins, Broken, Before
  <1>7. CASE j # p + 1 /\ Linked(s, wl, P, r, j)
    <2>1. j > 1 /\ Given(s, P, j - 1) /\ s[j] = s[j - 1] + Step(wl, r, j)
      BY <1>7 DEF Linked
    <2>2. j - 1 \in 1 .. Len(s) /\ j - 1 > p
      BY <1>1, <1>2, <1>7
    <2>3. Joins(s, wl, l, P, B, r, j - 1)
      BY <2>1, <2>2 DEF Chain
    <2>4. Given(s, Q, j - 1)
      <3> SUFFICES ASSUME NEW i \in 1 .. p, s[i] = s[j - 1]
                   PROVE  FALSE
        BY <2>1 DEF Given
      <3>1. i \in 1 .. j - 1 - 1 /\ Given(s, P, i)
        BY <2>1, <2>2 DEF Given
      <3>2. s[i] < s[j - 1]
        BY <2>3, <3>1 DEF Joins, Before
      <3> QED
        BY <1>1, <2>2, <3>2
    <2> QED
      BY <1>4, <2>1, <2>4 DEF Joins, Linked
  <1>8. CASE j # p + 1 /\ Leads(s, l, P, r, j)
    BY <1>3, <1>4, <1>8 DEF Joins, Leads
  <1> QED
    BY <1>2, <1>5, <1>6, <1>7, <1>8 DEF Joins

\* A frame is in place because of the frames before it.
LEMMA JoinsThere ==
    ASSUME NEW s, NEW t, NEW j \in Nat \ {0}, NEW wl \in Nat, NEW v \in Nat, NEW l \in Nat,
           NEW P, NEW B, NEW r \in Nat \ {0}, Step(v, r, j) = Step(wl, r, j),
           \A i \in 1 .. j : t[i] = s[i], Joins(s, wl, l, P, B, r, j)
    PROVE  Joins(t, v, l, P, B, r, j)
  <1>1. /\ \A i \in 1 .. j - 1 : t[i] = s[i] /\ (Given(t, P, i) <=> Given(s, P, i))
        /\ t[j] = s[j]
    BY DEF Given
  <1>2. ASSUME NEW x, Before(s, P, j, x)
        PROVE  Before(t, P, j, x)
    BY <1>1, <1>2 DEF Before
  <1>3. j > 1 => j - 1 \in 1 .. j - 1
    OBVIOUS
  <1>4. Linked(s, wl, P, r, j) => Linked(t, v, P, r, j)
    BY <1>1, <1>3 DEF Linked
  <1>5. Leads(s, l, P, r, j) => Leads(t, l, P, r, j)
    BY <1>1 DEF Leads
  <1>6. Broken(s, wl, l, P, B, r, j) => Broken(t, v, l, P, B, r, j)
    BY <1>1, <1>2 DEF Broken
  <1> QED
    BY <1>1, <1>2, <1>4, <1>5, <1>6 DEF Joins

\* The driver starts again: what was before it is memory nobody wrote, and the
\* next frame is one before which others are lost.
LEMMA ChainRenewed ==
    ASSUME NEW s, NEW t, Frames(s), Frames(t), NEW p \in Nat, p < Len(s), p < Len(t),
           NEW wl \in Nat, wl <= p, NEW l \in Nat, NEW P,
           NEW B \in SUBSET Nat, NEW r \in Nat \ {0}, Chain(s, wl, l, P, B, r),
           \A i \in 1 .. p : t[i] = s[i],
           \A i \in p + 1 .. Len(t) - 1 : ~Given(t, P, i),
           Given(s, P, Len(s)), s[Len(s)] <= t[Len(t)], t[Len(t)] \in B
    PROVE  Chain(t, wl, l, P, B, r)
  <1> SUFFICES ASSUME NEW j \in 1 .. Len(t), Given(t, P, j)
               PROVE  Joins(t, wl, l, P, B, r, j)
    BY DEF Chain
  <1>1. /\ Len(s) \in Nat /\ Len(t) \in Nat
        /\ \A i \in 1 .. Len(s) : s[i] \in Nat
        /\ \A i \in 1 .. Len(t) : t[i] \in Nat
    BY DEF Frames
  <1>2. j \in 1 .. p \/ j = Len(t)
    BY <1>1
  <1>3. CASE j \in 1 .. p
    <2>1. /\ \A i \in 1 .. j : t[i] = s[i]
          /\ \A i \in 1 .. j : Given(t, P, i) <=> Given(s, P, i)
      BY <1>3 DEF Given
    <2>2. Joins(s, wl, l, P, B, r, j)
      <3>1. j \in 1 .. Len(s) /\ j \in 1 .. j
        BY <1>1, <1>3
      <3> QED
        BY <2>1, <3>1 DEF Chain
    <2> QED
      BY <1>1, <1>3, <2>1, <2>2, JoinsThere
  <1>4. CASE j = Len(t)
    <2>1. Len(s) \in 1 .. Len(s)
      BY <1>1
    <2>2. l < s[Len(s)] /\ Before(s, P, Len(s), s[Len(s)])
      BY <2>1 DEF Chain, Joins
    <2>3. ASSUME NEW i \in 1 .. j - 1, Given(t, P, i)
          PROVE  t[i] < t[j]
      <3>1. i \in 1 .. p /\ i \in 1 .. Len(s) - 1
        BY <1>1, <1>4, <2>3
      <3>2. t[i] = s[i] /\ Given(s, P, i)
        BY <2>3, <3>1 DEF Given
      <3>3. t[i] < s[Len(s)]
        BY <2>2, <3>1, <3>2 DEF Before
      <3>4. i \in 1 .. Len(t) /\ Len(t) \in 1 .. Len(t)
        BY <1>1, <3>1
      <3>5. t[i] \in Nat /\ s[Len(s)] \in Nat /\ t[Len(t)] \in Nat
        BY <1>1, <2>1, <3>4
      <3>6. t[i] < t[Len(t)]
        BY <3>3, <3>5
      <3> QED
        BY <1>4, <3>6
    <2>4. Before(t, P, j, t[j])
      BY <2>3 DEF Before
    <2>5. l < t[j] /\ t[j] \in B /\ t[j] <= t[j] /\ t[j] < t[j] + Step(wl, r, j)
      BY <1>1, <1>4, <2>1, <2>2 DEF Step
    <2> QED
      BY <2>4, <2>5 DEF Joins, Broken
  <1> QED
    BY <1>2, <1>3, <1>4

\* pcm_read() gives the framework the frames up to the next one, m.
LEMMA ChainDirect ==
    ASSUME NEW t, Frames(t), NEW wl \in Nat, NEW P, NEW B, NEW m \in Nat \ {0},
           Len(t) > 0, \A i \in 1 .. Len(t) - 1 : ~Given(t, P, i), t[Len(t)] = m
    PROVE  Chain(t, wl, m - 1, P, B, 1)
  <1>1. Len(t) \in Nat /\ \A i \in 1 .. Len(t) : t[i] \in Nat
    BY DEF Frames
  <1> SUFFICES ASSUME NEW j \in 1 .. Len(t), Given(t, P, j)
               PROVE  Joins(t, wl, m - 1, P, B, 1, j)
    BY DEF Chain
  <1>2. j = Len(t)
    BY <1>1
  <1>3. t[j] = (m - 1) + 1 /\ m - 1 < t[j] /\ \A i \in 1 .. j - 1 : ~Given(t, P, i)
    BY <1>2
  <1>4. Before(t, P, j, t[j])
    BY <1>3 DEF Before
  <1> QED
    BY <1>3, <1>4 DEF Joins, Leads

\* The driver gives more frames.
LEMMA ChainExtended ==
    ASSUME NEW s, NEW t, Frames(s), Frames(t), NEW p \in Nat, Len(s) = p + 1, Len(t) > p,
           NEW wl \in Nat, wl <= p, NEW l \in Nat, NEW P,
           NEW B, NEW r \in Nat \ {0}, Chain(s, wl, l, P, B, r),
           \A i \in 1 .. p + 1 : t[i] = s[i],
           \A i \in p + 2 .. Len(t) : t[i] = t[i - 1] + 1,
           \A i \in p + 1 .. Len(t) : t[i] = s[p + 1] + (i - p - 1) /\ Given(t, P, i)
    PROVE  Chain(t, wl, l, P, B, r)
  <1> SUFFICES ASSUME NEW j \in 1 .. Len(t), Given(t, P, j)
               PROVE  Joins(t, wl, l, P, B, r, j)
    BY DEF Chain
  <1>1. /\ Len(s) \in Nat /\ Len(t) \in Nat
        /\ \A i \in 1 .. Len(s) : s[i] \in Nat
        /\ \A i \in 1 .. Len(t) : t[i] \in Nat
    BY DEF Frames
  <1>2. CASE j \in 1 .. p + 1
    <2>1. /\ \A i \in 1 .. j : t[i] = s[i]
          /\ \A i \in 1 .. j : Given(t, P, i) <=> Given(s, P, i)
      BY <1>2 DEF Given
    <2>2. Joins(s, wl, l, P, B, r, j)
      <3>1. j \in 1 .. Len(s) /\ j \in 1 .. j
        BY <1>1, <1>2
      <3> QED
        BY <2>1, <3>1 DEF Chain
    <2>3. j \in Nat \ {0} /\ Step(wl, r, j) = Step(wl, r, j)
      BY <1>2
    <2> QED
      BY <2>1, <2>2, <2>3, JoinsThere
  <1>3. CASE j \in p + 2 .. Len(t)
    <2>1. p + 1 \in 1 .. p + 1 /\ p + 1 \in p + 1 .. Len(t) /\ p + 1 \in 1 .. Len(s)
      BY <1>1
    <2>2. Given(s, P, p + 1)
      <3>1. t[p + 1] = s[p + 1] /\ Given(t, P, p + 1)
        BY <2>1
      <3> QED
        BY <3>1 DEF Given
    <2>3. l < s[p + 1] /\ Before(s, P, p + 1, s[p + 1])
      BY <2>1, <2>2 DEF Chain, Joins
    <2>4. j \in p + 1 .. Len(t) /\ t[j] = s[p + 1] + (j - p - 1) /\ s[p + 1] \in Nat
      BY <1>1, <1>3, <2>1
    <2>5. ASSUME NEW i \in 1 .. j - 1, Given(t, P, i)
          PROVE  t[i] < t[j]
      <3>1. CASE i \in 1 .. p
        <4>1. t[i] = s[i] /\ Given(s, P, i) /\ i \in 1 .. (p + 1) - 1
          BY <2>5, <3>1 DEF Given
        <4>2. s[i] < s[p + 1] /\ s[i] \in Nat
          BY <1>1, <2>3, <4>1 DEF Before
        <4> QED
          BY <1>3, <2>4, <4>1, <4>2
      <3>2. CASE i \in p + 1 .. j - 1
        <4> HIDE DEF Given
        <4>1. i \in p + 1 .. Len(t)
          BY <1>1, <1>3, <3>2
        <4>2. t[i] = s[p + 1] + (i - p - 1)
          BY <4>1
        <4> QED
          BY <1>3, <2>4, <3>2, <4>2
      <3> QED
        BY <3>1, <3>2
    <2>6. Before(t, P, j, t[j])
      BY <2>5 DEF Before
    <2>7. l < t[j]
      BY <1>3, <2>3, <2>4
    <2>8. Step(wl, r, j) = 1
      BY <1>3 DEF Step
    <2>9. t[j] = t[j - 1] + 1 /\ Given(t, P, j - 1) /\ j > 1
      BY <1>1, <1>3
    <2> QED
      BY <2>6, <2>7, <2>8, <2>9 DEF Joins, Linked
  <1> QED
    BY <1>1, <1>2, <1>3

\* Every non-empty set of numbers has a least one.
LEMMA LeastNumber ==
    ASSUME NEW T \in SUBSET Nat, T # {}
    PROVE  \E x \in T : \A y \in T : x <= y
  <1>1. PICK x \in T : \A y \in T : ~(<<y, x>> \in OpToRel(<, Nat))
    BY WFMin, NatLessThanWellFounded
  <1>2. \A y \in T : ~(y < x)
    BY <1>1 DEF OpToRel
  <1> QED
    BY <1>2

\* A set with 0 and with the next number of each has all.
LEMMA Counted ==
    ASSUME NEW n \in Nat, NEW T, 0 \in T, \A i \in 0 .. n - 1 : i \in T => i + 1 \in T
    PROVE  0 .. n \subseteq T
  <1> DEFINE Rest == {i \in 0 .. n : i \notin T}
  <1> SUFFICES ASSUME Rest # {}
               PROVE  FALSE
    OBVIOUS
  <1>1. PICK x \in Rest : \A y \in Rest : x <= y
    <2>1. Rest \in SUBSET Nat
      OBVIOUS
    <2> HIDE DEF Rest
    <2> QED
      BY <2>1, LeastNumber
  <1>2. x \in 0 .. n /\ x \notin T /\ x # 0
    BY <1>1
  <1>3. x - 1 \in 0 .. n - 1 /\ x - 1 \in 0 .. n /\ ~(x <= x - 1) /\ (x - 1) + 1 = x
    BY <1>2
  <1>4. x - 1 \in T
    BY <1>1, <1>3
  <1> QED
    BY <1>2, <1>3, <1>4

\* Frames that are each right behind their neighbour or a break make a run,
\* from the one after the last break on.
LEMMA RunFromBreak ==
    ASSUME NEW s, Frames(s), NEW B \in SUBSET Nat, NEW m \in Nat \ {0}, NEW n \in Nat,
           m + n <= Len(s),
           \A i \in m + 1 .. m + n : s[i] \in B \/ s[i] = s[i - 1] + 1,
           \A i \in m + 1 .. m + n : s[m] < s[i]
    PROVE  \/ s[m + n] = s[m] + n
           \/ \E b \in B : s[m] < b /\ b <= s[m + n] /\ s[m + n] < b + n
  <1> DEFINE Run(k) == \/ s[m + k] = s[m] + k
                       \/ \E b \in B : s[m] < b /\ b <= s[m + k] /\ s[m + k] < b + k
  <1>1. Len(s) \in Nat /\ \A i \in 1 .. Len(s) : s[i] \in Nat
    BY DEF Frames
  <1>2. \A k \in 0 .. n : s[m + k] \in Nat
    BY <1>1
  <1>3. Run(0)
    <2>1. s[m + 0] = s[m] /\ s[m] \in Nat
      BY <1>1
    <2> QED
      BY <2>1
  <1>4. ASSUME NEW k \in 0 .. n - 1, Run(k)
        PROVE  Run(k + 1)
    <2>1. /\ m + (k + 1) \in m + 1 .. m + n /\ m + (k + 1) - 1 = m + k
          /\ k + 1 \in 0 .. n /\ k \in 0 .. n /\ 0 \in 0 .. n /\ m + 0 = m
      OBVIOUS
    <2>2. s[m + (k + 1)] \in Nat /\ s[m + k] \in Nat /\ s[m] \in Nat
      BY <1>2, <2>1
    <2>3. s[m] < s[m + (k + 1)]
      BY <2>1
    <2>4. CASE s[m + (k + 1)] \in B
      <3>1. s[m + (k + 1)] < s[m + (k + 1)] + (k + 1)
        BY <2>2
      <3> QED
        BY <2>2, <2>3, <2>4, <3>1
    <2>5. CASE s[m + (k + 1)] = s[m + k] + 1
      <3>1. CASE s[m + k] = s[m] + k
        BY <2>2, <2>5, <3>1
      <3>2. CASE \E b \in B : s[m] < b /\ b <= s[m + k] /\ s[m + k] < b + k
        <4>1. PICK b \in B : s[m] < b /\ b <= s[m + k] /\ s[m + k] < b + k
          BY <3>2
        <4>2. b <= s[m + (k + 1)] /\ s[m + (k + 1)] < b + (k + 1)
          BY <2>2, <2>5, <4>1
        <4> QED
          BY <4>1, <4>2
      <3> QED
        BY <1>4, <3>1, <3>2
    <2>6. s[m + (k + 1)] \in B \/ s[m + (k + 1)] = s[m + k] + 1
      BY <2>1
    <2> QED
      BY <2>4, <2>5, <2>6
  <1>5. Run(n)
    <2> DEFINE Runs == {k \in 0 .. n : Run(k)}
    <2>1. 0 \in Runs /\ \A k \in 0 .. n - 1 : k \in Runs => k + 1 \in Runs
      <3> HIDE DEF Run
      <3> QED
        BY <1>3, <1>4
    <2>2. n \in Runs
      <3> HIDE DEF Runs
      <3>1. 0 .. n \subseteq Runs
        BY <2>1, Counted
      <3> QED
        BY <3>1
    <2> QED
      BY <2>2
  <1> QED
    BY <1>5

\* Behind the first wl frames, which wait, is the driver's part.  If none of it
\* has been passed, it is a run.
LEMMA DriverRun ==
    ASSUME NEW s, Frames(s), NEW wl \in Nat, NEW l \in Nat, NEW P, NEW B \in SUBSET Nat,
           NEW r \in Nat \ {0}, Chain(s, wl, l, P, B, r),
           \A i \in wl + 1 .. Len(s) : Given(s, P, i)
    PROVE  \A i \in wl + 2 .. Len(s) :
                /\ s[i] \in B \/ s[i] = s[i - 1] + 1
                /\ \A m \in wl + 1 .. i - 1 : s[m] < s[i]
  <1> SUFFICES ASSUME NEW i \in wl + 2 .. Len(s)
               PROVE  /\ s[i] \in B \/ s[i] = s[i - 1] + 1
                      /\ \A m \in wl + 1 .. i - 1 : s[m] < s[i]
    OBVIOUS
  <1>1. Len(s) \in Nat /\ \A m \in 1 .. Len(s) : s[m] \in Nat
    BY DEF Frames
  <1>2. i \in 1 .. Len(s) /\ i \in wl + 1 .. Len(s) /\ wl + 1 \in 1 .. i - 1
    BY <1>1
  <1>3. Joins(s, wl, l, P, B, r, i) /\ s[i] \in Nat
    BY <1>1, <1>2 DEF Chain
  <1>4. \A m \in wl + 1 .. i - 1 : s[m] < s[i]
    <2> TAKE m \in wl + 1 .. i - 1
    <2>1. m \in wl + 1 .. Len(s) /\ m \in 1 .. i - 1
      BY <1>1
    <2>2. Given(s, P, m)
      BY <2>1
    <2> QED
      BY <1>3, <2>1, <2>2 DEF Joins, Before
  <1>5. Step(wl, r, i) = 1
    BY <1>1 DEF Step
  <1>6. CASE Broken(s, wl, l, P, B, r, i)
    <2>1. PICK b \in B : b <= s[i] /\ s[i] < b + 1
      BY <1>5, <1>6 DEF Broken
    <2>2. s[i] = b
      BY <1>3, <2>1
    <2> QED
      BY <1>4, <2>2
  <1>7. CASE Linked(s, wl, P, r, i)
    BY <1>4, <1>5, <1>7 DEF Linked
  <1>8. ~Leads(s, l, P, r, i)
    <2>1. Given(s, P, wl + 1)
      <3>1. wl + 1 \in wl + 1 .. Len(s)
        BY <1>1
      <3> QED
        BY <3>1
    <2> QED
      BY <1>2, <2>1 DEF Leads
  <1> QED
    BY <1>3, <1>6, <1>7, <1>8 DEF Joins

LEMMA LessThan ==
    ASSUME NEW x \in Nat, NEW y \in Nat, NEW z \in Nat, x < y, y < z
    PROVE  x < z
  OBVIOUS

\* Where each of g groups of r frames begins, and where the last ends.
Groups(f, g, r, h) ==
    /\ f[0] = 0 /\ f[g] = h
    /\ \A i \in 0 .. g : f[i] \in 0 .. h
    /\ \A i \in 1 .. g : f[i] = f[i - 1] + r
    /\ \A i \in 0 .. g : \A k \in 0 .. i - 1 : f[k] < f[i]

\* t has the first frame of each group of s behind the first wl of s.
Grouped(s, t, wl, f, g, h) ==
    /\ \A i \in 1 .. wl : t[i] = s[i]
    /\ \A i \in 0 .. g : t[wl + 1 + i] = s[wl + 1 + f[i]]
    /\ \A i \in wl + 1 + g .. Len(t) : t[i] = s[i - g + h]

\* The resampler makes g frames, each of r of them, behind the first wl; f says
\* where each begins.
LEMMA ChainGrouped ==
    ASSUME NEW s, NEW t, Frames(s), Frames(t), NEW wl \in Nat, NEW g \in Nat,
           NEW r \in Nat \ {0}, NEW f, NEW h \in Nat, Groups(f, g, r, h),
           wl + h + 1 <= Len(s), Len(t) + h = Len(s) + g,
           NEW l \in Nat, NEW P, NEW B \in SUBSET Nat, Chain(s, wl, l, P, B, r),
           \A i \in wl + 1 .. Len(s) : Given(s, P, i),
           Grouped(s, t, wl, f, g, h)
    PROVE  Chain(t, wl + g, l, P, B, r)
  <1> SUFFICES ASSUME NEW j \in 1 .. Len(t), Given(t, P, j)
               PROVE  Joins(t, wl + g, l, P, B, r, j)
    BY DEF Chain
  <1> DEFINE Back(i) == IF i <= wl THEN i
                        ELSE IF i <= wl + 1 + g THEN wl + 1 + f[i - wl - 1]
                        ELSE i - g + h
  <1>1. /\ Len(s) \in Nat /\ Len(t) \in Nat
        /\ \A i \in 1 .. Len(s) : s[i] \in Nat
        /\ \A i \in 1 .. Len(t) : t[i] \in Nat
    BY DEF Frames
  <1>2. \A i \in 0 .. g : f[i] \in 0 .. h
    BY DEF Groups
  <1>3. \A i \in 1 .. Len(t) : t[i] = s[Back(i)] /\ Back(i) \in 1 .. Len(s)
    <2> TAKE i \in 1 .. Len(t)
    <2>1. CASE i <= wl
      BY <1>1, <1>2, <2>1 DEF Grouped
    <2>2. CASE i > wl /\ i <= wl + 1 + g
      <3> DEFINE x == i - wl - 1
      <3>1. x \in 0 .. g /\ wl + 1 + x = i
        BY <1>1, <2>2
      <3>2. Back(i) = wl + 1 + f[x]
        BY <1>1, <2>2
      <3> HIDE DEF x, Back
      <3>3. f[x] \in 0 .. h
        BY <3>1 DEF Groups
      <3>4. t[wl + 1 + x] = s[wl + 1 + f[x]]
        BY <3>1 DEF Grouped
      <3>5. t[i] = s[Back(i)]
        BY <3>1, <3>2, <3>4
      <3>6. wl + 1 + f[x] \in 1 .. Len(s)
        <4>1. \A y \in 0 .. h : wl + 1 + y \in 1 .. Len(s)
          BY <1>1
        <4> QED
          BY <3>3, <4>1
      <3> QED
        BY <3>2, <3>5, <3>6
    <2>3. CASE i > wl + 1 + g
      <3>1. i \in wl + 1 + g .. Len(t) /\ Back(i) = i - g + h
        BY <1>1, <2>3
      <3>2. t[i] = s[i - g + h]
        BY <3>1 DEF Grouped
      <3>3. i - g + h \in 1 .. Len(s)
        BY <1>1, <1>2, <2>3
      <3> QED
        BY <3>1, <3>2, <3>3
    <2> QED
      BY <1>1, <2>1, <2>2, <2>3
  <1>4. \A i \in 1 .. Len(t) : \A k \in 1 .. i - 1 : Back(k) < Back(i)
    <2> TAKE i \in 1 .. Len(t)
    <2> TAKE k \in 1 .. i - 1
    <2>1. CASE i <= wl
      BY <1>1, <2>1
    <2>2. CASE i > wl /\ i <= wl + 1 + g
      <3> DEFINE x == i - wl - 1
                 y == k - wl - 1
      <3>1. Back(i) = wl + 1 + f[x] /\ x \in 0 .. g
        BY <1>1, <2>2
      <3>2. f[x] \in Nat
        <4> HIDE DEF x
        <4> QED
          BY <3>1 DEF Groups
      <3>3. CASE k <= wl
        <4>1. Back(k) = k
          BY <3>3
        <4> HIDE DEF x, Back
        <4> QED
          BY <1>1, <3>1, <3>2, <3>3, <4>1
      <3>4. CASE k > wl
        <4>1. y \in 0 .. x - 1 /\ Back(k) = wl + 1 + f[y]
          BY <1>1, <2>2, <3>4
        <4> HIDE DEF x, y, Back
        <4>2. f[y] < f[x] /\ f[y] \in Nat
          <5>1. y \in 0 .. g
            BY <3>1, <4>1
          <5>2. f[y] \in 0 .. h
            BY <5>1 DEF Groups
          <5>3. f[y] < f[x]
            BY <3>1, <4>1 DEF Groups
          <5> QED
            BY <5>2, <5>3
        <4>3. wl + 1 + f[y] < wl + 1 + f[x]
          BY <3>2, <4>2
        <4> QED
          BY <3>1, <4>1, <4>3
      <3> QED
        BY <1>1, <3>3, <3>4
    <2>3. CASE i > wl + 1 + g
      <3>1. Back(i) = i - g + h
        BY <1>1, <2>3
      <3>2. CASE k <= wl
        BY <1>1, <1>2, <2>3, <3>1, <3>2
      <3>3. CASE k > wl /\ k <= wl + 1 + g
        <4> DEFINE y == k - wl - 1
        <4>1. y \in 0 .. g /\ Back(k) = wl + 1 + f[y]
          BY <1>1, <3>3
        <4> HIDE DEF y, Back
        <4>2. f[y] \in 0 .. h
          BY <4>1 DEF Groups
        <4> QED
          BY <1>1, <1>2, <2>3, <3>1, <4>1, <4>2
      <3>4. CASE k > wl + 1 + g
        BY <1>1, <1>2, <2>3, <3>1, <3>4
      <3> QED
        BY <1>1, <3>2, <3>3, <3>4
    <2> QED
      BY <1>1, <2>1, <2>2, <2>3
  <1>5. CASE j <= wl + 1
    <2>1. \A i \in 1 .. j : t[i] = s[i]
      <3>1. t[wl + 1] = s[wl + 1]
        <4>1. 0 \in 0 .. g /\ wl + 1 + 0 = wl + 1
          OBVIOUS
        <4>2. t[wl + 1 + 0] = s[wl + 1 + f[0]] /\ f[0] = 0
          BY <4>1 DEF Groups, Grouped
        <4> QED
          BY <4>1, <4>2
      <3>2. \A i \in 1 .. j : i \in 1 .. wl \/ i = wl + 1
        BY <1>1, <1>5
      <3> QED
        BY <3>1, <3>2 DEF Grouped
    <2>2. Joins(s, wl, l, P, B, r, j)
      <3>1. j \in 1 .. Len(s) /\ j \in 1 .. j
        BY <1>1, <1>2, <1>5
      <3> QED
        BY <2>1, <3>1 DEF Chain, Given
    <2>3. Step(wl + g, r, j) = Step(wl, r, j)
      BY <1>1, <1>5 DEF Step
    <2>4. j \in Nat \ {0} /\ wl + g \in Nat
      BY <1>1
    <2> QED
      BY <2>1, <2>2, <2>3, <2>4, JoinsThere
  <1> HIDE DEF Back
  <1>6. Back(j) \in 1 .. Len(s) /\ t[j] = s[Back(j)] /\ Given(s, P, Back(j))
    BY <1>3 DEF Given
  <1>7. Joins(s, wl, l, P, B, r, Back(j))
    BY <1>6 DEF Chain
  <1>8. \A i \in 1 .. j - 1 : Given(t, P, i) =>
            t[i] = s[Back(i)] /\ Given(s, P, Back(i)) /\ Back(i) \in 1 .. Back(j) - 1
    <2> SUFFICES ASSUME NEW i \in 1 .. j - 1, Given(t, P, i)
                 PROVE  t[i] = s[Back(i)] /\ Given(s, P, Back(i)) /\ Back(i) \in 1 .. Back(j) - 1
      OBVIOUS
    <2>1. i \in 1 .. Len(t)
      BY <1>1
    <2>2. t[i] = s[Back(i)] /\ Back(i) \in 1 .. Len(s) /\ Back(i) < Back(j)
      BY <1>3, <1>4, <2>1
    <2> QED
      BY <1>1, <1>6, <2>2 DEF Given
  <1>9. l < t[j] /\ Before(t, P, j, t[j])
    BY <1>6, <1>7, <1>8 DEF Joins, Before
  <1>10. \A i \in wl + 2 .. Len(s) :
             /\ s[i] \in B \/ s[i] = s[i - 1] + 1
             /\ \A m \in wl + 1 .. i - 1 : s[m] < s[i]
    BY DriverRun
  <1>11. CASE j > wl + 1 /\ j <= wl + 1 + g
    <2> DEFINE i == j - wl - 1
               m == wl + 1 + f[i - 1]
    <2>1. i \in 1 .. g /\ i - 1 \in 0 .. g /\ i \in 0 .. g /\ f[i] = f[i - 1] + r
      <3>1. i \in 1 .. g
        BY <1>1, <1>11
      <3> HIDE DEF i
      <3> QED
        BY <3>1 DEF Groups
    <2>2. f[i - 1] \in Nat /\ f[i] \in 0 .. h
      <3> HIDE DEF i
      <3> QED
        BY <2>1 DEF Groups
    <2>3. /\ m \in Nat \ {0} /\ m \in wl + 1 .. Len(s) /\ m + r <= Len(s)
          /\ m + r = wl + 1 + f[i]
      <3> HIDE DEF i
      <3>1. m + r = wl + 1 + f[i] /\ m \in Nat \ {0} /\ m >= wl + 1
        <4> DEFINE y == f[i - 1]
        <4>1. y \in Nat /\ f[i] = y + r /\ m = wl + 1 + y
          BY <2>1, <2>2
        <4> HIDE DEF m, y
        <4> QED
          BY <4>1
      <3> HIDE DEF m
      <3>2. m + r <= wl + 1 + h
        BY <2>2, <3>1
      <3>3. m + r <= Len(s) /\ m <= Len(s)
        BY <1>1, <3>1, <3>2
      <3> QED
        BY <1>1, <3>1, <3>3
    <2>4. t[j] = s[m + r] /\ t[j - 1] = s[m]
      <3>1. wl + 1 + i = j /\ wl + 1 + (i - 1) = j - 1
        BY <1>1, <1>11
      <3>2. t[wl + 1 + i] = s[wl + 1 + f[i]] /\ t[wl + 1 + (i - 1)] = s[wl + 1 + f[i - 1]]
        BY <2>1 DEF Grouped
      <3> QED
        BY <2>3, <3>1, <3>2
    <2>5. Back(j) = m + r /\ Back(j - 1) = m
      BY <1>1, <1>11, <2>1, <2>2 DEF Back
    <2> HIDE DEF i, m
    <2>6. \A x \in m + 1 .. m + r : (s[x] \in B \/ s[x] = s[x - 1] + 1) /\ s[m] < s[x]
      <3> TAKE x \in m + 1 .. m + r
      <3>1. x \in wl + 2 .. Len(s) /\ m \in wl + 1 .. x - 1
        BY <1>1, <2>3
      <3> QED
        BY <1>10, <3>1
    <2>7. \/ s[m + r] = s[m] + r
          \/ \E b \in B : s[m] < b /\ b <= s[m + r] /\ s[m + r] < b + r
      BY <2>3, <2>6, RunFromBreak
    <2>8. Step(wl + g, r, j) = r
      BY <1>1, <1>11 DEF Step
    <2>9. Given(s, P, m) /\ s[m] \in Nat
      BY <1>1, <2>3
    <2>10. CASE s[m + r] = s[m] + r
      <3>1. j > 1 /\ t[j] = t[j - 1] + Step(wl + g, r, j)
        BY <1>1, <1>11, <2>4, <2>8, <2>10
      <3>2. Given(t, P, j - 1)
        BY <2>4, <2>9 DEF Given
      <3> QED
        BY <1>9, <3>1, <3>2 DEF Joins, Linked
    <2>11. CASE \E b \in B : s[m] < b /\ b <= s[m + r] /\ s[m + r] < b + r
      <3>1. PICK b \in B : s[m] < b /\ b <= s[m + r] /\ s[m + r] < b + r
        BY <2>11
      <3>2. Joins(s, wl, l, P, B, r, m)
        BY <1>1, <2>3, <2>9 DEF Chain
      <3>3. l < b
        <4>1. l < s[m] /\ b \in Nat
          BY <3>2 DEF Joins
        <4> QED
          BY <2>9, <3>1, <4>1
      <3>4. Before(t, P, j, b)
        <4> SUFFICES ASSUME NEW k \in 1 .. j - 1, Given(t, P, k)
                     PROVE  t[k] < b
          BY DEF Before
        <4>1. k \in 1 .. Len(t) /\ j - 1 \in 1 .. Len(t)
              /\ (k = j - 1 \/ k \in 1 .. (j - 1) - 1)
          BY <1>1
        <4>2. CASE k = j - 1
          BY <2>4, <3>1, <4>2
        <4>3. CASE k \in 1 .. (j - 1) - 1
          <5>1. Back(k) < m /\ Back(k) \in 1 .. Len(s) /\ t[k] = s[Back(k)]
            BY <1>3, <1>4, <2>5, <4>1, <4>3
          <5>2. Back(k) \in 1 .. m - 1 /\ Given(s, P, Back(k))
            BY <1>1, <2>3, <5>1 DEF Given
          <5>3. s[Back(k)] < s[m] /\ s[Back(k)] \in Nat
            BY <1>1, <3>2, <5>1, <5>2 DEF Joins, Before
          <5>4. b \in Nat
            OBVIOUS
          <5>5. s[Back(k)] < b
            BY <2>9, <3>1, <5>3, <5>4, LessThan
          <5> QED
            BY <5>1, <5>5
        <4> QED
          BY <4>1, <4>2, <4>3
      <3> QED
        BY <1>9, <2>4, <2>8, <3>1, <3>3, <3>4 DEF Joins, Broken
    <2> QED
      BY <2>7, <2>10, <2>11
  <1>12. CASE j > wl + 1 + g
    <2>1. /\ Back(j) = j - g + h /\ Back(j) > wl + 1
          /\ j > 1 /\ j - 1 \in wl + 1 + g .. Len(t) /\ Back(j) - 1 = (j - 1) - g + h
      BY <1>1, <1>2, <1>12 DEF Back
    <2>2. t[j - 1] = s[Back(j) - 1]
      BY <2>1 DEF Grouped
    <2>3. Step(wl + g, r, j) = 1 /\ Step(wl, r, Back(j)) = 1
      BY <1>1, <1>6, <1>12, <2>1 DEF Step
    <2>4. CASE Broken(s, wl, l, P, B, r, Back(j))
      <3>1. PICK b \in B : b <= s[Back(j)] /\ s[Back(j)] < b + 1 /\ l < b /\ Before(s, P, Back(j), b)
        BY <2>3, <2>4 DEF Broken
      <3>2. Before(t, P, j, b)
        BY <1>8, <3>1 DEF Before
      <3> QED
        BY <1>6, <1>9, <2>3, <3>1, <3>2 DEF Joins, Broken
    <2>5. CASE Linked(s, wl, P, r, Back(j))
      <3>1. Given(s, P, Back(j) - 1) /\ s[Back(j)] = s[Back(j) - 1] + 1
        BY <2>3, <2>5 DEF Linked
      <3>2. Given(t, P, j - 1) /\ t[j] = t[j - 1] + 1
        BY <1>6, <2>2, <3>1 DEF Given
      <3> QED
        BY <1>9, <2>1, <2>3, <3>2 DEF Joins, Linked
    <2>6. ~Leads(s, l, P, r, Back(j))
      <3>1. wl + 1 \in wl + 1 .. Len(s) /\ wl + 1 \in 1 .. Back(j) - 1
        <4>1. Back(j) \in Nat /\ Back(j) <= Len(s) /\ Back(j) > wl + 1
          BY <1>1, <1>6, <2>1
        <4> QED
          BY <1>1, <4>1
      <3>2. Given(s, P, wl + 1)
        BY <3>1
      <3> QED
        BY <3>1, <3>2 DEF Leads
    <2> QED
      BY <1>7, <2>4, <2>5, <2>6 DEF Joins
  <1> QED
    BY <1>1, <1>5, <1>11, <1>12

-----------------------------------------------------------------------------
(***************************************************************************)
(* The frames of the buffers are one such sequence.                        *)
(***************************************************************************)
\* All that in_read() has still to give, in the order in which it will.
All == Waiting \o AtDriver

\* Where each buffer is in it.
Laid ==
    /\ Len(Waiting) = Len(fx) + Len(proc) + Len(got)
    /\ Len(All) = Len(Waiting) + Len(rs) + frames_in + 1
    /\ \A i \in 1 .. Len(fx) : All[i] = fx[i]
    /\ \A i \in 1 .. Len(proc) : All[Len(fx) + i] = proc[i]
    /\ \A i \in 1 .. Len(got) : All[Len(fx) + Len(proc) + i] = got[i]
    /\ \A i \in 1 .. Len(rs) : All[Len(Waiting) + i] = rs[i]
    /\ \A i \in 1 .. frames_in :
            All[Len(Waiting) + Len(rs) + i] = buffer[Period - frames_in + i]
    /\ All[Len(All)] = next

LEMMA ConcatAt ==
    ASSUME NEW S, NEW s \in Seq(S), NEW t \in Seq(S)
    PROVE  /\ s \o t \in Seq(S) /\ Len(s \o t) = Len(s) + Len(t)
           /\ \A i \in 1 .. Len(s) : (s \o t)[i] = s[i]
           /\ \A i \in 1 .. Len(t) : (s \o t)[Len(s) + i] = t[i]
  OBVIOUS

\* Without the resampler's frames, a place of each frame.
LEMMA LaidOut ==
    ASSUME CInv
    PROVE  Laid /\ All \in Seq(0 .. next) /\ AtDriver \in Seq(0 .. next)
           /\ Waiting \in Seq(0 .. next)
  <1> DEFINE Upto == 0 .. next
             u == Unread(buffer, frames_in)
             one == <<next>>
  <1>1. next \in Nat /\ frames_in \in 0 .. Period
    BY DEF CInv, Typed
  <1>2. 0 .. next - 1 \subseteq Upto /\ next \in Upto
    BY <1>1
  <1>3. fx \in Seq(Upto) /\ proc \in Seq(Upto) /\ got \in Seq(Upto) /\ rs \in Seq(Upto)
    BY <1>2, SeqSubset DEF CInv, Past
  <1>4. \A i \in Period - frames_in + 1 .. Period : buffer[i] \in Upto
    BY <1>1, <1>2, SizesPositive DEF CInv, Past
  <1> HIDE DEF Upto
  <1>5. /\ u \in Seq(Upto) /\ Len(u) = frames_in
        /\ \A i \in 1 .. frames_in : u[i] = buffer[Period - frames_in + i]
    <2>1. u \in Seq(Upto) /\ Len(u) = frames_in
      BY <1>1, <1>4, UnreadSeq
    <2>2. ASSUME NEW i \in 1 .. frames_in
          PROVE  u[i] = buffer[Period - frames_in + i]
      BY <1>1, <1>4, UnreadFrame, ZenonT(30)
    <2> QED
      BY <2>1, <2>2
  <1>6. one \in Seq(Upto) /\ Len(one) = 1 /\ one[1] = next
    BY <1>2
  <1> HIDE DEF u, one
  <1> DEFINE a == fx \o proc
             w == a \o got
             c == rs \o u
             d == c \o one
  <1>7. Waiting = w /\ AtDriver = d /\ All = w \o d
    BY DEF Waiting, AtDriver, All, u, one
  <1>8. /\ a \in Seq(Upto) /\ Len(a) = Len(fx) + Len(proc)
        /\ \A i \in 1 .. Len(fx) : a[i] = fx[i]
        /\ \A i \in 1 .. Len(proc) : a[Len(fx) + i] = proc[i]
    <2>1. fx \in Seq(Upto) /\ proc \in Seq(Upto)
      BY <1>3
    <2> QED
      BY <2>1, ConcatAt
  <1>9. /\ c \in Seq(Upto) /\ Len(c) = Len(rs) + frames_in
        /\ \A i \in 1 .. Len(rs) : c[i] = rs[i]
        /\ \A i \in 1 .. frames_in : c[Len(rs) + i] = u[i]
    <2>1. rs \in Seq(Upto) /\ u \in Seq(Upto)
      BY <1>3, <1>5
    <2>2. /\ rs \o u \in Seq(Upto) /\ Len(rs \o u) = Len(rs) + Len(u)
          /\ \A i \in 1 .. Len(rs) : (rs \o u)[i] = rs[i]
          /\ \A i \in 1 .. Len(u) : (rs \o u)[Len(rs) + i] = u[i]
      BY <2>1, ConcatAt
    <2> QED
      BY <1>5, <2>2
  <1> HIDE DEF a, c
  <1>10. /\ w \in Seq(Upto) /\ Len(w) = Len(a) + Len(got)
         /\ \A i \in 1 .. Len(a) : w[i] = a[i]
         /\ \A i \in 1 .. Len(got) : w[Len(a) + i] = got[i]
    <2>1. a \in Seq(Upto) /\ got \in Seq(Upto)
      BY <1>3, <1>8
    <2>2. /\ a \o got \in Seq(Upto) /\ Len(a \o got) = Len(a) + Len(got)
          /\ \A i \in 1 .. Len(a) : (a \o got)[i] = a[i]
          /\ \A i \in 1 .. Len(got) : (a \o got)[Len(a) + i] = got[i]
      BY <2>1, ConcatAt
    <2> QED
      BY <2>2
  <1>11. /\ d \in Seq(Upto) /\ Len(d) = Len(c) + 1
         /\ \A i \in 1 .. Len(c) : d[i] = c[i]
         /\ d[Len(c) + 1] = next
    <2>1. c \in Seq(Upto) /\ one \in Seq(Upto)
      BY <1>6, <1>9
    <2>2. /\ c \o one \in Seq(Upto) /\ Len(c \o one) = Len(c) + Len(one)
          /\ \A i \in 1 .. Len(c) : (c \o one)[i] = c[i]
          /\ \A i \in 1 .. Len(one) : (c \o one)[Len(c) + i] = one[i]
      BY <2>1, ConcatAt
    <2>3. 1 \in 1 .. Len(one)
      BY <1>6
    <2>4. (c \o one)[Len(c) + 1] = next
      BY <1>6, <2>2, <2>3
    <2> QED
      BY <1>6, <2>2, <2>4
  <1> HIDE DEF w, d
  <1>12. /\ All \in Seq(Upto) /\ Len(All) = Len(w) + Len(d)
         /\ \A i \in 1 .. Len(w) : All[i] = w[i]
         /\ \A i \in 1 .. Len(d) : All[Len(w) + i] = d[i]
    <2>1. w \in Seq(Upto) /\ d \in Seq(Upto)
      BY <1>10, <1>11
    <2>2. /\ w \o d \in Seq(Upto) /\ Len(w \o d) = Len(w) + Len(d)
          /\ \A i \in 1 .. Len(w) : (w \o d)[i] = w[i]
          /\ \A i \in 1 .. Len(d) : (w \o d)[Len(w) + i] = d[i]
      BY <2>1, ConcatAt
    <2> QED
      BY <1>7, <2>2
  <1> HIDE DEF All
  <1>13. /\ Len(fx) \in Nat /\ Len(proc) \in Nat /\ Len(got) \in Nat /\ Len(rs) \in Nat
         /\ frames_in \in Nat /\ Len(c) \in Nat
    BY <1>1, <1>3, <1>9, SizesPositive
  <1>14. Len(Waiting) = Len(fx) + Len(proc) + Len(got) /\ Len(Waiting) = Len(w)
    BY <1>7, <1>8, <1>10
  <1>15. Len(All) = Len(Waiting) + Len(rs) + frames_in + 1
    BY <1>7, <1>9, <1>11, <1>12, <1>13, <1>14
  <1>16. \A i \in 1 .. Len(fx) : All[i] = fx[i]
    <2> TAKE i \in 1 .. Len(fx)
    <2>1. i \in 1 .. Len(a) /\ i \in 1 .. Len(w)
      BY <1>8, <1>10, <1>13
    <2> QED
      BY <1>8, <1>10, <1>12, <2>1
  <1>17. \A i \in 1 .. Len(proc) : All[Len(fx) + i] = proc[i]
    <2> TAKE i \in 1 .. Len(proc)
    <2>1. Len(fx) + i \in 1 .. Len(a) /\ Len(fx) + i \in 1 .. Len(w)
      BY <1>8, <1>10, <1>13
    <2> QED
      BY <1>8, <1>10, <1>12, <2>1
  <1>18. \A i \in 1 .. Len(got) : All[Len(fx) + Len(proc) + i] = got[i]
    <2> TAKE i \in 1 .. Len(got)
    <2>1. Len(a) + i = Len(fx) + Len(proc) + i /\ Len(a) + i \in 1 .. Len(w)
      BY <1>8, <1>10, <1>13
    <2> QED
      BY <1>10, <1>12, <2>1
  <1>19. \A i \in 1 .. Len(rs) : All[Len(Waiting) + i] = rs[i]
    <2> TAKE i \in 1 .. Len(rs)
    <2>1. i \in 1 .. Len(c) /\ i \in 1 .. Len(d)
      BY <1>9, <1>11, <1>13
    <2> QED
      BY <1>9, <1>11, <1>12, <1>14, <2>1
  <1>20. \A i \in 1 .. frames_in :
             All[Len(Waiting) + Len(rs) + i] = buffer[Period - frames_in + i]
    <2> TAKE i \in 1 .. frames_in
    <2>1. Len(rs) + i \in 1 .. Len(c) /\ Len(rs) + i \in 1 .. Len(d)
      BY <1>9, <1>11, <1>13
    <2>2. All[Len(w) + (Len(rs) + i)] = buffer[Period - frames_in + i]
      BY <1>5, <1>9, <1>11, <1>12, <2>1
    <2>3. Len(w) + (Len(rs) + i) = Len(Waiting) + Len(rs) + i
      BY <1>13, <1>14
    <2> QED
      BY <2>2, <2>3
  <1>21. All[Len(All)] = next
    <2>1. Len(d) \in 1 .. Len(d) /\ Len(d) = Len(c) + 1
      BY <1>11, <1>13
    <2>2. All[Len(w) + Len(d)] = d[Len(c) + 1]
      BY <1>12, <2>1
    <2> QED
      BY <1>11, <1>12, <2>2
  <1>22. Laid
    BY <1>14, <1>15, <1>16, <1>17, <1>18, <1>19, <1>20, <1>21 DEF Laid
  <1> QED
    BY <1>7, <1>10, <1>11, <1>12, <1>22 DEF Upto

-----------------------------------------------------------------------------
Ordered ==
    /\ passed \in SUBSET (0 .. next - 1) /\ Junk \in passed
    /\ breaks \in SUBSET Nat /\ last \in Nat
    /\ Chain(All, Len(Waiting), last, passed, breaks, Rate)

\* What the path of the in_read() in progress has left behind; and a resampled
\* stream that runs has nothing of that at the driver.
PathLeaves ==
    /\ pc = "frames" /\ preprocessors = {} =>
           \A i \in 1 .. Len(fx) + Len(proc) : All[i] \in passed
    /\ pc = "direct" => \A i \in 1 .. Len(All) - 1 : All[i] \in passed
    /\ resampler /\ ~standby =>
           \A i \in Len(Waiting) + 1 .. Len(All) : All[i] \notin passed

OInv == Ordered /\ PathLeaves

LEMMA AllFrames ==
    ASSUME CInv
    PROVE  /\ Frames(All) /\ Len(Waiting) \in Nat /\ Len(Waiting) < Len(All)
           /\ Len(fx) \in Nat /\ Len(proc) \in Nat /\ Len(got) \in Nat /\ Len(rs) \in Nat
           /\ frames_in \in 0 .. Period /\ next \in Nat \ {0} /\ Rate \in Nat \ {0}
           /\ Len(AtDriver) = Len(All) - Len(Waiting)
           /\ \A i \in 1 .. Len(AtDriver) : AtDriver[i] = All[Len(Waiting) + i]
           /\ \A i \in 1 .. Len(Waiting) : Waiting[i] = All[i]
  <1>1. next \in Nat \ {0} /\ frames_in \in 0 .. Period
    BY DEF CInv, Typed
  <1>2. /\ Len(fx) \in Nat /\ Len(proc) \in Nat /\ Len(got) \in Nat /\ Len(rs) \in Nat
    <2> DEFINE Now == 0 .. next - 1
    <2>1. fx \in Seq(Now) /\ proc \in Seq(Now) /\ got \in Seq(Now) /\ rs \in Seq(Now)
      BY DEF CInv, Past
    <2> HIDE DEF Now
    <2> QED
      BY <2>1
  <1> DEFINE Upto == 0 .. next
  <1>3. Upto \subseteq Nat
    BY <1>1
  <1>4. All \in Seq(Upto) /\ AtDriver \in Seq(Upto) /\ Waiting \in Seq(Upto) /\ Laid
    BY LaidOut
  <1> HIDE DEF Upto
  <1>5. Frames(All)
    <2>1. All \in Seq(Nat)
      BY <1>3, <1>4, SeqSubset
    <2> QED
      BY <2>1 DEF Frames
  <1>6. Len(Waiting) \in Nat /\ Len(AtDriver) \in Nat
    BY <1>4
  <1>7. Len(Waiting) < Len(All)
    BY <1>1, <1>2, <1>4, <1>6, SizesPositive DEF Laid
  <1>8. /\ Waiting \o AtDriver \in Seq(Upto)
        /\ Len(Waiting \o AtDriver) = Len(Waiting) + Len(AtDriver)
        /\ \A i \in 1 .. Len(Waiting) : (Waiting \o AtDriver)[i] = Waiting[i]
        /\ \A i \in 1 .. Len(AtDriver) : (Waiting \o AtDriver)[Len(Waiting) + i] = AtDriver[i]
    BY <1>4, ConcatAt
  <1>9. Len(AtDriver) = Len(All) - Len(Waiting)
    BY <1>6, <1>8 DEF All
  <1>10. /\ \A i \in 1 .. Len(AtDriver) : AtDriver[i] = All[Len(Waiting) + i]
         /\ \A i \in 1 .. Len(Waiting) : Waiting[i] = All[i]
    BY <1>8 DEF All
  <1> QED
    BY <1>1, <1>2, <1>5, <1>6, <1>7, <1>9, <1>10, RateIsPositive

\* The invariant has the property.
LEMMA OrderedInOrder ==
    ASSUME CInv, Ordered
    PROVE  InOrder
  <1> DEFINE s  == All
             wl == Len(Waiting)
             P  == passed
             frame(i) == IF i = 0 THEN last ELSE s[i]
             given(i) == i = 0 \/ s[i] \notin P
  <1>1. /\ Len(s) \in Nat /\ \A i \in 1 .. Len(s) : s[i] \in Nat
        /\ wl \in Nat /\ Rate \in Nat \ {0}
    BY AllFrames DEF Frames
  <1>2. /\ Chain(s, wl, last, P, breaks, Rate)
        /\ last \in Nat /\ breaks \in SUBSET Nat
    BY DEF Ordered
  <1>3. ASSUME NEW j \in 1 .. Len(s), NEW i \in 0 .. j - 1, given(i), given(j),
               \A k \in i + 1 .. j - 1 : ~given(k)
        PROVE  Follows(frame(i), frame(j), IF i <= wl THEN Rate ELSE 1)
    <2> HIDE DEF s, wl
    <2>1. /\ j \in Nat \ {0} /\ i \in Nat /\ i < j
          /\ frame(j) = s[j] /\ s[j] \in Nat /\ Given(s, P, j)
      BY <1>1, <1>3 DEF Given
    <2>2. Joins(s, wl, last, P, breaks, Rate, j)
      BY <1>2, <2>1 DEF Chain
    <2>3. frame(i) \in Nat
          /\ (i = 0 \/ (i \in 1 .. j - 1 /\ Given(s, P, i) /\ frame(i) = s[i]))
      BY <1>1, <1>2, <1>3, <2>1 DEF Given
    <2>4. frame(i) < s[j]
      BY <2>2, <2>3 DEF Joins, Before
    <2>5. CASE Broken(s, wl, last, P, breaks, Rate, j)
      <3>1. PICK b \in breaks : /\ b <= s[j] /\ s[j] < b + Step(wl, Rate, j)
                                /\ last < b /\ Before(s, P, j, b)
        BY <2>5 DEF Broken
      <3>2. frame(i) < b
        BY <2>3, <3>1 DEF Before
      <3>3. b \in Nat
        BY <1>2
      <3>4. s[j] < b + Rate
        BY <1>1, <2>1, <3>1, <3>3 DEF Step
      <3> QED
        BY <2>1, <2>4, <3>1, <3>2, <3>4 DEF Follows
    <2>6. CASE Linked(s, wl, P, Rate, j)
      <3>1. j > 1 /\ Given(s, P, j - 1) /\ s[j] = s[j - 1] + Step(wl, Rate, j)
        BY <2>6 DEF Linked
      <3>2. i = j - 1
        <4>1. ~(j - 1 \in i + 1 .. j - 1)
          BY <1>3, <3>1 DEF Given
        <4> QED
          BY <2>1, <4>1
      <3>3. frame(i) = s[j - 1]
        BY <2>1, <3>1, <3>2
      <3>4. Step(wl, Rate, j) = IF i <= wl THEN Rate ELSE 1
        BY <1>1, <2>1, <3>2 DEF Step
      <3> QED
        BY <2>1, <3>1, <3>3, <3>4 DEF Follows
    <2>7. CASE Leads(s, last, P, Rate, j)
      <3>1. s[j] = last + Rate /\ \A k \in 1 .. j - 1 : ~Given(s, P, k)
        BY <2>7 DEF Leads
      <3>2. i = 0
        BY <2>3, <3>1
      <3>3. frame(i) = last /\ i <= wl
        BY <1>1, <3>2
      <3> QED
        BY <2>1, <3>1, <3>3 DEF Follows
    <2> QED
      BY <2>2, <2>5, <2>6, <2>7 DEF Joins
  <1> HIDE DEF s, wl
  <1>4. \A j \in 1 .. Len(s) : \A i \in 0 .. j - 1 :
            /\ given(i) /\ given(j)
            /\ \A k \in i + 1 .. j - 1 : ~given(k)
            => Follows(frame(i), frame(j), IF i <= wl THEN Rate ELSE 1)
    BY <1>3
  <1> QED
    BY <1>4 DEF InOrder, s, wl, All

-----------------------------------------------------------------------------
\* A step that moves nothing.
LEMMA SameFrames ==
    ASSUME UNCHANGED <<fx, proc, got, rs, buffer, frames_in, next>>
    PROVE  All' = All /\ Waiting' = Waiting /\ AtDriver' = AtDriver
  BY DEF All, Waiting, AtDriver, Unread

LEMMA OrderKept ==
    ASSUME OInv, All' = All, Len(Waiting)' = Len(Waiting), resampler' = resampler,
           UNCHANGED <<last, passed, breaks, next>>,
           pc' # "frames", pc' # "direct", standby => standby'
    PROVE  OInv'
  <1>1. Rate' = Rate
    BY DEF Rate
  <1>2. Ordered'
    BY <1>1 DEF OInv, Ordered
  <1>3. PathLeaves'
    BY DEF OInv, PathLeaves
  <1> QED
    BY <1>2, <1>3 DEF OInv

LEMMA OrderStutters ==
    ASSUME OInv, UNCHANGED vars
    PROVE  OInv'
  <1>1. /\ UNCHANGED <<resampler, standby, preprocessors, pc, got, buffer, frames_in, rs,
                       proc, fx, next, last, passed, breaks>>
    BY DEF vars, stream, effects, call, input, process, history
  <1>2. All' = All /\ Waiting' = Waiting
    BY <1>1, SameFrames
  <1> QED
    BY <1>1, <1>2 DEF OInv, Ordered, PathLeaves, Rate

LEMMA PushOrder ==
    ASSUME OInv, PushEcho \/ NoEcho
    PROVE  OInv'
  <1>1. /\ pc' = "process"
        /\ UNCHANGED <<resampler, standby, got, buffer, frames_in, rs, proc, fx, next, last,
                       passed, breaks>>
    BY DEF PushEcho, NoEcho, stream, input, process, history
  <1> QED
    BY <1>1, SameFrames, OrderKept

LEMMA StandbyOrder ==
    ASSUME OInv, in_standby
    PROVE  OInv'
  <1>1. /\ pc' = "idle" /\ standby'
        /\ UNCHANGED <<resampler, got, buffer, frames_in, rs, proc, fx, next, last,
                       passed, breaks>>
    BY DEF in_standby, Standby, call, input, process, history
  <1> QED
    BY <1>1, SameFrames, OrderKept

LEMMA AddOrder ==
    ASSUME OInv, NEW e \in Effects, in_add_audio_effect(e)
    PROVE  OInv'
  <1>1. /\ pc' = "idle" /\ (standby => standby')
        /\ UNCHANGED <<resampler, got, buffer, frames_in, rs, proc, fx, next, last,
                       passed, breaks>>
    BY DEF in_add_audio_effect, Standby, call, input, process, history
  <1> QED
    BY <1>1, SameFrames, OrderKept

\* The sequences of frames that a step rearranges.
LEMMA Sequences ==
    ASSUME CInv
    PROVE  /\ fx \in Seq(Nat) /\ proc \in Seq(Nat) /\ got \in Seq(Nat) /\ rs \in Seq(Nat)
           /\ AtDriver \in Seq(Nat) /\ Waiting \in Seq(Nat) /\ All \in Seq(Nat)
  <1> DEFINE Upto == 0 .. next
             Now  == 0 .. next - 1
  <1>1. next \in Nat
    BY DEF CInv, Typed
  <1>2. Upto \subseteq Nat /\ Now \subseteq Nat
    BY <1>1
  <1>3. All \in Seq(Upto) /\ AtDriver \in Seq(Upto) /\ Waiting \in Seq(Upto)
    BY LaidOut
  <1>4. fx \in Seq(Now) /\ proc \in Seq(Now) /\ got \in Seq(Now) /\ rs \in Seq(Now)
    BY DEF CInv, Past
  <1> HIDE DEF Upto, Now
  <1> QED
    BY <1>2, <1>3, <1>4, SeqSubset

LEMMA ReloadedOrder ==
    ASSUME CInv, OInv, Reloaded
    PROVE  OInv'
  <1>1. /\ pc' = "push" /\ proc' = proc \o got /\ got' = <<>>
        /\ UNCHANGED <<resampler, standby, buffer, frames_in, rs, fx, next, last,
                       passed, breaks>>
    BY DEF Reloaded, stream, input, history
  <1>2. fx \in Seq(Nat) /\ proc \in Seq(Nat) /\ got \in Seq(Nat)
    BY Sequences
  <1>3. Waiting' = Waiting
    <2>1. proc \o got \in Seq(Nat) /\ (fx \o proc) \o got = fx \o (proc \o got)
      BY <1>2, ConcatAssociative
    <2>2. fx \o (proc \o got) \in Seq(Nat)
      BY <1>2, <2>1
    <2>3. (fx \o (proc \o got)) \o <<>> = fx \o (proc \o got)
      BY <2>2, ConcatEmptySeq
    <2> QED
      BY <1>1, <2>1, <2>3 DEF Waiting
  <1>4. AtDriver' = AtDriver
    BY <1>1 DEF AtDriver, Unread
  <1>5. All' = All
    BY <1>3, <1>4 DEF All
  <1> QED
    BY <1>1, <1>3, <1>5, OrderKept

LEMMA WithoutMiddle ==
    ASSUME NEW a \in Seq(Nat), NEW g \in Seq(Nat), NEW d \in Seq(Nat)
    PROVE  /\ Without((a \o g) \o d, a \o d, Len(a), Len(g))
           /\ (a \o g) \o d = a \o (g \o d)
           /\ \A i \in 1 .. Len(a) : ((a \o g) \o d)[i] = a[i]
           /\ \A i \in 1 .. Len(g) : ((a \o g) \o d)[Len(a) + i] = g[i]
           /\ \A i \in 1 .. Len(d) : (a \o d)[Len(a) + i] = d[i]
  <1> DEFINE ag == a \o g
             s  == ag \o d
             t  == a \o d
  <1>1. Len(a) \in Nat /\ Len(g) \in Nat /\ Len(d) \in Nat
    OBVIOUS
  <1>2. /\ ag \in Seq(Nat) /\ Len(ag) = Len(a) + Len(g)
        /\ \A i \in 1 .. Len(a) : ag[i] = a[i]
        /\ \A i \in 1 .. Len(g) : ag[Len(a) + i] = g[i]
    BY ConcatAt
  <1>3. /\ t \in Seq(Nat) /\ Len(t) = Len(a) + Len(d)
        /\ \A i \in 1 .. Len(a) : t[i] = a[i]
        /\ \A i \in 1 .. Len(d) : t[Len(a) + i] = d[i]
    BY ConcatAt
  <1> HIDE DEF ag
  <1>4. /\ s \in Seq(Nat) /\ Len(s) = Len(ag) + Len(d)
        /\ \A i \in 1 .. Len(ag) : s[i] = ag[i]
        /\ \A i \in 1 .. Len(d) : s[Len(ag) + i] = d[i]
    <2>1. ag \in Seq(Nat) /\ d \in Seq(Nat)
      BY <1>2
    <2>2. /\ ag \o d \in Seq(Nat) /\ Len(ag \o d) = Len(ag) + Len(d)
          /\ \A i \in 1 .. Len(ag) : (ag \o d)[i] = ag[i]
          /\ \A i \in 1 .. Len(d) : (ag \o d)[Len(ag) + i] = d[i]
      BY <2>1, ConcatAt
    <2> QED
      BY <2>2
  <1> HIDE DEF s, t
  <1>5. \A i \in 1 .. Len(a) : s[i] = a[i]
    <2> TAKE i \in 1 .. Len(a)
    <2>1. i \in 1 .. Len(ag)
      BY <1>1, <1>2
    <2> QED
      BY <1>2, <1>4, <2>1
  <1>6. \A i \in 1 .. Len(g) : s[Len(a) + i] = g[i]
    <2> TAKE i \in 1 .. Len(g)
    <2>1. Len(a) + i \in 1 .. Len(ag)
      BY <1>1, <1>2
    <2> QED
      BY <1>2, <1>4, <2>1
  <1>7. \A i \in Len(a) + 1 .. Len(t) : t[i] = s[i + Len(g)]
    <2> TAKE i \in Len(a) + 1 .. Len(t)
    <2> DEFINE k == i - Len(a)
    <2>1. k \in 1 .. Len(d) /\ i = Len(a) + k /\ i + Len(g) = Len(ag) + k
      BY <1>1, <1>2, <1>3
    <2> HIDE DEF k
    <2> QED
      BY <1>3, <1>4, <2>1
  <1>8. Without(s, t, Len(a), Len(g))
    BY <1>1, <1>2, <1>3, <1>4, <1>5, <1>7 DEF Without
  <1>9. (a \o g) \o d = a \o (g \o d)
    BY ConcatAssociative
  <1> QED
    BY <1>3, <1>5, <1>6, <1>8, <1>9 DEF s, t, ag

\* What is neither passed nor given is the next frame.
LEMMA NextNotPassed ==
    ASSUME CInv, Ordered
    PROVE  All[Len(All)] = next /\ next \notin passed
  <1>1. next \in Nat /\ passed \in SUBSET (0 .. next - 1)
    BY AllFrames DEF Ordered
  <1> QED
    BY <1>1, LaidOut DEF Laid

\* The driver's part, by its own positions.
LEMMA DriverGiven ==
    ASSUME CInv
    PROVE  (\A i \in Len(Waiting) + 1 .. Len(All) : All[i] \notin passed)
             <=> \A i \in 1 .. Len(AtDriver) : AtDriver[i] \notin passed
  <1>1. /\ Len(Waiting) \in Nat /\ Len(All) \in Nat /\ Len(AtDriver) = Len(All) - Len(Waiting)
        /\ \A i \in 1 .. Len(AtDriver) : AtDriver[i] = All[Len(Waiting) + i]
    BY AllFrames DEF Frames
  <1>2. ASSUME \A i \in Len(Waiting) + 1 .. Len(All) : All[i] \notin passed,
               NEW i \in 1 .. Len(AtDriver)
        PROVE  AtDriver[i] \notin passed
    <2>1. Len(Waiting) + i \in Len(Waiting) + 1 .. Len(All)
      BY <1>1
    <2> QED
      BY <1>1, <1>2, <2>1
  <1>3. ASSUME \A i \in 1 .. Len(AtDriver) : AtDriver[i] \notin passed,
               NEW i \in Len(Waiting) + 1 .. Len(All)
        PROVE  All[i] \notin passed
    <2>1. i - Len(Waiting) \in 1 .. Len(AtDriver) /\ Len(Waiting) + (i - Len(Waiting)) = i
      BY <1>1
    <2>2. AtDriver[i - Len(Waiting)] = All[i]
      BY <1>1, <2>1
    <2> QED
      BY <1>3, <2>1, <2>2
  <1> QED
    BY <1>2, <1>3

LEMMA DriverUnmoved ==
    ASSUME CInv, CInv', AtDriver' = AtDriver, passed' = passed,
           \A i \in Len(Waiting) + 1 .. Len(All) : All[i] \notin passed
    PROVE  (\A i \in Len(Waiting) + 1 .. Len(All) : All[i] \notin passed)'
  <1>1. \A i \in 1 .. Len(AtDriver) : AtDriver[i] \notin passed
    BY DriverGiven
  <1>2. ((\A i \in Len(Waiting) + 1 .. Len(All) : All[i] \notin passed)
             <=> \A i \in 1 .. Len(AtDriver) : AtDriver[i] \notin passed)'
    BY DriverGiven, PTL
  <1> QED
    BY <1>1, <1>2

\* A step's frames are frames.
LEMMA NewFrames ==
    ASSUME CInv'
    PROVE  /\ Frames(All)' /\ Len(Waiting)' \in Nat /\ Len(Waiting)' < Len(All)'
           /\ Rate' \in Nat \ {0} /\ next' \in Nat \ {0}
           /\ fx' \in Seq(Nat) /\ proc' \in Seq(Nat) /\ got' \in Seq(Nat) /\ rs' \in Seq(Nat)
           /\ AtDriver' \in Seq(Nat) /\ Waiting' \in Seq(Nat) /\ All' \in Seq(Nat)
  <1>1. (Frames(All) /\ Len(Waiting) \in Nat /\ Len(Waiting) < Len(All)
         /\ Rate \in Nat \ {0} /\ next \in Nat \ {0})'
    BY AllFrames, PTL
  <1>2. (/\ fx \in Seq(Nat) /\ proc \in Seq(Nat) /\ got \in Seq(Nat) /\ rs \in Seq(Nat)
         /\ AtDriver \in Seq(Nat) /\ Waiting \in Seq(Nat) /\ All \in Seq(Nat))'
    BY Sequences, PTL
  <1> QED
    BY <1>1, <1>2

LEMMA EmptyIn ==
    ASSUME NEW s \in Seq(Nat)
    PROVE  <<>> \o s = s /\ s \o <<>> = s
  OBVIOUS

LEMMA FirstOfConcat ==
    ASSUME NEW s \in Seq(Nat), s # <<>>
    PROVE  Head(s) = s[1]
  OBVIOUS

LEMMA FourTogether ==
    ASSUME NEW a \in Seq(Nat), NEW b \in Seq(Nat), NEW c \in Seq(Nat), NEW d \in Seq(Nat)
    PROVE  ((a \o b) \o c) \o d = a \o ((b \o c) \o d)
  <1> DEFINE bc == b \o c
  <1>1. (a \o b) \o c = a \o bc
    BY ConcatAssociative, SMTT(60)
  <1>2. bc \in Seq(Nat)
    OBVIOUS
  <1> HIDE DEF bc
  <1>3. (a \o bc) \o d = a \o (bc \o d)
    BY <1>2, ConcatAssociative, SMTT(60)
  <1> QED
    BY <1>1, <1>3 DEF bc

\* What is lost with the effects is at the beginning.
LEMMA DropOrder ==
    ASSUME CInv, CInv', OInv, pc = "idle", pc' = "idle", fx' = <<>>, standby => standby',
           UNCHANGED <<resampler, got, buffer, frames_in, rs, proc, next, last, passed>>,
           breaks' = breaks \union {Head(proc \o rs \o Unread(buffer, frames_in) \o <<next>>)}
    PROVE  OInv'
  <1> DEFINE d == proc \o AtDriver
  <1>1. /\ fx \in Seq(Nat) /\ proc \in Seq(Nat) /\ AtDriver \in Seq(Nat) /\ rs \in Seq(Nat)
        /\ got = <<>>
    BY Sequences DEF CInv, Sized
  <1>2. AtDriver' = AtDriver
    BY DEF AtDriver, Unread
  <1>3. d \in Seq(Nat) /\ Len(d) = Len(proc) + Len(AtDriver)
    BY <1>1
  <1>4. All = (<<>> \o fx) \o d
    <2>1. (fx \o proc) \o <<>> = fx \o proc
      <3>1. fx \o proc \in Seq(Nat)
        BY <1>1
      <3> QED
        BY <3>1, EmptyIn
    <2>2. (fx \o proc) \o AtDriver = fx \o (proc \o AtDriver)
      BY <1>1, ConcatAssociative
    <2>3. <<>> \o fx = fx
      BY <1>1, EmptyIn
    <2> QED
      BY <1>1, <2>1, <2>2, <2>3 DEF All, Waiting
  <1>5. All' = <<>> \o d /\ All' = d /\ Waiting' = proc
    <2>1. <<>> \o proc = proc /\ proc \o <<>> = proc
      BY <1>1, EmptyIn
    <2>2. <<>> \o d = d
      BY <1>3, EmptyIn
    <2> QED
      BY <1>1, <1>2, <2>1, <2>2 DEF All, Waiting
  <1>6. /\ Frames(All) /\ Len(fx) \in Nat /\ Len(proc) \in Nat
        /\ Len(Waiting) = Len(fx) + Len(proc)
        /\ Rate \in Nat \ {0} /\ Rate' = Rate
    <2>1. Len(Waiting) = Len(fx) + Len(proc) + Len(got)
      BY LaidOut DEF Laid
    <2> QED
      BY <1>1, <2>1, AllFrames DEF Rate
  <1>7. Frames(All') /\ Len(All') > 0
    BY NewFrames DEF Frames
  <1>8. breaks' \in SUBSET Nat /\ All'[1] \in breaks'
    <2>1. All' # <<>> /\ All' \in Seq(Nat) /\ All'[1] \in Nat
      BY <1>7, NewFrames
    <2>2. (((proc \o rs) \o Unread(buffer, frames_in)) \o <<next>>) = d
      <3> DEFINE un == Unread(buffer, frames_in)
                 one == <<next>>
      <3>1. un \in Seq(Nat) /\ one \in Seq(Nat)
        <4>1. frames_in \in 0 .. Period /\ next \in Nat
          BY DEF CInv, Typed
        <4>2. \A i \in Period - frames_in + 1 .. Period : buffer[i] \in Nat
          BY <4>1, SizesPositive DEF CInv, Past
        <4>3. un \in Seq(Nat)
          BY <4>1, <4>2, UnreadSeq
        <4> QED
          BY <4>1, <4>3
      <3> HIDE DEF un, one
      <3>2. ((proc \o rs) \o un) \o one = proc \o ((rs \o un) \o one)
        <4>1. /\ proc \in Seq(Nat) /\ rs \in Seq(Nat)
              /\ un \in Seq(Nat) /\ one \in Seq(Nat)
          BY <1>1, <3>1
        <4> QED
          BY <4>1, FourTogether, SMTT(60)
      <3> QED
        BY <3>2 DEF AtDriver, un, one
    <2>3. breaks' = breaks \union {All'[1]}
      BY <1>5, <2>1, <2>2, FirstOfConcat
    <2> QED
      BY <2>1, <2>3 DEF OInv, Ordered
  <1> HIDE DEF d
  <1>9. Without(All, All', 0, Len(fx))
    <2>1. Without((<<>> \o fx) \o d, <<>> \o d, Len(<<>>), Len(fx))
      <3>1. <<>> \in Seq(Nat) /\ fx \in Seq(Nat) /\ d \in Seq(Nat)
        BY <1>1, <1>3
      <3> QED
        BY <3>1, WithoutMiddle
    <2>2. Len(<<>>) = 0
      OBVIOUS
    <2> QED
      BY <1>4, <1>5, <2>1, <2>2
  <1>10. /\ Chain(All, Len(Waiting), last, passed, breaks, Rate)
         /\ breaks \subseteq breaks' /\ last \in Nat /\ Len(Waiting) \in Nat
    BY <1>8, AllFrames DEF OInv, Ordered
  <1>11. Chain(All, Len(Waiting), last, passed, breaks', Rate)
    BY <1>6, <1>10, ChainGrows
  <1>12. 0 + Len(fx) <= Len(Waiting) /\ 0 \in Nat /\ All'[0 + 1] = All'[1]
    BY <1>6
  <1>13. Chain(All', Len(Waiting) - Len(fx), last, passed, breaks', Rate)
    BY <1>6, <1>7, <1>8, <1>9, <1>10, <1>11, <1>12, ChainDropped
  <1>14. Len(Waiting)' = Len(Waiting) - Len(fx)
    BY <1>5, <1>6
  <1>15. Ordered'
    BY <1>6, <1>8, <1>13, <1>14 DEF OInv, Ordered
  <1>16. resampler' /\ ~standby' =>
             (\A i \in Len(Waiting) + 1 .. Len(All) : All[i] \notin passed)'
    BY <1>2, DriverUnmoved DEF OInv, PathLeaves
  <1> QED
    BY <1>15, <1>16 DEF OInv, PathLeaves

LEMMA RemoveOrder ==
    ASSUME CInv, CInv', OInv, NEW e \in Effects, in_remove_audio_effect(e)
    PROVE  OInv'
  <1>1. /\ pc = "idle" /\ pc' = "idle" /\ (standby => standby')
        /\ UNCHANGED <<resampler, got, buffer, frames_in, rs, proc, next, last, passed>>
    BY DEF in_remove_audio_effect, Standby, call, input
  <1>2. CASE preprocessors' = {} /\ fx # <<>>
    BY <1>1, <1>2, DropOrder DEF in_remove_audio_effect, DropFx
  <1>3. CASE ~(preprocessors' = {} /\ fx # <<>>)
    <2>1. UNCHANGED <<fx, breaks>>
      BY <1>3 DEF in_remove_audio_effect, DropFx
    <2> QED
      BY <1>1, <2>1, SameFrames, OrderKept
  <1> QED
    BY <1>2, <1>3

-----------------------------------------------------------------------------
(***************************************************************************)
(* The steps that give frames.                                             *)
(***************************************************************************)
\* The greatest of some positions.
LEMMA GreatestPosition ==
    ASSUME NEW n \in Nat, NEW T \in SUBSET (1 .. n), T # {}
    PROVE  Max(T) \in T /\ \A y \in T : y <= Max(T)
  <1> DEFINE R == {n - x : x \in T}
  <1>1. R \in SUBSET Nat /\ R # {}
    <2>1. \A x \in T : x \in Nat /\ x <= n
      OBVIOUS
    <2>2. \A x \in T : n - x \in Nat
      BY <2>1
    <2>3. PICK x \in T : TRUE
      OBVIOUS
    <2>4. n - x \in R
      BY <2>3
    <2> QED
      BY <2>2, <2>4
  <1>2. PICK z \in R : \A y \in R : z <= y
    <2> HIDE DEF R
    <2> QED
      BY <1>1, LeastNumber
  <1>3. PICK x \in T : z = n - x
    BY <1>2
  <1>4. \A y \in T : x >= y
    <2> TAKE y \in T
    <2>1. n - y \in R
      OBVIOUS
    <2>2. z <= n - y
      BY <1>2, <2>1
    <2> QED
      BY <1>3, <2>2
  <1>5. Max(T) \in T /\ \A y \in T : Max(T) >= y
    BY <1>4 DEF Max
  <1> QED
    BY <1>5

LEMMA LastOfIs ==
    ASSUME NEW g \in Seq(Nat), last \in Nat
    PROVE  /\ LastOf(g) \in Nat
           /\ \/ LastOf(g) = last /\ \A i \in 1 .. Len(g) : g[i] \in passed
              \/ \E m \in 1 .. Len(g) :
                    /\ LastOf(g) = g[m] /\ g[m] \notin passed
                    /\ \A i \in m + 1 .. Len(g) : g[i] \in passed
  <1> DEFINE kept == {i \in 1 .. Len(g) : g[i] \notin passed}
  <1> SUFFICES /\ LastOf(g) \in Nat
               /\ \/ LastOf(g) = last /\ kept = {}
                  \/ \E m \in 1 .. Len(g) :
                        /\ LastOf(g) = g[m] /\ g[m] \notin passed
                        /\ \A i \in m + 1 .. Len(g) : g[i] \in passed
    OBVIOUS
  <1>0. LastOf(g) = IF kept = {} THEN last ELSE g[Max(kept)]
    <2>1. DOMAIN g = 1 .. Len(g)
      OBVIOUS
    <2> QED
      BY <2>1 DEF LastOf
  <1>f. Frames(g)
    BY DEF Frames
  <1> HIDE DEF kept
  <1>1. CASE kept = {}
    BY <1>0, <1>1
  <1>2. CASE kept # {}
    <2> DEFINE m == Max(kept)
    <2>1. m \in kept /\ \A y \in kept : y <= m
      <3>1. kept \in SUBSET (1 .. Len(g)) /\ Len(g) \in Nat
        BY <1>f DEF Frames, kept
      <3> QED
        BY <1>2, <3>1, GreatestPosition
    <2> HIDE DEF m
    <2>2. m \in 1 .. Len(g) /\ g[m] \notin passed /\ g[m] \in Nat
      BY <1>f, <2>1 DEF Frames, kept
    <2>3. ASSUME NEW i \in m + 1 .. Len(g)
          PROVE  g[i] \in passed
      <3>1. i \in 1 .. Len(g) /\ ~(i <= m)
        BY <1>f, <2>2 DEF Frames
      <3> QED
        BY <2>1, <3>1 DEF kept
    <2>4. LastOf(g) = g[m]
      BY <1>0, <1>2 DEF m
    <2> QED
      BY <2>2, <2>3, <2>4
  <1> QED
    BY <1>1, <1>2

LEMMA Regroup ==
    \A a, b, c \in Seq(Nat) : (a \o b) \o c = a \o (b \o c)
  BY ConcatAssociative

\* in_read() gives the frames g, behind those of a, which were passed.
LEMMA GivenOrder ==
    ASSUME CInv, CInv', OInv, NEW a \in Seq(Nat), NEW g \in Seq(Nat), NEW d \in Seq(Nat),
           All = (a \o g) \o d, All' = a \o d, Len(a) + Len(g) <= Len(Waiting),
           Len(Waiting)' = Len(Waiting) - Len(g), \A i \in 1 .. Len(a) : a[i] \in passed,
           last' = LastOf(g), UNCHANGED <<resampler, next, passed, breaks>>
    PROVE  Ordered'
  <1>1. /\ Without(All, All', Len(a), Len(g))
        /\ \A i \in 1 .. Len(a) : All[i] = a[i]
        /\ \A i \in 1 .. Len(g) : All[Len(a) + i] = g[i]
    BY WithoutMiddle
  <1>2. /\ Frames(All) /\ Len(Waiting) \in Nat /\ Rate \in Nat \ {0}
        /\ Frames(All') /\ Rate' = Rate
    BY AllFrames, NewFrames DEF Frames, Rate
  <1>3. /\ last \in Nat /\ breaks \in SUBSET Nat
        /\ Chain(All, Len(Waiting), last, passed, breaks, Rate)
    BY DEF OInv, Ordered
  <1>4. /\ last' \in Nat
        /\ \/ last' = last /\ \A i \in 1 .. Len(g) : g[i] \in passed
           \/ \E m \in 1 .. Len(g) :
                 /\ last' = g[m] /\ g[m] \notin passed
                 /\ \A i \in m + 1 .. Len(g) : g[i] \in passed
    BY <1>3, LastOfIs
  <1> DEFINE p == Len(a)
             q == Len(g)
  <1>5. p \in Nat /\ q \in Nat
    OBVIOUS
  <1>6. \A i \in 1 .. p : ~Given(All, passed, i)
    BY <1>1 DEF Given
  <1>7. \A i \in p + 1 .. p + q : All[i] = g[i - p] /\ i - p \in 1 .. q
    <2> TAKE i \in p + 1 .. p + q
    <2>1. i - p \in 1 .. q /\ p + (i - p) = i
      BY <1>5
    <2> QED
      BY <1>1, <2>1
  <1> HIDE DEF p, q
  <1>8. \/ last' = last /\ \A i \in p + 1 .. p + q : ~Given(All, passed, i)
        \/ \E m \in p + 1 .. p + q :
              /\ last' = All[m] /\ Given(All, passed, m)
              /\ \A i \in m + 1 .. p + q : ~Given(All, passed, i)
    <2>1. CASE last' = last /\ \A i \in 1 .. q : g[i] \in passed
      BY <1>7, <2>1 DEF Given
    <2>2. CASE \E m \in 1 .. q : /\ last' = g[m] /\ g[m] \notin passed
                                 /\ \A i \in m + 1 .. q : g[i] \in passed
      <3>1. PICK m \in 1 .. q : /\ last' = g[m] /\ g[m] \notin passed
                                /\ \A i \in m + 1 .. q : g[i] \in passed
        BY <2>2
      <3>2. p + m \in p + 1 .. p + q /\ (p + m) - p = m
        BY <1>5
      <3>3. last' = All[p + m] /\ Given(All, passed, p + m)
        BY <1>7, <3>1, <3>2 DEF Given
      <3>4. ASSUME NEW i \in (p + m) + 1 .. p + q
            PROVE  ~Given(All, passed, i)
        <4>1. i \in p + 1 .. p + q /\ i - p \in m + 1 .. q
          BY <1>5
        <4> QED
          BY <1>7, <3>1, <4>1 DEF Given
      <3> QED
        BY <3>2, <3>3, <3>4
    <2> QED
      BY <1>4, <2>1, <2>2 DEF q
  <1>9. Without(All, All', p, q) /\ p + q <= Len(Waiting)
    BY <1>1 DEF p, q
  <1>10. Chain(All', Len(Waiting) - q, last', passed, breaks, Rate)
    BY <1>2, <1>3, <1>4, <1>5, <1>6, <1>8, <1>9, ChainGiven
  <1> QED
    BY <1>2, <1>4, <1>10 DEF OInv, Ordered, q

LEMMA FramesReadOrder ==
    ASSUME CInv, CInv', OInv, FramesRead
    PROVE  OInv'
  <1>1. /\ pc = "frames" /\ preprocessors = {} /\ last' = LastOf(got) /\ got' = <<>>
        /\ pc' = "idle"
        /\ UNCHANGED <<resampler, standby, buffer, frames_in, rs, proc, fx, next, passed,
                       breaks>>
    BY DEF FramesRead, Return, stream, input, process
  <1> DEFINE a == fx \o proc
  <1>2. /\ fx \in Seq(Nat) /\ proc \in Seq(Nat) /\ got \in Seq(Nat) /\ AtDriver \in Seq(Nat)
    BY Sequences
  <1>3. AtDriver' = AtDriver
    BY <1>1 DEF AtDriver, Unread
  <1>4. a \in Seq(Nat) /\ Len(a) = Len(fx) + Len(proc)
    BY <1>2
  <1>5. All = (a \o got) \o AtDriver
    BY DEF All, Waiting
  <1>6. All' = a \o AtDriver /\ Waiting' = a
    <2>1. a \o <<>> = a
      BY <1>4, EmptyIn
    <2> QED
      BY <1>1, <1>3, <2>1 DEF All, Waiting
  <1>7. Len(Waiting) = Len(a) + Len(got) /\ Len(got) \in Nat /\ Len(a) \in Nat
    BY <1>2, <1>4, LaidOut DEF Laid
  <1> HIDE DEF a
  <1>8. \A i \in 1 .. Len(a) : a[i] \in passed
    <2> TAKE i \in 1 .. Len(a)
    <2>1. ((a \o got) \o AtDriver)[i] = a[i]
      BY <1>2, <1>4, WithoutMiddle
    <2> QED
      BY <1>1, <1>4, <1>5, <2>1 DEF OInv, PathLeaves
  <1>9. Len(a) + Len(got) <= Len(Waiting) /\ Len(Waiting)' = Len(Waiting) - Len(got)
    BY <1>6, <1>7
  <1>10. Ordered'
    BY <1>1, <1>2, <1>4, <1>5, <1>6, <1>8, <1>9, GivenOrder
  <1>11. resampler' /\ ~standby' =>
             (\A i \in Len(Waiting) + 1 .. Len(All) : All[i] \notin passed)'
    BY <1>1, <1>3, DriverUnmoved DEF OInv, PathLeaves
  <1> QED
    BY <1>1, <1>10, <1>11 DEF OInv, PathLeaves

\* process() gives what is at the beginning.
LEMMA ProcessOrder ==
    ASSUME CInv, CInv', OInv, Process
    PROVE  OInv'
  <1>1. /\ pc = "process" /\ got = <<>> /\ preprocessors # {}
        /\ UNCHANGED <<resampler, standby, preprocessors, buffer, frames_in, rs, next, passed,
                       breaks>>
    BY DEF Process, CInv, Sized, stream, effects, input
  <1>2. /\ fx \in Seq(Nat) /\ proc \in Seq(Nat) /\ AtDriver \in Seq(Nat)
    BY Sequences
  <1>3. frames \in Nat /\ wr \in Nat /\ wr < frames
    BY <1>1 DEF CInv, Typed, Sized
  <1>4. PICK k \in 0 .. Len(proc) :
            LET inside == fx \o SubSeq(proc, 1, k)
            IN  \E n \in 0 .. Least(frames - wr, Len(inside)) :
                    /\ fx' = SubSeq(inside, n + 1, Len(inside))
                    /\ proc' = SubSeq(proc, k + 1, Len(proc))
                    /\ last' = LastOf(SubSeq(inside, 1, n))
    BY DEF Process
  <1> DEFINE first  == SubSeq(proc, 1, k)
             inside == fx \o first
  <1>5. first \in Seq(Nat) /\ proc' \in Seq(Nat)
    BY <1>2, <1>4, FirstSeq
  <1>6. proc = first \o proc'
    <2>1. /\ 1 \in 1 .. Len(proc) + 1 /\ k \in 1 - 1 .. Len(proc)
          /\ Len(proc) \in k .. Len(proc)
      BY <1>2
    <2>2. SubSeq(proc, 1, k) \o SubSeq(proc, k + 1, Len(proc)) = SubSeq(proc, 1, Len(proc))
      BY <1>2, <2>1, ConcatAdjacentSubSeq
    <2>3. SubSeq(proc, 1, Len(proc)) = proc
      BY <1>2, SubSeqFull
    <2> QED
      BY <1>4, <2>2, <2>3
  <1> HIDE DEF first
  <1>7. inside \in Seq(Nat) /\ Len(inside) \in Nat
    BY <1>2, <1>5, ConcatProperties
  <1>8. PICK n \in 0 .. Least(frames - wr, Len(inside)) :
            /\ fx' = SubSeq(inside, n + 1, Len(inside))
            /\ last' = LastOf(SubSeq(inside, 1, n))
    BY <1>4 DEF first
  <1>9. fx \o proc = inside \o proc'
    <2>1. (fx \o first) \o proc' = fx \o (first \o proc')
      BY <1>2, <1>5, Regroup, Zenon
    <2> QED
      BY <1>6, <2>1
  <1> HIDE DEF inside
  <1>10. n \in 0 .. Len(inside)
    BY <1>3, <1>7 DEF Least
  <1> DEFINE g == SubSeq(inside, 1, n)
  <1>11. g \in Seq(Nat) /\ fx' \in Seq(Nat) /\ Len(g) = n /\ last' = LastOf(g)
    BY <1>7, <1>8, <1>10, FirstSeq
  <1>12. inside = g \o fx'
    <2>1. /\ 1 \in 1 .. Len(inside) + 1 /\ n \in 1 - 1 .. Len(inside)
          /\ Len(inside) \in n .. Len(inside)
      BY <1>7, <1>10
    <2>2. SubSeq(inside, 1, n) \o SubSeq(inside, n + 1, Len(inside))
            = SubSeq(inside, 1, Len(inside))
      BY <1>7, <2>1, ConcatAdjacentSubSeq
    <2>3. SubSeq(inside, 1, Len(inside)) = inside
      BY <1>7, SubSeqFull
    <2> QED
      BY <1>8, <2>2, <2>3
  <1> HIDE DEF g
  <1> DEFINE w == fx' \o proc'
             d == w \o AtDriver
  <1>13. fx \o proc = g \o w
    <2>1. (g \o fx') \o proc' = g \o (fx' \o proc')
      BY <1>5, <1>11, Regroup, Zenon
    <2> QED
      BY <1>9, <1>12, <2>1
  <1>14. w \in Seq(Nat) /\ d \in Seq(Nat)
    BY <1>2, <1>5, <1>11
  <1>15. got' = <<>> /\ pc' # "direct"
    BY <1>1 DEF Process, Reload, Return
  <1>16. AtDriver' = AtDriver
    BY <1>1 DEF AtDriver, Unread
  <1>17. Waiting = g \o w /\ Waiting' = w
    <2>1. (fx \o proc) \in Seq(Nat)
      BY <1>2
    <2>2. (fx \o proc) \o <<>> = fx \o proc /\ w \o <<>> = w
      BY <1>14, <2>1, EmptyIn
    <2> QED
      BY <1>1, <1>13, <1>15, <2>2 DEF Waiting
  <1> HIDE DEF w
  <1>18. /\ All = (<<>> \o g) \o d /\ All' = <<>> \o d
    <2>1. (g \o w) \o AtDriver = g \o (w \o AtDriver)
      <3>1. g \in Seq(Nat) /\ w \in Seq(Nat) /\ AtDriver \in Seq(Nat)
        BY <1>2, <1>11, <1>14
      <3> QED
        BY <3>1, Regroup, Zenon
    <2>2. <<>> \o g = g /\ <<>> \o d = d
      BY <1>11, <1>14, EmptyIn
    <2> QED
      BY <1>16, <1>17, <2>1, <2>2 DEF All
  <1>19. Len(Waiting) = Len(g) + Len(w) /\ Len(Waiting)' = Len(w) /\ Len(g) \in Nat
         /\ Len(w) \in Nat
    <2>1. g \in Seq(Nat) /\ w \in Seq(Nat)
      BY <1>11, <1>14
    <2>2. Len(g \o w) = Len(g) + Len(w) /\ Len(g) \in Nat /\ Len(w) \in Nat
      BY <2>1
    <2> QED
      BY <1>17, <2>2
  <1> HIDE DEF d
  <1>20. /\ <<>> \in Seq(Nat) /\ Len(<<>>) + Len(g) <= Len(Waiting)
         /\ Len(Waiting)' = Len(Waiting) - Len(g)
         /\ \A i \in 1 .. Len(<<>>) : <<>>[i] \in passed
    BY <1>19
  <1>21. Ordered'
    BY <1>1, <1>11, <1>14, <1>18, <1>20, GivenOrder
  <1>22. resampler' /\ ~standby' =>
             (\A i \in Len(Waiting) + 1 .. Len(All) : All[i] \notin passed)'
    BY <1>1, <1>16, DriverUnmoved DEF OInv, PathLeaves
  <1> QED
    BY <1>1, <1>15, <1>21, <1>22 DEF OInv, PathLeaves

-----------------------------------------------------------------------------
(***************************************************************************)
(* The steps after which the driver starts again.                          *)
(***************************************************************************)
\* The driver starts again, behind the first p frames.
LEMMA RenewedOrder ==
    ASSUME CInv, CInv', OInv, NEW B \in SUBSET Nat, NEW p \in Nat,
           Len(Waiting) <= p, p < Len(All), p < Len(All)',
           \A i \in 1 .. p : All'[i] = All[i],
           \A i \in p + 1 .. Len(All)' - 1 : All'[i] \in passed,
           next <= next', next' \in B, breaks \subseteq B
    PROVE  Chain(All', Len(Waiting), last, passed, B, Rate)
  <1>1. /\ Frames(All) /\ Len(Waiting) \in Nat /\ Rate \in Nat \ {0} /\ Frames(All')
    BY AllFrames, NewFrames DEF Frames
  <1>2. /\ last \in Nat /\ Chain(All, Len(Waiting), last, passed, breaks, Rate)
    BY DEF OInv, Ordered
  <1>3. Chain(All, Len(Waiting), last, passed, B, Rate)
    BY <1>1, <1>2, ChainGrows
  <1>4. \A i \in p + 1 .. Len(All') - 1 : ~Given(All', passed, i)
    BY DEF Given
  <1>5. Given(All, passed, Len(All)) /\ All[Len(All)] = next
    BY NextNotPassed DEF Given, OInv
  <1>6. All'[Len(All')] = next'
    <2>1. Laid'
      BY LaidOut, PTL
    <2> QED
      BY <2>1 DEF Laid
  <1> QED
    BY <1>1, <1>2, <1>3, <1>4, <1>5, <1>6, ChainRenewed

\* A step that changes only what is behind them leaves the first frames.
LEMMA NewLaid ==
    ASSUME CInv'
    PROVE  Laid'
  BY LaidOut, PTL

LEMMA WaitingAgrees ==
    ASSUME CInv, CInv', UNCHANGED <<fx, proc, got>>
    PROVE  /\ Len(Waiting)' = Len(Waiting) /\ Len(Waiting) < Len(All)
           /\ Len(Waiting) < Len(All)'
           /\ \A i \in 1 .. Len(Waiting) : All'[i] = All[i]
  <1>1. Waiting' = Waiting
    BY DEF Waiting
  <1>2. \A i \in 1 .. Len(Waiting) : Waiting[i] = All[i]
    BY AllFrames
  <1>3. (\A i \in 1 .. Len(Waiting) : Waiting[i] = All[i])'
    BY AllFrames, PTL
  <1> QED
    BY <1>1, <1>2, <1>3, AllFrames, NewFrames

LEMMA ResamplerAgrees ==
    ASSUME CInv, CInv', UNCHANGED <<fx, proc, got, rs>>
    PROVE  /\ Len(Waiting) + Len(rs) < Len(All) /\ Len(Waiting) + Len(rs) < Len(All)'
           /\ \A i \in 1 .. Len(Waiting) + Len(rs) : All'[i] = All[i]
  <1>1. /\ Len(Waiting)' = Len(Waiting)
        /\ \A i \in 1 .. Len(Waiting) : All'[i] = All[i]
    BY WaitingAgrees
  <1>2. Laid /\ Laid'
    BY LaidOut, NewLaid
  <1>3. /\ Len(Waiting) \in Nat /\ Len(rs) \in Nat /\ frames_in \in Nat /\ frames_in' \in Nat
    BY AllFrames, SizesPositive DEF CInv, Typed
  <1>4. ASSUME NEW i \in 1 .. Len(Waiting) + Len(rs), ~(i <= Len(Waiting))
        PROVE  All'[i] = All[i]
    <2> DEFINE k == i - Len(Waiting)
    <2>1. k \in 1 .. Len(rs) /\ Len(Waiting) + k = i
      BY <1>3, <1>4
    <2> HIDE DEF k
    <2>2. All[Len(Waiting) + k] = rs[k]
      BY <1>2, <2>1 DEF Laid
    <2>3. All'[Len(Waiting)' + k] = rs'[k]
      BY <1>2, <2>1 DEF Laid
    <2> QED
      BY <1>1, <2>1, <2>2, <2>3
  <1>5. \A i \in 1 .. Len(Waiting) + Len(rs) : All'[i] = All[i]
    BY <1>1, <1>3, <1>4
  <1> QED
    BY <1>1, <1>2, <1>3, <1>5 DEF Laid

LEMMA BufferAgrees ==
    ASSUME CInv, CInv', UNCHANGED <<fx, proc, got, rs, buffer, frames_in>>
    PROVE  /\ Len(All)' = Len(All) /\ Len(All) - 1 \in Nat /\ Len(Waiting) <= Len(All) - 1
           /\ \A i \in 1 .. Len(All) - 1 : All'[i] = All[i]
  <1>1. /\ Len(Waiting)' = Len(Waiting)
        /\ \A i \in 1 .. Len(Waiting) + Len(rs) : All'[i] = All[i]
    BY WaitingAgrees, ResamplerAgrees
  <1>2. Laid /\ Laid'
    BY LaidOut, NewLaid
  <1>3. /\ Len(Waiting) \in Nat /\ Len(rs) \in Nat /\ frames_in \in Nat
    BY AllFrames, SizesPositive DEF CInv, Typed
  <1> DEFINE m == Len(Waiting) + Len(rs)
  <1>4. Len(All) = m + frames_in + 1 /\ Len(All)' = Len(All)
    BY <1>1, <1>2, <1>3 DEF Laid
  <1>5. ASSUME NEW i \in 1 .. Len(All) - 1, ~(i <= m)
        PROVE  All'[i] = All[i]
    <2> DEFINE k == i - m
    <2>1. k \in 1 .. frames_in /\ m + k = i
      BY <1>3, <1>4, <1>5
    <2> HIDE DEF k
    <2>2. All[m + k] = buffer[Period - frames_in + k]
      BY <1>2, <2>1 DEF Laid
    <2>3. All'[m + k] = buffer[Period - frames_in + k]
      BY <1>1, <1>2, <2>1 DEF Laid
    <2> QED
      BY <2>1, <2>2, <2>3
  <1> QED
    BY <1>1, <1>3, <1>4, <1>5

\* pcm_read() gives the framework all up to the next frame.
LEMMA ReadDirectOrder ==
    ASSUME CInv, CInv', OInv, ReadDirect
    PROVE  OInv'
  <1>1. /\ pc = "direct" /\ pc' = "idle" /\ ~resampler /\ frames \in Nat /\ next \in Nat \ {0}
        /\ next' = next + frames /\ last' = next + frames - 1
        /\ UNCHANGED <<resampler, got, buffer, frames_in, rs, proc, fx, passed, breaks>>
    BY DEF ReadDirect, Return, CInv, Sized, Typed, stream, effects, input, process
  <1>2. /\ Frames(All') /\ Len(All') > 0 /\ Len(Waiting)' \in Nat /\ Rate' = 1
    BY <1>1, NewFrames DEF Frames, Rate
  <1>3. \A i \in 1 .. Len(All') - 1 : ~Given(All', passed, i)
    BY <1>1, BufferAgrees DEF Given, OInv, PathLeaves
  <1>4. All'[Len(All')] = next'
    BY NewLaid DEF Laid
  <1>5. next' \in Nat \ {0} /\ last' = next' - 1 /\ last' \in Nat /\ next <= next'
    BY <1>1
  <1>6. Chain(All', Len(Waiting)', last', passed, breaks, 1)
    BY <1>2, <1>3, <1>4, <1>5, ChainDirect
  <1>7. passed' \in SUBSET (0 .. next' - 1) /\ Junk \in passed' /\ breaks' \in SUBSET Nat
    BY <1>1, <1>5 DEF OInv, Ordered
  <1>8. Ordered'
    BY <1>1, <1>2, <1>5, <1>6, <1>7 DEF Ordered
  <1> QED
    BY <1>1, <1>8 DEF OInv, PathLeaves

LEMMA ReadDirectFailsOrder ==
    ASSUME CInv, CInv', OInv, ReadDirectFails
    PROVE  OInv'
  <1>1. /\ pc = "direct" /\ pc' = "idle" /\ ~resampler /\ next \in Nat \ {0}
        /\ next' = next + 1 /\ breaks' = breaks \union {next'}
        /\ UNCHANGED <<resampler, got, buffer, frames_in, rs, proc, fx, last, passed>>
    BY DEF ReadDirectFails, Return, CInv, Sized, Typed, stream, effects, input, process
  <1>2. /\ passed' \in SUBSET (0 .. next' - 1) /\ Junk \in passed' /\ breaks' \in SUBSET Nat
        /\ last' \in Nat /\ next <= next' /\ next' \in breaks' /\ breaks \subseteq breaks'
    BY <1>1 DEF OInv, Ordered
  <1> DEFINE p == Len(All) - 1
  <1>3. /\ p \in Nat /\ Len(Waiting) <= p /\ p < Len(All) /\ p < Len(All)'
        /\ \A i \in 1 .. p : All'[i] = All[i]
        /\ ~(\E i \in p + 1 .. Len(All)' - 1 : TRUE)
    BY <1>1, BufferAgrees
  <1> HIDE DEF p
  <1>4. Chain(All', Len(Waiting), last, passed, breaks', Rate)
    BY <1>2, <1>3, RenewedOrder
  <1>5. Rate' = Rate /\ Len(Waiting)' = Len(Waiting)
    BY <1>1, WaitingAgrees DEF Rate
  <1>6. Ordered'
    BY <1>1, <1>2, <1>4, <1>5 DEF Ordered
  <1> QED
    BY <1>1, <1>6 DEF OInv, PathLeaves

\* The period buffer is another one, and nobody wrote to it.
LEMMA RemixedOrder ==
    ASSUME CInv, CInv', OInv, NEW B \in SUBSET Nat, UNCHANGED <<fx, proc, got, rs, frames_in>>,
           buffer' = [i \in 1 .. Period |-> Junk],
           next <= next', next' \in B, breaks \subseteq B
    PROVE  Chain(All', Len(Waiting), last, passed, B, Rate)
  <1> DEFINE p == Len(Waiting) + Len(rs)
  <1>1. /\ Len(Waiting) \in Nat /\ Len(rs) \in Nat /\ frames_in \in 0 .. Period
        /\ Len(Waiting)' = Len(Waiting)
    BY AllFrames, WaitingAgrees
  <1>2. /\ p \in Nat /\ Len(Waiting) <= p /\ p < Len(All) /\ p < Len(All)'
        /\ \A i \in 1 .. p : All'[i] = All[i]
    BY <1>1, ResamplerAgrees
  <1>3. ASSUME NEW i \in p + 1 .. Len(All)' - 1
        PROVE  All'[i] \in passed
    <2> DEFINE k == i - p
    <2>1. k \in 1 .. frames_in /\ p + k = i /\ Period - frames_in + k \in 1 .. Period
      BY <1>1, <1>3, NewLaid, SizesPositive DEF Laid
    <2> HIDE DEF k
    <2>2. All'[p + k] = buffer'[Period - frames_in + k]
      BY <1>1, <2>1, NewLaid DEF Laid
    <2>3. All'[i] = Junk
      BY <2>1, <2>2
    <2> QED
      BY <2>3 DEF OInv, Ordered
  <1> HIDE DEF p
  <1> QED
    BY <1>2, <1>3, RenewedOrder

LEMMA StartFailsOrder ==
    ASSUME CInv, CInv', OInv, StartFails
    PROVE  OInv'
  <1>1. /\ pc' = "idle" /\ standby'
        /\ breaks' = IF buffer' = buffer THEN breaks ELSE breaks \union {next}
        /\ UNCHANGED <<resampler, standby, got, frames_in, rs, proc, fx, next, last, passed>>
    BY DEF StartFails, call, process
  <1>2. CASE buffer' = buffer
    <2>1. breaks' = breaks
      BY <1>1, <1>2
    <2> QED
      BY <1>1, <1>2, <2>1, SameFrames, OrderKept
  <1>3. CASE buffer' # buffer
    <2>1. buffer' = [i \in 1 .. Period |-> Junk]
      BY <1>3 DEF StartFails, Remix
    <2>2. next \in Nat
      BY DEF CInv, Typed
    <2>3. /\ next <= next' /\ next' \in breaks' /\ breaks \subseteq breaks'
          /\ breaks' \in SUBSET Nat
      BY <1>1, <1>3, <2>2 DEF OInv, Ordered
    <2>4. Chain(All', Len(Waiting), last, passed, breaks', Rate)
      BY <1>1, <2>1, <2>3, RemixedOrder
    <2>5. Rate' = Rate /\ Len(Waiting)' = Len(Waiting)
      BY <1>1, WaitingAgrees DEF Rate
    <2>6. Ordered'
      BY <1>1, <2>3, <2>4, <2>5 DEF OInv, Ordered
    <2> QED
      BY <1>1, <2>6 DEF OInv, PathLeaves
  <1> QED
    BY <1>2, <1>3

\* A failed read forgets what read_frames() had, and more is lost at the driver.
LEMMA ReadPeriodFailsOrder ==
    ASSUME CInv, CInv', OInv, ReadPeriodFails
    PROVE  OInv'
  <1>1. /\ pc' = "idle" /\ frames_in = 0 /\ next' = next + 1 /\ got' = <<>>
        /\ breaks' = breaks \union {next', Head(rs \o <<next'>>)}
        /\ next \in Nat \ {0}
        /\ UNCHANGED <<resampler, standby, buffer, frames_in, rs, proc, fx, last, passed>>
    BY DEF ReadPeriodFails, Return, stream, input, process, CInv, Typed
  <1>0. Len(Waiting) \in Nat /\ Len(Waiting)' \in Nat /\ Len(rs) \in Nat /\ Len(All)' \in Nat
    BY AllFrames, NewFrames DEF Frames
  <1> DEFINE a   == fx \o proc
             mid == Waiting \o AtDriver'
  <1>2. /\ fx \in Seq(Nat) /\ proc \in Seq(Nat) /\ got \in Seq(Nat) /\ rs \in Seq(Nat)
        /\ Waiting \in Seq(Nat) /\ AtDriver' \in Seq(Nat)
    BY Sequences, NewFrames
  <1>3. a \in Seq(Nat) /\ Len(a) = Len(fx) + Len(proc)
    BY <1>2
  <1>4. AtDriver = rs \o <<next>> /\ AtDriver' = rs \o <<next'>>
    <2>1. Period + 1 > Period /\ Period - 0 = Period
      BY SizesPositive
    <2>2. Unread(buffer, frames_in) = <<>>
      BY <1>1, <2>1, SizesPositive, SubSeqEmpty DEF Unread
    <2>3. Unread(buffer, frames_in)' = <<>>
      BY <1>1, <2>2 DEF Unread
    <2>4. rs \o <<>> = rs
      BY <1>2, EmptyIn
    <2> QED
      BY <1>1, <2>2, <2>3, <2>4 DEF AtDriver
  <1>5. mid \in Seq(Nat) /\ mid = (Waiting \o rs) \o <<next'>>
        /\ All = (Waiting \o rs) \o <<next>>
    <2>1. mid \in Seq(Nat)
      BY <1>2
    <2>2. <<next>> \in Seq(Nat) /\ <<next'>> \in Seq(Nat)
      BY <1>1
    <2>3. /\ (Waiting \o rs) \o <<next>> = Waiting \o (rs \o <<next>>)
          /\ (Waiting \o rs) \o <<next'>> = Waiting \o (rs \o <<next'>>)
      <3>1. (Waiting \o rs) \o <<next>> = Waiting \o (rs \o <<next>>)
        <4>1. Waiting \in Seq(Nat) /\ rs \in Seq(Nat) /\ <<next>> \in Seq(Nat)
          BY <1>2, <2>2
        <4> QED
          BY <4>1, Regroup, Zenon
      <3>2. (Waiting \o rs) \o <<next'>> = Waiting \o (rs \o <<next'>>)
        <4>1. Waiting \in Seq(Nat) /\ rs \in Seq(Nat) /\ <<next'>> \in Seq(Nat)
          BY <1>2, <2>2
        <4> QED
          BY <4>1, Regroup, Zenon
      <3> QED
        BY <3>1, <3>2
    <2> QED
      BY <1>4, <2>1, <2>3 DEF All
  <1>6. mid = (a \o got) \o AtDriver' /\ All' = a \o AtDriver' /\ Waiting' = a
    <2>1. a \o <<>> = a
      BY <1>3, EmptyIn
    <2> QED
      BY <1>1, <2>1 DEF All, Waiting
  <1> DEFINE p == Len(Waiting) + Len(rs)
  <1>7. /\ Len(mid) = p + 1 /\ Len(All) = p + 1 /\ p \in Nat /\ Len(Waiting) <= p
        /\ \A i \in 1 .. p : mid[i] = All[i]
        /\ mid[p + 1] = next'
    <2> DEFINE x == Waiting \o rs
    <2>1. x \in Seq(Nat) /\ Len(x) = p /\ p \in Nat /\ Len(Waiting) <= p
      BY <1>2
    <2>2. <<next>> \in Seq(Nat) /\ <<next'>> \in Seq(Nat) /\ 1 \in 1 .. 1
          /\ Len(<<next>>) = 1 /\ Len(<<next'>>) = 1 /\ <<next'>>[1] = next'
      BY <1>1
    <2> HIDE DEF x, p
    <2>3. /\ Len(x \o <<next>>) = Len(x) + Len(<<next>>)
          /\ \A i \in 1 .. Len(x) : (x \o <<next>>)[i] = x[i]
      BY <2>1, <2>2, ConcatAt
    <2>4. /\ Len(x \o <<next'>>) = Len(x) + Len(<<next'>>)
          /\ \A i \in 1 .. Len(x) : (x \o <<next'>>)[i] = x[i]
          /\ \A i \in 1 .. Len(<<next'>>) : (x \o <<next'>>)[Len(x) + i] = <<next'>>[i]
      BY <2>1, <2>2, ConcatAt
    <2>5. mid = x \o <<next'>> /\ All = x \o <<next>>
      BY <1>5 DEF x
    <2> HIDE DEF mid
    <2> QED
      BY <2>1, <2>2, <2>3, <2>4, <2>5
  <1>8. /\ breaks' \in SUBSET Nat /\ breaks \subseteq breaks' /\ next' \in breaks'
        /\ AtDriver'[1] \in breaks'
    <2>1. AtDriver' # <<>> /\ AtDriver'[1] \in Nat
      <3>1. Len(AtDriver') > 0
        <4>1. (Len(AtDriver) = Len(All) - Len(Waiting) /\ Len(Waiting) < Len(All))'
          BY AllFrames, PTL
        <4> QED
          BY <1>0, <4>1
      <3> QED
        BY <1>2, <3>1
    <2>2. Head(rs \o <<next'>>) = AtDriver'[1]
      BY <1>2, <1>4, <2>1, FirstOfConcat
    <2>3. breaks \in SUBSET Nat /\ next' \in Nat
      BY <1>1 DEF OInv, Ordered
    <2>4. breaks' = breaks \union {next', AtDriver'[1]}
      BY <1>1, <2>2
    <2> QED
      BY <2>1, <2>3, <2>4
  <1>9. /\ Frames(All) /\ Frames(mid) /\ Frames(All') /\ Len(Waiting) \in Nat
        /\ Rate \in Nat \ {0} /\ Rate' = Rate
        /\ last \in Nat /\ Chain(All, Len(Waiting), last, passed, breaks, Rate)
    <2>1. Frames(mid)
      <3>1. mid \in Seq(Nat)
        BY <1>5
      <3> HIDE DEF mid
      <3> QED
        BY <3>1 DEF Frames
    <2>2. Frames(All) /\ Frames(All') /\ Rate \in Nat \ {0} /\ Rate' = Rate
      BY <1>1, AllFrames, NewFrames DEF Frames, Rate
    <2> QED
      BY <1>0, <2>1, <2>2 DEF OInv, Ordered
  <1>10. Chain(All, Len(Waiting), last, passed, breaks', Rate)
    BY <1>8, <1>9, ChainGrows
  <1>11. Given(All, passed, Len(All)) /\ All[Len(All)] = next
    BY NextNotPassed DEF Given, OInv
  <1> HIDE DEF mid, p
  <1>12. Chain(mid, Len(Waiting), last, passed, breaks', Rate)
    <2>1. p < Len(All) /\ p < Len(mid) /\ ~(\E i \in p + 1 .. Len(mid) - 1 : TRUE)
          /\ All[Len(All)] <= mid[Len(mid)] /\ mid[Len(mid)] \in breaks'
      BY <1>1, <1>7, <1>8, <1>11
    <2> QED
      BY <1>7, <1>8, <1>9, <1>10, <1>11, <2>1, ChainRenewed
  <1>13. Len(Waiting) = Len(a) + Len(got) /\ Len(got) \in Nat /\ Len(a) \in Nat
    BY <1>2, <1>3, LaidOut DEF Laid
  <1> HIDE DEF a
  <1>14. /\ Without(mid, All', Len(a), Len(got))
         /\ \A i \in 1 .. Len(AtDriver') : All'[Len(a) + i] = AtDriver'[i]
    <2>1. a \in Seq(Nat) /\ got \in Seq(Nat) /\ AtDriver' \in Seq(Nat)
      BY <1>2, <1>3
    <2> QED
      BY <1>6, <2>1, WithoutMiddle
  <1>15. Len(a) < Len(All') => All'[Len(a) + 1] \in breaks'
    <2>1. Len(AtDriver') = Len(All') - Len(a)
      <3>1. (Len(AtDriver) = Len(All) - Len(Waiting))'
        BY AllFrames, PTL
      <3> QED
        BY <1>6, <3>1
    <2>2. Len(a) < Len(All') => 1 \in 1 .. Len(AtDriver')
      BY <1>9, <1>13, <2>1 DEF Frames
    <2> QED
      BY <1>8, <1>14, <2>2
  <1>16. Len(a) + Len(got) <= Len(Waiting)
    BY <1>13
  <1>17. Chain(All', Len(Waiting) - Len(got), last, passed, breaks', Rate)
    BY <1>8, <1>9, <1>12, <1>13, <1>14, <1>15, <1>16, ChainDropped
  <1>18. Len(Waiting)' = Len(Waiting) - Len(got)
    BY <1>6, <1>13
  <1>19. Ordered'
    <2>1. passed' \in SUBSET (0 .. next' - 1) /\ Junk \in passed'
      BY <1>1 DEF OInv, Ordered
    <2> QED
      BY <1>1, <1>8, <1>9, <1>17, <1>18, <2>1 DEF Ordered
  <1>20. ASSUME resampler', ~standby', NEW i \in Len(Waiting)' + 1 .. Len(All)'
         PROVE  All'[i] \notin passed'
    <2>1. \A k \in 1 .. Len(AtDriver) : AtDriver[k] \notin passed
      BY <1>1, <1>20, DriverGiven DEF OInv, PathLeaves
    <2>2. Laid /\ Laid'
      BY LaidOut, NewLaid
    <2>3. CASE i = Len(All)'
      BY <1>19, <2>2, <2>3, <1>1 DEF Laid, Ordered
    <2>4. CASE i # Len(All)'
      <3> DEFINE k == i - Len(Waiting)'
      <3>1. Len(Waiting)' \in Nat /\ Len(rs) \in Nat /\ Len(Waiting) \in Nat
        BY <1>0
      <3>6. Len(All)' = Len(Waiting)' + Len(rs) + 1
        BY <1>0, <1>1, <2>2 DEF Laid
      <3>2. k \in 1 .. Len(rs) /\ Len(Waiting)' + k = i
        BY <2>4, <3>1, <3>6, <1>20
      <3> HIDE DEF k
      <3>3. All'[i] = rs[k]
        BY <1>1, <2>2, <3>2 DEF Laid
      <3>4. All[Len(Waiting) + k] = rs[k]
        BY <2>2, <3>2 DEF Laid
      <3>5. Len(Waiting) + k \in Len(Waiting) + 1 .. Len(All)
        BY <1>1, <2>2, <3>1, <3>2 DEF Laid
      <3> QED
        BY <1>1, <1>20, <3>3, <3>4, <3>5 DEF OInv, PathLeaves
    <2> QED
      BY <2>3, <2>4
  <1> QED
    BY <1>1, <1>19, <1>20 DEF OInv, PathLeaves

-----------------------------------------------------------------------------
(***************************************************************************)
(* A path that leaves frames behind.                                       *)
(***************************************************************************)
LEMMA Below ==
    /\ \A m \in Nat : m \notin 0 .. m - 1
    /\ \A m, x \in Nat : x < m => x \in 0 .. m - 1
  OBVIOUS

\* The path that in_read() takes leaves the first p frames behind.
LEMMA MarkedOrder ==
    ASSUME CInv', NEW B \in SUBSET Nat, NEW p \in Nat, p < Len(All)',
           Chain(All', Len(Waiting)', last', passed, B, Rate'),
           passed \in SUBSET (0 .. next' - 1), Junk \in passed, last' \in Nat,
           passed \subseteq passed', \A i \in 1 .. p : All'[i] \in passed',
           \A x \in passed' : x \in passed \/ \E i \in 1 .. p : All'[i] = x,
           B \subseteq breaks', breaks' \in SUBSET Nat, p > 0 => All'[p + 1] \in breaks',
           resampler' /\ ~standby' =>
               /\ p <= Len(Waiting)'
               /\ \A i \in Len(Waiting)' + 1 .. Len(All)' : All'[i] \notin passed
    PROVE  /\ Ordered'
           /\ resampler' /\ ~standby' =>
                  \A i \in Len(Waiting)' + 1 .. Len(All)' : All'[i] \notin passed'
  <1> DEFINE t == All'
             wl == Len(Waiting)'
  <1>1. /\ Frames(t) /\ wl \in Nat /\ Rate' \in Nat \ {0} /\ next' \in Nat \ {0} /\ wl < Len(t)
    BY NewFrames DEF Frames
  <1>2. Len(t) \in Nat /\ \A i \in 1 .. Len(t) : t[i] \in Nat
    BY <1>1 DEF Frames
  <1>3. t[Len(t)] = next' /\ next' \notin passed
    <2>1. t[Len(t)] = next'
      BY NewLaid DEF Laid
    <2>2. next' \in Nat /\ \A x \in passed : x \in 0 .. next' - 1
      BY <1>1
    <2>3. next' \notin 0 .. next' - 1
      BY <2>2, Below, Zenon
    <2> QED
      BY <2>1, <2>2, <2>3
  <1> HIDE DEF t, wl
  <1>4. Chain(t, wl, last', passed, breaks', Rate')
    <2>1. Chain(t, wl, last', passed, B, Rate')
      BY DEF t, wl
    <2> QED
      BY <1>1, <2>1, ChainGrows
  <1>5. Chain(t, wl, last', passed', breaks', Rate')
    <2>1. CASE p = 0
      <3>1. passed' = passed
        <4>1. ~(\E i \in 1 .. p : TRUE)
          BY <2>1
        <4>2. \A x \in passed' : x \in passed
          BY <4>1
        <4> QED
          BY <4>2
      <3> QED
        BY <1>4, <3>1
    <2>2. CASE p # 0
      <3>1. p < Len(t) /\ t[p + 1] \in breaks' /\ \A i \in 1 .. p : t[i] \in passed'
        BY <2>2 DEF t
      <3>2. \A x \in passed' : x \in passed \/ \E i \in 1 .. p : t[i] = x
        BY DEF t
      <3> QED
        BY <1>1, <1>4, <3>1, <3>2, ChainMarked
    <2> QED
      BY <2>1, <2>2
  <1>6. ASSUME NEW i \in 1 .. Len(t), NEW j \in 1 .. Len(t), i < j, t[j] \notin passed
        PROVE  t[i] # t[j] \/ t[i] \in passed
    <2>1. CASE t[i] \in passed
      BY <2>1
    <2>2. CASE t[i] \notin passed
      <3>1. i \in 1 .. j - 1
        BY <1>2, <1>6
      <3>2. t[i] < t[j]
        BY <1>4, <1>6, <2>2, <3>1 DEF Chain, Joins, Before, Given
      <3> QED
        BY <1>2, <3>2
    <2> QED
      BY <2>1, <2>2
  <1>7. passed' \in SUBSET (0 .. next' - 1)
    <2> SUFFICES ASSUME NEW x \in passed', x \notin passed
                 PROVE  x \in 0 .. next' - 1
      OBVIOUS
    <2>1. PICK i \in 1 .. p : t[i] = x
      BY DEF t
    <2>2. i \in 1 .. Len(t) /\ Len(t) \in 1 .. Len(t) /\ i < Len(t) /\ i \in 1 .. Len(t) - 1
      BY <1>1, <1>2 DEF t
    <2>3. t[i] < t[Len(t)]
      BY <1>3, <1>4, <2>1, <2>2 DEF Chain, Joins, Before, Given
    <2>4. x \in Nat /\ next' \in Nat
      BY <1>1, <1>2, <2>1, <2>2
    <2> QED
      BY <1>3, <2>1, <2>3, <2>4, Below, Zenon
  <1>8. Ordered'
    <2>1. Chain(All, Len(Waiting), last, passed, breaks, Rate)'
      BY <1>5 DEF t, wl
    <2> QED
      BY <1>7, <2>1 DEF Ordered
  <1>9. ASSUME resampler', ~standby', NEW j \in wl + 1 .. Len(t)
        PROVE  t[j] \notin passed'
    <2>1. p <= wl /\ t[j] \notin passed
      BY <1>9 DEF t, wl
    <2>2. ASSUME NEW i \in 1 .. p
          PROVE  t[i] # t[j]
      <3>1. i \in 1 .. Len(t) /\ j \in 1 .. Len(t) /\ i < j /\ i \in 1 .. j - 1 /\ j \in Nat
        BY <1>1, <1>2, <2>1
      <3>2. CASE t[i] \in passed
        BY <2>1, <3>2
      <3>3. CASE t[i] \notin passed
        <4>1. t[i] < t[j]
          BY <1>4, <2>1, <3>1, <3>3 DEF Chain, Joins, Before, Given
        <4> QED
          BY <1>2, <3>1, <4>1
      <3> QED
        BY <3>2, <3>3
    <2>3. t[j] \in passed' => \E i \in 1 .. p : t[i] = t[j]
      BY <2>1 DEF t
    <2> QED
      BY <2>2, <2>3
  <1> QED
    BY <1>8, <1>9 DEF t, wl

\* ToSet() and Head() of the frames left behind and of what comes first.
LEMMA SetOf ==
    ASSUME NEW s \in Seq(Nat)
    PROVE  ToSet(s) = {s[i] : i \in 1 .. Len(s)}
  BY DEF ToSet

\* What in_read() leaves behind are the frames x, before those of d.
LEMMA LeftOrder ==
    ASSUME CInv', NEW B \in SUBSET Nat, NEW x \in Seq(Nat), NEW d \in Seq(Nat), Len(d) > 0,
           All' = x \o d, passed' = passed \union ToSet(x),
           breaks' = B \union (IF ToSet(x) = {} THEN {} ELSE {d[1]}),
           Chain(All', Len(Waiting)', last', passed, B, Rate'),
           passed \in SUBSET (0 .. next' - 1), Junk \in passed, last' \in Nat,
           resampler' /\ ~standby' =>
               /\ Len(x) <= Len(Waiting)'
               /\ \A i \in Len(Waiting)' + 1 .. Len(All)' : All'[i] \notin passed
    PROVE  /\ Ordered'
           /\ \A i \in 1 .. Len(x) : All'[i] \in passed'
           /\ resampler' /\ ~standby' =>
                  \A i \in Len(Waiting)' + 1 .. Len(All)' : All'[i] \notin passed'
  <1>1. /\ Len(All') = Len(x) + Len(d) /\ Len(x) \in Nat /\ Len(d) \in Nat
        /\ \A i \in 1 .. Len(x) : All'[i] = x[i]
        /\ \A i \in 1 .. Len(d) : All'[Len(x) + i] = d[i]
    <2>1. /\ Len(x \o d) = Len(x) + Len(d)
          /\ \A i \in 1 .. Len(x) : (x \o d)[i] = x[i]
          /\ \A i \in 1 .. Len(d) : (x \o d)[Len(x) + i] = d[i]
      BY ConcatAt
    <2> QED
      BY <2>1
  <1>2. ToSet(x) = {x[i] : i \in 1 .. Len(x)}
    BY SetOf
  <1> DEFINE p == Len(x)
  <1>3. /\ p \in Nat /\ p < Len(All)' /\ d[1] \in Nat /\ All'[p + 1] = d[1]
    <2>1. 1 \in 1 .. Len(d)
      BY <1>1
    <2>2. d[1] \in Nat
      BY <2>1
    <2> QED
      BY <1>1, <2>1, <2>2
  <1>4. \A i \in 1 .. p : All'[i] \in ToSet(x)
    BY <1>1, <1>2
  <1>5. \A y \in passed' : y \in passed \/ \E i \in 1 .. p : All'[i] = y
    BY <1>1, <1>2
  <1>6. p > 0 => All'[p + 1] \in breaks'
    <2> SUFFICES ASSUME p > 0
                 PROVE  d[1] \in breaks'
      BY <1>3
    <2>1. 1 \in 1 .. p
      BY <1>3
    <2>2. ToSet(x) # {}
      BY <1>4, <2>1
    <2> QED
      BY <2>2
  <1>7. /\ B \subseteq breaks' /\ breaks' \in SUBSET Nat /\ passed \subseteq passed'
        /\ \A i \in 1 .. p : All'[i] \in passed'
    BY <1>3, <1>4
  <1>8. resampler' /\ ~standby' =>
               /\ p <= Len(Waiting)'
               /\ \A i \in Len(Waiting)' + 1 .. Len(All)' : All'[i] \notin passed
    OBVIOUS
  <1> HIDE DEF p
  <1>9. /\ Ordered'
        /\ resampler' /\ ~standby' =>
               \A i \in Len(Waiting)' + 1 .. Len(All)' : All'[i] \notin passed'
    BY <1>3, <1>5, <1>6, <1>7, <1>8, MarkedOrder
  <1> QED
    BY <1>7, <1>9 DEF p

LEMMA UnreadNat ==
    ASSUME CInv
    PROVE  Unread(buffer, frames_in) \in Seq(Nat)
  <1>1. frames_in \in 0 .. Period /\ next \in Nat
    BY DEF CInv, Typed
  <1>2. \A i \in Period - frames_in + 1 .. Period : buffer[i] \in Nat
    BY <1>1, SizesPositive DEF CInv, Past
  <1> QED
    BY <1>1, <1>2, UnreadSeq

LEMMA LenConcat ==
    \A s, t \in Seq(Nat) : Len(s \o t) = Len(s) + Len(t) /\ Len(s) \in Nat
  OBVIOUS

\* in_read() chooses its path.
LEMMA PathOrder ==
    ASSUME CInv, CInv', NEW B \in SUBSET Nat, NEW n, ChoosePath(n), got = <<>>, got' = <<>>,
           UNCHANGED <<resampler, preprocessors, fx, proc>>,
           ~resampler /\ ~remix' => UNCHANGED <<rs, buffer, frames_in>>,
           Chain(All', Len(Waiting)', last', passed, B, Rate'),
           passed \in SUBSET (0 .. next' - 1), Junk \in passed, last' \in Nat,
           breaks' = B \union (IF Shortcut = {} THEN {} ELSE {FirstOfPath}),
           resampler' /\ ~standby' =>
               \A i \in Len(Waiting)' + 1 .. Len(All)' : All'[i] \notin passed
    PROVE  OInv'
  <1> DEFINE a   == fx \o proc
             un  == Unread(buffer, frames_in)
             one == <<next'>>
  <1>1. passed' = passed \union Shortcut
    BY DEF ChoosePath
  <1>2. /\ fx \in Seq(Nat) /\ proc \in Seq(Nat) /\ rs \in Seq(Nat)
        /\ AtDriver' \in Seq(Nat) /\ All' \in Seq(Nat) /\ Waiting' \in Seq(Nat)
        /\ Len(Waiting)' \in Nat /\ Len(Waiting)' < Len(All)' /\ next' \in Nat
    BY Sequences, NewFrames
  <1>3. a \in Seq(Nat) /\ Len(a) = Len(fx) + Len(proc) /\ a \o <<>> = a
    <2>1. a \in Seq(Nat) /\ Len(a) = Len(fx) + Len(proc)
      BY <1>2
    <2> QED
      BY <2>1, EmptyIn
  <1>4. Waiting' = a /\ All' = a \o AtDriver' /\ Waiting = a
    BY <1>3 DEF Waiting, All
  <1>5. Len(AtDriver') = Len(All') - Len(a) /\ Len(AtDriver') > 0
    <2>1. (Len(AtDriver) = Len(All) - Len(Waiting))'
      BY AllFrames, PTL
    <2>2. Len(All') \in Nat
      BY <1>2
    <2> QED
      BY <1>2, <1>4, <2>1, <2>2
  <1>6. CASE preprocessors # {}
    <2>1. Shortcut = {} /\ pc' # "direct"
      BY <1>6 DEF Shortcut, ChoosePath, Reload
    <2>2. <<>> \in Seq(Nat) /\ ToSet(<<>>) = {} /\ All' = <<>> \o All' /\ Len(All') > 0
          /\ Len(<<>>) = 0
      <3>1. All' = <<>> \o All' /\ Len(All') > 0
        BY <1>2, EmptyIn
      <3> QED
        BY <3>1 DEF ToSet
    <2>3. /\ passed' = passed \union ToSet(<<>>)
          /\ breaks' = B \union (IF ToSet(<<>>) = {} THEN {} ELSE {All'[1]})
      BY <1>1, <2>1, <2>2
    <2>4. Len(<<>>) <= Len(Waiting)'
      BY <1>2, <2>2
    <2>5. /\ Ordered'
          /\ resampler' /\ ~standby' =>
                 \A i \in Len(Waiting)' + 1 .. Len(All)' : All'[i] \notin passed'
      BY <1>2, <2>2, <2>3, <2>4, LeftOrder
    <2> QED
      BY <1>6, <2>1, <2>5 DEF OInv, PathLeaves
  <1>7. CASE preprocessors = {} /\ (resampler \/ remix')
    <2>1. Shortcut = ToSet(a) /\ pc' = "frames"
      BY <1>7 DEF Shortcut, ChoosePath
    <2>2. FirstOfPath = AtDriver'[1]
      <3>1. FirstOfPath = Head(AtDriver')
        BY <1>7 DEF FirstOfPath, AtDriver
      <3> QED
        BY <1>2, <1>5, <3>1, FirstOfConcat
    <2> HIDE DEF a
    <2>3. /\ passed' = passed \union ToSet(a)
          /\ breaks' = B \union (IF ToSet(a) = {} THEN {} ELSE {AtDriver'[1]})
      BY <1>1, <2>1, <2>2
    <2>4. Len(a) <= Len(Waiting)'
      BY <1>2, <1>4
    <2>5. /\ Ordered'
          /\ \A i \in 1 .. Len(a) : All'[i] \in passed'
          /\ resampler' /\ ~standby' =>
                 \A i \in Len(Waiting)' + 1 .. Len(All)' : All'[i] \notin passed'
      BY <1>2, <1>3, <1>4, <1>5, <2>3, <2>4, LeftOrder
    <2>6. PathLeaves'
      BY <1>3, <2>1, <2>5 DEF PathLeaves
    <2> QED
      BY <2>5, <2>6 DEF OInv
  <1>8. CASE preprocessors = {} /\ ~(resampler \/ remix')
    <2> DEFINE x == (a \o rs) \o un
    <2>1. /\ pc' = "direct" /\ ~resampler' /\ FirstOfPath = next'
          /\ UNCHANGED <<rs, buffer, frames_in>>
      BY <1>8 DEF ChoosePath, FirstOfPath
    <2>2. Shortcut = ToSet(x)
      BY <1>8 DEF Shortcut
    <2>3. un \in Seq(Nat) /\ one \in Seq(Nat) /\ Len(one) > 0 /\ one[1] = next' /\ Len(one) = 1
      BY <1>2, UnreadNat
    <2> HIDE DEF a, un
    <2>4. x \in Seq(Nat)
      <3>1. a \o rs \in Seq(Nat)
        BY <1>2, <1>3
      <3> HIDE DEF one
      <3> QED
        BY <2>3, <3>1, ConcatProperties
    <2>5. All' = x \o one
      <3>1. ((a \o rs) \o un) \o one = a \o ((rs \o un) \o one)
        <4>1. a \in Seq(Nat) /\ rs \in Seq(Nat) /\ un \in Seq(Nat) /\ one \in Seq(Nat)
          BY <1>2, <1>3, <2>3
        <4> HIDE DEF one
        <4> QED
          BY <4>1, FourTogether, SMTT(60)
      <3>2. AtDriver' = (rs \o un) \o one
        BY <2>1 DEF AtDriver, un, Unread
      <3> QED
        BY <1>4, <3>1, <3>2
    <2> HIDE DEF x, one
    <2>6. /\ passed' = passed \union ToSet(x)
          /\ breaks' = B \union (IF ToSet(x) = {} THEN {} ELSE {one[1]})
      BY <1>1, <2>1, <2>2, <2>3
    <2>7. Ordered' /\ \A i \in 1 .. Len(x) : All'[i] \in passed'
      BY <2>1, <2>3, <2>4, <2>5, <2>6, LeftOrder
    <2>8. Len(All)' - 1 = Len(x)
      <3>1. Len(x \o one) = Len(x) + Len(one) /\ Len(x) \in Nat
        BY <2>3, <2>4, LenConcat, Zenon
      <3> QED
        BY <2>3, <2>5, <3>1
    <2>9. PathLeaves'
      BY <2>1, <2>7, <2>8 DEF PathLeaves
    <2> QED
      BY <2>7, <2>9 DEF OInv
  <1> QED
    BY <1>6, <1>7, <1>8

LEMMA ReadOrder ==
    ASSUME CInv, CInv', OInv, NEW n \in Requests, Read(n)
    PROVE  OInv'
  <1>1. /\ pc = "idle" /\ got = <<>> /\ ChoosePath(n) /\ ~standby
        /\ breaks' = breaks \union (IF Shortcut = {} THEN {} ELSE {FirstOfPath})
        /\ UNCHANGED <<resampler, standby, preprocessors, fx, proc, rs, buffer, frames_in,
                       next,
                       last>>
    BY DEF Read, CInv, Sized, stream, effects, input
  <1>2. got' = <<>>
    BY <1>1 DEF ChoosePath, Reload
  <1>3. All' = All /\ Waiting' = Waiting /\ Rate' = Rate
    BY <1>1, <1>2, SameFrames DEF Rate
  <1>4. /\ breaks \in SUBSET Nat /\ passed \in SUBSET (0 .. next' - 1) /\ Junk \in passed
        /\ last' \in Nat /\ Chain(All', Len(Waiting)', last', passed, breaks, Rate')
    BY <1>1, <1>3 DEF OInv, Ordered
  <1>5. resampler' /\ ~standby' =>
            \A i \in Len(Waiting)' + 1 .. Len(All)' : All'[i] \notin passed
    BY <1>1, <1>3 DEF OInv, PathLeaves
  <1> QED
    BY <1>1, <1>2, <1>4, <1>5, PathOrder

LEMMA StartOrder ==
    ASSUME CInv, CInv', OInv, NEW n \in Requests, Start(n)
    PROVE  OInv'
  <1> DEFINE B == breaks \union {next + 1}
  <1>1. /\ pc = "idle" /\ got = <<>> /\ ChoosePath(n) /\ next' = next + 1
        /\ next \in Nat \ {0} /\ ~standby'
        /\ breaks' = B \union (IF Shortcut = {} THEN {} ELSE {FirstOfPath})
        /\ IF resampler THEN frames_in' = 0 /\ rs' = <<>> ELSE UNCHANGED <<frames_in, rs>>
        /\ UNCHANGED <<resampler, preprocessors, fx, proc, last>>
    BY DEF Start, CInv, Sized, Typed, effects
  <1>2. got' = <<>>
    BY <1>1 DEF ChoosePath, Reload
  <1>3. \/ remix' = TRUE /\ buffer' = [i \in 1 .. Period |-> Junk]
        \/ buffer' = buffer
    BY DEF Start, Remix
  <1>4. /\ B \in SUBSET Nat /\ breaks \subseteq B /\ next' \in B /\ next <= next'
        /\ passed \in SUBSET (0 .. next' - 1) /\ Junk \in passed /\ last' \in Nat
        /\ last' = last
    BY <1>1 DEF OInv, Ordered
  <1> HIDE DEF B
  <1>5. Chain(All', Len(Waiting), last, passed, B, Rate)
    <2>1. CASE resampler
      <3> DEFINE p == Len(Waiting)
      <3>1. /\ p \in Nat /\ Len(Waiting) <= p /\ p < Len(All) /\ p < Len(All)'
            /\ \A i \in 1 .. p : All'[i] = All[i]
        BY <1>1, <1>2, WaitingAgrees, AllFrames
      <3>2. ~(\E i \in p + 1 .. Len(All)' - 1 : TRUE)
        <4>1. frames_in' = 0 /\ Len(rs') = 0 /\ Len(Waiting)' = p
          BY <1>1, <1>2, <2>1, WaitingAgrees
        <4>2. Len(All)' = p + 1
          BY <3>1, <4>1, NewLaid DEF Laid
        <4> QED
          BY <3>1, <4>2
      <3> HIDE DEF p
      <3> QED
        BY <1>4, <3>1, <3>2, RenewedOrder
    <2>2. CASE ~resampler /\ buffer' = buffer
      <3> DEFINE p == Len(All) - 1
      <3>1. /\ p \in Nat /\ Len(Waiting) <= p /\ p < Len(All) /\ p < Len(All)'
            /\ \A i \in 1 .. p : All'[i] = All[i]
            /\ ~(\E i \in p + 1 .. Len(All)' - 1 : TRUE)
        BY <1>1, <1>2, <2>2, BufferAgrees
      <3> HIDE DEF p
      <3> QED
        BY <1>4, <3>1, RenewedOrder
    <2>3. CASE ~resampler /\ buffer' # buffer
      <3>1. /\ UNCHANGED <<fx, proc, got, rs, frames_in>>
            /\ buffer' = [i \in 1 .. Period |-> Junk]
        BY <1>1, <1>2, <1>3, <2>3
      <3> QED
        BY <1>4, <3>1, RemixedOrder
    <2> QED
      BY <2>1, <2>2, <2>3
  <1>6. Chain(All', Len(Waiting)', last', passed, B, Rate')
    <2>1. Len(Waiting)' = Len(Waiting) /\ Rate' = Rate
      BY <1>1, <1>2, WaitingAgrees DEF Rate
    <2> QED
      BY <1>4, <1>5, <2>1
  <1>7. ASSUME resampler', NEW i \in Len(Waiting)' + 1 .. Len(All)'
        PROVE  All'[i] \notin passed
    <2>1. frames_in' = 0 /\ Len(rs') = 0 /\ Len(Waiting)' \in Nat
      BY <1>1, <1>7, NewFrames
    <2>2. i = Len(All)'
      BY <1>7, <2>1, NewLaid DEF Laid
    <2>3. All'[i] = next'
      BY <2>2, NewLaid DEF Laid
    <2>4. next' \in Nat /\ \A y \in passed : y \in 0 .. next' - 1
      BY <1>1, <1>4
    <2> QED
      BY <2>3, <2>4, Below, Zenon
  <1>8. ~resampler /\ ~remix' => UNCHANGED <<rs, buffer, frames_in>>
    BY <1>1, <1>3
  <1> QED
    BY <1>1, <1>2, <1>4, <1>6, <1>7, <1>8, PathOrder

-----------------------------------------------------------------------------
(***************************************************************************)
(* The turns of read_frames().                                             *)
(***************************************************************************)
\* The beginnings of groups of r frames.
LEMMA MultiplesGroup ==
    ASSUME NEW r \in Nat \ {0}, NEW g \in Nat, NEW f, \A i \in 0 .. g : f[i] = r * i
    PROVE  Groups(f, g, r, r * g)
  <1>1. \A i \in Nat : r * i \in Nat
    BY ProductInNat
  <1>2. \A i \in 0 .. g : r * i <= r * g
    BY SMT
  <1>3. \A i \in 1 .. g : r * i = r * (i - 1) + r /\ i \in 0 .. g /\ i - 1 \in 0 .. g
    BY SMT
  <1>4. \A i \in 0 .. g : \A k \in 0 .. i - 1 : r * k < r * i /\ k \in 0 .. g
    BY SMT
  <1>5. r * 0 = 0 /\ 0 \in 0 .. g /\ g \in 0 .. g
    BY SMT
  <1>6. f[0] = 0 /\ f[g] = r * g
    BY <1>5
  <1>7. \A i \in 0 .. g : f[i] \in 0 .. r * g
    <2> TAKE i \in 0 .. g
    <2>1. r * i \in Nat /\ r * g \in Nat /\ r * i <= r * g /\ f[i] = r * i
      BY <1>1, <1>2
    <2> HIDE DEF Groups
    <2> QED
      BY <2>1
  <1>8. \A i \in 1 .. g : f[i] = f[i - 1] + r
    BY <1>3
  <1>9. \A i \in 0 .. g : \A k \in 0 .. i - 1 : f[k] < f[i]
    BY <1>4
  <1> QED
    BY <1>6, <1>7, <1>8, <1>9 DEF Groups

\* The frames s before a turn of read_frames(): the T it takes are behind the
\* first wl, then come m that it leaves and the next, x.
BeforeTurn(s, wl, T, m, taken, rest, x) ==
    /\ Len(s) = wl + T + m + 1
    /\ \A i \in 1 .. T : s[wl + i] = taken[i]
    /\ \A i \in 1 .. m : s[wl + T + i] = rest[i]
    /\ s[Len(s)] = x

\* The frames t after it: h of those taken are in g groups, which begin at f.
AfterTurn(t, wl, T, g, h, m, f, taken, rest, x) ==
    /\ Len(t) = wl + g + (T - h) + m + 1
    /\ \A i \in 1 .. g : t[wl + i] = taken[f[i - 1] + 1]
    /\ \A i \in 1 .. T - h : t[wl + g + i] = taken[h + i]
    /\ \A i \in 1 .. m : t[wl + g + (T - h) + i] = rest[i]
    /\ t[Len(t)] = x

\* Each group has made one frame, and those in no group have stayed.
LEMMA TurnGrouped ==
    ASSUME NEW wl \in Nat, NEW T \in Nat, NEW g \in Nat, NEW h \in 0 .. T, NEW m \in Nat,
           NEW r \in Nat \ {0}, NEW s, NEW t, NEW taken, NEW rest, NEW x,
           NEW f, Groups(f, g, r, h), \A i \in 1 .. wl : t[i] = s[i],
           BeforeTurn(s, wl, T, m, taken, rest, x),
           AfterTurn(t, wl, T, g, h, m, f, taken, rest, x)
    PROVE  Grouped(s, t, wl, f, g, h)
  <1> USE DEF BeforeTurn, AfterTurn
  <1>1. ASSUME NEW i \in wl + 1 + g .. Len(t)
        PROVE  t[i] = s[i - g + h]
    <2> DEFINE j == i - wl - g
    <2>1. j \in 1 .. (T - h) + m + 1 /\ i = wl + g + j /\ i - g + h = wl + h + j
          /\ T - h \in Nat
      BY <1>1
    <2> HIDE DEF j
    <2>2. CASE j <= T - h
      <3>1. j \in 1 .. T - h /\ h + j \in 1 .. T /\ wl + (h + j) = i - g + h
        BY <2>1, <2>2
      <3>2. t[i] = taken[h + j]
        BY <2>1, <3>1
      <3>3. s[wl + (h + j)] = taken[h + j]
        BY <3>1
      <3> QED
        BY <3>1, <3>2, <3>3
    <2>3. CASE j > T - h /\ j <= (T - h) + m
      <3> DEFINE k == j - (T - h)
      <3>1. /\ k \in 1 .. m /\ wl + g + (T - h) + k = i /\ wl + T + k = i - g + h
        BY <2>1, <2>3
      <3> HIDE DEF k
      <3>2. t[wl + g + (T - h) + k] = rest[k] /\ s[wl + T + k] = rest[k]
        BY <3>1
      <3> QED
        BY <3>1, <3>2
    <2>4. CASE j = (T - h) + m + 1
      <3>1. i = Len(t) /\ i - g + h = Len(s)
        BY <2>1, <2>4
      <3> QED
        BY <3>1
    <2> QED
      BY <2>1, <2>2, <2>3, <2>4
  <1>2. ASSUME NEW i \in 0 .. g
        PROVE  t[wl + 1 + i] = s[wl + 1 + f[i]]
    <2>1. CASE i = g
      <3>1. wl + 1 + g \in wl + 1 + g .. Len(t) /\ (wl + 1 + g) - g + h = wl + 1 + h
        OBVIOUS
      <3>2. f[g] = h
        BY DEF Groups
      <3>3. t[wl + 1 + g] = s[wl + 1 + h]
        BY <1>1, <3>1
      <3> QED
        BY <2>1, <3>2, <3>3
    <2>2. CASE i # g
      <3>1. i + 1 \in 1 .. g /\ (i + 1) - 1 = i /\ wl + (i + 1) = wl + 1 + i
            /\ i \in 0 .. g - 1
            /\ g \in 0 .. g
        BY <2>2
      <3>2. f[i] \in 0 .. h /\ f[i] < h
        BY <3>1 DEF Groups
      <3>3. f[i] + 1 \in 1 .. T /\ wl + (f[i] + 1) = wl + 1 + f[i]
        <4> DEFINE v == f[i]
        <4>1. v \in 0 .. h /\ v < h
          BY <3>2
        <4> HIDE DEF v
        <4>2. v + 1 \in 1 .. T /\ wl + (v + 1) = wl + 1 + v
          BY <4>1
        <4> QED
          BY <4>2 DEF v
      <3>4. t[wl + (i + 1)] = taken[f[(i + 1) - 1] + 1]
        BY <3>1
      <3>5. s[wl + (f[i] + 1)] = taken[f[i] + 1]
        BY <3>3
      <3> QED
        BY <3>1, <3>3, <3>4, <3>5
    <2> QED
      BY <2>1, <2>2
  <1> QED
    BY <1>1, <1>2 DEF Grouped

\* What the resampler makes of the frames s, and what it keeps.
LEMMA ResampledFrames ==
    ASSUME NEW s \in Seq(Nat)
    PROVE  LET g == Len(s) \div Rate
               h == Rate * g
           IN  /\ g \in Nat /\ h \in 0 .. Len(s)
               /\ Resampled(s) \in Seq(Nat) /\ Len(Resampled(s)) = g
               /\ \A i \in 1 .. g : Resampled(s)[i] = s[Rate * (i - 1) + 1]
               /\ Kept(s) \in Seq(Nat) /\ Len(Kept(s)) = Len(s) - h
               /\ \A i \in 1 .. Len(s) - h : Kept(s)[i] = s[h + i]
  <1> DEFINE g == Len(s) \div Rate
             h == Rate * g
  <1>1. Len(s) \in Nat
    OBVIOUS
  <1>2. g \in Nat /\ h \in Nat /\ h <= Len(s)
    BY <1>1, RateIsPositive, Quotient
  <1>3. Resampled(s) = [i \in 1 .. g |-> s[Rate * (i - 1) + 1]]
        /\ Kept(s) = SubSeq(s, h + 1, Len(s))
    BY DEF Resampled, Kept
  <1>4. Resampled(s) \in Seq(Nat) /\ Len(Resampled(s)) = g
    BY ResampledSeq
  <1> HIDE DEF g, h
  <1>5. h \in 0 .. Len(s)
    BY <1>1, <1>2
  <1>6. /\ SubSeq(s, h + 1, Len(s)) \in Seq(Nat) /\ Len(SubSeq(s, h + 1, Len(s))) = Len(s) - h
        /\ \A i \in 1 .. Len(s) - h : SubSeq(s, h + 1, Len(s))[i] = s[h + i]
    BY <1>5, FirstSeq
  <1>7. \A i \in 1 .. g : Resampled(s)[i] = s[Rate * (i - 1) + 1]
    BY <1>3
  <1> QED
    BY <1>2, <1>3, <1>4, <1>5, <1>6, <1>7 DEF g, h

LEMMA ConcatNat ==
    \A s, t \in Seq(Nat) :
        /\ s \o t \in Seq(Nat) /\ Len(s \o t) = Len(s) + Len(t)
        /\ \A i \in 1 .. Len(s) : (s \o t)[i] = s[i]
        /\ \A i \in 1 .. Len(t) : (s \o t)[Len(s) + i] = t[i]
  BY ConcatAt

\* What a turn of read_frames() takes.
LEMMA TakenFrames ==
    ASSUME CInv, pc = "frames", Len(got) < Wanted, NEW b, NEW n \in 0 .. Period,
           \A i \in Period - n + 1 .. Period : b[i] \in Nat, Take(b, n)
    PROVE  \E k \in 0 .. n, s \in Seq(Nat) :
               /\ got' = got \o Resampled(s) /\ rs' = Kept(s)
               /\ buffer' = b /\ frames_in' = n - k
               /\ Len(s) = Len(rs) + k
               /\ \A i \in 1 .. Len(rs) : s[i] = rs[i]
               /\ \A i \in 1 .. k : s[Len(rs) + i] = b[Period - n + i]
  <1> DEFINE un    == Unread(b, n)
             k     == Least(n, Needed)
             first == SubSeq(un, 1, k)
             taken == rs \o first
  <1>1. un \in Seq(Nat) /\ Len(un) = n /\ \A i \in 1 .. n : un[i] = b[Period - n + i]
    <2>1. un \in Seq(Nat) /\ Len(un) = n
      BY UnreadSeq
    <2>2. ASSUME NEW i \in 1 .. n
          PROVE  un[i] = b[Period - n + i]
      BY UnreadFrame, ZenonT(30)
    <2> QED
      BY <2>1, <2>2
  <1>2. rs \in Seq(Nat) /\ Len(rs) \in Nat /\ Len(got) \in Nat /\ Wanted \in Nat
        /\ Len(rs) < Rate
    BY Sequences, WantedIsNat DEF CInv, Sized
  <1>3. Needed \in Nat
    <2> DEFINE left == Wanted - Len(got)
    <2>1. left \in Nat \ {0}
      BY <1>2
    <2> HIDE DEF left
    <2>2. Rate * left >= Rate /\ Rate * left \in Nat
      BY <2>1, RateIsPositive, SMT
    <2>3. Rate * left - Len(rs) \in Nat
      BY <1>2, <2>2, RateIsPositive
    <2> QED
      BY <2>3 DEF Needed, left
  <1>4. k \in 0 .. n
    BY <1>3 DEF Least
  <1>5. /\ got' = got \o Resampled(taken) /\ rs' = Kept(taken)
        /\ buffer' = b /\ frames_in' = n - k
    BY DEF Take
  <1> HIDE DEF un, k
  <1>6. first \in Seq(Nat) /\ Len(first) = k /\ \A i \in 1 .. k : first[i] = b[Period - n + i]
    <2>1. /\ first \in Seq(Nat) /\ Len(first) = k
          /\ \A i \in 1 .. k : first[i] = un[i]
      BY <1>1, <1>4, FirstSeq
    <2> QED
      BY <1>1, <1>4, <2>1
  <1> HIDE DEF first
  <1>7. /\ taken \in Seq(Nat) /\ Len(taken) = Len(rs) + k
        /\ \A i \in 1 .. Len(rs) : taken[i] = rs[i]
        /\ \A i \in 1 .. k : taken[Len(rs) + i] = b[Period - n + i]
    <2>1. /\ rs \o first \in Seq(Nat) /\ Len(rs \o first) = Len(rs) + Len(first)
          /\ \A i \in 1 .. Len(rs) : (rs \o first)[i] = rs[i]
          /\ \A i \in 1 .. Len(first) : (rs \o first)[Len(rs) + i] = first[i]
      <3>1. rs \in Seq(Nat) /\ first \in Seq(Nat)
        BY <1>2, <1>6
      <3> QED
        BY <3>1, ConcatAt
    <2> QED
      BY <1>6, <2>1
  <1> HIDE DEF taken
  <1> QED
    BY <1>4, <1>5, <1>7

\* Without a resampler a group is a frame, and none moves.
LEMMA GroupedByOne ==
    ASSUME NEW s, NEW t, Len(s) \in Nat, Len(t) = Len(s), NEW wl \in Nat, NEW g \in Nat,
           wl + g + 1 <= Len(s), NEW f, \A i \in 0 .. g : f[i] = i, Grouped(s, t, wl, f, g, g)
    PROVE  \A i \in 1 .. Len(s) : t[i] = s[i]
  <1> TAKE i \in 1 .. Len(s)
  <1>1. CASE i <= wl
    BY <1>1 DEF Grouped
  <1>2. CASE i > wl /\ i <= wl + g
    <2> DEFINE k == i - wl - 1
    <2>1. k \in 0 .. g /\ wl + 1 + k = i
      BY <1>2
    <2> HIDE DEF k
    <2>2. t[wl + 1 + k] = s[wl + 1 + f[k]] /\ f[k] = k
      BY <2>1 DEF Grouped
    <2> QED
      BY <2>1, <2>2
  <1>3. CASE i > wl + g
    <2>1. i \in wl + 1 + g .. Len(t) /\ i - g + g = i
      BY <1>3
    <2> QED
      BY <2>1 DEF Grouped
  <1> QED
    BY <1>1, <1>2, <1>3

\* The frames that a turn of read_frames() begins with, n of b unread.
TurnFrom(s, b, n) ==
    /\ Len(s) = Len(Waiting) + Len(rs) + n + 1
    /\ \A i \in 1 .. Len(Waiting) : s[i] = All[i]
    /\ \A i \in 1 .. Len(rs) : s[Len(Waiting) + i] = rs[i]
    /\ \A i \in 1 .. n : s[Len(Waiting) + Len(rs) + i] = b[Period - n + i]
    /\ s[Len(s)] = next'
    /\ resampler => \A i \in Len(Waiting) + 1 .. Len(s) : s[i] \notin passed

\* A turn of read_frames(), from the frames src.
LEMMA TurnOrder ==
    ASSUME CInv, CInv', OInv, pc = "frames", Len(got) < Wanted,
           NEW b \in [1 .. Period -> Nat], NEW n \in 0 .. Period, Take(b, n), next <= next',
           UNCHANGED <<resampler, standby, preprocessors, pc, proc, fx, last, passed, breaks>>,
           NEW src, Frames(src), TurnFrom(src, b, n),
           Chain(src, Len(Waiting), last, passed, breaks, Rate)
    PROVE  OInv'
  <1>1. PICK k \in 0 .. n, taken \in Seq(Nat) :
               /\ got' = got \o Resampled(taken) /\ rs' = Kept(taken)
               /\ buffer' = b /\ frames_in' = n - k
               /\ Len(taken) = Len(rs) + k
               /\ \A i \in 1 .. Len(rs) : taken[i] = rs[i]
               /\ \A i \in 1 .. k : taken[Len(rs) + i] = b[Period - n + i]
    <2>1. \A i \in Period - n + 1 .. Period : b[i] \in Nat
      BY SizesPositive
    <2> QED
      BY <2>1, TakenFrames, ZenonT(30)
  <1> DEFINE dst  == All'
             w == Len(Waiting)
             tl  == Len(taken)
             gs  == tl \div Rate
             hs  == Rate * gs
             left  == n - k
             tail == [i \in 1 .. left |-> b[Period - left + i]]
             at  == [i \in 0 .. gs |-> Rate * i]
             rate  == Rate
  <1>2. /\ gs \in Nat /\ hs \in 0 .. tl
        /\ Resampled(taken) \in Seq(Nat) /\ Len(Resampled(taken)) = gs
        /\ \A i \in 1 .. gs : Resampled(taken)[i] = taken[Rate * (i - 1) + 1]
        /\ Kept(taken) \in Seq(Nat) /\ Len(Kept(taken)) = tl - hs
        /\ \A i \in 1 .. tl - hs : Kept(taken)[i] = taken[hs + i]
    BY ResampledFrames
  <1>3. /\ w \in Nat /\ Len(fx) \in Nat /\ Len(proc) \in Nat /\ Len(got) \in Nat
        /\ Len(rs) \in Nat
        /\ Rate \in Nat \ {0} /\ Rate' = Rate /\ Frames(dst) /\ got \in Seq(Nat) /\ tl \in Nat
        /\ left \in Nat /\ Period \in Nat /\ tl = Len(rs) + k /\ k \in 0 .. n
    <2>1. tl \in Nat /\ left \in Nat /\ Period \in Nat /\ tl = Len(rs) + k
      BY <1>1, SizesPositive
    <2> QED
      BY <2>1, AllFrames, NewFrames, Sequences DEF Frames, Rate
  <1>4. Groups(at, gs, rate, hs)
    <2>1. \A i \in 0 .. gs : at[i] = rate * i
      OBVIOUS
    <2> HIDE DEF at, gs
    <2> QED
      BY <1>2, <1>3, <2>1, MultiplesGroup
  <1>5. /\ Len(got') = Len(got) + gs
        /\ \A i \in 1 .. Len(got) : got'[i] = got[i]
        /\ \A i \in 1 .. gs : got'[Len(got) + i] = taken[at[i - 1] + 1]
    <2> DEFINE re == Resampled(taken)
    <2>1. re \in Seq(Nat) /\ got \in Seq(Nat) /\ Len(re) = gs /\ got' = got \o re
      BY <1>1, <1>2, <1>3
    <2>2. \A i \in 1 .. gs : re[i] = taken[at[i - 1] + 1]
      <3>1. \A i \in 1 .. gs : i - 1 \in 0 .. gs /\ at[i - 1] = Rate * (i - 1)
        BY <1>2
      <3> QED
        BY <1>2, <3>1
    <2> HIDE DEF re, at, gs
    <2>3. /\ Len(got \o re) = Len(got) + Len(re)
          /\ \A i \in 1 .. Len(got) : (got \o re)[i] = got[i]
          /\ \A i \in 1 .. Len(re) : (got \o re)[Len(got) + i] = re[i]
      BY <2>1, ConcatNat, Zenon
    <2> QED
      BY <2>1, <2>2, <2>3
  <1>n. /\ gs \in Nat /\ tl \in Nat /\ hs \in 0 .. tl /\ w \in Nat /\ left \in Nat
        /\ Len(got') = Len(got) + gs
    BY <1>2, <1>3, <1>5
  <1> HIDE DEF gs, hs, at, tl
  <1>6. Laid /\ Laid'
    BY LaidOut, NewLaid
  <1>7. Len(Waiting)' = w + gs /\ w = Len(fx) + Len(proc) + Len(got)
    BY <1>2, <1>3, <1>5, <1>6 DEF Laid
  <1>8. frames_in' = left /\ Len(rs') = tl - hs
        /\ \A i \in 1 .. tl - hs : rs'[i] = taken[hs + i]
    BY <1>1, <1>2
  <1>9. Len(dst) = w + gs + (tl - hs) + left + 1 /\ dst[Len(dst)] = next'
    BY <1>6, <1>7, <1>8 DEF Laid
  <1>10. ASSUME NEW i \in 1 .. w
         PROVE  dst[i] = All[i]
    <2>1. CASE i <= Len(fx)
      <3>1. i \in 1 .. Len(fx)
        BY <2>1
      <3>2. All[i] = fx[i] /\ dst[i] = fx[i]
        BY <1>6, <3>1 DEF Laid
      <3> QED
        BY <3>2
    <2>2. CASE i > Len(fx) /\ i <= Len(fx) + Len(proc)
      <3> DEFINE j == i - Len(fx)
      <3>1. j \in 1 .. Len(proc) /\ Len(fx) + j = i
        BY <1>3, <2>2
      <3> HIDE DEF j
      <3>2. All[Len(fx) + j] = proc[j] /\ dst[Len(fx) + j] = proc[j]
        BY <1>6, <3>1 DEF Laid
      <3> QED
        BY <3>1, <3>2
    <2>3. CASE i > Len(fx) + Len(proc)
      <3> DEFINE j == i - (Len(fx) + Len(proc))
      <3>1. j \in 1 .. Len(got) /\ Len(fx) + Len(proc) + j = i /\ j \in 1 .. Len(got')
        BY <1>3, <1>7, <1>n, <2>3
      <3> HIDE DEF j
      <3>2. All[Len(fx) + Len(proc) + j] = got[j]
        BY <1>6, <3>1 DEF Laid
      <3>3. dst[Len(fx) + Len(proc) + j] = got'[j]
        BY <1>6, <3>1 DEF Laid
      <3> QED
        BY <1>5, <3>1, <3>2, <3>3
    <2> QED
      BY <1>3, <2>1, <2>2, <2>3
  <1>11. ASSUME NEW i \in 1 .. tl
         PROVE  src[w + i] = taken[i]
    <2>1. CASE i <= Len(rs)
      <3>1. i \in 1 .. Len(rs)
        BY <2>1
      <3>2. src[w + i] = rs[i]
        BY <3>1 DEF TurnFrom
      <3> QED
        BY <1>1, <3>1, <3>2
    <2>2. CASE i > Len(rs)
      <3> DEFINE j == i - Len(rs)
      <3>1. j \in 1 .. k /\ j \in 1 .. n /\ Len(rs) + j = i /\ w + Len(rs) + j = w + i
        BY <1>3, <2>2
      <3> HIDE DEF j
      <3>2. taken[Len(rs) + j] = b[Period - n + j]
        BY <1>1, <3>1
      <3>3. src[w + Len(rs) + j] = b[Period - n + j]
        BY <3>1 DEF TurnFrom
      <3> QED
        BY <3>1, <3>2, <3>3
    <2> QED
      BY <1>3, <2>1, <2>2
  <1>12. ASSUME NEW i \in 1 .. left
         PROVE  src[w + tl + i] = tail[i]
    <2>1. /\ k + i \in 1 .. n /\ w + Len(rs) + (k + i) = w + tl + i
          /\ Period - n + (k + i) = Period - left + i
      BY <1>3
    <2>2. src[w + Len(rs) + (k + i)] = b[Period - n + (k + i)]
      BY <2>1 DEF TurnFrom
    <2> QED
      BY <2>1, <2>2
  <1>13. ASSUME NEW i \in 1 .. gs
         PROVE  dst[w + i] = taken[at[i - 1] + 1]
    <2>1. Len(got) + i \in 1 .. Len(got') /\ Len(fx) + Len(proc) + (Len(got) + i) = w + i
      BY <1>2, <1>3, <1>5, <1>7
    <2>2. dst[Len(fx) + Len(proc) + (Len(got) + i)] = got'[Len(got) + i]
      BY <1>6, <2>1 DEF Laid
    <2> QED
      BY <1>5, <2>1, <2>2
  <1>14. ASSUME NEW i \in 1 .. tl - hs
         PROVE  dst[w + gs + i] = taken[hs + i]
    <2>1. Len(rs') = tl - hs /\ Len(Waiting)' = w + gs /\ i \in 1 .. Len(rs')
      BY <1>7, <1>8
    <2>2. dst[Len(Waiting)' + i] = rs'[i]
      BY <1>6, <2>1 DEF Laid
    <2> QED
      BY <1>8, <2>1, <2>2
  <1>15. ASSUME NEW i \in 1 .. left
         PROVE  dst[w + gs + (tl - hs) + i] = tail[i]
    <2>1. dst[w + gs + (tl - hs) + i] = b[Period - left + i]
      BY <1>1, <1>6, <1>7, <1>8 DEF Laid
    <2> QED
      BY <2>1
  <1>16. /\ Len(src) = w + tl + left + 1 /\ src[Len(src)] = next'
         /\ \A i \in 1 .. w : dst[i] = src[i]
    <2>1. \A i \in 1 .. w : src[i] = All[i]
      BY DEF TurnFrom
    <2>2. Len(src) = w + tl + left + 1
      BY <1>3 DEF TurnFrom
    <2>3. src[Len(src)] = next'
      BY DEF TurnFrom
    <2> HIDE DEF dst, w
    <2> QED
      BY <1>10, <2>1, <2>2, <2>3
  <1> HIDE DEF dst, left, tail, w, rate
  <1>17. Grouped(src, dst, w, at, gs, hs)
    <2>1. BeforeTurn(src, w, tl, left, taken, tail, next')
      BY <1>11, <1>12, <1>16 DEF BeforeTurn
    <2>2. AfterTurn(dst, w, tl, gs, hs, left, at, taken, tail, next')
      BY <1>9, <1>13, <1>14, <1>15 DEF AfterTurn
    <2>3. rate \in Nat \ {0}
      BY <1>3 DEF rate
    <2>4. \A i \in 1 .. w : dst[i] = src[i]
      BY <1>16
    <2> QED
      BY <1>4, <1>n, <2>1, <2>2, <2>3, <2>4, TurnGrouped
  <1>18. w + hs + 1 <= Len(src) /\ Len(dst) + hs = Len(src) + gs /\ hs \in Nat
         /\ Len(src) \in Nat
    <2>1. Len(src) = w + tl + left + 1 /\ Len(dst) = w + gs + (tl - hs) + left + 1
      BY <1>9, <1>16
    <2> QED
      BY <1>n, <2>1
  <1>19. /\ last \in Nat /\ breaks \in SUBSET Nat
         /\ Chain(src, w, last, passed, breaks, rate) /\ rate \in Nat \ {0}
    BY <1>3 DEF OInv, Ordered, w, rate
  <1>20. ~standby
    BY DEF CInv, Sized
  <1>21. Chain(dst, w + gs, last, passed, breaks, rate)
    <2>1. CASE resampler
      <3>1. \A i \in w + 1 .. Len(src) : Given(src, passed, i)
        BY <2>1 DEF Given, w, TurnFrom
      <3> QED
        BY <1>2, <1>3, <1>4, <1>17, <1>18, <1>19, <3>1, ChainGrouped
    <2>2. CASE ~resampler
      <3>1. rate = 1 /\ hs = gs /\ \A i \in 0 .. gs : at[i] = i
        <4>1. rate = 1 /\ Rate = 1
          BY <2>2 DEF Rate, rate
        <4>2. hs = gs
          BY <1>2, <4>1 DEF hs
        <4> QED
          BY <1>2, <4>1, <4>2 DEF at
      <3>2. Len(dst) = Len(src) /\ Grouped(src, dst, w, at, gs, gs) /\ w + gs + 1 <= Len(src)
        BY <1>n, <1>17, <1>18, <3>1
      <3>3. \A i \in 1 .. Len(src) : dst[i] = src[i]
        BY <1>n, <1>18, <3>1, <3>2, GroupedByOne
      <3>4. ASSUME NEW j \in 1 .. Len(dst), Given(dst, passed, j)
            PROVE  Joins(dst, w + gs, last, passed, breaks, rate, j)
        <4>1. /\ j \in Nat \ {0} /\ j \in 1 .. Len(src) /\ Given(src, passed, j)
              /\ \A i \in 1 .. j : dst[i] = src[i]
          BY <1>18, <3>2, <3>3, <3>4 DEF Given
        <4>2. Joins(src, w, last, passed, breaks, rate, j)
          BY <1>19, <4>1 DEF Chain
        <4>3. Step(w + gs, rate, j) = Step(w, rate, j) /\ w + gs \in Nat
          BY <1>2, <1>3, <3>1 DEF Step
        <4> QED
          BY <1>3, <1>19, <4>1, <4>2, <4>3, JoinsThere
      <3> QED
        BY <3>4 DEF Chain
    <2> QED
      BY <2>1, <2>2
  <1>22. Ordered'
    <2>1. passed' \in SUBSET (0 .. next' - 1)
      <3>1. next \in Nat /\ next' \in Nat
        BY AllFrames, NewFrames
      <3>2. 0 .. next - 1 \subseteq 0 .. next' - 1
        BY <3>1, WiderRange, Zenon
      <3>3. passed' = passed /\ passed \in SUBSET (0 .. next - 1)
        BY DEF OInv, Ordered
      <3> QED
        BY <3>2, <3>3
    <2> QED
      BY <1>3, <1>7, <1>19, <1>21, <2>1 DEF OInv, Ordered, dst, rate
  <1>23. ASSUME resampler, NEW i \in w + gs + 1 .. Len(dst)
         PROVE  dst[i] \notin passed
    <2>1. i \in w + 1 + gs .. Len(dst) /\ i - gs + hs \in w + 1 .. Len(src)
      BY <1>n, <1>18, <1>23
    <2>2. dst[i] = src[i - gs + hs]
      BY <1>17, <2>1 DEF Grouped
    <2> QED
      BY <1>23, <2>1, <2>2 DEF w, TurnFrom
  <1>24. PathLeaves'
    <2>1. resampler' /\ ~standby' =>
              \A i \in Len(Waiting)' + 1 .. Len(All)' : All'[i] \notin passed'
      BY <1>7, <1>23 DEF dst
    <2>2. ASSUME preprocessors' = {}, NEW i \in 1 .. Len(fx') + Len(proc')
          PROVE  All'[i] \in passed'
      <3>1. i \in 1 .. w /\ i \in 1 .. Len(fx) + Len(proc)
        BY <1>3, <1>7, <2>2
      <3>2. All'[i] = All[i]
        BY <1>10, <3>1 DEF dst, w
      <3> QED
        BY <2>2, <3>1, <3>2 DEF OInv, PathLeaves
    <2> QED
      BY <2>1, <2>2 DEF PathLeaves
  <1> QED
    BY <1>22, <1>24 DEF OInv

LEMMA ReadBufferedOrder ==
    ASSUME CInv, CInv', OInv, ReadBuffered
    PROVE  OInv'
  <1>1. /\ pc = "frames" /\ Len(got) < Wanted /\ Take(buffer, frames_in) /\ next' = next
        /\ UNCHANGED <<resampler, standby, preprocessors, pc, proc, fx, last, passed, breaks>>
    BY DEF ReadBuffered, stream, effects, process, history
  <1>2. /\ buffer \in [1 .. Period -> Nat] /\ frames_in \in 0 .. Period /\ next \in Nat
        /\ ~standby
    <2>1. buffer \in [1 .. Period -> 0 .. next - 1] /\ frames_in \in 0 .. Period
          /\ next \in Nat
      BY DEF CInv, Past, Typed
    <2>2. ~standby
      BY <1>1 DEF CInv, Sized
    <2> QED
      BY <2>1, <2>2
  <1>3. Frames(All) /\ Laid
    BY AllFrames, LaidOut
  <1>4. TurnFrom(All, buffer, frames_in)
    BY <1>1, <1>2, <1>3 DEF TurnFrom, Laid, OInv, PathLeaves
  <1>5. Chain(All, Len(Waiting), last, passed, breaks, Rate)
    BY DEF OInv, Ordered
  <1>6. next <= next'
    BY <1>1, <1>2
  <1> QED
    BY <1>1, <1>2, <1>3, <1>4, <1>5, <1>6, TurnOrder

\* A period from the driver, behind what there was.
LEMMA PeriodFrames ==
    ASSUME CInv, OInv, pc = "frames", frames_in = 0, next' = next + Period
    PROVE  \E src : /\ Frames(src) /\ TurnFrom(src, Captured(next, Period), Period)
                    /\ Chain(src, Len(Waiting), last, passed, breaks, Rate)
  <1> DEFINE w    == Len(Waiting)
             p    == w + Len(rs)
             len  == p + Period + 1
             src  == [i \in 1 .. len |-> IF i <= p THEN All[i] ELSE next + (i - p - 1)]
             cap  == Captured(next, Period)
  <1>1. /\ Frames(All) /\ w \in Nat /\ Len(rs) \in Nat /\ next \in Nat \ {0}
        /\ Rate \in Nat \ {0}
        /\ Laid /\ Period \in Nat \ {0}
    BY AllFrames, LaidOut, SizesPositive
  <1>2. Len(All) = p + 1 /\ All[p + 1] = next /\ p \in Nat /\ len \in Nat /\ w <= p
    <2>1. Len(All) = p + 1 /\ p \in Nat
      BY <1>1 DEF Laid
    <2> QED
      BY <1>1, <2>1 DEF Laid
  <1>3. \A i \in 1 .. Period : cap[i] = next + i - 1
    BY <1>1, CapturedFrames
  <1>4. \A i \in 1 .. Len(All) : All[i] \in Nat
    BY <1>1 DEF Frames
  <1>5. \A i \in 1 .. p : All[i] \in Nat
    BY <1>2, <1>4
  <1>6. /\ Len(src) = len
        /\ \A i \in 1 .. p : src[i] = All[i]
        /\ \A i \in p + 1 .. len : src[i] = next + (i - p - 1)
    <2>1. src \in [1 .. len -> Nat]
      BY <1>1, <1>2, <1>5
    <2>2. Len(src) = len
      BY <1>2, <2>1
    <2>3. ASSUME NEW i \in 1 .. p
          PROVE  src[i] = All[i]
      <3>1. i \in 1 .. len /\ i <= p
        BY <1>1, <1>2
      <3> QED
        BY <3>1
    <2>4. ASSUME NEW i \in p + 1 .. len
          PROVE  src[i] = next + (i - p - 1)
      <3>1. i \in 1 .. len /\ ~(i <= p)
        BY <1>1, <1>2
      <3> QED
        BY <3>1
    <2> QED
      BY <2>2, <2>3, <2>4
  <1> HIDE DEF src, cap, w
  <1>7. Frames(src)
    <2> SUFFICES ASSUME NEW i \in 1 .. len
                 PROVE  src[i] \in Nat
      BY <1>2, <1>6 DEF Frames
    <2>1. CASE i <= p
      BY <1>2, <1>5, <1>6, <2>1
    <2>2. CASE ~(i <= p)
      <3>1. i \in p + 1 .. len /\ next + (i - p - 1) \in Nat
        BY <1>1, <1>2, <2>2
      <3> QED
        BY <1>6, <3>1
    <2> QED
      BY <2>1, <2>2
  <1>8. \A i \in p + 1 .. len : src[i] \notin passed
    <2> TAKE i \in p + 1 .. len
    <2>1. src[i] = next + (i - p - 1) /\ i - p - 1 \in Nat
      BY <1>2, <1>6
    <2>2. passed \in SUBSET (0 .. next - 1)
      BY DEF OInv, Ordered
    <2>3. next + (i - p - 1) \notin 0 .. next - 1
      BY <1>1, <2>1
    <2> QED
      BY <2>1, <2>2, <2>3
  <1>9. TurnFrom(src, cap, Period)
    <2>1. Len(src) = w + Len(rs) + Period + 1
      BY <1>6
    <2>2. \A i \in 1 .. w : src[i] = All[i]
      BY <1>1, <1>2, <1>6
    <2>3. ASSUME NEW i \in 1 .. Len(rs)
          PROVE  src[w + i] = rs[i]
      <3>1. w + i \in 1 .. p
        BY <1>1
      <3>2. All[w + i] = rs[i]
        BY <1>1 DEF Laid, w
      <3> QED
        BY <1>6, <3>1, <3>2
    <2>4. ASSUME NEW i \in 1 .. Period
          PROVE  src[w + Len(rs) + i] = cap[Period - Period + i]
      <3>1. w + Len(rs) + i \in p + 1 .. len /\ (w + Len(rs) + i) - p - 1 = i - 1
            /\ Period - Period + i = i /\ next + (i - 1) = next + i - 1
        BY <1>1, <1>2
      <3> QED
        BY <1>3, <1>6, <3>1
    <2>5. src[Len(src)] = next'
      <3>1. len \in p + 1 .. len /\ next + (len - p - 1) = next'
        BY <1>1, <1>2
      <3> QED
        BY <1>6, <3>1
    <2>6. ASSUME resampler, NEW i \in w + 1 .. Len(src)
          PROVE  src[i] \notin passed
      <3>1. CASE i <= p
        <4>1. ~standby
          BY DEF CInv, Sized
        <4>2. i \in 1 .. p /\ i \in w + 1 .. Len(All)
          BY <1>1, <1>2, <3>1
        <4> QED
          BY <1>6, <2>6, <4>1, <4>2 DEF OInv, PathLeaves, w
      <3>2. CASE ~(i <= p)
        <4>1. i \in p + 1 .. len
          BY <1>1, <1>2, <1>6, <3>2
        <4> QED
          BY <1>8, <4>1
      <3> QED
        BY <3>1, <3>2
    <2> QED
      BY <2>1, <2>2, <2>3, <2>4, <2>5, <2>6 DEF TurnFrom, w
  <1>10. /\ last \in Nat /\ Chain(All, w, last, passed, breaks, Rate)
    BY DEF OInv, Ordered, w
  <1>11. /\ \A i \in 1 .. p + 1 : src[i] = All[i]
         /\ \A i \in p + 2 .. Len(src) : src[i] = src[i - 1] + 1
         /\ \A i \in p + 1 .. Len(src) :
                 src[i] = All[p + 1] + (i - p - 1) /\ Given(src, passed, i)
    <2>1. p + 1 \in p + 1 .. len /\ next + ((p + 1) - p - 1) = next
      BY <1>1, <1>2
    <2>2. src[p + 1] = All[p + 1]
      BY <1>2, <1>6, <2>1
    <2>3. ASSUME NEW i \in 1 .. p + 1
          PROVE  src[i] = All[i]
      <3>1. i = p + 1 \/ i \in 1 .. p
        BY <1>2
      <3> QED
        BY <1>6, <2>2, <3>1
    <2>4. ASSUME NEW i \in p + 2 .. Len(src)
          PROVE  src[i] = src[i - 1] + 1
      <3>1. /\ i \in p + 1 .. len /\ i - 1 \in p + 1 .. len
            /\ next + (i - p - 1) = next + ((i - 1) - p - 1) + 1
        BY <1>1, <1>2, <1>6
      <3>2. src[i] = next + (i - p - 1) /\ src[i - 1] = next + ((i - 1) - p - 1)
        BY <1>6, <3>1
      <3> QED
        BY <3>1, <3>2
    <2>5. ASSUME NEW i \in p + 1 .. Len(src)
          PROVE  src[i] = All[p + 1] + (i - p - 1) /\ Given(src, passed, i)
      BY <1>2, <1>6, <1>8 DEF Given
    <2> QED
      BY <2>3, <2>4, <2>5
  <1>12. Len(src) > p
    BY <1>1, <1>2, <1>6
  <1> HIDE DEF p, len
  <1>13. Chain(src, w, last, passed, breaks, Rate)
    BY <1>1, <1>2, <1>7, <1>10, <1>11, <1>12, ChainExtended
  <1> QED
    BY <1>7, <1>9, <1>13 DEF w, cap

LEMMA ReadPeriodOrder ==
    ASSUME CInv, CInv', OInv, ReadPeriod
    PROVE  OInv'
  <1> DEFINE cap == Captured(next, Period)
  <1>1. /\ pc = "frames" /\ Len(got) < Wanted /\ frames_in = 0 /\ Take(cap, Period)
        /\ next' = next + Period
        /\ UNCHANGED <<resampler, standby, preprocessors, pc, proc, fx, last, passed, breaks>>
    BY DEF ReadPeriod, stream, effects, process
  <1>2. cap \in [1 .. Period -> Nat] /\ Period \in 0 .. Period /\ next <= next'
    <2>1. next \in Nat \ {0} /\ Period \in Nat \ {0}
      BY SizesPositive DEF CInv, Typed
    <2>2. cap \in [1 .. Period -> 0 .. next' - 1]
      BY <1>1, <2>1, CapturedFrames
    <2> HIDE DEF cap
    <2> QED
      BY <1>1, <2>1, <2>2
  <1>3. PICK src : /\ Frames(src) /\ TurnFrom(src, cap, Period)
                   /\ Chain(src, Len(Waiting), last, passed, breaks, Rate)
    BY <1>1, PeriodFrames
  <1> HIDE DEF cap
  <1> QED
    BY <1>1, <1>2, <1>3, TurnOrder

-----------------------------------------------------------------------------
\* At the beginning nothing waits, and the next frame is one before which
\* others have been lost.
LEMMA InitOrder == Init => OInv
  <1> SUFFICES ASSUME Init
               PROVE  OInv
    OBVIOUS
  <1>1. CInv
    BY InitInv
  <1>2. /\ pc = "idle" /\ standby /\ next = 1 /\ last = 0 /\ passed = {Junk} /\ breaks = {1}
        /\ got = <<>> /\ rs = <<>> /\ proc = <<>> /\ fx = <<>> /\ frames_in = 0
    BY DEF Init
  <1>3. Len(All) = 1 /\ Len(Waiting) = 0 /\ All[1] = 1
    <2>1. Laid
      BY <1>1, LaidOut
    <2> QED
      BY <1>2, <2>1 DEF Laid
  <1>4. Rate \in Nat \ {0}
    BY RateIsPositive
  <1>5. Chain(All, Len(Waiting), last, passed, breaks, Rate)
    <2> SUFFICES ASSUME NEW j \in 1 .. Len(All)
                 PROVE  Joins(All, Len(Waiting), last, passed, breaks, Rate, j)
      BY DEF Chain
    <2>1. j = 1
      BY <1>3
    <2>2. \A x : Before(All, passed, 1, x)
      BY DEF Before
    <2>3. Broken(All, Len(Waiting), last, passed, breaks, Rate, 1)
      <3>1. 1 \in breaks /\ 1 <= All[1] /\ All[1] < 1 + Step(Len(Waiting), Rate, 1) /\ last < 1
        BY <1>2, <1>3, <1>4 DEF Step
      <3> QED
        BY <2>2, <3>1 DEF Broken
    <2>4. last < All[1]
      BY <1>2, <1>3
    <2>5. Joins(All, Len(Waiting), last, passed, breaks, Rate, 1)
      BY <2>2, <2>3, <2>4 DEF Joins
    <2> QED
      BY <2>1, <2>5
  <1>6. passed \in SUBSET (0 .. next - 1) /\ Junk \in passed /\ breaks \in SUBSET Nat
        /\ last \in Nat
    BY <1>2 DEF Junk
  <1> QED
    BY <1>2, <1>5, <1>6 DEF OInv, Ordered, PathLeaves

LEMMA NextOrder ==
    ASSUME CInv, CInv', OInv, [Next]_vars
    PROVE  OInv'
  <1>1. CASE \E n \in Requests : Start(n) \/ Read(n)
    BY <1>1, StartOrder, ReadOrder
  <1>2. CASE StartFails \/ ReadDirect \/ ReadDirectFails
    BY <1>2, StartFailsOrder, ReadDirectOrder, ReadDirectFailsOrder
  <1>3. CASE ReadBuffered \/ ReadPeriod \/ ReadPeriodFails \/ FramesRead
    BY <1>3, ReadBufferedOrder, ReadPeriodOrder, ReadPeriodFailsOrder, FramesReadOrder
  <1>4. CASE Reloaded \/ PushEcho \/ NoEcho \/ Process
    BY <1>4, ReloadedOrder, PushOrder, ProcessOrder
  <1>5. CASE in_standby
    BY <1>5, StandbyOrder
  <1>6. CASE \E e \in Effects : in_add_audio_effect(e) \/ in_remove_audio_effect(e)
    BY <1>6, AddOrder, RemoveOrder
  <1>7. CASE Full \/ UNCHANGED vars
    BY <1>7, OrderStutters DEF Full
  <1> QED
    BY <1>1, <1>2, <1>3, <1>4, <1>5, <1>6, <1>7 DEF Next

\* What in_read() has still to give is in the order of its capture.
THEOREM OrderInvariant == Spec => []OInv
  <1>1. Init => OInv
    BY InitOrder
  <1>2. CInv /\ CInv' /\ OInv /\ [Next]_vars => OInv'
    BY NextOrder
  <1> QED
    BY <1>1, <1>2, Invariant, PTL DEF Spec

\* in_read() gives the frames in order.
THEOREM InOrderHolds == Spec => []InOrder
  <1>1. CInv /\ OInv => InOrder
    BY OrderedInOrder DEF OInv
  <1> QED
    BY <1>1, Invariant, OrderInvariant, PTL
=============================================================================
