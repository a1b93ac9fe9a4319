-------------------------- MODULE V4L2FormatsProofs --------------------------
(***************************************************************************)
(* Theorems about V4L2Formats and V4L2Frames, for all sizes, rates and     *)
(* drivers: compare() is an order, the modes are sorted by it, the default *)
(* modes are the best of all, Init() takes the closest mode, crops inside  *)
(* of it, the members have their types, and the captured frames get to     *)
(* the clients with each byte in its place.                                *)
(*                                                                         *)
(* What a loop computes is proved by induction over its passes. Least and  *)
(* Passes are that induction for a set of numbers, from the fact that < is *)
(* well founded on Nat; LoopExists gives the recursive function that the   *)
(* model takes for the loop.                                               *)
(*                                                                         *)
(* A converter is a set of writes, numbered by the variables of its loops: *)
(* by pairs, pairs of rows, or eights. The frame that is wanted is a set   *)
(* of writes too, numbered by its pixels. For each kind of format a lemma  *)
(* says that both numberings lead to the same writes (ByPairs, ByTwoRows,  *)
(* IsEighth) and that a write has the source that the layout gives for its *)
(* pixel (PixelOfPair, PixelOfPlane, PixelOfBlock, ...).                   *)
(***************************************************************************)
EXTENDS V4L2Frames, FiniteSetTheorems, SequenceTheorems, WellFoundedInduction, TLAPS

-----------------------------------------------------------------------------
(***************************************************************************)
(* The order of sizes and of modes.                                        *)
(***************************************************************************)
AnySize == [w : Nat, h : Nat]
AnyMode == [w : Nat, h : Nat, fps : Nat]
RealMode == {m \in AnyMode : m.w > 0 /\ m.h > 0 /\ m.fps > 0}

\* An area is a number.
LEMMA AreaType ==
    ASSUME NEW m, m \in AnyMode \/ m \in AnySize
    PROVE  Area(m) \in Nat
BY DEF AnyMode, AnySize, Area

\* A rectangle with longer sides has the larger area.
LEMMA LongerIsLarger ==
    ASSUME NEW v \in Nat, NEW g \in Nat, NEW w \in Nat, NEW h \in Nat, w > v, h > g
    PROVE  w * h > v * g
<1>1. w * h >= (v + 1) * h  BY SMT
<1>2. (v + 1) * h >= (v + 1) * (g + 1)  BY SMT
<1>3. (v + 1) * (g + 1) = v * g + v + g + 1  BY SMT
<1>4. /\ w * h \in Int /\ (v + 1) * h \in Int /\ v * g \in Int
      /\ (v + 1) * (g + 1) \in Int
  BY SMT
<1> QED  BY <1>1, <1>2, <1>3, <1>4, SMT

\* SurfaceSize::compare() looks at both sides first, but what it says is which
\* area is larger; so sizes of the same area are equal for it.
THEOREM CompareIsByArea ==
    ASSUME NEW a \in AnySize, NEW b \in AnySize
    PROVE  /\ CompareSizes(a, b) \in Int
           /\ CompareSizes(a, b) > 0 <=> Area(a) > Area(b)
           /\ CompareSizes(a, b) = 0 <=> Area(a) = Area(b)
           /\ CompareSizes(a, b) < 0 <=> Area(a) < Area(b)
<1>1. /\ a.w \in Nat /\ a.h \in Nat /\ b.w \in Nat /\ b.h \in Nat
  BY DEF AnySize
<1>2. Area(a) \in Int /\ Area(b) \in Int
  BY <1>1 DEF Area
<1>3. CASE a.w > b.w /\ a.h > b.h
  <2>1. Area(a) > Area(b)
    BY <1>1, <1>3, LongerIsLarger DEF Area
  <2>2. CompareSizes(a, b) = 1
    BY <1>3 DEF CompareSizes
  <2> QED  BY <2>1, <2>2, <1>2
<1>4. CASE a.w < b.w /\ a.h < b.h
  <2>1. Area(b) > Area(a)
    BY <1>1, <1>4, LongerIsLarger DEF Area
  <2>2. CompareSizes(a, b) = -1
    BY <1>1, <1>4 DEF CompareSizes
  <2> QED  BY <2>1, <2>2, <1>2
<1>5. CASE ~(a.w > b.w /\ a.h > b.h) /\ ~(a.w < b.w /\ a.h < b.h)
  <2>1. CompareSizes(a, b) = Area(a) - Area(b)
    BY <1>5 DEF CompareSizes
  <2> QED  BY <2>1, <1>2
<1> QED  BY <1>3, <1>4, <1>5

\* What the comparison of sizes says of the sizes of two modes.
LEMMA CompareSizesOfModes ==
    ASSUME NEW x \in AnyMode, NEW y \in AnyMode
    PROVE  /\ CompareSizes(x, y) \in Int
           /\ CompareSizes(x, y) > 0 <=> Area(x) > Area(y)
           /\ CompareSizes(x, y) = 0 <=> Area(x) = Area(y)
           /\ CompareSizes(x, y) < 0 <=> Area(x) < Area(y)
<1> DEFINE s == SizeOf(x)
           t == SizeOf(y)
<1>1. s \in AnySize /\ t \in AnySize
  BY DEF AnyMode, AnySize, SizeOf
<1>2. CompareSizes(s, t) = CompareSizes(x, y) /\ Area(s) = Area(x) /\ Area(t) = Area(y)
  BY DEF CompareSizes, Area, SizeOf
<1> QED BY <1>1, <1>2, CompareIsByArea

IsBefore(x, y) == Area(x) < Area(y) \/ (Area(x) = Area(y) /\ x.fps < y.fps)

\* SurfaceDesc::compare() is by area, and for equal areas by rate.
LEMMA CompareIsByAreaAndRate ==
    ASSUME NEW x \in AnyMode, NEW y \in AnyMode
    PROVE  /\ CompareModes(x, y) \in Int
           /\ CompareModes(x, y) < 0 <=> IsBefore(x, y)
           /\ CompareModes(x, y) > 0 <=> IsBefore(y, x)
           /\ CompareModes(x, y) = 0 <=> (Area(x) = Area(y) /\ x.fps = y.fps)
<1> DEFINE r == CompareSizes(x, y)
<1>1. /\ x.fps \in Nat /\ y.fps \in Nat
      /\ Area(x) \in Nat /\ Area(y) \in Nat
  BY AreaType DEF AnyMode
<1>2. /\ r \in Int
      /\ r > 0 <=> Area(x) > Area(y)
      /\ r = 0 <=> Area(x) = Area(y)
      /\ r < 0 <=> Area(x) < Area(y)
  BY CompareSizesOfModes
<1>3. CompareModes(x, y) = IF r # 0 THEN r ELSE x.fps - y.fps
  BY DEF CompareModes
<1> HIDE DEF r
<1> QED  BY <1>1, <1>2, <1>3 DEF IsBefore

\* SurfaceDesc::compare() is antisymmetric and transitive: the order that the
\* binary search of a SortedVector needs.
THEOREM CompareModesIsAnOrder ==
    ASSUME NEW a \in AnyMode, NEW b \in AnyMode, NEW c \in AnyMode
    PROVE  /\ CompareModes(a, b) < 0 <=> CompareModes(b, a) > 0
           /\ CompareModes(a, b) = 0 <=> (Area(a) = Area(b) /\ a.fps = b.fps)
           /\ CompareModes(a, b) < 0 /\ CompareModes(b, c) < 0
                => CompareModes(a, c) < 0
<1>1. /\ CompareModes(a, b) < 0 <=> IsBefore(a, b)
      /\ CompareModes(b, a) > 0 <=> IsBefore(a, b)
      /\ CompareModes(a, b) = 0 <=> (Area(a) = Area(b) /\ a.fps = b.fps)
      /\ CompareModes(b, c) < 0 <=> IsBefore(b, c)
      /\ CompareModes(a, c) < 0 <=> IsBefore(a, c)
  BY CompareIsByAreaAndRate
<1>2. /\ Area(a) \in Nat /\ Area(b) \in Nat /\ Area(c) \in Nat
      /\ a.fps \in Nat /\ b.fps \in Nat /\ c.fps \in Nat
  BY AreaType DEF AnyMode
<1>3. IsBefore(a, b) /\ IsBefore(b, c) => IsBefore(a, c)
  BY <1>2 DEF IsBefore
<1> QED  BY <1>1, <1>3

-----------------------------------------------------------------------------
(***************************************************************************)
(* Induction over the passes of a loop, as far as it needs no operator     *)
(* parameter: a set of numbers instead of a predicate.                     *)
(***************************************************************************)
\* A set of numbers has a least one.
LEMMA Least ==
    ASSUME NEW T \in SUBSET Nat, T # {}
    PROVE  \E x \in T : \A y \in T : x <= y
<1>1. PICK x \in T : \A y \in T : ~(<<y, x>> \in OpToRel(<, Nat))
  BY WFMin, NatLessThanWellFounded
<1>2. \A y \in T : ~(y < x)
  BY <1>1 DEF OpToRel
<1> QED BY <1>2

\* What the start of a loop has and each pass keeps, its end has.
LEMMA Passes ==
    ASSUME NEW n \in Nat, NEW T, 0 \in T, \A i \in 0 .. n - 1 : i \in T => i + 1 \in T
    PROVE  0 .. n \subseteq T
<1> DEFINE Rest == {i \in 0 .. n : i \notin T}
<1> SUFFICES ASSUME Rest # {} PROVE FALSE
  OBVIOUS
<1>1. PICK x \in Rest : \A y \in Rest : x <= y
  <2>1. Rest \in SUBSET Nat
    OBVIOUS
  <2> HIDE DEF Rest
  <2> QED BY <2>1, Least
<1>2. x \in 0 .. n /\ x \notin T /\ x # 0
  BY <1>1
<1>3. x - 1 \in 0 .. n - 1 /\ x - 1 + 1 = x
  BY <1>2
<1>4. x - 1 \in T
  BY <1>1, <1>3
<1> QED BY <1>2, <1>3, <1>4

\* What a loop of n passes computes that starts with b.
IsLoop(f, n, S, b, step) ==
    f \in [0 .. n -> S] /\ f[0] = b /\ \A i \in 1 .. n : f[i] = step[<<f[i - 1], i>>]

HasLoop(n, S, b, step) == \E f : IsLoop(f, n, S, b, step)

\* Every loop of n passes computes something.
LEMMA LoopExists ==
    ASSUME NEW n \in Nat, NEW S, NEW b \in S, NEW step \in [S \X (1 .. n) -> S]
    PROVE  HasLoop(n, S, b, step)
<1> DEFINE Run(k, f) == f[0] = b /\ \A i \in 1 .. k : f[i] = step[<<f[i - 1], i>>]
           T == {k \in 0 .. n : \E f \in [0 .. k -> S] : Run(k, f)}
<1>1. 0 \in T
  <2> DEFINE f == [i \in 0 .. 0 |-> b]
  <2>1. f \in [0 .. 0 -> S] /\ Run(0, f) /\ 0 \in 0 .. n
    OBVIOUS
  <2> HIDE DEF f, Run
  <2> QED BY <2>1
<1>2. ASSUME NEW k \in 0 .. n - 1, k \in T
      PROVE  k + 1 \in T
  <2>1. PICK f \in [0 .. k -> S] : Run(k, f)
    BY <1>2
  <2> DEFINE g == [i \in 0 .. k + 1 |-> IF i <= k THEN f[i] ELSE step[<<f[k], k + 1>>]]
  <2>2. k + 1 \in 1 .. n /\ k \in 0 .. k /\ f[k] \in S /\ k + 1 - 1 = k
    OBVIOUS
  <2>3. step[<<f[k], k + 1>>] \in S
    BY <2>2
  <2>4. g \in [0 .. k + 1 -> S]
    BY <2>3
  <2>5. g[0] = b
    BY <2>1
  <2>6. ASSUME NEW i \in 1 .. k + 1
        PROVE  g[i] = step[<<g[i - 1], i>>]
    <3>1. CASE i = k + 1
      <4>1. ~(i <= k) /\ i - 1 = k /\ k \in 0 .. k + 1 /\ i \in 0 .. k + 1
        BY <3>1
      <4>2. g[i] = step[<<f[k], k + 1>>] /\ g[i - 1] = f[k]
        BY <4>1
      <4> QED BY <4>2, <3>1
    <3>2. CASE i # k + 1
      <4>1. i \in 1 .. k /\ i - 1 \in 0 .. k /\ i \in 0 .. k + 1 /\ i - 1 \in 0 .. k + 1
        BY <3>2
      <4>2. g[i] = f[i] /\ g[i - 1] = f[i - 1]
        BY <4>1
      <4>3. f[i] = step[<<f[i - 1], i>>]
        BY <2>1, <4>1
      <4> QED BY <4>2, <4>3
    <3> QED BY <3>1, <3>2
  <2>7. Run(k + 1, g)
    BY <2>5, <2>6
  <2> HIDE DEF g, Run
  <2>8. k + 1 \in 0 .. n
    BY <2>2
  <2> QED BY <2>4, <2>7, <2>8
<1>3. n \in T
  <2> HIDE DEF T
  <2>1. 0 .. n \subseteq T
    BY <1>1, <1>2, Passes
  <2> QED BY <2>1
<1> QED BY <1>3 DEF HasLoop, IsLoop

-----------------------------------------------------------------------------
(***************************************************************************)
(* The vector of modes.                                                    *)
(***************************************************************************)
\* As a SortedVector is: no two modes are equal for compare().
Sorted(modes) == \A i, j \in 1 .. Len(modes) : i < j => CompareModes(modes[i], modes[j]) < 0

\* A set of positions that has all before each of its own is the first ones.
LEMMA FirstOnes ==
    ASSUME NEW n \in Nat, NEW B \in SUBSET (1 .. n), \A j \in B : \A i \in 1 .. j : i \in B
    PROVE  Cardinality(B) \in 0 .. n /\ B = 1 .. Cardinality(B)
<1> DEFINE Out == {i \in 1 .. n + 1 : i \notin B}
<1>1. Out \in SUBSET Nat /\ Out # {}
  <2>1. n + 1 \in Out
    OBVIOUS
  <2> QED BY <2>1
<1>2. PICK x \in Out : \A y \in Out : x <= y
  <2> HIDE DEF Out
  <2> QED BY <1>1, Least
<1>3. x \in 1 .. n + 1 /\ x \notin B /\ x - 1 \in 0 .. n /\ x - 1 \in Int
  OBVIOUS
<1>4. \A i \in 1 .. x - 1 : i \in B
  BY <1>2
<1>5. \A i \in B : i \in 1 .. x - 1
  <2> TAKE i \in B
  <2>1. i \in 1 .. n
    OBVIOUS
  <2>2. x \in 1 .. i => x \in B
    OBVIOUS
  <2> QED BY <1>3, <2>1, <2>2
<1>6. B = 1 .. x - 1
  BY <1>4, <1>5
<1>7. Cardinality(1 .. x - 1) = x - 1
  BY <1>3, FS_Interval
<1> QED BY <1>3, <1>6, <1>7

\* How many modes of the vector are before m, and how many are or equal it.
Below(modes, m) == Cardinality({i \in DOMAIN modes : CompareModes(modes[i], m) < 0})
UpTo(modes, m)  == Cardinality({i \in DOMAIN modes : CompareModes(modes[i], m) <= 0})

\* Both counts are of the positions of the vector.
LEMMA Counts ==
    ASSUME NEW modes, modes \in Seq(AnyMode), NEW m
    PROVE  Below(modes, m) \in 0 .. Len(modes) /\ UpTo(modes, m) \in 0 .. Len(modes)
<1> DEFINE n == Len(modes)
           B == {i \in DOMAIN modes : CompareModes(modes[i], m) < 0}
           L == {i \in DOMAIN modes : CompareModes(modes[i], m) <= 0}
<1>1. n \in Nat /\ B \subseteq 1 .. n /\ L \subseteq 1 .. n
  OBVIOUS
<1>2. IsFiniteSet(1 .. n) /\ Cardinality(1 .. n) = n
  <2> HIDE DEF n
  <2> QED BY <1>1, FS_Interval
<1>3. /\ Cardinality(B) \in Nat /\ Cardinality(B) <= n
      /\ Cardinality(L) \in Nat /\ Cardinality(L) <= n
  <2> HIDE DEF B, L, n
  <2>1. IsFiniteSet(B) /\ IsFiniteSet(L)
    BY <1>1, <1>2, FS_Subset
  <2>2. Cardinality(B) \in Nat /\ Cardinality(L) \in Nat
    BY <2>1, FS_CardinalityType
  <2>3. Cardinality(B) <= Cardinality(1 .. n) /\ Cardinality(L) <= Cardinality(1 .. n)
    BY <1>1, <1>2, FS_Subset
  <2> QED BY <1>2, <2>2, <2>3
<1> QED BY <1>1, <1>3 DEF Below, UpTo

\* The elements of the vector that add() leaves.
LEMMA AddModeIs ==
    ASSUME NEW S, S \subseteq AnyMode, NEW modes \in Seq(S), NEW m \in S
    PROVE  LET b == Below(modes, m)
               u == UpTo(modes, m)
               r == AddMode(modes, m)
           IN  /\ r \in Seq(S) /\ Len(r) = b + 1 + Len(modes) - u
               /\ \A i \in 1 .. Len(r) :
                    r[i] = IF i <= b THEN modes[i] ELSE IF i = b + 1 THEN m
                           ELSE modes[i + u - b - 1]
<1> DEFINE n == Len(modes)
           b == Below(modes, m)
           u == UpTo(modes, m)
           p == SubSeq(modes, 1, b)
           q == SubSeq(modes, u + 1, n)
<1>1. n \in Nat /\ b \in 0 .. n /\ u \in 0 .. n
  BY Counts
<1>2. AddMode(modes, m) = p \o <<m>> \o q
  BY DEF AddMode, Below, UpTo
<1> HIDE DEF b, u
<1>3. /\ p \in Seq(S) /\ Len(p) = b
      /\ \A i \in 1 .. b : p[i] = modes[i]
  BY <1>1, SubSeqProperties
<1>4. /\ q \in Seq(S) /\ Len(q) = n - u
      /\ \A i \in 1 .. n - u : q[i] = modes[u + i]
  BY <1>1, SubSeqProperties
<1> DEFINE a == p \o <<m>>
           r == a \o q
<1> HIDE DEF p, q
<1>5. /\ a \in Seq(S) /\ Len(a) = b + 1 /\ a[b + 1] = m
      /\ \A i \in 1 .. b : a[i] = modes[i]
  BY <1>1, <1>3
<1> HIDE DEF a, n
<1>6. r \in Seq(S) /\ Len(r) = b + 1 + n - u
      /\ \A i \in 1 .. Len(r) : r[i] = IF i <= Len(a) THEN a[i] ELSE q[i - Len(a)]
  <2>1. /\ r \in Seq(S) /\ Len(r) = Len(a) + Len(q)
        /\ \A i \in 1 .. Len(a) + Len(q) :
              r[i] = IF i <= Len(a) THEN a[i] ELSE q[i - Len(a)]
    BY <1>4, <1>5, ConcatProperties
  <2> HIDE DEF r
  <2> QED BY <1>1, <1>4, <1>5, <2>1
<1>7. \A i \in 1 .. Len(r) : r[i] = IF i <= b THEN modes[i] ELSE IF i = b + 1 THEN m
                                    ELSE modes[i + u - b - 1]
  <2> HIDE DEF r
  <2> TAKE i \in 1 .. Len(r)
  <2>1. CASE i <= b
    BY <1>1, <1>5, <1>6, <2>1
  <2>2. CASE i = b + 1
    BY <1>1, <1>5, <1>6, <2>2
  <2>3. CASE i > b + 1
    <3>1. i - (b + 1) \in 1 .. n - u /\ u + (i - (b + 1)) = i + u - b - 1
      BY <1>1, <1>6, <2>3
    <3>2. r[i] = q[i - (b + 1)]
      BY <1>1, <1>5, <1>6, <2>3
    <3>3. q[i - (b + 1)] = modes[u + (i - (b + 1))]
      BY <1>4, <3>1
    <3> QED BY <1>1, <2>3, <3>1, <3>2, <3>3
  <2> QED BY <1>1, <2>1, <2>2, <2>3
<1>8. AddMode(modes, m) = r
  BY <1>2 DEF a
<1> HIDE DEF r
<1> QED BY <1>6, <1>7, <1>8 DEF b, u, n

\* add() invents no mode.
LEMMA AddModeMembers ==
    ASSUME NEW S, S \subseteq AnyMode, NEW modes \in Seq(S), NEW m \in S
    PROVE  AddMode(modes, m) \in Seq(S)
BY AddModeIs

\* add() leaves the vector in order.
LEMMA AddModeSorts ==
    ASSUME NEW modes \in Seq(AnyMode), NEW m \in AnyMode, Sorted(modes)
    PROVE  Sorted(AddMode(modes, m))
<1> DEFINE n == Len(modes)
           b == Below(modes, m)
           u == UpTo(modes, m)
           r == AddMode(modes, m)
           B == {i \in 1 .. n : CompareModes(modes[i], m) < 0}
           L == {i \in 1 .. n : CompareModes(modes[i], m) <= 0}
<1>1. n \in Nat /\ DOMAIN modes = 1 .. n /\ \A i \in 1 .. n : modes[i] \in AnyMode
  OBVIOUS
<1>2. /\ \A i \in 1 .. n : CompareModes(modes[i], m) \in Int
      /\ \A i, j \in 1 .. n : i < j /\ CompareModes(modes[j], m) <= 0
            => CompareModes(modes[i], m) < 0
  <2>1. \A i \in 1 .. n : CompareModes(modes[i], m) \in Int
    BY <1>1, CompareIsByAreaAndRate
  <2>2. ASSUME NEW i \in 1 .. n, NEW j \in 1 .. n, i < j, CompareModes(modes[j], m) <= 0
        PROVE  CompareModes(modes[i], m) < 0
    <3> DEFINE x == modes[i]
               y == modes[j]
    <3>1. x \in AnyMode /\ y \in AnyMode
      BY <1>1
    <3>2. /\ Area(x) \in Nat /\ Area(y) \in Nat /\ Area(m) \in Nat
          /\ x.fps \in Nat /\ y.fps \in Nat /\ m.fps \in Nat
      BY <3>1, AreaType DEF AnyMode
    <3>3. CompareModes(x, y) < 0
      BY <1>1, <2>2 DEF Sorted
    <3>4. IsBefore(x, y)
      BY <3>1, <3>3, CompareIsByAreaAndRate
    <3>5. IsBefore(y, m) \/ (Area(y) = Area(m) /\ y.fps = m.fps)
      <4>1. CompareModes(y, m) < 0 \/ CompareModes(y, m) = 0
        BY <2>1, <2>2
      <4> QED BY <3>1, <4>1, CompareIsByAreaAndRate
    <3>6. IsBefore(x, m)
      BY <3>2, <3>4, <3>5 DEF IsBefore
    <3> QED BY <3>1, <3>6, CompareIsByAreaAndRate
  <2> QED BY <2>1, <2>2
<1>3. B = 1 .. b /\ b \in 0 .. n
  <2>1. \A j \in B : \A i \in 1 .. j : i \in B
    BY <1>1, <1>2
  <2>2. B \in SUBSET (1 .. n) /\ b = Cardinality(B)
    BY <1>1 DEF Below
  <2> HIDE DEF B, b, n
  <2> QED BY <1>1, <2>1, <2>2, FirstOnes
<1>4. L = 1 .. u /\ u \in 0 .. n
  <2>1. \A j \in L : \A i \in 1 .. j : i \in L
    BY <1>1, <1>2
  <2>2. L \in SUBSET (1 .. n) /\ u = Cardinality(L)
    BY <1>1 DEF UpTo
  <2> HIDE DEF L, u, n
  <2> QED BY <1>1, <2>1, <2>2, FirstOnes
<1>5. b <= u
  <2>1. b = 0 \/ b \in L
    BY <1>1, <1>2, <1>3
  <2> HIDE DEF L, B, b, u
  <2> QED BY <1>3, <1>4, <2>1
<1>6. \A i \in 1 .. b : CompareModes(modes[i], m) < 0
  BY <1>3
<1>7. \A i \in u + 1 .. n : CompareModes(m, modes[i]) < 0
  <2> TAKE i \in u + 1 .. n
  <2>1. i \in 1 .. n /\ i \notin L
    <3> HIDE DEF L, u, n
    <3> QED BY <1>1, <1>4
  <2>2. CompareModes(modes[i], m) > 0
    BY <1>2, <2>1
  <2> QED BY <1>1, <2>1, <2>2, CompareIsByAreaAndRate
<1>8. /\ r \in Seq(AnyMode) /\ Len(r) = b + 1 + n - u
      /\ \A i \in 1 .. Len(r) : r[i] = IF i <= b THEN modes[i] ELSE IF i = b + 1 THEN m
                                       ELSE modes[i + u - b - 1]
  BY AddModeIs
<1> HIDE DEF r, b, u, n, B, L
<1>9. ASSUME NEW i \in 1 .. Len(r), NEW j \in 1 .. Len(r), i < j
      PROVE  CompareModes(r[i], r[j]) < 0
  <2>1. CASE j <= b
    BY <1>1, <1>3, <1>8, <1>9, <2>1 DEF Sorted, n
  <2>2. CASE j = b + 1
    <3>1. i \in 1 .. b /\ r[i] = modes[i] /\ r[j] = m
      BY <1>3, <1>8, <1>9, <2>2
    <3> QED BY <1>6, <3>1
  <2>3. CASE j > b + 1
    <3>1. j + u - b - 1 \in u + 1 .. n /\ r[j] = modes[j + u - b - 1]
      BY <1>1, <1>3, <1>4, <1>8, <2>3
    <3>2. CASE i <= b
      <4>1. i \in 1 .. n /\ i < j + u - b - 1 /\ r[i] = modes[i]
        BY <1>1, <1>3, <1>4, <1>5, <1>8, <1>9, <2>3, <3>2
      <4>2. j + u - b - 1 \in 1 .. n
        BY <1>4, <3>1
      <4> QED BY <3>1, <4>1, <4>2 DEF Sorted, n
    <3>3. CASE i = b + 1
      <4>1. r[i] = m
        BY <1>3, <1>8, <3>3
      <4> QED BY <1>7, <3>1, <4>1
    <3>4. CASE i > b + 1
      <4>1. i + u - b - 1 \in 1 .. n /\ i + u - b - 1 < j + u - b - 1
            /\ r[i] = modes[i + u - b - 1]
        BY <1>1, <1>3, <1>4, <1>8, <1>9, <3>4
      <4>2. j + u - b - 1 \in 1 .. n
        BY <1>4, <3>1
      <4> QED BY <3>1, <4>1, <4>2 DEF Sorted, n
    <3> QED BY <1>3, <3>2, <3>3, <3>4
  <2> QED BY <1>3, <2>1, <2>2, <2>3
<1> QED BY <1>9 DEF Sorted, r

-----------------------------------------------------------------------------
(***************************************************************************)
(* The mode that Init() ends its loop with.                                *)
(***************************************************************************)
\* It is the mode of the least area that covers the request, if one does.
LEMMA ClosestIsLeast ==
    ASSUME NEW modes \in Seq(RealMode), NEW size \in AnySize, NEW fps \in Nat
    PROVE  LET m == Closest(modes, size, fps)
           IN  IF \A i \in 1 .. Len(modes) : ~Covers(modes[i], size) THEN m = NoMode
               ELSE /\ m \in ToSet(modes) /\ Covers(m, size)
                    /\ \A i \in 1 .. Len(modes) :
                          Covers(modes[i], size) => Area(modes[i]) >= Area(m)
<1> DEFINE n == Len(modes)
           Takes(m, b) == Covers(m, size) /\ Closer(m, b, size, fps)
           closest[i \in 0 .. n] ==
               IF i = 0 THEN NoMode
               ELSE IF Covers(modes[i], size) /\ Closer(modes[i], closest[i - 1], size, fps)
                    THEN modes[i]
                    ELSE closest[i - 1]
           step == [p \in AnyMode \X (1 .. n) |-> IF Takes(modes[p[2]], p[1]) THEN modes[p[2]]
                                                  ELSE p[1]]
<1>1. n \in Nat /\ \A i \in 1 .. n : modes[i] \in RealMode /\ modes[i] \in AnyMode
  BY DEF RealMode
<1>2. NoMode \in AnyMode /\ NoMode \notin RealMode
  BY DEF NoMode, AnyMode, RealMode
<1>3. step \in [AnyMode \X (1 .. n) -> AnyMode]
  BY <1>1
<1>4. closest = [i \in 0 .. n |->
               IF i = 0 THEN NoMode
               ELSE IF Covers(modes[i], size) /\ Closer(modes[i], closest[i - 1], size, fps)
                    THEN modes[i]
                    ELSE closest[i - 1]]
  <2> HIDE DEF step, n
  <2>1. PICK f : IsLoop(f, n, AnyMode, NoMode, step)
    <3>1. HasLoop(n, AnyMode, NoMode, step)
      BY <1>1, <1>2, <1>3, LoopExists
    <3> QED BY <3>1 DEF HasLoop
  <2>2. f = [i \in 0 .. n |->
               IF i = 0 THEN NoMode
               ELSE IF Covers(modes[i], size) /\ Closer(modes[i], f[i - 1], size, fps)
                    THEN modes[i]
                    ELSE f[i - 1]]
    <3>1. ASSUME NEW i \in 0 .. n, i # 0
          PROVE  step[<<f[i - 1], i>>] =
                   IF Covers(modes[i], size) /\ Closer(modes[i], f[i - 1], size, fps)
                   THEN modes[i] ELSE f[i - 1]
      <4>1. <<f[i - 1], i>> \in AnyMode \X (1 .. n)
        BY <1>1, <2>1, <3>1 DEF IsLoop
      <4> QED BY <4>1 DEF step
    <3>2. \A i \in 0 .. n : f[i] =
               IF i = 0 THEN NoMode
               ELSE IF Covers(modes[i], size) /\ Closer(modes[i], f[i - 1], size, fps)
                    THEN modes[i] ELSE f[i - 1]
      <4> TAKE i \in 0 .. n
      <4>1. CASE i = 0
        BY <2>1, <4>1 DEF IsLoop
      <4>2. CASE i # 0
        <5>1. i \in 1 .. n
          BY <1>1, <4>2
        <5>2. f[i] = step[<<f[i - 1], i>>]
          BY <2>1, <5>1 DEF IsLoop
        <5> QED BY <3>1, <4>2, <5>2
      <4> QED BY <4>1, <4>2
    <3> QED BY <2>1, <3>2 DEF IsLoop
  <2> QED BY <2>2
<1>5. Closest(modes, size, fps) = closest[n]
  BY DEF Closest
<1> HIDE DEF closest, n, step
<1> DEFINE None(i) == closest[i] = NoMode /\ \A j \in 1 .. i : ~Covers(modes[j], size)
           Found(i) == \E k \in 1 .. i :
                          /\ closest[i] = modes[k] /\ Covers(modes[k], size)
                          /\ \A j \in 1 .. i : Covers(modes[j], size)
                                => Area(modes[j]) >= Area(modes[k])
           T == {i \in 0 .. n : None(i) \/ Found(i)}
<1>6. 0 \in T
  BY <1>1, <1>4
<1>7. ASSUME NEW i \in 0 .. n - 1, i \in T
      PROVE  i + 1 \in T
  <2> DEFINE m == modes[i + 1]
             b == closest[i]
  <2>1. /\ i + 1 \in 1 .. n /\ i + 1 \in 0 .. n /\ i \in 0 .. n /\ i + 1 # 0
        /\ i + 1 - 1 = i /\ m \in RealMode /\ m # NoMode
        /\ 1 .. i + 1 = (1 .. i) \union {i + 1}
    BY <1>1, <1>2
  <2>2. closest[i + 1] = IF Covers(m, size) /\ Closer(m, b, size, fps) THEN m ELSE b
    BY <1>4, <2>1
  <2>3. CASE None(i)
    <3>1. Closer(m, b, size, fps)
      BY <2>3 DEF Closer
    <3>2. CASE Covers(m, size)
      <4>1. closest[i + 1] = m /\ Area(m) \in Nat
        BY <2>1, <2>2, <3>1, <3>2, AreaType DEF RealMode
      <4>2. \A j \in 1 .. i + 1 : Covers(modes[j], size) => j = i + 1
        BY <2>1, <2>3
      <4>3. Found(i + 1)
        BY <2>1, <3>2, <4>1, <4>2
      <4> QED BY <2>1, <4>3
    <3>3. CASE ~Covers(m, size)
      BY <2>1, <2>2, <2>3, <3>3
    <3> QED BY <3>2, <3>3
  <2>4. CASE Found(i)
    <3>1. PICK k \in 1 .. i :
             /\ b = modes[k] /\ Covers(modes[k], size)
             /\ \A j \in 1 .. i : Covers(modes[j], size) => Area(modes[j]) >= Area(modes[k])
      BY <2>4
    <3>2. k \in 1 .. n /\ b \in RealMode /\ b # NoMode
      BY <1>1, <1>2, <2>1, <3>1
    <3>3. Area(m) \in Nat /\ Area(b) \in Nat /\ Area(size) \in Nat
          /\ \A j \in 1 .. n : Area(modes[j]) \in Nat
      BY <1>1, <2>1, <3>2, AreaType DEF RealMode
    <3>4. CASE Covers(m, size) /\ Closer(m, b, size, fps)
      <4>1. Area(m) <= Area(b)
        BY <3>2, <3>3, <3>4 DEF Closer
      <4>2. closest[i + 1] = modes[i + 1]
        BY <2>2, <3>4
      <4>3. \A j \in 1 .. i + 1 : Covers(modes[j], size) => Area(modes[j]) >= Area(m)
        <5> TAKE j \in 1 .. i + 1
        <5>1. CASE j = i + 1
          BY <3>3, <5>1
        <5>2. CASE j \in 1 .. i
          <6>1. j \in 1 .. n
            BY <1>1, <5>2
          <6> QED BY <3>1, <3>3, <4>1, <5>2, <6>1
        <5> QED BY <2>1, <5>1, <5>2
      <4>4. Found(i + 1)
        BY <2>1, <3>4, <4>2, <4>3
      <4> QED BY <2>1, <4>4
    <3>5. CASE ~(Covers(m, size) /\ Closer(m, b, size, fps))
      <4>1. closest[i + 1] = modes[k] /\ k \in 1 .. i + 1
        BY <2>1, <2>2, <3>1, <3>5
      <4>2. Covers(m, size) => Area(m) >= Area(b)
        BY <3>2, <3>3, <3>5 DEF Closer
      <4>3. \A j \in 1 .. i + 1 : Covers(modes[j], size) => Area(modes[j]) >= Area(modes[k])
        BY <2>1, <3>1, <4>2
      <4>4. Found(i + 1)
        BY <3>1, <4>1, <4>3
      <4> QED BY <2>1, <4>4
    <3> QED BY <3>4, <3>5
  <2> QED BY <1>7, <2>3, <2>4
<1>8. n \in T
  <2> HIDE DEF T
  <2>1. 0 .. n \subseteq T
    BY <1>1, <1>6, <1>7, Passes
  <2> QED BY <1>1, <2>1
<1>9. CASE None(n)
  BY <1>5, <1>9 DEF n
<1>10. CASE Found(n)
  <2>1. PICK k \in 1 .. n :
           /\ closest[n] = modes[k] /\ Covers(modes[k], size)
           /\ \A j \in 1 .. n : Covers(modes[j], size) => Area(modes[j]) >= Area(modes[k])
    BY <1>10
  <2>2. modes[k] \in ToSet(modes)
    BY <2>1 DEF ToSet, n
  <2> QED BY <1>5, <2>1, <2>2 DEF n
<1> QED BY <1>8, <1>9, <1>10

-----------------------------------------------------------------------------
(***************************************************************************)
(* The default modes that Open() ends its loop with.                       *)
(***************************************************************************)
\* p is the best of the first i modes for pictures, or for previews.
BestPicture(p, modes, i) == \E k \in 1 .. i :
    /\ p = modes[k]
    /\ \A j \in 1 .. i : /\ Area(modes[j]) <= Area(p)
                         /\ Area(modes[j]) = Area(p) => modes[j].fps >= p.fps

BestPreview(p, modes, i) == \E k \in 1 .. i :
    /\ p = modes[k]
    /\ \A j \in 1 .. i : /\ modes[j].fps <= p.fps
                         /\ modes[j].fps = p.fps => Area(modes[j]) <= Area(p)

\* What the modes of a device have in common.
LEMMA RealModeFacts ==
    ASSUME NEW m \in RealMode
    PROVE  /\ m \in AnyMode /\ m # NoMode /\ m.fps \in Nat /\ m.fps > 0
           /\ Area(m) \in Nat /\ Area(m) > 0
<1>1. m \in AnyMode /\ m.w \in Nat \ {0} /\ m.h \in Nat \ {0} /\ m.fps \in Nat /\ m.fps > 0
  BY DEF RealMode, AnyMode
<1>2. m.w * m.h \in Nat /\ m.w * m.h > 0
  BY <1>1, SMT
<1> QED BY <1>1, <1>2 DEF Area, NoMode

\* A mode that is not set has no area and no rate.
LEMMA NoModeFacts == NoMode \in AnyMode /\ Area(NoMode) = 0 /\ NoMode.fps = 0
BY DEF NoMode, AnyMode, Area

\* The two comparisons of the loop, by area and rate.
LEMMA BetterFacts ==
    ASSUME NEW m \in AnyMode, NEW b \in AnyMode
    PROVE  /\ BetterPicture(m, b)
                <=> Area(m) > Area(b) \/ (Area(m) = Area(b) /\ m.fps < b.fps)
           /\ BetterPreview(m, b)
                <=> m.fps > b.fps \/ (m.fps = b.fps /\ Area(m) > Area(b))
BY CompareSizesOfModes DEF BetterPicture, BetterPreview

\* One pass of the loop, for pictures.
LEMMA PictureStep ==
    ASSUME NEW modes \in Seq(RealMode), NEW i \in Nat, i + 1 \in 1 .. Len(modes), NEW p,
           IF i = 0 THEN p = NoMode ELSE BestPicture(p, modes, i)
    PROVE  BestPicture(IF BetterPicture(modes[i + 1], p) THEN modes[i + 1] ELSE p,
                       modes, i + 1)
<1> DEFINE m == modes[i + 1]
           q == IF BetterPicture(m, p) THEN m ELSE p
<1>1. /\ Len(modes) \in Nat /\ \A j \in 1 .. i + 1 : modes[j] \in RealMode
      /\ 1 .. i + 1 = (1 .. i) \union {i + 1} /\ i + 1 \in 1 .. i + 1
  OBVIOUS
<1>2. /\ \A j \in 1 .. i + 1 : Area(modes[j]) \in Nat /\ modes[j].fps \in Nat
      /\ m \in AnyMode /\ Area(m) > 0
  BY <1>1, RealModeFacts
<1>3. CASE i = 0
  <2>1. BetterPicture(m, p)
    BY <1>2, <1>3, NoModeFacts, BetterFacts
  <2>2. q = m /\ \A j \in 1 .. i + 1 : modes[j] = m
    BY <1>3, <2>1
  <2>3. BestPicture(m, modes, i + 1)
    <3> HIDE DEF m
    <3> QED BY <1>1, <1>2, <2>2 DEF BestPicture
  <2> QED BY <2>2, <2>3
<1>4. CASE i # 0
  <2>1. PICK k \in 1 .. i :
          /\ p = modes[k]
          /\ \A j \in 1 .. i : /\ Area(modes[j]) <= Area(p)
                               /\ Area(modes[j]) = Area(p) => modes[j].fps >= p.fps
    BY <1>4 DEF BestPicture
  <2>2. p \in AnyMode /\ Area(p) \in Nat /\ p.fps \in Nat
    BY <1>1, <2>1, RealModeFacts
  <2>3. \E l \in 1 .. i + 1 : q = modes[l]
    BY <1>1, <2>1
  <2>4. \A j \in 1 .. i + 1 : /\ Area(modes[j]) <= Area(q)
                              /\ Area(modes[j]) = Area(q) => modes[j].fps >= q.fps
    <3> TAKE j \in 1 .. i + 1
    <3>1. CASE BetterPicture(m, p)
      <4>1. q = m /\ (Area(m) > Area(p) \/ (Area(m) = Area(p) /\ m.fps < p.fps))
        BY <1>2, <2>2, <3>1, BetterFacts
      <4>2. Area(modes[j]) \in Nat /\ modes[j].fps \in Nat /\ Area(m) \in Nat /\ m.fps \in Nat
        BY <1>1, <1>2
      <4>3. CASE j = i + 1
        BY <4>1, <4>2, <4>3, <2>2
      <4>4. CASE j \in 1 .. i
        BY <2>1, <2>2, <4>1, <4>2, <4>4
      <4> QED BY <1>1, <4>3, <4>4
    <3>2. CASE ~BetterPicture(m, p)
      <4>1. q = p /\ ~(Area(m) > Area(p) \/ (Area(m) = Area(p) /\ m.fps < p.fps))
        BY <1>2, <2>2, <3>2, BetterFacts
      <4>2. Area(modes[j]) \in Nat /\ modes[j].fps \in Nat /\ Area(m) \in Nat /\ m.fps \in Nat
        BY <1>1, <1>2
      <4>3. CASE j = i + 1
        BY <4>1, <4>2, <4>3, <2>2
      <4>4. CASE j \in 1 .. i
        BY <2>1, <2>2, <4>1, <4>2, <4>4
      <4> QED BY <1>1, <4>3, <4>4
    <3> QED BY <3>1, <3>2
  <2> HIDE DEF q
  <2> QED BY <2>3, <2>4 DEF BestPicture, q
<1> QED BY <1>3, <1>4

\* One pass of the loop, for previews.
LEMMA PreviewStep ==
    ASSUME NEW modes \in Seq(RealMode), NEW i \in Nat, i + 1 \in 1 .. Len(modes), NEW p,
           IF i = 0 THEN p = NoMode ELSE BestPreview(p, modes, i)
    PROVE  BestPreview(IF BetterPreview(modes[i + 1], p) THEN modes[i + 1] ELSE p,
                       modes, i + 1)
<1> DEFINE m == modes[i + 1]
           q == IF BetterPreview(m, p) THEN m ELSE p
<1>1. /\ Len(modes) \in Nat /\ \A j \in 1 .. i + 1 : modes[j] \in RealMode
      /\ 1 .. i + 1 = (1 .. i) \union {i + 1} /\ i + 1 \in 1 .. i + 1
  OBVIOUS
<1>2. /\ \A j \in 1 .. i + 1 : Area(modes[j]) \in Nat /\ modes[j].fps \in Nat
      /\ m \in AnyMode /\ m.fps > 0
  BY <1>1, RealModeFacts
<1>3. CASE i = 0
  <2>1. BetterPreview(m, p)
    BY <1>2, <1>3, NoModeFacts, BetterFacts
  <2>2. q = m /\ \A j \in 1 .. i + 1 : modes[j] = m
    BY <1>3, <2>1
  <2>3. BestPreview(m, modes, i + 1)
    <3> HIDE DEF m
    <3> QED BY <1>1, <1>2, <2>2 DEF BestPreview
  <2> QED BY <2>2, <2>3
<1>4. CASE i # 0
  <2>1. PICK k \in 1 .. i :
          /\ p = modes[k]
          /\ \A j \in 1 .. i : /\ modes[j].fps <= p.fps
                               /\ modes[j].fps = p.fps => Area(modes[j]) <= Area(p)
    BY <1>4 DEF BestPreview
  <2>2. p \in AnyMode /\ Area(p) \in Nat /\ p.fps \in Nat
    BY <1>1, <2>1, RealModeFacts
  <2>3. \E l \in 1 .. i + 1 : q = modes[l]
    BY <1>1, <2>1
  <2>4. \A j \in 1 .. i + 1 : /\ modes[j].fps <= q.fps
                              /\ modes[j].fps = q.fps => Area(modes[j]) <= Area(q)
    <3> TAKE j \in 1 .. i + 1
    <3>1. CASE BetterPreview(m, p)
      <4>1. q = m /\ (m.fps > p.fps \/ (m.fps = p.fps /\ Area(m) > Area(p)))
        BY <1>2, <2>2, <3>1, BetterFacts
      <4>2. Area(modes[j]) \in Nat /\ modes[j].fps \in Nat /\ Area(m) \in Nat /\ m.fps \in Nat
        BY <1>1, <1>2
      <4>3. CASE j = i + 1
        BY <4>1, <4>2, <4>3, <2>2
      <4>4. CASE j \in 1 .. i
        BY <2>1, <2>2, <4>1, <4>2, <4>4
      <4> QED BY <1>1, <4>3, <4>4
    <3>2. CASE ~BetterPreview(m, p)
      <4>1. q = p /\ ~(m.fps > p.fps \/ (m.fps = p.fps /\ Area(m) > Area(p)))
        BY <1>2, <2>2, <3>2, BetterFacts
      <4>2. Area(modes[j]) \in Nat /\ modes[j].fps \in Nat /\ Area(m) \in Nat /\ m.fps \in Nat
        BY <1>1, <1>2
      <4>3. CASE j = i + 1
        BY <4>1, <4>2, <4>3, <2>2
      <4>4. CASE j \in 1 .. i
        BY <2>1, <2>2, <4>1, <4>2, <4>4
      <4> QED BY <1>1, <4>3, <4>4
    <3> QED BY <3>1, <3>2
  <2> HIDE DEF q
  <2> QED BY <2>3, <2>4 DEF BestPreview, q
<1> QED BY <1>3, <1>4

\* What the loop selects from no modes at all, or from some.
LEMMA SelectIsBest ==
    ASSUME NEW modes \in Seq(RealMode)
    PROVE  LET x == Select(modes, NoBest)
           IN  IF modes = <<>> THEN x = NoBest
               ELSE /\ x = [picture |-> x.picture, preview |-> x.preview]
                    /\ BestPicture(x.picture, modes, Len(modes))
                    /\ BestPreview(x.preview, modes, Len(modes))
<1> DEFINE n == Len(modes)
           S == [picture : AnyMode, preview : AnyMode]
           Pass(m, x) == [picture |-> IF BetterPicture(m, x.picture) THEN m ELSE x.picture,
                          preview |-> IF BetterPreview(m, x.preview) THEN m ELSE x.preview]
           selected[i \in 0 .. n] ==
               IF i = 0 THEN NoBest
               ELSE LET m == modes[i]
                        x == selected[i - 1]
                    IN  [picture |-> IF BetterPicture(m, x.picture) THEN m ELSE x.picture,
                         preview |-> IF BetterPreview(m, x.preview) THEN m ELSE x.preview]
           step == [p \in S \X (1 .. n) |-> Pass(modes[p[2]], p[1])]
<1>1. n \in Nat /\ \A i \in 1 .. n : modes[i] \in RealMode /\ modes[i] \in AnyMode
  BY RealModeFacts
<1>2. NoBest \in S
  BY NoModeFacts DEF NoBest
<1>3. step \in [S \X (1 .. n) -> S]
  BY <1>1
<1>4. selected = [i \in 0 .. n |-> IF i = 0 THEN NoBest ELSE Pass(modes[i], selected[i - 1])]
  <2> HIDE DEF step, n, S
  <2>1. PICK f : IsLoop(f, n, S, NoBest, step)
    <3>1. HasLoop(n, S, NoBest, step)
      BY <1>1, <1>2, <1>3, LoopExists
    <3> QED BY <3>1 DEF HasLoop
  <2> HIDE DEF Pass
  <2>2. \A i \in 0 .. n : f[i] = IF i = 0 THEN NoBest ELSE Pass(modes[i], f[i - 1])
    <3> TAKE i \in 0 .. n
    <3>1. CASE i = 0
      BY <2>1, <3>1 DEF IsLoop
    <3>2. CASE i # 0
      <4>1. i \in 1 .. n /\ f[i - 1] \in S
        BY <1>1, <2>1, <3>2 DEF IsLoop
      <4>2. f[i] = step[<<f[i - 1], i>>]
        BY <2>1, <4>1 DEF IsLoop
      <4>3. <<f[i - 1], i>> \in S \X (1 .. n)
        BY <4>1
      <4> QED BY <3>2, <4>2, <4>3 DEF step
    <3> QED BY <3>1, <3>2
  <2>3. f = [i \in 0 .. n |-> IF i = 0 THEN NoBest ELSE Pass(modes[i], f[i - 1])]
    BY <2>1, <2>2 DEF IsLoop
  <2> QED BY <2>3 DEF Pass
<1>5. Select(modes, NoBest) = selected[n]
  BY DEF Select
<1> HIDE DEF selected, n, step, S
<1> DEFINE Best(i) == /\ selected[i] = [picture |-> selected[i].picture,
                                        preview |-> selected[i].preview]
                      /\ BestPicture(selected[i].picture, modes, i)
                      /\ BestPreview(selected[i].preview, modes, i)
           T == {i \in 0 .. n : IF i = 0 THEN selected[i] = NoBest ELSE Best(i)}
<1>6. 0 \in T
  BY <1>1, <1>4
<1>7. ASSUME NEW i \in 0 .. n - 1, i \in T
      PROVE  i + 1 \in T
  <2>1. /\ i \in Nat /\ i + 1 \in 1 .. Len(modes) /\ i + 1 \in 0 .. n /\ i \in 0 .. n
        /\ i + 1 # 0 /\ i + 1 - 1 = i
    BY <1>1 DEF n
  <2>2. selected[i + 1] = Pass(modes[i + 1], selected[i])
    BY <1>4, <2>1
  <2> DEFINE a == selected[i].picture
             b == selected[i].preview
  <2>3. IF i = 0 THEN a = NoMode ELSE BestPicture(a, modes, i)
    BY <1>7 DEF NoBest
  <2>4. IF i = 0 THEN b = NoMode ELSE BestPreview(b, modes, i)
    BY <1>7 DEF NoBest
  <2>5. BestPicture(IF BetterPicture(modes[i + 1], a) THEN modes[i + 1] ELSE a, modes, i + 1)
    BY <2>1, <2>3, PictureStep
  <2>6. BestPreview(IF BetterPreview(modes[i + 1], b) THEN modes[i + 1] ELSE b, modes, i + 1)
    BY <2>1, <2>4, PreviewStep
  <2>7. Best(i + 1)
    BY <2>2, <2>5, <2>6
  <2> QED BY <2>1, <2>7
<1>8. n \in T
  <2> HIDE DEF T
  <2>1. 0 .. n \subseteq T
    BY <1>1, <1>6, <1>7, Passes
  <2> QED BY <1>1, <2>1
<1>9. modes = <<>> <=> n = 0
  BY DEF n
<1> QED BY <1>5, <1>8, <1>9 DEF n

-----------------------------------------------------------------------------
(***************************************************************************)
(* Cropping.                                                               *)
(***************************************************************************)
\* Half of a non-negative margin, rounded to even, is at most half of it.
LEMMA EvenHalfBounds ==
    ASSUME NEW n \in Nat
    PROVE  /\ EvenHalf(n) \in Nat
           /\ EvenHalf(n) % 2 = 0
           /\ 2 * EvenHalf(n) <= n
  BY SMTT(30) DEF EvenHalf

\* Init() crops inside of the frame: for every mode that is as wide and as high
\* as the request the crop starts at an even pixel and ends in the frame, and
\* the size delivered is the one requested.
THEOREM CroppedInside ==
    ASSUME NEW m \in AnyMode, NEW size \in AnySize, NEW p, Covers(m, size)
    PROVE  LET c == Cropped(m, size, p)
           IN  /\ c.out = size
               /\ c.startX \in Nat /\ c.startX % 2 = 0 /\ c.startX + size.w <= m.w
               /\ c.startY \in Nat /\ c.startY % 2 = 0 /\ c.startY + size.h <= m.h
<1> DEFINE x == EvenHalf(m.w - size.w)
           y == EvenHalf(m.h - size.h)
           c == Cropped(m, size, p)
<1>1. /\ m.w \in Nat /\ m.h \in Nat /\ size.w \in Nat /\ size.h \in Nat
      /\ m.w - size.w \in Nat /\ m.h - size.h \in Nat
      /\ size = [w |-> size.w, h |-> size.h]
  BY DEF AnyMode, AnySize, Covers
<1>2. /\ x \in Nat /\ x % 2 = 0 /\ 2 * x <= m.w - size.w
      /\ y \in Nat /\ y % 2 = 0 /\ 2 * y <= m.h - size.h
  BY <1>1, EvenHalfBounds
<1>3. Larger(x, 0) = x /\ Larger(y, 0) = y
  BY <1>2 DEF Larger
<1>4. /\ c.startX = Larger(x, 0) /\ c.startY = Larger(y, 0)
      /\ c.out = [w |-> size.w + x - Larger(x, 0), h |-> size.h + y - Larger(y, 0)]
  BY DEF Cropped
<1> HIDE DEF x, y, c
<1>5. size.w + x - x = size.w /\ size.h + y - y = size.h
  BY <1>1, <1>2
<1>6. c.out = size
  BY <1>1, <1>3, <1>4, <1>5
<1>7. x + size.w <= m.w /\ y + size.h <= m.h
  BY <1>1, <1>2
<1> QED  BY <1>2, <1>3, <1>4, <1>6, <1>7 DEF c

-----------------------------------------------------------------------------
(***************************************************************************)
(* The inductive invariant.                                                *)
(***************************************************************************)
Typed ==
    /\ phase \in {"closed", "formats", "sizes", "defaults", "open"}
    /\ found \in BOOLEAN
    /\ m_AllFmts \in Seq(Modes)
    /\ best \in [picture : Modes \union {NoMode}, preview : Modes \union {NoMode}]

\* What Open() has chosen stays right until the next one begins.
Chosen == phase = "open" =>
    IF m_AllFmts = <<>> THEN best = NoBest
    ELSE /\ BestPicture(best.picture, m_AllFmts, Len(m_AllFmts))
         /\ BestPreview(best.preview, m_AllFmts, Len(m_AllFmts))

\* The rows of pixFmtsOrder: the formats with bpp bytes for a pixel.
RowsOf(names, bpp, c) == {[fmt |-> x, bpp |-> bpp, allowscrop |-> c] : x \in names}

Pairwise   == {"YUYV", "YVYU", "UYVY", "YYUV"}
Blockwise  == {"SPCA501", "SPCA505", "SPCA508"}
Coloured   == {"BGR24", "RGB24"}
Compressed == {"MJPEG", "JPEG"}
Other      == {"YUV420", "YVU420", "NV12", "NV21", "NV16", "NV61", "Y41P",
               "SGBRG8", "SGRBG8", "SBGGR8", "SRGGB8"}
FormatRows ==
    RowsOf(Pairwise, 2, TRUE) \union RowsOf(Blockwise, 2, FALSE)
       \union RowsOf(Other, 0, FALSE) \union RowsOf(Coloured, 3, TRUE)
       \union RowsOf(Compressed, 0, FALSE) \union RowsOf({"GREY"}, 1, TRUE)
       \union RowsOf({"Y16"}, 2, TRUE)

\* c is a crop of a frame in the format of row p, or all of the frame.
IsCroppedOf(c, p) ==
    /\ c = Cropped(c.mode, c.size, p)
    /\ SizeOf(c.mode) = c.size \/ p.allowscrop = TRUE

\* What Init() has set up is of the modes there are.
SetUpRight == capture # NoCapture =>
    /\ phase = "open"
    /\ capture.mode \in ToSet(m_AllFmts) /\ capture.fmt \in UNION Drivers
    /\ capture.size \in Sizes \union ToSet(Extra) /\ capture.out = capture.size
    /\ \E p \in FormatRows : IsCroppedOf(capture, p)
    /\ Covers(capture.mode, capture.size)
    /\ {capture.startX, capture.startY, capture.capCropOffset} \subseteq Nat
    /\ \A i \in 1 .. Len(m_AllFmts) :
          Covers(m_AllFmts[i], capture.size) => Area(m_AllFmts[i]) >= Area(capture.mode)

FInv == Typed /\ Sorted(m_AllFmts) /\ Chosen /\ SetUpRight

\* Modes that a driver lists have a width, a height and a rate.
LEMMA ModesAreReal ==
    /\ Modes \subseteq RealMode /\ Modes \subseteq AnyMode /\ NoMode \notin Modes
    /\ Seq(Modes) \subseteq Seq(RealMode) /\ Seq(Modes) \subseteq Seq(AnyMode)
<1>1. \A s \in Sizes : s.w \in Nat \ {0} /\ s.h \in Nat \ {0}
  BY SizesArePositive
<1>2. \A r \in Rates \union {1, 25} : r \in Nat \ {0}
  BY RatesArePositive
<1>3. ASSUME NEW m \in Modes
      PROVE  m \in RealMode
  <2>1. PICK s \in Sizes, t \in Sizes : m.w = s.w /\ m.h = t.h
    BY DEF Modes
  <2>2. m = [w |-> m.w, h |-> m.h, fps |-> m.fps] /\ m.fps \in Rates \union {1, 25}
    BY DEF Modes
  <2> QED BY <1>1, <1>2, <2>1, <2>2 DEF RealMode, AnyMode
<1>4. RealMode \subseteq AnyMode /\ NoMode \notin RealMode
  BY DEF RealMode, NoMode
<1>5. Modes \subseteq AnyMode /\ NoMode \notin Modes
  BY <1>3, <1>4
<1> QED BY <1>3, <1>5

\* An empty vector and no default modes have the right types.
LEMMA NothingYet ==
    /\ <<>> \in Seq(Modes) /\ Sorted(<<>>)
    /\ NoBest \in [picture : Modes \union {NoMode}, preview : Modes \union {NoMode}]
<1>1. <<>> \in Seq(Modes)
  OBVIOUS
<1>2. Sorted(<<>>)
  <2>1. Len(<<>>) = 0
    OBVIOUS
  <2>2. 1 .. 0 = {}
    OBVIOUS
  <2> QED BY <2>1, <2>2 DEF Sorted
<1>3. NoBest \in [picture : Modes \union {NoMode}, preview : Modes \union {NoMode}]
  BY DEF NoBest
<1> QED BY <1>1, <1>2, <1>3

\* A size and a rate that a driver lists make a mode.
LEMMA ModeType ==
    ASSUME NEW size \in Sizes, NEW rate \in Rates \union {1, 25}
    PROVE  Mode(size, rate) \in Modes
BY DEF Mode, Modes

\* A mode is added while the device is being opened.
LEMMA AddIsRight ==
    ASSUME FInv, NEW size \in Sizes, NEW rate \in Rates \union {1, 25},
           m_AllFmts' = AddMode(m_AllFmts, Mode(size, rate))
    PROVE  m_AllFmts' \in Seq(Modes) /\ Sorted(m_AllFmts)'
<1>1. Mode(size, rate) \in Modes /\ m_AllFmts \in Seq(Modes) /\ Sorted(m_AllFmts)
  BY ModeType DEF FInv, Typed
<1>2. m_AllFmts' \in Seq(Modes)
  BY <1>1, ModesAreReal, AddModeMembers
<1>3. Mode(size, rate) \in AnyMode /\ m_AllFmts \in Seq(AnyMode)
  BY <1>1, ModesAreReal
<1>4. Sorted(AddMode(m_AllFmts, Mode(size, rate)))
  BY <1>1, <1>3, AddModeSorts
<1> QED BY <1>2, <1>4 DEF Sorted

\* The names of a row of pixFmtsOrder are of S: its entries are of F.
LEMMA KindOfRows ==
    ASSUME NEW S, NEW bpp, NEW c, NEW F, RowsOf(S, bpp, c) \subseteq F,
           NEW n \in Nat, NEW names \in [1 .. n -> S]
    PROVE  Kind(names, bpp, c) \in Seq(F)
<1>1. DOMAIN names = 1 .. n /\ \A i \in 1 .. n : names[i] \in S
  OBVIOUS
<1>2. Kind(names, bpp, c) = [i \in 1 .. n |->
                               [fmt |-> names[i], bpp |-> bpp, allowscrop |-> c]]
  BY <1>1 DEF Kind
<1>3. \A i \in 1 .. n : [fmt |-> names[i], bpp |-> bpp, allowscrop |-> c] \in F
  BY <1>1 DEF RowsOf
<1> QED BY <1>2, <1>3

\* Each entry of pixFmtsOrder is one of these.
LEMMA FormatTable ==
    \A i \in DOMAIN PixFmtsOrder : i \in Nat /\ PixFmtsOrder[i] \in FormatRows
<1> DEFINE F == FormatRows
           a == <<"YUYV", "YVYU", "UYVY", "YYUV">>
           b == <<"SPCA501", "SPCA505", "SPCA508">>
           d == <<"YUV420", "YVU420", "NV12", "NV21", "NV16", "NV61", "Y41P",
                  "SGBRG8", "SGRBG8", "SBGGR8", "SRGGB8">>
           e == <<"BGR24", "RGB24">>
           f == <<"MJPEG", "JPEG">>
           g == <<"GREY">>
           h == <<"Y16">>
<1>1. /\ RowsOf(Pairwise, 2, TRUE) \subseteq F /\ RowsOf(Blockwise, 2, FALSE) \subseteq F
      /\ RowsOf(Other, 0, FALSE) \subseteq F /\ RowsOf(Coloured, 3, TRUE) \subseteq F
      /\ RowsOf(Compressed, 0, FALSE) \subseteq F /\ RowsOf({"GREY"}, 1, TRUE) \subseteq F
      /\ RowsOf({"Y16"}, 2, TRUE) \subseteq F
  BY DEF FormatRows
<1>2. a \in [1 .. 4 -> Pairwise] /\ b \in [1 .. 3 -> Blockwise]
  BY DEF Pairwise, Blockwise
<1>4. d \in [1 .. 11 -> Other]
  BY DEF Other
<1>5. e \in [1 .. 2 -> Coloured] /\ f \in [1 .. 2 -> Compressed]
  BY DEF Coloured, Compressed
<1>6. g \in [1 .. 1 -> {"GREY"}] /\ h \in [1 .. 1 -> {"Y16"}]
  OBVIOUS
<1> HIDE DEF a, b, d, e, f, g, h, F
<1>7. /\ Kind(a, 2, TRUE) \in Seq(F) /\ Kind(b, 2, FALSE) \in Seq(F)
      /\ Kind(d, 0, FALSE) \in Seq(F)
  BY <1>1, <1>2, <1>4, KindOfRows
<1>8. /\ Kind(e, 3, TRUE) \in Seq(F) /\ Kind(f, 0, FALSE) \in Seq(F)
      /\ Kind(g, 1, TRUE) \in Seq(F) /\ Kind(h, 2, TRUE) \in Seq(F)
  BY <1>1, <1>5, <1>6, KindOfRows
<1>9. \A p, q \in Seq(F) : p \o q \in Seq(F)
  BY ConcatProperties
<1>10. PixFmtsOrder = Kind(a, 2, TRUE) \o Kind(b, 2, FALSE) \o Kind(d, 0, FALSE)
        \o Kind(e, 3, TRUE) \o Kind(f, 0, FALSE) \o Kind(g, 1, TRUE) \o Kind(h, 2, TRUE)
  BY DEF PixFmtsOrder, a, b, d, e, f, g, h
<1>11. PixFmtsOrder \in Seq(F)
  BY <1>7, <1>8, <1>9, <1>10
<1>12. \A p \in Seq(F) : \A i \in DOMAIN p : i \in Nat /\ p[i] \in F
  OBVIOUS
<1> QED BY <1>11, <1>12 DEF F

\* Init() takes a format that the driver accepts.
LEMMA FirstUsableIs ==
    ASSUME NEW crop \in BOOLEAN, NEW accepted, Usable(crop, accepted) # {}
    PROVE  /\ FirstUsable(crop, accepted) \in FormatRows
           /\ FirstUsable(crop, accepted).fmt \in accepted
           /\ FirstUsable(crop, accepted).bpp \in Nat
           /\ ~crop \/ FirstUsable(crop, accepted).allowscrop = TRUE
<1> DEFINE usable == Usable(crop, accepted)
<1>0. \A p \in FormatRows : p.bpp \in Nat /\ p.allowscrop \in BOOLEAN
  <2>1. ASSUME NEW S, NEW bpp \in Nat, NEW c \in BOOLEAN, NEW p \in RowsOf(S, bpp, c)
        PROVE  p.bpp \in Nat /\ p.allowscrop \in BOOLEAN
    BY DEF RowsOf
  <2>2. 0 \in Nat /\ 1 \in Nat /\ 2 \in Nat /\ 3 \in Nat /\ TRUE \in BOOLEAN /\ FALSE \in BOOLEAN
    OBVIOUS
  <2> QED BY <2>1, <2>2, Zenon DEF FormatRows
<1>1. usable \in SUBSET Nat /\ \A i \in usable :
          /\ PixFmtsOrder[i] \in FormatRows /\ PixFmtsOrder[i].fmt \in accepted
          /\ PixFmtsOrder[i].bpp \in Nat /\ (~crop \/ PixFmtsOrder[i].allowscrop = TRUE)
  BY <1>0, FormatTable DEF Usable
<1>2. \E i \in usable : \A j \in usable : i <= j
  BY <1>1, Least
<1>3. PICK i : i = CHOOSE k \in usable : \A j \in usable : k <= j
  OBVIOUS
<1>4. i \in usable
  BY <1>2, <1>3
<1>5. FirstUsable(crop, accepted) = PixFmtsOrder[i]
  BY <1>3 DEF FirstUsable
<1> HIDE DEF usable
<1>6. /\ PixFmtsOrder[i] \in FormatRows /\ PixFmtsOrder[i].fmt \in accepted
      /\ PixFmtsOrder[i].bpp \in Nat /\ (~crop \/ PixFmtsOrder[i].allowscrop = TRUE)
  BY <1>1, <1>4, Zenon
<1> QED BY <1>5, <1>6, Zenon

\* A line has a number of bytes.
LEMMA BytesPerLineType ==
    ASSUME NEW m \in AnyMode, NEW p
    PROVE  BytesPerLine(m, p) \in Nat
<1>1. \A f \in DOMAIN SampleBytes : SampleBytes[f] \in Nat
  BY DEF SampleBytes
<1>2. m.w \in Nat /\ 2 * m.w \in Nat /\ \A k \in Nat : k * m.w \in Nat
  BY DEF AnyMode
<1>3. \A a, b \in Nat : Larger(a, b) \in Nat
  BY DEF Larger
<1> QED BY <1>1, <1>2, <1>3 DEF BytesPerLine

\* Init() sets up what the modes allow.
LEMMA SetUpIsRight ==
    ASSUME FInv, NEW size \in Sizes \union ToSet(Extra), NEW fps \in Rates, SetUp(size, fps)
    PROVE  SetUpRight'
<1> DEFINE m == Closest(m_AllFmts, size, fps)
           crop == SizeOf(m) # size
<1>1. size \in AnySize /\ fps \in Nat
  BY SizesArePositive, RatesArePositive DEF AnySize
<1>2. m_AllFmts \in Seq(RealMode) /\ ToSet(m_AllFmts) \subseteq AnyMode
  BY ModesAreReal DEF FInv, Typed, ToSet
<1>3. phase' = "open" /\ m_AllFmts' = m_AllFmts /\ m # NoMode
  BY DEF SetUp
<1>4. PICK accepted \in Drivers :
          /\ Usable(crop, accepted) # {}
          /\ capture' = Cropped(m, size, FirstUsable(crop, accepted))
  BY DEF SetUp
<1>5. /\ m \in ToSet(m_AllFmts) /\ Covers(m, size) /\ m \in AnyMode
      /\ \A i \in 1 .. Len(m_AllFmts) :
            Covers(m_AllFmts[i], size) => Area(m_AllFmts[i]) >= Area(m)
  <2> HIDE DEF m
  <2>1. m = Closest(m_AllFmts, size, fps)
    BY DEF m
  <2> QED BY <1>1, <1>2, <1>3, <2>1, ClosestIsLeast
<1> DEFINE p == FirstUsable(crop, accepted)
           c == Cropped(m, size, p)
<1> HIDE DEF m
<1>6. p \in FormatRows /\ p.fmt \in accepted /\ p.bpp \in Nat /\ (~crop \/ p.allowscrop = TRUE)
  BY <1>4, FirstUsableIs
<1> HIDE DEF p
<1>7. /\ c.out = size /\ c.startX \in Nat /\ c.startY \in Nat
  BY <1>1, <1>5, CroppedInside
<1>8. /\ c.mode = m /\ c.size = size /\ c.fmt = p.fmt
      /\ c.capCropOffset = c.startX * p.bpp + BytesPerLine(m, p) * c.startY
  BY DEF Cropped
<1>9. BytesPerLine(m, p) \in Nat
  BY <1>5, BytesPerLineType
<1>14. c = Cropped(m, size, p)
  BY DEF c
<1> HIDE DEF c
<1>10. c.capCropOffset \in Nat
  <2>1. p.bpp \in Nat
    BY <1>6
  <2> QED BY <1>7, <1>8, <1>9, <2>1
<1>12. IsCroppedOf(c, p)
  <2>1. SizeOf(m) = size \/ p.allowscrop = TRUE
    BY <1>6
  <2> QED BY <1>8, <1>14, <2>1 DEF IsCroppedOf
<1>11. capture' = c
  BY <1>4 DEF c, p
<1>13. p \in FormatRows /\ c.fmt \in UNION Drivers
  BY <1>6, <1>8
<1> QED BY <1>3, <1>5, <1>7, <1>8, <1>10, <1>11, <1>12, <1>13 DEF SetUpRight

\* The invariant holds at first.
LEMMA FInvInit == Init => FInv
<1> SUFFICES ASSUME Init PROVE FInv
  OBVIOUS
<1>1. Typed
  BY NothingYet DEF Init, Typed
<1>2. Sorted(m_AllFmts)
  BY NothingYet DEF Init
<1> QED BY <1>1, <1>2 DEF Init, FInv, Chosen, SetUpRight

\* Every step keeps the invariant.
LEMMA FInvNext == FInv /\ [Next]_vars => FInv'
<1> SUFFICES ASSUME FInv, [Next]_vars PROVE FInv'
  OBVIOUS
<1>. Typed /\ Sorted(m_AllFmts) /\ Chosen /\ SetUpRight
  BY DEF FInv
<1>1. CASE Open
  <2>1. Typed' /\ Sorted(m_AllFmts)'
    <3>1. m_AllFmts' = <<>>
      BY <1>1 DEF Open
    <3>2. Sorted(m_AllFmts)'
      BY <3>1, NothingYet DEF Sorted
    <3> QED BY <1>1, <3>2, NothingYet DEF Open, Typed
  <2> QED BY <1>1, <2>1 DEF Open, FInv, Chosen, SetUpRight
<1>2. CASE OpenFails
  BY <1>2 DEF OpenFails, FInv, Typed, Sorted, Chosen, SetUpRight
<1>3. CASE EnumFormat \/ EndOfSizes \/ EndOfDefaults
  BY <1>3 DEF EnumFormat, EndOfSizes, EndOfDefaults, FInv, Typed, Sorted, Chosen, SetUpRight
<1>4. CASE EnumFrameSize
  <2>1. PICK size \in Sizes, rate \in Rates \union {1} : EnumFrameIntervals(size, rate)
    BY <1>4 DEF EnumFrameSize
  <2>2. m_AllFmts' \in Seq(Modes) /\ Sorted(m_AllFmts)'
    BY <2>1, AddIsRight DEF EnumFrameIntervals
  <2> QED BY <1>4, <2>2 DEF EnumFrameSize, FInv, Typed, Chosen, SetUpRight
<1>5. CASE TryDefaultMode
  <2>1. PICK size \in Sizes : m_AllFmts' = AddMode(m_AllFmts, Mode(size, 25))
    BY <1>5 DEF TryDefaultMode
  <2>2. m_AllFmts' \in Seq(Modes) /\ Sorted(m_AllFmts)'
    BY <2>1, AddIsRight
  <2> QED BY <1>5, <2>2 DEF TryDefaultMode, FInv, Typed, Chosen, SetUpRight
<1>6. CASE EndOfFormats
  <2>1. m_AllFmts \in Seq(Modes) /\ m_AllFmts \in Seq(RealMode)
    BY ModesAreReal DEF Typed
  <2>2. /\ best' = Select(m_AllFmts, NoBest) /\ phase' = "open"
        /\ m_AllFmts' = m_AllFmts /\ found' = found /\ capture' = capture /\ phase # "open"
    BY <1>6 DEF EndOfFormats
  <2>3. Chosen'
    BY <2>1, <2>2, SelectIsBest DEF Chosen
  <2>4. best' \in [picture : Modes \union {NoMode}, preview : Modes \union {NoMode}]
    <3>1. CASE m_AllFmts = <<>>
      BY <2>1, <2>2, <3>1, SelectIsBest, NothingYet
    <3>2. CASE m_AllFmts # <<>>
      <4>1. /\ best' = [picture |-> best'.picture, preview |-> best'.preview]
            /\ BestPicture(best'.picture, m_AllFmts, Len(m_AllFmts))
            /\ BestPreview(best'.preview, m_AllFmts, Len(m_AllFmts))
        BY <2>1, <2>2, <3>2, SelectIsBest
      <4>2. best'.picture \in Modes /\ best'.preview \in Modes
        BY <2>1, <4>1 DEF BestPicture, BestPreview
      <4> QED BY <4>1, <4>2
    <3> QED BY <3>1, <3>2
  <2>5. Typed'
    BY <2>2, <2>4 DEF Typed
  <2> QED BY <2>2, <2>3, <2>5 DEF FInv, Sorted, SetUpRight
<1>7. CASE \E size \in Sizes \union ToSet(Extra), fps \in Rates : SetUp(size, fps)
  <2>1. PICK size \in Sizes \union ToSet(Extra), fps \in Rates : SetUp(size, fps)
    BY <1>7
  <2>2. SetUpRight'
    BY <2>1, SetUpIsRight
  <2>3. UNCHANGED <<phase, m_AllFmts, found, best>>
    BY <2>1 DEF SetUp
  <2> QED BY <2>2, <2>3 DEF FInv, Typed, Sorted, Chosen
<1>8. CASE UNCHANGED vars
  BY <1>8 DEF vars, FInv, Typed, Sorted, Chosen, SetUpRight
<1> QED BY <1>1, <1>2, <1>3, <1>4, <1>5, <1>6, <1>7, <1>8 DEF Next

\* The invariant holds.
THEOREM Invariant == Spec => []FInv
<1>1. Init => FInv
  BY FInvInit
<1>2. FInv /\ [Next]_vars => FInv'
  BY FInvNext
<1> QED BY <1>1, <1>2, PTL DEF Spec

\* A vector of modes has no two that compare equal and is in order, as its binary
\* search needs, whatever the driver lists and how often.
THEOREM ModesAreSorted == Spec => []Sorted(m_AllFmts)
<1>1. FInv => Sorted(m_AllFmts)
  BY DEF FInv
<1> QED BY <1>1, Invariant, PTL

\* The members of V4L2Camera have their types, for every driver.
THEOREM TypeCorrect == Spec => []TypeOK
<1>1. FInv => TypeOK
  <2> SUFFICES ASSUME FInv PROVE TypeOK
    OBVIOUS
  <2>1. ToSet(m_AllFmts) \subseteq Modes
    BY DEF FInv, Typed, ToSet
  <2> QED BY <2>1 DEF FInv, Typed, SetUpRight, TypeOK
<1> QED BY <1>1, Invariant, PTL

\* The default modes are the best of all the driver has, however many there are.
THEOREM DefaultsAreBestHolds == Spec => []DefaultsAreBest
<1>1. FInv => DefaultsAreBest
  <2> SUFFICES ASSUME FInv, phase = "open", m_AllFmts # <<>>
               PROVE  /\ {best.picture, best.preview} \subseteq ToSet(m_AllFmts)
                      /\ \A m \in ToSet(m_AllFmts) :
                            /\ Area(m) <= Area(best.picture)
                            /\ Area(m) = Area(best.picture) => m.fps >= best.picture.fps
                            /\ m.fps <= best.preview.fps
                            /\ m.fps = best.preview.fps => Area(m) <= Area(best.preview)
    BY DEF FInv, Chosen, DefaultsAreBest
  <2>1. /\ BestPicture(best.picture, m_AllFmts, Len(m_AllFmts))
        /\ BestPreview(best.preview, m_AllFmts, Len(m_AllFmts))
        /\ m_AllFmts \in Seq(Modes)
    BY DEF FInv, Typed, Chosen
  <2>2. ToSet(m_AllFmts) = {m_AllFmts[i] : i \in 1 .. Len(m_AllFmts)}
    BY <2>1 DEF ToSet
  <2> QED BY <2>1, <2>2 DEF BestPicture, BestPreview
<1> QED BY <1>1, Invariant, PTL

\* Init() takes the least mode that covers the request, however many there are.
THEOREM CaptureIsClosestHolds == Spec => []CaptureIsClosest
<1>1. FInv => CaptureIsClosest
  <2> SUFFICES ASSUME FInv, capture # NoCapture
               PROVE  /\ Covers(capture.mode, capture.size)
                      /\ capture.out = capture.size
                      /\ \A m \in ToSet(m_AllFmts) :
                            Covers(m, capture.size) => Area(m) >= Area(capture.mode)
    BY DEF CaptureIsClosest
  <2>1. ToSet(m_AllFmts) = {m_AllFmts[i] : i \in 1 .. Len(m_AllFmts)}
    BY DEF FInv, Typed, ToSet
  <2> QED BY <2>1 DEF FInv, SetUpRight
<1> QED BY <1>1, Invariant, PTL

-----------------------------------------------------------------------------
(***************************************************************************)
(* A frame that GrabRawFrame() converts: pairs of pixels, of formats whose *)
(* pairs are four bytes.                                                   *)
(***************************************************************************)
Bit == {0, 1}

\* A source of one byte, shifted.
LEMMA ShiftOne ==
    ASSUME NEW p, NEW a \in Int, NEW n \in Int
    PROVE  Shift(<<p, <<a>>>>, n) = <<p, <<n + a>>>>
  <1>1. [i \in DOMAIN <<a>> |-> n + <<a>>[i]] = <<n + a>>
    OBVIOUS
  <1> QED
    BY <1>1 DEF Shift

\* A write that is shifted by nothing.
LEMMA ShiftNone ==
    ASSUME NEW p, NEW a \in Int
    PROVE  Shift(<<p, <<a>>>>, 0) = <<p, <<a>>>>
  <1>1. [i \in DOMAIN <<a>> |-> 0 + <<a>>[i]] = <<a>>
    OBVIOUS
  <1> QED
    BY <1>1 DEF Shift

\* A number is twice its half and what remains ...
LEMMA Halves ==
    ASSUME NEW x \in Nat
    PROVE  \E d \in Nat, r \in Bit : x = 2 * d + r /\ x \div 2 = d /\ x % 2 = r
  <1>1. PICK d : d = x \div 2
    BY Zenon
  <1>2. PICK r : r = x % 2
    BY Zenon
  <1>3. d \in Nat /\ r \in Bit
    BY <1>1, <1>2 DEF Bit
  <1>4. x = 2 * d + r
    BY <1>1, <1>2
  <1> QED
    BY <1>1, <1>2, <1>3, <1>4, Zenon

\* ... and of no other number.
LEMMA IsHalf ==
    ASSUME NEW d \in Nat, NEW r \in Bit
    PROVE  (2 * d + r) \div 2 = d /\ (2 * d + r) % 2 = r
  BY DEF Bit

\* An even width has a whole number of pairs.
LEMMA PairsOf ==
    ASSUME NEW w \in Nat, w % 2 = 0
    PROVE  \E v \in Nat : w = 2 * v /\ w \div 2 = v /\ (w + 1) \div 2 = v
  <1>1. PICK v \in Nat, r \in Bit : w = 2 * v + r /\ w \div 2 = v /\ w % 2 = r
    BY Halves
  <1>2. w = 2 * v /\ w \div 2 = v
    BY <1>1
  <1>3. (2 * v + 1) \div 2 = v
    BY IsHalf DEF Bit
  <1> QED
    BY <1>2, <1>3

\* What a loop over rows and pairs has written, and the bytes of the pixels.
Looped(D, v, h) == {D[y][k][b] : y \in 0 .. h - 1, k \in 0 .. v - 1, b \in Quad}
Pixels(E, w, h) == {E[y][x][b] : x \in 0 .. w - 1, y \in 0 .. h - 1, b \in {0, 1}}

\* Loops over pairs and their bytes write what loops over pixels and theirs do.
LEMMA ByPairs ==
    ASSUME NEW v \in Nat, NEW w, w = 2 * v, NEW h, NEW n, NEW D, NEW E,
           \A y \in 0 .. h - 1, k \in 0 .. v - 1, i \in Bit, j \in Bit :
               Shift(D[y][k][2 * i + j], n) = E[y][2 * k + i][j]
    PROVE  {Shift(write, n) : write \in Looped(D, v, h)} = Pixels(E, w, h)
  <1> DEFINE H == 0 .. h - 1
             K == 0 .. v - 1
             W == 0 .. w - 1
  <1>1. \A k \in K, i \in Bit : 2 * k + i \in W
    BY DEF Bit
  <1>2. ASSUME NEW x \in W
        PROVE  \E k \in K, i \in Bit : x = 2 * k + i
    <2>1. PICK k \in Nat, i \in Bit : x = 2 * k + i
      BY Halves
    <2>2. k \in K
      BY <2>1 DEF Bit
    <2> QED
      BY <2>1, <2>2
  <1>3. \A b \in Quad : \E i \in Bit, j \in Bit : b = 2 * i + j
    BY DEF Quad, Bit
  <1>4. \A i \in Bit, j \in Bit : 2 * i + j \in Quad
    BY DEF Quad, Bit
  <1>5. \A y \in H, k \in K, i \in Bit, j \in Bit :
            Shift(D[y][k][2 * i + j], n) = E[y][2 * k + i][j]
    OBVIOUS
  <1>6. /\ Looped(D, v, h) = {D[y][k][b] : y \in H, k \in K, b \in Quad}
        /\ Pixels(E, w, h) = {E[y][x][b] : x \in W, y \in H, b \in Bit}
    BY DEF Looped, Pixels, Bit
  <1> HIDE DEF H, K, W
  <1>7. ASSUME NEW write \in Looped(D, v, h)
        PROVE  Shift(write, n) \in Pixels(E, w, h)
    <2>1. PICK y \in H, k \in K, b \in Quad : write = D[y][k][b]
      BY <1>6
    <2>2. PICK i \in Bit, j \in Bit : b = 2 * i + j
      BY <1>3
    <2>3. Shift(write, n) = E[y][2 * k + i][j]
      BY <1>5, <2>1, <2>2
    <2> QED
      BY <1>1, <1>6, <2>3
  <1>8. ASSUME NEW e \in Pixels(E, w, h)
        PROVE  \E write \in Looped(D, v, h) : e = Shift(write, n)
    <2>1. PICK x \in W, y \in H, j \in Bit : e = E[y][x][j]
      BY <1>6
    <2>2. PICK k \in K, i \in Bit : x = 2 * k + i
      BY <1>2
    <2>3. D[y][k][2 * i + j] \in Looped(D, v, h)
      BY <1>4, <1>6
    <2>4. e = Shift(D[y][k][2 * i + j], n)
      BY <1>5, <2>1, <2>2
    <2> QED
      BY <2>3, <2>4
  <1> QED
    BY <1>7, <1>8

\* A crop c of w = 2 * v by h pixels that starts at pixel (2 * s, t) and byte n
\* of a frame with lines of mw pixels.
IsCrop(c, v, w, h, mw, s, t, n) ==
    /\ v \in Nat /\ w \in Nat /\ h \in Nat /\ mw \in Nat /\ s \in Nat /\ t \in Nat /\ n \in Nat
    /\ c.out.w = w /\ w = 2 * v /\ c.out.h = h /\ c.mode.w = mw
    /\ c.startX = 2 * s /\ c.startY = t /\ c.capCropOffset = n

\* The component in byte j of pixel i of a pair in YUYV.
Letter(i, j) == IF j = 0 THEN "Y" ELSE IF i = 0 THEN "U" ELSE "V"

\* The write of that byte of pair k in row y for c.
Byte(c, w, s, t, y, k, i, j) ==
    <<2 * w * y + 4 * k + 2 * i + j,
      Pixel(c.fmt, c.mode, Letter(i, j), 2 * (s + k) + i, t + y)>>

\* A frame of the right bytes is the wanted one.
LEMMA WantedByPairs ==
    ASSUME NEW c, NEW v, NEW w, NEW h, NEW mw, NEW s, NEW t, NEW n,
           IsCrop(c, v, w, h, mw, s, t, n), NEW D,
           \A y \in 0 .. h - 1, k \in 0 .. v - 1, i \in Bit, j \in Bit :
               Shift(D[y][k][2 * i + j], n) = Byte(c, w, s, t, y, k, i, j)
    PROVE  {Shift(write, n) : write \in Looped(D, v, h)} = Wanted(c)
  <1> DEFINE R(x, y, b) ==
                 <<2 * c.out.w * y + 2 * x + b,
                   Pixel(c.fmt, c.mode,
                         IF b = 0 THEN "Y" ELSE IF x % 2 = 0 THEN "U" ELSE "V",
                         c.startX + x, c.startY + y)>>
             E == [y \in 0 .. h - 1 |-> [x \in 0 .. w - 1 |-> [b \in Bit |-> R(x, y, b)]]]
  <1>1. /\ v \in Nat /\ w = 2 * v /\ h \in Nat /\ s \in Nat /\ t \in Nat
        /\ c.out.w = w /\ c.out.h = h /\ c.startX = 2 * s /\ c.startY = t
    BY DEF IsCrop
  <1>2. Wanted(c) = {R(x, y, b) : x \in 0 .. c.out.w - 1, y \in 0 .. c.out.h - 1, b \in {0, 1}}
    BY DEF Wanted
  <1>3. ASSUME NEW y \in 0 .. h - 1, NEW k \in 0 .. v - 1, NEW i \in Bit, NEW j \in Bit
        PROVE  2 * k + i \in 0 .. w - 1 /\ R(2 * k + i, y, j) = Byte(c, w, s, t, y, k, i, j)
    <2>1. k \in Nat /\ y \in Nat /\ i \in Nat /\ j \in Nat /\ 2 * k + i \in 0 .. w - 1
      BY <1>1 DEF Bit
    <2>2. (2 * k + i) % 2 = i
      BY <2>1, IsHalf
    <2>3. (IF j = 0 THEN "Y" ELSE IF (2 * k + i) % 2 = 0 THEN "U" ELSE "V") = Letter(i, j)
      BY <2>2 DEF Letter
    <2> DEFINE L == IF j = 0 THEN "Y" ELSE IF (2 * k + i) % 2 = 0 THEN "U" ELSE "V"
    <2>4. R(2 * k + i, y, j) = <<2 * c.out.w * y + 2 * (2 * k + i) + j,
                                 Pixel(c.fmt, c.mode, L, c.startX + (2 * k + i), c.startY + y)>>
      OBVIOUS
    <2>5. L = Letter(i, j)
      BY <2>3
    <2> HIDE DEF L, R
    <2>6. 2 * c.out.w * y + 2 * (2 * k + i) + j = 2 * w * y + 4 * k + 2 * i + j
          /\ c.startX + (2 * k + i) = 2 * (s + k) + i
      BY <1>1, <2>1
    <2> QED
      BY <1>1, <2>1, <2>4, <2>5, <2>6 DEF Byte
  <1> HIDE DEF R
  <1>4. \A y \in 0 .. h - 1, x \in 0 .. w - 1, b \in Bit : E[y][x][b] = R(x, y, b)
    OBVIOUS
  <1> HIDE DEF E
  <1>5. Wanted(c) = Pixels(E, w, h)
    BY <1>1, <1>2, <1>4 DEF Pixels, Bit
  <1>6. \A y \in 0 .. h - 1, k \in 0 .. v - 1, i \in Bit, j \in Bit :
            Shift(D[y][k][2 * i + j], n) = E[y][2 * k + i][j]
    BY <1>3, <1>4
  <1>7. {Shift(write, n) : write \in Looped(D, v, h)} = Pixels(E, w, h)
    BY <1>1, <1>6, ByPairs
  <1> QED
    BY <1>5, <1>7

-----------------------------------------------------------------------------
\* The place of a component of a pixel pair.
Place(fmt, i, j) == Before(PairLayout[fmt], Component(Letter(i, j), i), 1, 1)

\* The places of the components of the four orders.
LEMMA Places ==
    \A i \in Bit, j \in Bit :
        /\ Place("YUYV", i, j) = 2 * i + j
        /\ Place("YYUV", i, j) = <<0, 2, 1, 3>>[2 * i + j + 1]
        /\ Place("UYVY", i, j) = <<1, 0, 3, 2>>[2 * i + j + 1]
        /\ Place("YVYU", i, j) = <<0, 3, 2, 1>>[2 * i + j + 1]
  <1> SUFFICES ASSUME NEW i \in Bit, NEW j \in Bit
               PROVE  /\ Place("YUYV", i, j) = 2 * i + j
                      /\ Place("YYUV", i, j) = <<0, 2, 1, 3>>[2 * i + j + 1]
                      /\ Place("UYVY", i, j) = <<1, 0, 3, 2>>[2 * i + j + 1]
                      /\ Place("YVYU", i, j) = <<0, 3, 2, 1>>[2 * i + j + 1]
    OBVIOUS
  <1>1. CASE i = 0 /\ j = 0
    BY <1>1 DEF Place, Before, PairLayout, Component, Letter
  <1>2. CASE i = 0 /\ j = 1
    BY <1>2 DEF Place, Before, PairLayout, Component, Letter
  <1>3. CASE i = 1 /\ j = 0
    BY <1>3 DEF Place, Before, PairLayout, Component, Letter
  <1>4. CASE i = 1 /\ j = 1
    BY <1>4 DEF Place, Before, PairLayout, Component, Letter
  <1> QED
    BY <1>1, <1>2, <1>3, <1>4 DEF Bit

\* The kinds of formats have no format in common.
LEMMA Kinds ==
    /\ DOMAIN PairLayout = {"YUYV", "YVYU", "UYVY", "YYUV"}
    /\ DOMAIN BlockLayout = {"SPCA501", "SPCA505", "SPCA508"}
    /\ DOMAIN BayerOrder = {"SGBRG8", "SGRBG8", "SBGGR8", "SRGGB8"}
  BY DEF PairLayout, BlockLayout, BayerOrder

\* Where each kind of format has a pixel.
LEMMA PixelKind ==
    ASSUME NEW fmt, NEW m, NEW comp, NEW x, NEW y
    PROVE  /\ fmt \in DOMAIN PairLayout =>
                 Pixel(fmt, m, comp, x, y) = PairPixel(fmt, m, comp, x, y)
           /\ fmt \in DOMAIN BlockLayout =>
                 Pixel(fmt, m, comp, x, y) = BlockPixel(fmt, m, comp, x, y)
           /\ fmt \in {"RGB24", "BGR24"} \union DOMAIN BayerOrder =>
                 Pixel(fmt, m, comp, x, y) = RgbPixel(fmt, m, comp, x, y)
           /\ fmt = "Y41P" => Pixel(fmt, m, comp, x, y) = EightPixel(m, comp, x, y)
           /\ fmt \in {"YUV420", "YVU420", "NV12", "NV21", "NV16", "NV61"} =>
                 Pixel(fmt, m, comp, x, y) = PlanePixel(fmt, m, comp, x, y)
  BY Kinds DEF Pixel

\* Where a format of pairs has a component of pixel i of pair d.
LEMMA PixelOfPair ==
    ASSUME NEW fmt \in DOMAIN PairLayout, NEW m, NEW mw, m.w = mw, NEW d \in Nat,
           NEW i \in Bit, NEW j \in Bit, NEW y
    PROVE  Pixel(fmt, m, Letter(i, j), 2 * d + i, y)
             = <<2 * mw * y + 4 * d + Place(fmt, i, j)>>
  <1>1. (2 * d + i) \div 2 = d /\ (2 * d + i) % 2 = i
    BY IsHalf
  <1>2. Pixel(fmt, m, Letter(i, j), 2 * d + i, y) = PairPixel(fmt, m, Letter(i, j), 2 * d + i, y)
    BY PixelKind
  <1>3. PairPixel(fmt, m, Letter(i, j), 2 * d + i, y)
          = <<2 * mw * y + 4 * d + Before(PairLayout[fmt], Component(Letter(i, j), i), 1, 1)>>
    BY <1>1 DEF PairPixel
  <1> QED
    BY <1>2, <1>3 DEF Place

\* The call f of a converter from lines of src bytes to lines of YUYV.
IsCall(f, v, w, h, src) ==
    /\ v \in Nat /\ w \in Nat /\ w = 2 * v /\ h \in Nat /\ src \in Nat
    /\ f.w = w /\ f.h = h /\ f.dst = 2 * w /\ f.src = src

\* The rows and the pairs of a call, and where its rows begin.
LEMMA Call ==
    ASSUME NEW f, NEW v, NEW w, NEW h, NEW src, IsCall(f, v, w, h, src)
    PROVE  /\ Rows(f) = 0 .. h - 1 /\ Pairs(f) = v
           /\ \A y \in Nat : DstRow(f, y) = 2 * w * y
           /\ \A y \in Nat : y * (4 * Pairs(f) + f.src - 2 * f.w) = src * y
  <1>1. /\ f.w = w /\ f.h = h /\ f.dst = 2 * w /\ f.src = src /\ Rows(f) = 0 .. h - 1
        /\ v \in Nat /\ w \in Nat /\ w = 2 * v /\ src \in Nat
    BY DEF Rows, IsCall
  <1>2. Pairs(f) = v
    BY <1>1, IsHalf DEF Pairs, Bit
  <1>3. 4 * Pairs(f) + f.dst - 2 * f.w = 2 * w /\ 4 * Pairs(f) + f.src - 2 * f.w = src
    BY <1>1, <1>2
  <1>4. ASSUME NEW y \in Nat
        PROVE  DstRow(f, y) = 2 * w * y /\ y * (4 * Pairs(f) + f.src - 2 * f.w) = src * y
    BY <1>1, <1>3 DEF DstRow
  <1> QED
    BY <1>1, <1>2, <1>4

\* pick is where format fmt has the components of YUYV.
Picks(pick, fmt) == \A i \in Bit, j \in Bit :
    pick[2 * i + j + 1] \in Nat /\ pick[2 * i + j + 1] = Place(fmt, i, j)

\* A frame of pairs, one byte for each component.
LEMMA GrabbedPairs ==
    ASSUME NEW c, NEW v, NEW w, NEW h, NEW mw, NEW s, NEW t, NEW n,
           IsCrop(c, v, w, h, mw, s, t, n), n = 4 * s + 2 * mw * t,
           NEW f, NEW src, IsCall(f, v, w, h, src), src = 2 * mw,
           NEW pick, c.fmt \in DOMAIN PairLayout, Picks(pick, c.fmt)
    PROVE  {Shift(write, n) : write \in Packed(f, pick)} = Wanted(c)
  <1> DEFINE P(y, k, b) == <<DstRow(f, y) + 4 * k + b,
                             <<y * (4 * Pairs(f) + f.src - 2 * f.w) + 4 * k + pick[b + 1]>>>>
             D == [y \in 0 .. h - 1 |-> [k \in 0 .. v - 1 |-> [b \in Quad |-> P(y, k, b)]]]
  <1>1. /\ v \in Nat /\ w = 2 * v /\ h \in Nat /\ mw \in Nat /\ s \in Nat /\ t \in Nat
        /\ n \in Nat /\ c.mode.w = mw
    BY DEF IsCrop
  <1>2. Rows(f) = 0 .. h - 1 /\ Pairs(f) = v
    BY Call
  <1>3. ASSUME NEW y \in Nat
        PROVE  DstRow(f, y) = 2 * w * y /\ y * (4 * Pairs(f) + f.src - 2 * f.w) = src * y
    BY Call
  <1>4. Packed(f, pick) = {P(y, k, b) : y \in Rows(f), k \in 0 .. Pairs(f) - 1, b \in Quad}
    BY DEF Packed
  <1>5. ASSUME NEW y \in 0 .. h - 1, NEW k \in 0 .. v - 1, NEW i \in Bit, NEW j \in Bit
        PROVE  Shift(P(y, k, 2 * i + j), n) = Byte(c, w, s, t, y, k, i, j)
    <2>1. k \in Nat /\ y \in Nat /\ i \in Nat /\ j \in Nat
      BY <1>1 DEF Bit
    <2>2. PICK p \in Nat : p = pick[2 * i + j + 1] /\ p = Place(c.fmt, i, j)
      BY DEF Picks
    <2>3. PICK a \in Int : a = 2 * mw * y + 4 * k + p
      BY <1>1, <2>1
    <2>4. P(y, k, 2 * i + j) = <<2 * w * y + 4 * k + (2 * i + j), <<a>>>>
      BY <1>3, <2>1, <2>2, <2>3
    <2> HIDE DEF P
    <2>5. n + a = 2 * mw * (t + y) + 4 * (s + k) + p
      BY <1>1, <2>1, <2>3
    <2>6. Pixel(c.fmt, c.mode, Letter(i, j), 2 * (s + k) + i, t + y) = <<n + a>>
      <3>1. s + k \in Nat
        BY <1>1, <2>1
      <3>2. PICK d \in Nat : d = s + k
        BY <3>1
      <3>3. Pixel(c.fmt, c.mode, Letter(i, j), 2 * d + i, t + y)
              = <<2 * mw * (t + y) + 4 * d + p>>
        BY <1>1, <2>2, PixelOfPair
      <3> QED
        BY <2>5, <3>2, <3>3
    <2>7. 2 * w * y + 4 * k + (2 * i + j) = 2 * w * y + 4 * k + 2 * i + j
      BY <1>1, <2>1
    <2>8. Shift(P(y, k, 2 * i + j), n) = <<2 * w * y + 4 * k + 2 * i + j, <<n + a>>>>
      BY <1>1, <2>4, <2>7, ShiftOne
    <2> QED
      BY <2>6, <2>8 DEF Byte
  <1> HIDE DEF P
  <1>6. \A y \in 0 .. h - 1, k \in 0 .. v - 1, b \in Quad : D[y][k][b] = P(y, k, b)
    OBVIOUS
  <1> HIDE DEF D
  <1>7. Packed(f, pick) = Looped(D, v, h)
    BY <1>2, <1>4, <1>6 DEF Looped
  <1>8. \A y \in 0 .. h - 1, k \in 0 .. v - 1, i \in Bit, j \in Bit :
            Shift(D[y][k][2 * i + j], n) = Byte(c, w, s, t, y, k, i, j)
    <2>1. \A i \in Bit, j \in Bit : 2 * i + j \in Quad
      BY DEF Bit, Quad
    <2> QED
      BY <1>5, <1>6, <2>1
  <1> QED
    BY <1>7, <1>8, WantedByPairs

-----------------------------------------------------------------------------
(***************************************************************************)
(* Lines that are copied, and formats with planes.                         *)
(***************************************************************************)
\* Four bytes for each of v pairs.
LEMMA ByFours ==
    ASSUME NEW v \in Nat
    PROVE  /\ \A k \in 0 .. v - 1, q \in Quad : 4 * k + q \in 0 .. 4 * v - 1
           /\ \A b \in 0 .. 4 * v - 1 : \E k \in 0 .. v - 1, q \in Quad : b = 4 * k + q
  <1>1. ASSUME NEW b \in 0 .. 4 * v - 1
        PROVE  \E k \in 0 .. v - 1, q \in Quad : b = 4 * k + q
    <2>1. PICK d \in Nat, i \in Bit : b = 2 * d + i
      BY Halves
    <2>2. PICK k \in Nat, j \in Bit : d = 2 * k + j
      BY Halves
    <2>3. b = 4 * k + (2 * j + i) /\ 2 * j + i \in Quad /\ k \in 0 .. v - 1
      BY <2>1, <2>2 DEF Bit, Quad
    <2> QED
      BY <2>3
  <1>2. \A k \in 0 .. v - 1, q \in Quad : 4 * k + q \in 0 .. 4 * v - 1
    BY DEF Quad
  <1> QED
    BY <1>1, <1>2

\* A copy of the lines is a copy of the pairs.
LEMMA CopiedPairs ==
    ASSUME NEW f, NEW v, NEW w, NEW h, NEW src, IsCall(f, v, w, h, src)
    PROVE  CopyLines(f) = Packed(f, <<0, 1, 2, 3>>)
  <1> DEFINE H == Rows(f)
             B == 0 .. 2 * f.w - 1
             P(y, b) == <<f.dst * y + b, <<f.src * y + b>>>>
             R(y, k, q) == <<DstRow(f, y) + 4 * k + q,
                             <<y * (4 * Pairs(f) + f.src - 2 * f.w) + 4 * k
                                 + <<0, 1, 2, 3>>[q + 1]>>>>
  <1>1. /\ v \in Nat /\ w = 2 * v /\ h \in Nat /\ src \in Nat
        /\ f.w = w /\ f.dst = 2 * w /\ f.src = src
    BY DEF IsCall
  <1>2. Rows(f) = 0 .. h - 1 /\ Pairs(f) = v
    BY Call
  <1>3. ASSUME NEW y \in Nat
        PROVE  DstRow(f, y) = 2 * w * y /\ y * (4 * Pairs(f) + f.src - 2 * f.w) = src * y
    BY Call
  <1>4. CopyLines(f) = {P(y, b) : y \in H, b \in B}
    BY DEF CopyLines
  <1>5. Packed(f, <<0, 1, 2, 3>>)
          = {R(y, k, q) : y \in Rows(f), k \in 0 .. Pairs(f) - 1, q \in Quad}
    BY DEF Packed
  <1>6. ASSUME NEW y \in 0 .. h - 1, NEW k \in 0 .. v - 1, NEW q \in Quad
        PROVE  P(y, 4 * k + q) = R(y, k, q)
    <2>1. y \in Nat /\ k \in Nat /\ q \in Nat
      BY <1>1 DEF Quad
    <2>2. <<0, 1, 2, 3>>[q + 1] = q
      BY DEF Quad
    <2>3. /\ f.dst * y + (4 * k + q) = DstRow(f, y) + 4 * k + q
          /\ f.src * y + (4 * k + q)
               = y * (4 * Pairs(f) + f.src - 2 * f.w) + 4 * k + q
      <3>1. f.dst * y = DstRow(f, y) /\ f.src * y = y * (4 * Pairs(f) + f.src - 2 * f.w)
            /\ f.dst * y \in Nat /\ f.src * y \in Nat
        BY <1>1, <1>3, <2>1
      <3> QED
        BY <2>1, <3>1
    <2> QED
      BY <2>2, <2>3
  <1>7. B = 0 .. 4 * v - 1 /\ H = 0 .. h - 1
    BY <1>1, <1>2
  <1>8. /\ \A k \in 0 .. v - 1, q \in Quad : 4 * k + q \in B
        /\ \A b \in B : \E k \in 0 .. v - 1, q \in Quad : b = 4 * k + q
    <2>1. v \in Nat
      BY <1>1
    <2> HIDE DEF B
    <2> QED
      BY <1>7, <2>1, ByFours, Zenon
  <1> HIDE DEF P, R, B, H
  <1>9. \A y \in 0 .. h - 1 : y \in H
    BY <1>7
  <1>10. ASSUME NEW e \in CopyLines(f)
        PROVE  e \in Packed(f, <<0, 1, 2, 3>>)
    <2>1. PICK y \in H, b \in B : e = P(y, b)
      BY <1>4
    <2> y \in 0 .. h - 1
      BY <1>7
    <2>2. PICK k \in 0 .. v - 1, q \in Quad : b = 4 * k + q
      BY <1>8, Zenon
    <2>3. e = R(y, k, q)
      BY <1>6, <2>1, <2>2
    <2> QED
      BY <1>2, <1>5, <2>3
  <1>11. ASSUME NEW e \in Packed(f, <<0, 1, 2, 3>>)
        PROVE  e \in CopyLines(f)
    <2>1. PICK y \in 0 .. h - 1, k \in 0 .. v - 1, q \in Quad : e = R(y, k, q)
      BY <1>2, <1>5
    <2>2. 4 * k + q \in B
      BY <1>8
    <2>3. e = P(y, 4 * k + q)
      BY <1>6, <2>1
    <2> QED
      BY <1>4, <1>9, <2>2, <2>3
  <1> QED
    BY <1>10, <1>11

\* The crops of a frame that is grabbed as a whole.
IsWholeFrame(c, v, w, h) == IsCrop(c, v, w, h, w, 0, 0, 0) /\ c.mode.h = h

\* A chroma plane of a format, line cy of it for row y, and where it has pair k.
IsPlane(fmt, m, comp, start, step, line, rows) ==
    ChromaPlane(fmt, m, comp) = [start |-> start, step |-> step, line |-> line, rows |-> rows]
IsLine(cy, y, rows) == cy \in Nat /\ cy = y \div rows
PlaneAt(start, line, cy, step, k) == start + cy * line + step * k

\* x is member i of pair k.
InPair(x, k, i) == k \in Nat /\ i \in Bit /\ x = 2 * k + i

\* Where a luma plane with lines of w bytes has pixel (x, y).
LumaAt(w, x, y) == w * y + x

PlanarFormats == {"YUV420", "YVU420", "NV12", "NV21", "NV16", "NV61"}

\* Where a format of planes has the luminance of a pixel ...
LEMMA PixelOfLuma ==
    ASSUME NEW fmt, NEW m, NEW w, NEW x, NEW y, fmt \in PlanarFormats, m.w = w
    PROVE  Pixel(fmt, m, "Y", x, y) = <<LumaAt(w, x, y)>>
  <1>1. Pixel(fmt, m, "Y", x, y) = PlanePixel(fmt, m, "Y", x, y)
    BY PixelKind DEF PlanarFormats
  <1> QED
    BY <1>1 DEF PlanePixel, LumaAt

\* ... and a component of its chrominance.
LEMMA PixelOfPlane ==
    ASSUME NEW fmt, NEW m, NEW comp, NEW start, NEW step, NEW line, NEW rows,
           NEW y, NEW cy, NEW x, NEW k, NEW i,
           fmt \in PlanarFormats, comp # "Y", IsPlane(fmt, m, comp, start, step, line, rows),
           IsLine(cy, y, rows), InPair(x, k, i), start \in Nat, step \in Nat, line \in Nat
    PROVE  Pixel(fmt, m, comp, x, y) = <<PlaneAt(start, line, cy, step, k)>>
  <1> DEFINE plane == ChromaPlane(fmt, m, comp)
  <1>1. k = x \div 2
    BY IsHalf DEF InPair
  <1>2. Pixel(fmt, m, comp, x, y) = PlanePixel(fmt, m, comp, x, y)
    BY PixelKind DEF PlanarFormats
  <1>3. PlanePixel(fmt, m, comp, x, y)
          = <<plane.start + plane.line * (y \div plane.rows) + plane.step * (x \div 2)>>
    BY DEF PlanePixel
  <1>4. plane.start = start /\ plane.line = line /\ plane.rows = rows /\ plane.step = step
    BY DEF IsPlane
  <1> HIDE DEF plane
  <1>5. Pixel(fmt, m, comp, x, y) = <<start + line * cy + step * k>>
    BY <1>1, <1>2, <1>3, <1>4 DEF IsLine
  <1>6. start + line * cy + step * k = PlaneAt(start, line, cy, step, k)
    <2>1. line * cy = cy * line
      BY DEF IsLine
    <2> QED
      BY <2>1 DEF PlaneAt
  <1> QED
    BY <1>5, <1>6, Zenon

\* A frame with planes of chrominance, one line for each row or for two: where
\* byte b of pair k in row y is.
PlaneSource(w, u, vv, line, step, y, cy, k, b) ==
    CASE b = 0 -> y * w + 2 * k
      [] b = 1 -> PlaneAt(u, line, cy, step, k)
      [] b = 2 -> y * w + 2 * k + 1
      [] b = 3 -> PlaneAt(vv, line, cy, step, k)

\* The planes of c's frame with w pixels in a row.
HasPlanes(c, w, u, vv, step, line, rows) ==
    /\ c.fmt \in PlanarFormats /\ c.mode.w = w /\ w \in Nat
    /\ u \in Nat /\ vv \in Nat /\ step \in Nat /\ line \in Nat
    /\ IsPlane(c.fmt, c.mode, "U", u, step, line, rows)
    /\ IsPlane(c.fmt, c.mode, "V", vv, step, line, rows)

\* The source of a byte is the luminance of its pixel or the chrominance of its pair.
LEMMA PlaneSourceIs ==
    ASSUME NEW w, NEW u, NEW vv, NEW step, NEW line, NEW y, NEW cy, NEW k,
           NEW x, NEW i, NEW q, NEW j, InPair(x, k, i), InPair(q, i, j),
           w \in Nat, y \in Nat, u \in Nat, vv \in Nat, step \in Nat, line \in Nat, cy \in Nat
    PROVE  /\ PlaneSource(w, u, vv, line, step, y, cy, k, q) \in Int
           /\ j = 0 => PlaneSource(w, u, vv, line, step, y, cy, k, q) = LumaAt(w, x, y)
           /\ j = 1 /\ i = 0 => PlaneSource(w, u, vv, line, step, y, cy, k, q)
                                  = PlaneAt(u, line, cy, step, k)
           /\ j = 1 /\ i = 1 => PlaneSource(w, u, vv, line, step, y, cy, k, q)
                                  = PlaneAt(vv, line, cy, step, k)
  <1>1. k \in Nat /\ x = 2 * k + i /\ i \in Bit /\ j \in Bit /\ q = 2 * i + j
    BY DEF InPair
  <1>2. PICK a \in Int : a = y * w /\ a = w * y
    OBVIOUS
  <1>3. PlaneAt(u, line, cy, step, k) \in Int /\ PlaneAt(vv, line, cy, step, k) \in Int
    BY <1>1 DEF PlaneAt
  <1>4. CASE i = 0 /\ j = 0
    BY <1>1, <1>2, <1>4 DEF PlaneSource, LumaAt
  <1>5. CASE i = 0 /\ j = 1
    BY <1>1, <1>3, <1>5 DEF PlaneSource
  <1>6. CASE i = 1 /\ j = 0
    BY <1>1, <1>2, <1>6 DEF PlaneSource, LumaAt
  <1>7. CASE i = 1 /\ j = 1
    BY <1>1, <1>3, <1>7 DEF PlaneSource
  <1> QED
    BY <1>1, <1>4, <1>5, <1>6, <1>7 DEF Bit

\* Where a format of planes has the component that byte j of pixel i of pair k needs.
LEMMA PlanarPixel ==
    ASSUME NEW c, NEW w, NEW u, NEW vv, NEW step, NEW line, NEW rows,
           NEW y, NEW cy, NEW x, NEW k, NEW i, NEW q, NEW j,
           HasPlanes(c, w, u, vv, step, line, rows), y \in Nat, IsLine(cy, y, rows),
           InPair(x, k, i), InPair(q, i, j)
    PROVE  /\ PlaneSource(w, u, vv, line, step, y, cy, k, q) \in Int
           /\ Pixel(c.fmt, c.mode, Letter(i, j), x, y)
                = <<PlaneSource(w, u, vv, line, step, y, cy, k, q)>>
  <1>1. i \in Bit /\ j \in Bit
    BY DEF InPair
  <1>2. /\ c.fmt \in PlanarFormats /\ c.mode.w = w /\ w \in Nat /\ cy \in Nat
        /\ u \in Nat /\ vv \in Nat /\ step \in Nat /\ line \in Nat
        /\ IsPlane(c.fmt, c.mode, "U", u, step, line, rows)
        /\ IsPlane(c.fmt, c.mode, "V", vv, step, line, rows)
    BY DEF HasPlanes, IsLine
  <1>3. /\ PlaneSource(w, u, vv, line, step, y, cy, k, q) \in Int
        /\ j = 0 => PlaneSource(w, u, vv, line, step, y, cy, k, q) = LumaAt(w, x, y)
        /\ j = 1 /\ i = 0 => PlaneSource(w, u, vv, line, step, y, cy, k, q)
                               = PlaneAt(u, line, cy, step, k)
        /\ j = 1 /\ i = 1 => PlaneSource(w, u, vv, line, step, y, cy, k, q)
                               = PlaneAt(vv, line, cy, step, k)
    BY <1>2, PlaneSourceIs
  <1>4. Pixel(c.fmt, c.mode, "Y", x, y) = <<LumaAt(w, x, y)>>
    BY <1>2, PixelOfLuma
  <1>5. Pixel(c.fmt, c.mode, "U", x, y) = <<PlaneAt(u, line, cy, step, k)>>
    <2>1. "U" # "Y"
      OBVIOUS
    <2> QED
      BY <1>2, <2>1, PixelOfPlane
  <1>6. Pixel(c.fmt, c.mode, "V", x, y) = <<PlaneAt(vv, line, cy, step, k)>>
    <2>1. "V" # "Y"
      OBVIOUS
    <2> QED
      BY <1>2, <2>1, PixelOfPlane
  <1>7. /\ j = 0 => Letter(i, j) = "Y"
        /\ j = 1 /\ i = 0 => Letter(i, j) = "U"
        /\ j = 1 /\ i = 1 => Letter(i, j) = "V"
    BY DEF Letter
  <1>8. j = 0 \/ (j = 1 /\ i = 0) \/ (j = 1 /\ i = 1)
    BY <1>1 DEF Bit
  <1> QED
    BY <1>3, <1>4, <1>5, <1>6, <1>7, <1>8, Zenon

\* So the write of byte q of pair k is the one that the frame of the crop has.
LEMMA PlaneBytes ==
    ASSUME NEW c, NEW w, NEW u, NEW vv, NEW step, NEW line, NEW rows,
           NEW y, NEW cy, NEW k, NEW i, NEW q, NEW j, NEW to,
           HasPlanes(c, w, u, vv, step, line, rows), y \in Nat, IsLine(cy, y, rows),
           k \in Nat, i \in Bit, InPair(q, i, j), to = 2 * w * y + 4 * k + q
    PROVE  Shift(<<to, <<PlaneSource(w, u, vv, line, step, y, cy, k, q)>>>>, 0)
             = Byte(c, w, 0, 0, y, k, i, j)
  <1>1. PICK x : InPair(x, k, i) /\ x = 2 * k + i
    BY DEF InPair
  <1>2. PICK a : a = PlaneSource(w, u, vv, line, step, y, cy, k, q)
    BY Zenon
  <1>3. a \in Int /\ Pixel(c.fmt, c.mode, Letter(i, j), x, y) = <<a>>
    BY <1>1, <1>2, PlanarPixel
  <1>5. Shift(<<to, <<a>>>>, 0) = <<to, <<a>>>>
    BY <1>3, ShiftNone, Zenon
  <1>6. 0 + k = k /\ 0 + y = y /\ to = 2 * w * y + 4 * k + 2 * i + j
    <2>1. w \in Nat
      BY DEF HasPlanes
    <2> QED
      BY <2>1 DEF InPair, Bit
  <1>7. Byte(c, w, 0, 0, y, k, i, j) = <<to, <<a>>>>
    BY <1>1, <1>3, <1>6 DEF Byte
  <1> QED
    BY <1>2, <1>5, <1>7, Zenon

\* D[y][k][b] is the write of byte b of pair k in row y of a planar frame.
WritesPlanes(D, v, w, h, u, vv, step, line, rows) ==
    \A y \in 0 .. h - 1, k \in 0 .. v - 1, b \in Quad : \E cy :
        /\ IsLine(cy, y, rows)
        /\ D[y][k][b] = <<2 * w * y + 4 * k + b,
                          <<PlaneSource(w, u, vv, line, step, y, cy, k, b)>>>>

\* A loop that writes these bytes writes the whole frame.
LEMMA GrabbedPlanes ==
    ASSUME NEW c, NEW v, NEW w, NEW h, NEW u, NEW vv, NEW step, NEW line, NEW rows, NEW D,
           IsWholeFrame(c, v, w, h), HasPlanes(c, w, u, vv, step, line, rows),
           WritesPlanes(D, v, w, h, u, vv, step, line, rows)
    PROVE  {Shift(write, 0) : write \in Looped(D, v, h)} = Wanted(c)
  <1>1. IsCrop(c, v, w, h, w, 0, 0, 0) /\ v \in Nat /\ w \in Nat /\ h \in Nat
    BY DEF IsWholeFrame, IsCrop
  <1>2. ASSUME NEW y \in 0 .. h - 1, NEW k \in 0 .. v - 1, NEW i \in Bit, NEW j \in Bit
        PROVE  Shift(D[y][k][2 * i + j], 0) = Byte(c, w, 0, 0, y, k, i, j)
    <2>1. y \in Nat /\ k \in Nat
      BY <1>1
    <2>2. PICK q \in Quad : q = 2 * i + j
      BY DEF Quad, Bit
    <2>3. InPair(q, i, j)
      BY <2>2 DEF InPair, Bit
    <2>4. PICK cy : /\ IsLine(cy, y, rows)
                    /\ D[y][k][q] = <<2 * w * y + 4 * k + q,
                                      <<PlaneSource(w, u, vv, line, step, y, cy, k, q)>>>>
      BY DEF WritesPlanes
    <2>5. PICK to : to = 2 * w * y + 4 * k + q
      BY Zenon
    <2>6. Shift(<<to, <<PlaneSource(w, u, vv, line, step, y, cy, k, q)>>>>, 0)
            = Byte(c, w, 0, 0, y, k, i, j)
      BY <2>1, <2>3, <2>4, <2>5, PlaneBytes
    <2> QED
      BY <2>2, <2>4, <2>5, <2>6
  <1> QED
    BY <1>1, <1>2, WantedByPairs

\* The converters of planes with a row of chrominance for every row.
LEMMA Grabbed422 ==
    ASSUME NEW c, NEW v, NEW w, NEW h, NEW u, NEW vv, NEW step, NEW line,
           NEW f, NEW src,
           IsWholeFrame(c, v, w, h), HasPlanes(c, w, u, vv, step, line, 1),
           IsCall(f, v, w, h, src)
    PROVE  {Shift(write, 0) : write \in Planar422(f, u, vv, step, line)} = Wanted(c)
  <1> DEFINE H == Rows(f)
             K == 0 .. Pairs(f) - 1
             P(y, k, b) == <<DstRow(f, y) + 4 * k + b,
                             <<CASE b = 0 -> y * f.w + 2 * k
                                 [] b = 1 -> u + y * line + step * k
                                 [] b = 2 -> y * f.w + 2 * k + 1
                                 [] b = 3 -> vv + y * line + step * k>>>>
             D == [y \in H |-> [k \in K |-> [b \in Quad |-> P(y, k, b)]]]
  <1>1. v \in Nat /\ w \in Nat /\ w = 2 * v /\ h \in Nat /\ f.w = w
    BY DEF IsCall
  <1>2. H = 0 .. h - 1 /\ K = 0 .. v - 1 /\ \A y \in Nat : DstRow(f, y) = 2 * w * y
    BY Call
  <1>3. Planar422(f, u, vv, step, line) = {P(y, k, b) : y \in H, k \in K, b \in Quad}
    BY DEF Planar422
  <1>4. ASSUME NEW y \in 0 .. h - 1, NEW k \in 0 .. v - 1, NEW b \in Quad
        PROVE  /\ IsLine(y, y, 1)
               /\ P(y, k, b) = <<2 * w * y + 4 * k + b,
                                 <<PlaneSource(w, u, vv, line, step, y, y, k, b)>>>>
    <2>1. y \in Nat /\ y = y \div 1
      BY <1>1
    <2>2. P(y, k, b) = <<DstRow(f, y) + 4 * k + b,
                         <<PlaneSource(w, u, vv, line, step, y, y, k, b)>>>>
      BY <1>1 DEF PlaneSource, PlaneAt
    <2> QED
      BY <1>2, <2>1, <2>2 DEF IsLine
  <1> HIDE DEF P, H, K
  <1>5. \A y \in H, k \in K, b \in Quad : D[y][k][b] = P(y, k, b)
    OBVIOUS
  <1> HIDE DEF D
  <1>6. Planar422(f, u, vv, step, line) = Looped(D, v, h)
    <2>1. Looped(D, v, h) = {D[y][k][b] : y \in H, k \in K, b \in Quad}
      BY <1>2 DEF Looped
    <2> QED
      BY <1>3, <1>5, <2>1
  <1>7. WritesPlanes(D, v, w, h, u, vv, step, line, 1)
    BY <1>2, <1>4, <1>5 DEF WritesPlanes
  <1>8. {Shift(write, 0) : write \in Looped(D, v, h)} = Wanted(c)
    BY <1>7, GrabbedPlanes
  <1> QED
    BY <1>6, <1>8

\* The rows of pairs of rows.
LEMMA ByRowPairs ==
    ASSUME NEW g, NEW h, g \in Nat, h = 2 * g
    PROVE  /\ \A y \in 0 .. g - 1, r \in Bit : \E z \in 0 .. h - 1 : InPair(z, y, r)
           /\ \A z \in 0 .. h - 1 : \E y \in 0 .. g - 1, r \in Bit : InPair(z, y, r)
  <1>1. ASSUME NEW z \in 0 .. h - 1
        PROVE  \E y \in 0 .. g - 1, r \in Bit : InPair(z, y, r)
    <2>1. z \in Nat
      OBVIOUS
    <2>2. PICK y \in Nat, r \in Bit : z = 2 * y + r
      BY <2>1, Halves
    <2>3. y \in 0 .. g - 1
      BY <2>2 DEF Bit
    <2> QED
      BY <2>2, <2>3 DEF InPair
  <1>2. ASSUME NEW y \in 0 .. g - 1, NEW r \in Bit
        PROVE  \E z \in 0 .. h - 1 : InPair(z, y, r)
    <2>1. PICK z : z = 2 * y + r
      OBVIOUS
    <2>2. z \in 0 .. h - 1 /\ y \in Nat
      BY <2>1 DEF Bit
    <2> QED
      BY <2>1, <2>2 DEF InPair
  <1> QED
    BY <1>1, <1>2

\* Two rows are written in one pass: F[y][r] is row 2 * y + r of D.
ByTwo(F, D, g, v) ==
    \A y \in 0 .. g - 1, r \in Bit, k \in 0 .. v - 1, b \in Quad : \A z :
        InPair(z, y, r) => F[y][r][k][b] = D[z][k][b]

\* Loops over pairs of rows write what loops over rows do.
LEMMA ByTwoRows ==
    ASSUME NEW g, NEW h, NEW v, NEW D, NEW F, g \in Nat, h = 2 * g, ByTwo(F, D, g, v)
    PROVE  {F[y][r][k][b] : y \in 0 .. g - 1, r \in Bit, k \in 0 .. v - 1, b \in Quad}
             = Looped(D, v, h)
  <1> DEFINE G == 0 .. g - 1
             H == 0 .. h - 1
             K == 0 .. v - 1
             S == {F[y][r][k][b] : y \in G, r \in Bit, k \in K, b \in Quad}
  <1>1. /\ \A y \in G, r \in Bit : \E z \in H : InPair(z, y, r)
        /\ \A z \in H : \E y \in G, r \in Bit : InPair(z, y, r)
    BY ByRowPairs
  <1>3. \A y \in G, r \in Bit, k \in K, b \in Quad : \A z :
            InPair(z, y, r) => F[y][r][k][b] = D[z][k][b]
    BY DEF ByTwo
  <1>4. Looped(D, v, h) = {D[y][k][b] : y \in H, k \in K, b \in Quad}
    BY DEF Looped
  <1> HIDE DEF G, H, K
  <1>6. ASSUME NEW e \in S
        PROVE  e \in Looped(D, v, h)
    <2>1. PICK y \in G, r \in Bit, k \in K, b \in Quad : e = F[y][r][k][b]
      OBVIOUS
    <2>2. PICK z \in H : InPair(z, y, r)
      BY <1>1
    <2>3. F[y][r][k][b] = D[z][k][b]
      BY <1>3, <2>2
    <2>4. e = D[z][k][b]
      BY <2>1, <2>3
    <2> QED
      BY <1>4, <2>2, <2>4
  <1>7. ASSUME NEW e \in Looped(D, v, h)
        PROVE  e \in S
    <2>1. PICK z \in H, k \in K, b \in Quad : e = D[z][k][b]
      BY <1>4
    <2>2. PICK y \in G, r \in Bit : InPair(z, y, r)
      BY <1>1
    <2>3. F[y][r][k][b] = D[z][k][b]
      BY <1>3, <2>2
    <2>4. e = F[y][r][k][b]
      BY <2>1, <2>3
    <2> QED
      BY <2>4
  <1> HIDE DEF S
  <1>8. S = Looped(D, v, h)
    BY <1>6, <1>7
  <1> QED
    BY <1>8 DEF G, K, S

\* Where the loops over pairs of rows are in row z = 2 * y + r.
LEMMA RowOfPair ==
    ASSUME NEW v \in Nat, NEW y, NEW r, NEW z, InPair(z, y, r)
    PROVE  y * (4 * v + 2 * (4 * v) - 2 * (2 * v)) + r * (4 * v) = 4 * v * z
  <1>1. y \in Nat /\ (r = 0 \/ r = 1) /\ z = 2 * y + r
    BY DEF InPair, Bit
  <1>2. 4 * v + 2 * (4 * v) - 2 * (2 * v) = 8 * v
    OBVIOUS
  <1>3. y * (8 * v) + r * (4 * v) = 4 * v * (2 * y + r)
    BY <1>1
  <1> QED
    BY <1>1, <1>2, <1>3

Twice(h, g) == g \in Nat /\ h = 2 * g

\* The converters of planes with a row of chrominance for every two.
LEMMA Grabbed420 ==
    ASSUME NEW c, NEW v, NEW w, NEW h, NEW g, NEW u, NEW vv, NEW step, NEW line,
           NEW f, NEW src,
           IsWholeFrame(c, v, w, h), HasPlanes(c, w, u, vv, step, line, 2),
           IsCall(f, v, w, h, src), Twice(h, g)
    PROVE  {Shift(write, 0) : write \in Planar420(f, u, vv, step, line)} = Wanted(c)
  <1> DEFINE G == RowPairs(f)
             H == 0 .. h - 1
             K == 0 .. Pairs(f) - 1
             P(y, r, k, b) ==
                 <<y * (4 * Pairs(f) + 2 * f.dst - 2 * f.w) + r * f.dst + 4 * k + b,
                   <<CASE b = 0 -> (2 * y + r) * f.w + 2 * k
                       [] b = 1 -> u + y * line + step * k
                       [] b = 2 -> (2 * y + r) * f.w + 2 * k + 1
                       [] b = 3 -> vv + y * line + step * k>>>>
             R(z, cy, k, b) == <<2 * w * z + 4 * k + b,
                                 <<PlaneSource(w, u, vv, line, step, z, cy, k, b)>>>>
             F == [y \in G |-> [r \in Bit |-> [k \in K |-> [b \in Quad |-> P(y, r, k, b)]]]]
             D == [z \in H |-> [k \in K |-> [b \in Quad |-> R(z, z \div 2, k, b)]]]
  <1>1. v \in Nat /\ w \in Nat /\ w = 2 * v /\ h \in Nat
        /\ f.w = w /\ f.h = h /\ f.dst = 2 * w
    BY DEF IsCall
  <1>14. g \in Nat /\ h = 2 * g
    BY DEF Twice
  <1>2. K = 0 .. v - 1 /\ Pairs(f) = v
    BY Call
  <1>3. G = 0 .. g - 1
    <2>1. (2 * g + 1) \div 2 = g
      BY <1>14, IsHalf DEF Bit
    <2> QED
      BY <1>1, <1>14, <2>1 DEF RowPairs
  <1>4. Planar420(f, u, vv, step, line)
          = {P(y, r, k, b) : y \in G, r \in Bit, k \in K, b \in Quad}
    BY DEF Planar420, Bit
  <1>5. ASSUME NEW y, NEW r, NEW k, NEW b \in Quad, NEW z, InPair(z, y, r)
        PROVE  P(y, r, k, b) = R(z, y, k, b)
    <2>1. 2 * y + r = z
      BY <1>5 DEF InPair
    <2>2. y * (4 * Pairs(f) + 2 * f.dst - 2 * f.w) + r * f.dst = 2 * w * z
      <3>1. y * (4 * v + 2 * (4 * v) - 2 * (2 * v)) + r * (4 * v) = 4 * v * z
        BY <1>1, <1>5, RowOfPair
      <3>2. 2 * w = 4 * v
        BY <1>1
      <3> QED
        BY <1>1, <1>2, <3>1, <3>2
    <2>3. P(y, r, k, b) = <<2 * w * z + 4 * k + b,
                            <<CASE b = 0 -> z * w + 2 * k
                                [] b = 1 -> PlaneAt(u, line, y, step, k)
                                [] b = 2 -> z * w + 2 * k + 1
                                [] b = 3 -> PlaneAt(vv, line, y, step, k)>>>>
      BY <1>1, <2>1, <2>2 DEF PlaneAt
    <2> HIDE DEF P
    <2> QED
      BY <2>3 DEF PlaneSource
  <1>6. ASSUME NEW y, NEW r, NEW z, InPair(z, y, r)
        PROVE  z \div 2 = y /\ IsLine(y, z, 2)
    <2>1. y \in Nat /\ r \in Bit /\ z = 2 * y + r
      BY <1>6 DEF InPair
    <2>2. z \div 2 = y
      BY <2>1, IsHalf
    <2> QED
      BY <2>1, <2>2 DEF IsLine
  <1> HIDE DEF P, R, G, H, K
  <1>7. \A y \in G, r \in Bit, k \in K, b \in Quad : F[y][r][k][b] = P(y, r, k, b)
    OBVIOUS
  <1>8. \A z \in H, k \in K, b \in Quad : D[z][k][b] = R(z, z \div 2, k, b)
    OBVIOUS
  <1> HIDE DEF F, D
  <1>13. /\ \A y \in 0 .. g - 1, r \in Bit : \E z \in H : InPair(z, y, r)
         /\ \A z \in H : \E y \in 0 .. g - 1, r \in Bit : InPair(z, y, r)
    BY <1>14, ByRowPairs DEF H
  <1>9. ByTwo(F, D, g, v)
    <2> SUFFICES ASSUME NEW y \in G, NEW r \in Bit, NEW z, NEW k \in K, NEW b \in Quad,
                        InPair(z, y, r)
                 PROVE  F[y][r][k][b] = D[z][k][b]
      BY <1>2, <1>3 DEF ByTwo
    <2>2. z \in H
      BY <1>3, <1>14 DEF H, InPair, Bit
    <2>3. F[y][r][k][b] = P(y, r, k, b)
      BY <1>7
    <2>4. D[z][k][b] = R(z, z \div 2, k, b)
      BY <1>8, <2>2
    <2>5. z \div 2 = y /\ P(y, r, k, b) = R(z, y, k, b)
      BY <1>5, <1>6
    <2> QED
      BY <2>3, <2>4, <2>5
  <1>10. Planar420(f, u, vv, step, line) = Looped(D, v, h)
    <2>1. {F[y][r][k][b] : y \in 0 .. g - 1, r \in Bit, k \in 0 .. v - 1, b \in Quad}
            = Looped(D, v, h)
      BY <1>9, <1>14, ByTwoRows
    <2> QED
      BY <1>2, <1>3, <1>4, <1>7, <2>1
  <1>11. \A z \in 0 .. h - 1, k \in 0 .. v - 1, b \in Quad : \E cy :
             IsLine(cy, z, 2) /\ D[z][k][b] = R(z, cy, k, b)
    <2> SUFFICES ASSUME NEW z \in H, NEW k \in K, NEW b \in Quad
                 PROVE  \E cy : IsLine(cy, z, 2) /\ D[z][k][b] = R(z, cy, k, b)
      BY <1>2 DEF H
    <2>1. D[z][k][b] = R(z, z \div 2, k, b)
      BY <1>8
    <2>2. PICK y, r : InPair(z, y, r)
      BY <1>13
    <2>3. z \div 2 = y /\ IsLine(y, z, 2)
      BY <1>6, <2>2
    <2> QED
      BY <2>1, <2>3
  <1>12. {Shift(write, 0) : write \in Looped(D, v, h)} = Wanted(c)
    <2>1. WritesPlanes(D, v, w, h, u, vv, step, line, 2)
      BY <1>11 DEF R, WritesPlanes
    <2> QED
      BY <2>1, GrabbedPlanes
  <1> QED
    BY <1>10, <1>12

\* The planes by V4L2's definitions: of two components in turn ...
LEMMA PlanesInTurn ==
    ASSUME NEW fmt, NEW m, NEW w, NEW a, m.w = w, a = m.w * m.h, a \in Nat,
           fmt \in {"NV12", "NV21", "NV16", "NV61"}
    PROVE  LET rows == IF fmt \in {"NV16", "NV61"} THEN 1 ELSE 2
               u    == IF fmt \in {"NV12", "NV16"} THEN a ELSE a + 1
               vv   == IF fmt \in {"NV12", "NV16"} THEN a + 1 ELSE a
           IN  IsPlane(fmt, m, "U", u, 2, w, rows) /\ IsPlane(fmt, m, "V", vv, 2, w, rows)
  <1>1. a + 0 = a
    OBVIOUS
  <1>2. CASE fmt = "NV12"
    BY <1>1, <1>2 DEF IsPlane, ChromaPlane
  <1>3. CASE fmt = "NV21"
    BY <1>1, <1>3 DEF IsPlane, ChromaPlane
  <1>4. CASE fmt = "NV16"
    BY <1>1, <1>4 DEF IsPlane, ChromaPlane
  <1>5. CASE fmt = "NV61"
    BY <1>1, <1>5 DEF IsPlane, ChromaPlane
  <1> QED
    BY <1>2, <1>3, <1>4, <1>5

\* ... or of one.
LEMMA PlanesOfOne ==
    ASSUME NEW fmt, NEW m, NEW v, NEW a, NEW p, v = m.w \div 2, a = m.w * m.h, a \in Nat,
           p = a \div 4, fmt \in {"YUV420", "YVU420"}
    PROVE  LET u  == IF fmt = "YUV420" THEN a ELSE a + p
               vv == IF fmt = "YUV420" THEN a + p ELSE a
           IN  IsPlane(fmt, m, "U", u, 1, v, 2) /\ IsPlane(fmt, m, "V", vv, 1, v, 2)
  <1>1. a + 0 = a
    OBVIOUS
  <1>2. CASE fmt = "YUV420"
    BY <1>1, <1>2 DEF IsPlane, ChromaPlane
  <1>3. CASE fmt = "YVU420"
    BY <1>1, <1>3 DEF IsPlane, ChromaPlane
  <1> QED
    BY <1>2, <1>3

\* The six planar formats.
LEMMA GrabbedPlanar ==
    ASSUME NEW c, NEW v, NEW w, NEW h, NEW g, NEW f, NEW src,
           IsWholeFrame(c, v, w, h), IsCall(f, v, w, h, src), Twice(h, g)
    PROVE  /\ c.fmt = "NV16"   => {Shift(e, 0) : e \in nv16_to_yuyv(f)} = Wanted(c)
           /\ c.fmt = "NV61"   => {Shift(e, 0) : e \in nv61_to_yuyv(f)} = Wanted(c)
           /\ c.fmt = "NV12"   => {Shift(e, 0) : e \in nv12_to_yuyv(f)} = Wanted(c)
           /\ c.fmt = "NV21"   => {Shift(e, 0) : e \in nv21_to_yuyv(f)} = Wanted(c)
           /\ c.fmt = "YUV420" => {Shift(e, 0) : e \in yuv420_to_yuyv(f)} = Wanted(c)
           /\ c.fmt = "YVU420" => {Shift(e, 0) : e \in yvu420_to_yuyv(f)} = Wanted(c)
  <1>1. /\ v \in Nat /\ w \in Nat /\ h \in Nat /\ w = 2 * v /\ f.w = w /\ f.h = h
        /\ c.mode.w = w /\ c.mode.h = h
    BY DEF IsCall, IsWholeFrame, IsCrop
  <1>2. PICK a : a = w * h
    BY Zenon
  <1>3. PICK p : p = a \div 4
    BY Zenon
  <1>4. a \in Nat
    BY <1>1, <1>2
  <1>5. p \in Nat
    BY <1>3, <1>4
  <1>6. f.w \div 2 = v /\ c.mode.w \div 2 = v
    BY <1>1, IsHalf DEF Bit
  <1>7. f.w * f.h = a /\ c.mode.w * c.mode.h = a
    BY <1>1, <1>2
  <1>8. a + 1 \in Nat /\ a + p \in Nat
    BY <1>4, <1>5
  <1>9. ASSUME c.fmt = "NV16"
        PROVE  {Shift(e, 0) : e \in nv16_to_yuyv(f)} = Wanted(c)
    <2>1. /\ IsPlane(c.fmt, c.mode, "U", a, 2, w, 1)
          /\ IsPlane(c.fmt, c.mode, "V", a + 1, 2, w, 1)
      BY <1>1, <1>4, <1>7, <1>9, PlanesInTurn
    <2>2. HasPlanes(c, w, a, a + 1, 2, w, 1)
      BY <1>1, <1>4, <1>8, <1>9, <2>1 DEF HasPlanes, PlanarFormats
    <2>3. {Shift(e, 0) : e \in Planar422(f, a, a + 1, 2, w)} = Wanted(c)
      BY <2>2, Grabbed422
    <2>4. nv16_to_yuyv(f) = Planar422(f, a, a + 1, 2, w)
      BY <1>1, <1>7 DEF nv16_to_yuyv
    <2> QED
      BY <2>3, <2>4
  <1>10. ASSUME c.fmt = "NV61"
         PROVE  {Shift(e, 0) : e \in nv61_to_yuyv(f)} = Wanted(c)
    <2>1. /\ IsPlane(c.fmt, c.mode, "U", a + 1, 2, w, 1)
          /\ IsPlane(c.fmt, c.mode, "V", a, 2, w, 1)
      BY <1>1, <1>4, <1>7, <1>10, PlanesInTurn
    <2>2. HasPlanes(c, w, a + 1, a, 2, w, 1)
      BY <1>1, <1>4, <1>8, <1>10, <2>1 DEF HasPlanes, PlanarFormats
    <2>3. {Shift(e, 0) : e \in Planar422(f, a + 1, a, 2, w)} = Wanted(c)
      BY <2>2, Grabbed422
    <2>4. nv61_to_yuyv(f) = Planar422(f, a + 1, a, 2, w)
      BY <1>1, <1>7 DEF nv61_to_yuyv
    <2> QED
      BY <2>3, <2>4
  <1>11. ASSUME c.fmt = "NV12"
         PROVE  {Shift(e, 0) : e \in nv12_to_yuyv(f)} = Wanted(c)
    <2>1. /\ IsPlane(c.fmt, c.mode, "U", a, 2, w, 2)
          /\ IsPlane(c.fmt, c.mode, "V", a + 1, 2, w, 2)
      BY <1>1, <1>4, <1>7, <1>11, PlanesInTurn
    <2>2. HasPlanes(c, w, a, a + 1, 2, w, 2)
      BY <1>1, <1>4, <1>8, <1>11, <2>1 DEF HasPlanes, PlanarFormats
    <2>3. {Shift(e, 0) : e \in Planar420(f, a, a + 1, 2, w)} = Wanted(c)
      BY <2>2, Grabbed420
    <2>4. nv12_to_yuyv(f) = Planar420(f, a, a + 1, 2, w)
      BY <1>1, <1>7 DEF nv12_to_yuyv
    <2> QED
      BY <2>3, <2>4
  <1>12. ASSUME c.fmt = "NV21"
         PROVE  {Shift(e, 0) : e \in nv21_to_yuyv(f)} = Wanted(c)
    <2>1. /\ IsPlane(c.fmt, c.mode, "U", a + 1, 2, w, 2)
          /\ IsPlane(c.fmt, c.mode, "V", a, 2, w, 2)
      BY <1>1, <1>4, <1>7, <1>12, PlanesInTurn
    <2>2. HasPlanes(c, w, a + 1, a, 2, w, 2)
      BY <1>1, <1>4, <1>8, <1>12, <2>1 DEF HasPlanes, PlanarFormats
    <2>3. {Shift(e, 0) : e \in Planar420(f, a + 1, a, 2, w)} = Wanted(c)
      BY <2>2, Grabbed420
    <2>4. nv21_to_yuyv(f) = Planar420(f, a + 1, a, 2, w)
      BY <1>1, <1>7 DEF nv21_to_yuyv
    <2> QED
      BY <2>3, <2>4
  <1>13. ASSUME c.fmt = "YUV420"
         PROVE  {Shift(e, 0) : e \in yuv420_to_yuyv(f)} = Wanted(c)
    <2>1. /\ IsPlane(c.fmt, c.mode, "U", a, 1, v, 2)
          /\ IsPlane(c.fmt, c.mode, "V", a + p, 1, v, 2)
      BY <1>3, <1>4, <1>6, <1>7, <1>13, PlanesOfOne
    <2>2. HasPlanes(c, w, a, a + p, 1, v, 2)
      BY <1>1, <1>4, <1>8, <1>13, <2>1 DEF HasPlanes, PlanarFormats
    <2>3. {Shift(e, 0) : e \in Planar420(f, a, a + p, 1, v)} = Wanted(c)
      BY <2>2, Grabbed420
    <2>4. yuv420_to_yuyv(f) = Planar420(f, a, a + p, 1, v)
      BY <1>3, <1>6, <1>7 DEF yuv420_to_yuyv
    <2> QED
      BY <2>3, <2>4
  <1>14. ASSUME c.fmt = "YVU420"
         PROVE  {Shift(e, 0) : e \in yvu420_to_yuyv(f)} = Wanted(c)
    <2>1. /\ IsPlane(c.fmt, c.mode, "U", a + p, 1, v, 2)
          /\ IsPlane(c.fmt, c.mode, "V", a, 1, v, 2)
      BY <1>3, <1>4, <1>6, <1>7, <1>14, PlanesOfOne
    <2>2. HasPlanes(c, w, a + p, a, 1, v, 2)
      BY <1>1, <1>4, <1>8, <1>14, <2>1 DEF HasPlanes, PlanarFormats
    <2>3. {Shift(e, 0) : e \in Planar420(f, a + p, a, 1, v)} = Wanted(c)
      BY <2>2, Grabbed420
    <2>4. yvu420_to_yuyv(f) = Planar420(f, a + p, a, 1, v)
      BY <1>3, <1>6, <1>7 DEF yvu420_to_yuyv
    <2> QED
      BY <2>3, <2>4
  <1> QED
    BY <1>9, <1>10, <1>11, <1>12, <1>13, <1>14

-----------------------------------------------------------------------------
(***************************************************************************)
(* Formats of two rows in a block.                                         *)
(***************************************************************************)
\* D[z][k][q] is the write of byte q of pair k in row z of c's whole frame.
IsSource(c, z, x, i, j, a) == a \in Int /\ Pixel(c.fmt, c.mode, Letter(i, j), x, z) = <<a>>

WritesPixels(D, c, v, w, h) ==
    \A z \in 0 .. h - 1, k \in 0 .. v - 1, i \in Bit, j \in Bit : \A q, x :
        InPair(q, i, j) /\ InPair(x, k, i) =>
            \E a : IsSource(c, z, x, i, j, a) /\ D[z][k][q] = <<2 * w * z + 4 * k + q, <<a>>>>

\* A loop that writes each byte from its pixel writes the whole frame.
LEMMA GrabbedPixels ==
    ASSUME NEW c, NEW v, NEW w, NEW h, NEW D,
           IsWholeFrame(c, v, w, h), WritesPixels(D, c, v, w, h)
    PROVE  {Shift(write, 0) : write \in Looped(D, v, h)} = Wanted(c)
  <1>1. IsCrop(c, v, w, h, w, 0, 0, 0) /\ v \in Nat /\ w \in Nat /\ h \in Nat
    BY DEF IsWholeFrame, IsCrop
  <1>2. ASSUME NEW z \in 0 .. h - 1, NEW k \in 0 .. v - 1, NEW i \in Bit, NEW j \in Bit
        PROVE  Shift(D[z][k][2 * i + j], 0) = Byte(c, w, 0, 0, z, k, i, j)
    <2>1. z \in Nat /\ k \in Nat /\ i \in Nat /\ j \in Nat
      BY <1>1 DEF Bit
    <2>2. PICK q : q = 2 * i + j
      OBVIOUS
    <2>3. PICK x : x = 2 * k + i
      OBVIOUS
    <2>4. InPair(q, i, j) /\ InPair(x, k, i)
      BY <2>1, <2>2, <2>3 DEF InPair
    <2>5. PICK a : IsSource(c, z, x, i, j, a) /\ D[z][k][q] = <<2 * w * z + 4 * k + q, <<a>>>>
      BY <2>4 DEF WritesPixels
    <2>6. PICK to : to = 2 * w * z + 4 * k + q
      BY Zenon
    <2>7. a \in Int /\ Pixel(c.fmt, c.mode, Letter(i, j), x, z) = <<a>>
      BY <2>5 DEF IsSource
    <2>8. Shift(<<to, <<a>>>>, 0) = <<to, <<a>>>>
      BY <2>7, ShiftNone, Zenon
    <2>9. 0 + k = k /\ 0 + z = z /\ to = 2 * w * z + 4 * k + 2 * i + j
      BY <1>1, <2>1, <2>2, <2>6
    <2>10. Byte(c, w, 0, 0, z, k, i, j) = <<to, <<a>>>>
      BY <2>3, <2>7, <2>9 DEF Byte
    <2> QED
      BY <2>2, <2>5, <2>6, <2>8, <2>10
  <1> QED
    BY <1>1, <1>2, WantedByPairs

\* Where the parts of a block of two rows of w = 2 * v pixels begin.
IsBlock(fmt, w, v, u, y1, vv) ==
    /\ fmt \in DOMAIN BlockLayout
    /\ Before(BlockLayout[fmt], "Y0", w, v) = 0 /\ Before(BlockLayout[fmt], "Y1", w, v) = y1
    /\ Before(BlockLayout[fmt], "U", w, v) = u /\ Before(BlockLayout[fmt], "V", w, v) = vv

\* The places of the parts of a block in the three formats.
LEMMA Blocks ==
    ASSUME NEW w \in Nat, NEW v \in Nat
    PROVE  /\ IsBlock("SPCA501", w, v, w, w + v, 2 * w + v)
           /\ IsBlock("SPCA505", w, v, 2 * w, w, 2 * w + v)
           /\ IsBlock("SPCA508", w, v, w, 2 * v + w, w + v)
  <1>1. IsBlock("SPCA501", w, v, w, w + v, 2 * w + v)
    BY DEF IsBlock, Before, BlockLayout
  <1>2. IsBlock("SPCA505", w, v, 2 * w, w, 2 * w + v)
    BY DEF IsBlock, Before, BlockLayout
  <1>3. IsBlock("SPCA508", w, v, w, 2 * v + w, w + v)
    BY DEF IsBlock, Before, BlockLayout
  <1> QED
    BY <1>1, <1>2, <1>3

\* Where byte q of pair k is, in row r of block y.
BlockSource(w, u, y1, vv, y, r, k, q) ==
    y * (3 * w) + (CASE q = 0 -> r * y1 + 2 * k
                     [] q = 1 -> u + k
                     [] q = 2 -> r * y1 + 2 * k + 1
                     [] q = 3 -> vv + k)

\* The source of byte q of pair k is the component that it stands for.
LEMMA PixelOfBlock ==
    ASSUME NEW c, NEW v, NEW w, NEW u, NEW y1, NEW vv, NEW z, NEW y, NEW r,
           NEW x, NEW k, NEW q, NEW i, NEW j,
           v \in Nat, w \in Nat, w = 2 * v, c.mode.w = w, u \in Nat, y1 \in Nat, vv \in Nat,
           IsBlock(c.fmt, w, v, u, y1, vv), InPair(z, y, r), InPair(x, k, i), InPair(q, i, j)
    PROVE  IsSource(c, z, x, i, j, BlockSource(w, u, y1, vv, y, r, k, q))
  <1>1. /\ y \in Nat /\ k \in Nat /\ r \in Bit /\ i \in Bit /\ j \in Bit
        /\ z = 2 * y + r /\ x = 2 * k + i /\ q = 2 * i + j
    BY DEF InPair
  <1>2. z \div 2 = y /\ z % 2 = r /\ x \div 2 = k /\ w \div 2 = v
    <2>1. z \div 2 = y /\ z % 2 = r
      BY <1>1, IsHalf
    <2>2. x \div 2 = k
      BY <1>1, IsHalf
    <2>3. (2 * v + 0) \div 2 = v
      BY IsHalf DEF Bit
    <2> QED
      BY <2>1, <2>2, <2>3
  <1> DEFINE L == BlockLayout[c.fmt]
             comp == Letter(i, j)
  <1>3. Pixel(c.fmt, c.mode, comp, x, z) = BlockPixel(c.fmt, c.mode, comp, x, z)
    BY PixelKind DEF IsBlock
  <1>4. BlockPixel(c.fmt, c.mode, comp, x, z)
          = <<3 * w * y + Before(L, Component(comp, r), w, v) + (IF comp = "Y" THEN x ELSE k)>>
    BY <1>2 DEF BlockPixel
  <1>5. PICK a \in Nat : a = y * (3 * w) /\ a = 3 * w * y
    BY <1>1
  <1>6. /\ Before(L, "Y0", w, v) = 0 /\ Before(L, "Y1", w, v) = y1
        /\ Before(L, "U", w, v) = u /\ Before(L, "V", w, v) = vv
    BY DEF IsBlock
  <1> HIDE DEF L
  <1>7. CASE j = 0 /\ i = 0 /\ r = 0
    BY <1>1, <1>3, <1>4, <1>5, <1>6, <1>7 DEF BlockSource, IsSource, Letter, Component
  <1>8. CASE j = 0 /\ i = 0 /\ r = 1
    BY <1>1, <1>3, <1>4, <1>5, <1>6, <1>8 DEF BlockSource, IsSource, Letter, Component
  <1>9. CASE j = 0 /\ i = 1 /\ r = 0
    BY <1>1, <1>3, <1>4, <1>5, <1>6, <1>9 DEF BlockSource, IsSource, Letter, Component
  <1>10. CASE j = 0 /\ i = 1 /\ r = 1
    BY <1>1, <1>3, <1>4, <1>5, <1>6, <1>10 DEF BlockSource, IsSource, Letter, Component
  <1>11. CASE j = 1 /\ i = 0
    BY <1>1, <1>3, <1>4, <1>5, <1>6, <1>11 DEF BlockSource, IsSource, Letter, Component
  <1>12. CASE j = 1 /\ i = 1
    BY <1>1, <1>3, <1>4, <1>5, <1>6, <1>12 DEF BlockSource, IsSource, Letter, Component
  <1> QED
    BY <1>1, <1>7, <1>8, <1>9, <1>10, <1>11, <1>12 DEF Bit

HasBlocks(c, w, v, u, y1, vv) ==
    IsBlock(c.fmt, w, v, u, y1, vv) /\ u \in Nat /\ y1 \in Nat /\ vv \in Nat

\* The converters of blocks of two rows.
LEMMA GrabbedBlocks ==
    ASSUME NEW c, NEW v, NEW w, NEW h, NEW g, NEW u, NEW y1, NEW vv, NEW f, NEW src,
           IsWholeFrame(c, v, w, h), HasBlocks(c, w, v, u, y1, vv),
           IsCall(f, v, w, h, src), Twice(h, g)
    PROVE  {Shift(write, 0) : write \in Spca(f, u, y1, vv)} = Wanted(c)
  <1> DEFINE G == 0 .. (f.h \div 2) - 1
             H == 0 .. h - 1
             K == 0 .. (f.w \div 2) - 1
             P(y, r, k, b) ==
                 <<y * (2 * f.dst + 4 * (f.w \div 2) - 2 * f.w) + r * f.dst + 4 * k + b,
                   <<y * (2 * f.w + 2 * (f.w \div 2)) +
                       (CASE b = 0 -> r * y1 + 2 * k
                          [] b = 1 -> u + k
                          [] b = 2 -> r * y1 + 2 * k + 1
                          [] b = 3 -> vv + k)>>>>
             R(z, y, r, k, b) == <<2 * w * z + 4 * k + b,
                                   <<BlockSource(w, u, y1, vv, y, r, k, b)>>>>
             F == [y \in G |-> [r \in Bit |-> [k \in K |-> [b \in Quad |-> P(y, r, k, b)]]]]
             D == [z \in H |-> [k \in K |-> [b \in Quad |-> P(z \div 2, z % 2, k, b)]]]
  <1>1. /\ v \in Nat /\ w \in Nat /\ w = 2 * v /\ h \in Nat
        /\ f.w = w /\ f.h = h /\ f.dst = 2 * w
        /\ c.mode.w = w /\ g \in Nat /\ h = 2 * g
    BY DEF IsCall, IsWholeFrame, IsCrop, Twice
  <1>3. IsBlock(c.fmt, w, v, u, y1, vv) /\ u \in Nat /\ y1 \in Nat /\ vv \in Nat
    BY DEF HasBlocks
  <1>2. K = 0 .. v - 1 /\ f.w \div 2 = v /\ G = 0 .. g - 1
    <2>1. (2 * v + 0) \div 2 = v
      BY <1>1, IsHalf DEF Bit
    <2>2. (2 * g + 0) \div 2 = g
      BY <1>1, IsHalf DEF Bit
    <2>3. f.w = 2 * v + 0 /\ f.h = 2 * g + 0
      BY <1>1
    <2> QED
      BY <2>1, <2>2, <2>3
  <1>4. Spca(f, u, y1, vv) = {P(y, r, k, b) : y \in G, r \in Bit, k \in K, b \in Quad}
    BY DEF Spca, Bit
  <1>5. ASSUME NEW y, NEW r, NEW k, NEW b, NEW z, InPair(z, y, r)
        PROVE  P(y, r, k, b) = R(z, y, r, k, b)
    <2>1. y * (2 * f.dst + 4 * (f.w \div 2) - 2 * f.w) + r * f.dst = 2 * w * z
      <3>1. y * (4 * v + 2 * (4 * v) - 2 * (2 * v)) + r * (4 * v) = 4 * v * z
        BY <1>1, <1>5, RowOfPair
      <3>2. 2 * w = 4 * v /\ 2 * f.dst + 4 * (f.w \div 2) - 2 * f.w
                               = 4 * v + 2 * (4 * v) - 2 * (2 * v)
        BY <1>1, <1>2
      <3> QED
        BY <1>1, <3>1, <3>2
    <2>2. 2 * f.w + 2 * (f.w \div 2) = 3 * w
      <3>1. 2 * w + 2 * v = 3 * w
        BY <1>1
      <3> QED
        BY <1>1, <1>2, <3>1
    <2> QED
      BY <2>1, <2>2 DEF BlockSource
  <1>6. ASSUME NEW y, NEW r, NEW z, InPair(z, y, r)
        PROVE  z \div 2 = y /\ z % 2 = r
    <2>1. y \in Nat /\ r \in Bit /\ z = 2 * y + r
      BY <1>6 DEF InPair
    <2> QED
      BY <2>1, IsHalf
  <1> HIDE DEF P, R, G, H, K
  <1>7. \A y \in G, r \in Bit, k \in K, b \in Quad : F[y][r][k][b] = P(y, r, k, b)
    OBVIOUS
  <1>8. \A z \in H, k \in K, b \in Quad : D[z][k][b] = P(z \div 2, z % 2, k, b)
    OBVIOUS
  <1> HIDE DEF F, D
  <1>9. /\ \A y \in 0 .. g - 1, r \in Bit : \E z \in H : InPair(z, y, r)
        /\ \A z \in H : \E y \in 0 .. g - 1, r \in Bit : InPair(z, y, r)
    BY <1>1, ByRowPairs DEF H
  <1>10. ASSUME NEW y \in G, NEW r \in Bit, NEW z \in H, NEW k \in K, NEW b \in Quad,
                InPair(z, y, r)
         PROVE  D[z][k][b] = P(y, r, k, b)
    <2>1. z \div 2 = y /\ z % 2 = r
      BY <1>6, <1>10
    <2> QED
      BY <1>8, <2>1
  <1>11. ByTwo(F, D, g, v)
    <2> SUFFICES ASSUME NEW y \in G, NEW r \in Bit, NEW z, NEW k \in K, NEW b \in Quad,
                        InPair(z, y, r)
                 PROVE  F[y][r][k][b] = D[z][k][b]
      BY <1>2 DEF ByTwo
    <2>1. z \in H
      BY <1>1, <1>2 DEF H, InPair, Bit
    <2> QED
      BY <1>7, <1>10, <2>1
  <1>12. Spca(f, u, y1, vv) = Looped(D, v, h)
    <2>1. {F[y][r][k][b] : y \in 0 .. g - 1, r \in Bit, k \in 0 .. v - 1, b \in Quad}
            = Looped(D, v, h)
      BY <1>1, <1>11, ByTwoRows
    <2> QED
      BY <1>2, <1>4, <1>7, <2>1
  <1>13. WritesPixels(D, c, v, w, h)
    <2> SUFFICES ASSUME NEW z \in H, NEW k \in K, NEW i \in Bit, NEW j \in Bit,
                        NEW q, NEW x, InPair(q, i, j), InPair(x, k, i)
                 PROVE  \E a : /\ IsSource(c, z, x, i, j, a)
                               /\ D[z][k][q] = <<2 * w * z + 4 * k + q, <<a>>>>
      BY <1>2 DEF WritesPixels, H
    <2>1. PICK y \in G, r \in Bit : InPair(z, y, r)
      BY <1>2, <1>9
    <2>2. q \in Quad
      BY DEF Quad, InPair, Bit
    <2>3. D[z][k][q] = R(z, y, r, k, q)
      BY <1>5, <1>10, <2>1, <2>2
    <2>4. PICK a : a = BlockSource(w, u, y1, vv, y, r, k, q)
      BY Zenon
    <2>5. IsSource(c, z, x, i, j, a)
      BY <1>1, <1>3, <2>1, <2>4, PixelOfBlock
    <2> QED
      BY <2>3, <2>4, <2>5 DEF R
  <1> QED
    BY <1>12, <1>13, GrabbedPixels

\* The three formats of SPCA50x.
LEMMA GrabbedSpca ==
    ASSUME NEW c, NEW v, NEW w, NEW h, NEW g, NEW f, NEW src,
           IsWholeFrame(c, v, w, h), IsCall(f, v, w, h, src), Twice(h, g)
    PROVE  /\ c.fmt = "SPCA501" => {Shift(e, 0) : e \in s501_to_yuyv(f)} = Wanted(c)
           /\ c.fmt = "SPCA505" => {Shift(e, 0) : e \in s505_to_yuyv(f)} = Wanted(c)
           /\ c.fmt = "SPCA508" => {Shift(e, 0) : e \in s508_to_yuyv(f)} = Wanted(c)
  <1>1. v \in Nat /\ w \in Nat /\ f.w = w /\ w = 2 * v
    BY DEF IsCall
  <1>2. f.w \div 2 = v
    BY <1>1, IsHalf DEF Bit
  <1>3. w + v \in Nat /\ 2 * w + v \in Nat /\ 2 * w \in Nat /\ 2 * v + w \in Nat
    BY <1>1
  <1>4. /\ IsBlock("SPCA501", w, v, w, w + v, 2 * w + v)
        /\ IsBlock("SPCA505", w, v, 2 * w, w, 2 * w + v)
        /\ IsBlock("SPCA508", w, v, w, 2 * v + w, w + v)
    BY <1>1, Blocks
  <1>5. ASSUME c.fmt = "SPCA501"
        PROVE  {Shift(e, 0) : e \in s501_to_yuyv(f)} = Wanted(c)
    <2>1. PICK u : u = w
      OBVIOUS
    <2>2. PICK y1 : y1 = w + v
      OBVIOUS
    <2>3. PICK vv : vv = 2 * w + v
      OBVIOUS
    <2>4. HasBlocks(c, w, v, u, y1, vv)
      BY <1>1, <1>3, <1>4, <1>5, <2>1, <2>2, <2>3 DEF HasBlocks
    <2>5. {Shift(e, 0) : e \in Spca(f, u, y1, vv)} = Wanted(c)
      BY <2>4, GrabbedBlocks
    <2>6. s501_to_yuyv(f) = Spca(f, u, y1, vv)
      BY <1>1, <1>2, <2>1, <2>2, <2>3 DEF s501_to_yuyv
    <2> QED
      BY <2>5, <2>6
  <1>6. ASSUME c.fmt = "SPCA505"
        PROVE  {Shift(e, 0) : e \in s505_to_yuyv(f)} = Wanted(c)
    <2>1. PICK u : u = 2 * w
      OBVIOUS
    <2>2. PICK y1 : y1 = w
      OBVIOUS
    <2>3. PICK vv : vv = 2 * w + v
      OBVIOUS
    <2>4. HasBlocks(c, w, v, u, y1, vv)
      BY <1>1, <1>3, <1>4, <1>6, <2>1, <2>2, <2>3 DEF HasBlocks
    <2>5. {Shift(e, 0) : e \in Spca(f, u, y1, vv)} = Wanted(c)
      BY <2>4, GrabbedBlocks
    <2>6. s505_to_yuyv(f) = Spca(f, u, y1, vv)
      BY <1>1, <1>2, <2>1, <2>2, <2>3 DEF s505_to_yuyv
    <2> QED
      BY <2>5, <2>6
  <1>7. ASSUME c.fmt = "SPCA508"
        PROVE  {Shift(e, 0) : e \in s508_to_yuyv(f)} = Wanted(c)
    <2>1. PICK u : u = w
      OBVIOUS
    <2>2. PICK y1 : y1 = 2 * v + w
      OBVIOUS
    <2>3. PICK vv : vv = w + v
      OBVIOUS
    <2>4. HasBlocks(c, w, v, u, y1, vv)
      BY <1>1, <1>3, <1>4, <1>7, <2>1, <2>2, <2>3 DEF HasBlocks
    <2>5. {Shift(e, 0) : e \in Spca(f, u, y1, vv)} = Wanted(c)
      BY <2>4, GrabbedBlocks
    <2>6. s508_to_yuyv(f) = Spca(f, u, y1, vv)
      BY <1>1, <1>2, <2>1, <2>2, <2>3 DEF s508_to_yuyv
    <2> QED
      BY <2>5, <2>6
  <1> QED
    BY <1>5, <1>6, <1>7

-----------------------------------------------------------------------------
\* The bytes of two pixels, one behind the other.
LEMMA SixBytes ==
    ASSUME NEW g1, NEW g2, NEW g3, NEW k1, NEW k2, NEW k3
    PROVE  <<g1, g2, g3>> \o <<k1, k2, k3>> = <<g1, g2, g3, k1, k2, k3>>
  <1> DEFINE S == {g1, g2, g3, k1, k2, k3}
             a == <<g1, g2, g3>>
             b == <<k1, k2, k3>>
             r == <<g1, g2, g3, k1, k2, k3>>
  <1>1. a \in Seq(S) /\ b \in Seq(S) /\ r \in Seq(S) /\ Len(a) = 3 /\ Len(b) = 3 /\ Len(r) = 6
    OBVIOUS
  <1>2. /\ Len(a \o b) = 6 /\ a \o b \in Seq(S)
        /\ \A i \in 1 .. 6 : (a \o b)[i] = IF i <= 3 THEN a[i] ELSE b[i - 3]
    BY <1>1, ConcatProperties
  <1>3. \A i \in 1 .. 6 : (a \o b)[i] = r[i]
    <2> SUFFICES ASSUME NEW i \in 1 .. 6
                 PROVE  (a \o b)[i] = r[i]
      OBVIOUS
    <2>1. (a \o b)[i] = IF i <= 3 THEN a[i] ELSE b[i - 3]
      BY <1>2
    <2> HIDE DEF S
    <2>2. i = 1 \/ i = 2 \/ i = 3 \/ i = 4 \/ i = 5 \/ i = 6
      OBVIOUS
    <2>3. (IF i <= 3 THEN a[i] ELSE b[i - 3]) = r[i]
      BY <2>2
    <2> QED
      BY <2>1, <2>3
  <1>4. \A i \in 1 .. Len(r) : (a \o b)[i] = r[i]
    BY <1>1, <1>3
  <1> HIDE DEF S, a, b, r
  <1>5. a \o b = r
    BY <1>1, <1>2, <1>4, SeqEqual
  <1> QED
    BY <1>5 DEF a, b, r

-----------------------------------------------------------------------------
(***************************************************************************)
(* Formats of three colours, from which each component is computed.        *)
(***************************************************************************)
\* The bytes of a pixel at byte a, if first leads to its colours.
RgbAt(a, first) == <<a + first[1], a + first[2], a + first[3]>>
Leads == {<<0, 1, 2>>, <<2, 1, 0>>}

\* The three colours of a pixel, and where a shift leaves them.
LEMMA ColoursOf ==
    ASSUME NEW a \in Int, NEW first \in Leads
    PROVE  /\ [c \in 1 .. 3 |-> a + first[c]] = RgbAt(a, first)
           /\ \A p, n \in Int : Shift(<<p, RgbAt(a, first)>>, n) = <<p, RgbAt(n + a, first)>>
  <1>1. PICK f1 \in Int, f2 \in Int, f3 \in Int :
              f1 = first[1] /\ f2 = first[2] /\ f3 = first[3]
    BY DEF Leads
  <1>2. [c \in 1 .. 3 |-> a + first[c]] = <<a + first[1], a + first[2], a + first[3]>>
    BY <1>1
  <1>3. ASSUME NEW p, NEW n \in Int
        PROVE  Shift(<<p, RgbAt(a, first)>>, n) = <<p, RgbAt(n + a, first)>>
    <2>1. PICK r1 \in Int, r2 \in Int, r3 \in Int :
              r1 = a + f1 /\ r2 = a + f2 /\ r3 = a + f3
      BY <1>1
    <2>2. RgbAt(a, first) = <<r1, r2, r3>>
      BY <1>1, <2>1 DEF RgbAt
    <2>3. [i \in DOMAIN <<r1, r2, r3>> |-> n + <<r1, r2, r3>>[i]] = <<n + r1, n + r2, n + r3>>
      OBVIOUS
    <2>4. n + r1 = (n + a) + f1 /\ n + r2 = (n + a) + f2 /\ n + r3 = (n + a) + f3
      BY <2>1
    <2>5. RgbAt(n + a, first) = <<n + r1, n + r2, n + r3>>
      BY <1>1, <2>4 DEF RgbAt
    <2>6. Shift(<<p, <<r1, r2, r3>>>>, n) = <<p, <<n + r1, n + r2, n + r3>>>>
      BY <2>3 DEF Shift
    <2> QED
      BY <2>2, <2>5, <2>6
  <1> QED
    BY <1>2, <1>3 DEF RgbAt

\* The same for the bytes of two pixels.
ShiftsTwo(a, b, first, p, n) ==
    Shift(<<p, RgbAt(a, first) \o RgbAt(b, first)>>, n)
        = <<p, RgbAt(n + a, first) \o RgbAt(n + b, first)>>

\* A shift of the six colours of two pixels.
LEMMA ColoursOfTwo ==
    ASSUME NEW a \in Int, NEW b \in Int, NEW first \in Leads, NEW p, NEW n \in Int
    PROVE  ShiftsTwo(a, b, first, p, n)
  <1>1. PICK f1 \in Int, f2 \in Int, f3 \in Int :
              f1 = first[1] /\ f2 = first[2] /\ f3 = first[3]
    BY DEF Leads
  <1>2. PICK r1 \in Int, r2 \in Int, r3 \in Int :
            r1 = a + f1 /\ r2 = a + f2 /\ r3 = a + f3
    BY <1>1
  <1>3. PICK s1 \in Int, s2 \in Int, s3 \in Int :
            s1 = b + f1 /\ s2 = b + f2 /\ s3 = b + f3
    BY <1>1
  <1>4. RgbAt(a, first) = <<r1, r2, r3>> /\ RgbAt(b, first) = <<s1, s2, s3>>
    BY <1>1, <1>2, <1>3 DEF RgbAt
  <1>5. RgbAt(a, first) \o RgbAt(b, first) = <<r1, r2, r3, s1, s2, s3>>
    BY <1>4, SixBytes
  <1>6. RgbAt(n + a, first) = <<n + r1, n + r2, n + r3>>
        /\ RgbAt(n + b, first) = <<n + s1, n + s2, n + s3>>
    <2>1. n + r1 = (n + a) + f1 /\ n + r2 = (n + a) + f2 /\ n + r3 = (n + a) + f3
      BY <1>2
    <2>2. n + s1 = (n + b) + f1 /\ n + s2 = (n + b) + f2 /\ n + s3 = (n + b) + f3
      BY <1>3
    <2> QED
      BY <1>1, <2>1, <2>2 DEF RgbAt
  <1>7. RgbAt(n + a, first) \o RgbAt(n + b, first)
          = <<n + r1, n + r2, n + r3, n + s1, n + s2, n + s3>>
    <2>1. PICK t1, t2, t3 : t1 = n + r1 /\ t2 = n + r2 /\ t3 = n + r3
      OBVIOUS
    <2>2. PICK u1, u2, u3 : u1 = n + s1 /\ u2 = n + s2 /\ u3 = n + s3
      OBVIOUS
    <2>3. <<t1, t2, t3>> \o <<u1, u2, u3>> = <<t1, t2, t3, u1, u2, u3>>
      BY SixBytes
    <2> QED
      BY <1>6, <2>1, <2>2, <2>3
  <1>8. [i \in DOMAIN <<r1, r2, r3, s1, s2, s3>> |-> n + <<r1, r2, r3, s1, s2, s3>>[i]]
          = <<n + r1, n + r2, n + r3, n + s1, n + s2, n + s3>>
    OBVIOUS
  <1>9. Shift(<<p, <<r1, r2, r3, s1, s2, s3>>>>, n)
          = <<p, <<n + r1, n + r2, n + r3, n + s1, n + s2, n + s3>>>>
    BY <1>8 DEF Shift
  <1> QED
    BY <1>5, <1>7, <1>9 DEF ShiftsTwo

\* Where pixel (x, y) is, in lines of mw pixels.
RgbBase(mw, x, y) == 3 * (mw * y + x)

FirstOf(fmt) == IF fmt = "BGR24" THEN <<2, 1, 0>> ELSE <<0, 1, 2>>
RgbFormats == {"RGB24", "BGR24"} \union DOMAIN BayerOrder

\* A frame of lines of mw pixels.
HasWidth(m, mw) == mw \in Nat /\ m.w = mw

\* The colours of a pixel, and the two pixels of a pair.
RgbBytes(fmt, m, z, y) ==
    LET at == 3 * (m.w * y + z)
    IN  IF fmt = "BGR24" THEN <<at + 2, at + 1, at>> ELSE <<at, at + 1, at + 2>>

\* The colours of pixel (z, y).
LEMMA RgbOfPixel ==
    ASSUME NEW fmt, NEW m, NEW mw, NEW z, NEW y, HasWidth(m, mw), z \in Nat, y \in Nat
    PROVE  RgbBytes(fmt, m, z, y) = RgbAt(RgbBase(mw, z, y), FirstOf(fmt))
  <1>1. PICK at \in Int : at = 3 * (mw * y + z)
    BY DEF HasWidth
  <1>2. RgbBase(mw, z, y) = at /\ at + 0 = at
    BY <1>1 DEF RgbBase
  <1>3. 3 * (m.w * y + z) = at
    BY <1>1 DEF HasWidth
  <1>4. FirstOf(fmt)[1] = (IF fmt = "BGR24" THEN 2 ELSE 0) /\ FirstOf(fmt)[2] = 1
        /\ FirstOf(fmt)[3] = (IF fmt = "BGR24" THEN 0 ELSE 2)
    BY DEF FirstOf
  <1> QED
    BY <1>2, <1>3, <1>4 DEF RgbAt, RgbBytes

\* The luminance of a pixel is computed from its own colours ...
LEMMA LumaOfRgb ==
    ASSUME NEW fmt, NEW m, NEW mw, NEW x, NEW y,
           fmt \in RgbFormats, HasWidth(m, mw), x \in Nat, y \in Nat
    PROVE  Pixel(fmt, m, "Y", x, y) = RgbAt(RgbBase(mw, x, y), FirstOf(fmt))
  <1>1. Pixel(fmt, m, "Y", x, y) = RgbPixel(fmt, m, "Y", x, y)
    BY PixelKind DEF RgbFormats
  <1>2. RgbPixel(fmt, m, "Y", x, y) = RgbBytes(fmt, m, x, y)
    BY DEF RgbPixel, RgbBytes
  <1> QED
    BY <1>1, <1>2, RgbOfPixel

HasColours(fmt, m, mw, comp) == fmt \in RgbFormats /\ HasWidth(m, mw) /\ comp \in {"U", "V"}
InRow(x, y, d, i, e0, e1) ==
    y \in Nat /\ InPair(x, d, i) /\ InPair(e0, d, 0) /\ InPair(e1, d, 1)

\* ... the chrominance from those of both pixels of its pair.
LEMMA ChromaOfRgb ==
    ASSUME NEW fmt, NEW m, NEW mw, NEW comp, NEW x, NEW y, NEW d, NEW i, NEW e0, NEW e1,
           HasColours(fmt, m, mw, comp), InRow(x, y, d, i, e0, e1)
    PROVE  Pixel(fmt, m, comp, x, y)
             = RgbAt(RgbBase(mw, e0, y), FirstOf(fmt))
                 \o RgbAt(RgbBase(mw, e1, y), FirstOf(fmt))
  <1> USE DEF HasColours, InRow
  <1>1. /\ x \in Nat /\ x \div 2 = d /\ e0 \in Nat /\ e1 \in Nat
        /\ e0 = 2 * d /\ e1 = 2 * d + 1
    <2>1. x \in Nat /\ d \in Nat /\ i \in Bit /\ x = 2 * d + i /\ e0 = 2 * d + 0 /\ e1 = 2 * d + 1
      BY DEF InPair, Bit
    <2>2. x \div 2 = d
      BY <2>1, IsHalf
    <2> QED
      BY <2>1, <2>2
  <1>2. Pixel(fmt, m, comp, x, y) = RgbPixel(fmt, m, comp, x, y)
    BY PixelKind DEF RgbFormats
  <1>3. RgbBytes(fmt, m, e0, y) = RgbAt(RgbBase(mw, e0, y), FirstOf(fmt))
    BY <1>1, RgbOfPixel
  <1>4. RgbBytes(fmt, m, e1, y) = RgbAt(RgbBase(mw, e1, y), FirstOf(fmt))
    BY <1>1, RgbOfPixel
  <1>5. RgbPixel(fmt, m, comp, x, y) = RgbBytes(fmt, m, 2 * (x \div 2), y)
                                         \o RgbBytes(fmt, m, 2 * (x \div 2) + 1, y)
    BY DEF RgbPixel, RgbBytes
  <1>6. 2 * (x \div 2) = e0 /\ 2 * (x \div 2) + 1 = e1
    BY <1>1
  <1> QED
    BY <1>2, <1>3, <1>4, <1>5, <1>6

\* A frame of three bytes for each pixel.
LEMMA GrabbedRgb ==
    ASSUME NEW c, NEW v, NEW w, NEW h, NEW mw, NEW s, NEW t, NEW n, NEW f, NEW src, NEW first,
           IsCrop(c, v, w, h, mw, s, t, n), n = 6 * s + 3 * mw * t,
           IsCall(f, v, w, h, src), src = 3 * mw, c.fmt \in RgbFormats, first = FirstOf(c.fmt)
    PROVE  {Shift(write, n) : write \in Rgb(f, first)} = Wanted(c)
  <1> DEFINE H == Rows(f)
             K == 0 .. Pairs(f) - 1
             A(y, k, i) == [e \in 1 .. 3 |-> y * f.src + 6 * k + 3 * i + first[e]]
             P(y, k, b) ==
                 <<DstRow(f, y) + 4 * k + b,
                   CASE b = 0 -> A(y, k, 0) [] b = 2 -> A(y, k, 1)
                     [] OTHER -> A(y, k, 0) \o A(y, k, 1)>>
             D == [y \in H |-> [k \in K |-> [b \in Quad |-> P(y, k, b)]]]
  <1>1. /\ v \in Nat /\ w \in Nat /\ w = 2 * v /\ h \in Nat /\ mw \in Nat /\ s \in Nat
        /\ t \in Nat /\ n \in Nat /\ c.mode.w = mw /\ f.src = src
    BY DEF IsCrop, IsCall
  <1>2. H = 0 .. h - 1 /\ K = 0 .. v - 1
    BY Call
  <1>3. ASSUME NEW y \in Nat
        PROVE  DstRow(f, y) = 2 * w * y
    BY Call
  <1>4. first \in Leads
    BY DEF FirstOf, Leads
  <1>5. Rgb(f, first) = {P(y, k, b) : y \in H, k \in K, b \in Quad}
    BY DEF Rgb
  <1>6. ASSUME NEW y \in 0 .. h - 1, NEW k \in 0 .. v - 1, NEW i \in Bit, NEW j \in Bit
        PROVE  Shift(P(y, k, 2 * i + j), n) = Byte(c, w, s, t, y, k, i, j)
    <2>1. y \in Nat /\ k \in Nat /\ i \in Nat /\ j \in Nat
      BY <1>1 DEF Bit
    <2>2. PICK a0 \in Int : a0 = y * f.src + 6 * k + 3 * 0
      BY <1>1, <2>1
    <2>3. PICK a1 \in Int : a1 = y * f.src + 6 * k + 3 * 1
      BY <1>1, <2>1
    <2>4. A(y, k, 0) = RgbAt(a0, first) /\ A(y, k, 1) = RgbAt(a1, first)
      <3>1. A(y, k, 0) = [e \in 1 .. 3 |-> a0 + first[e]]
        BY <2>2
      <3>2. A(y, k, 1) = [e \in 1 .. 3 |-> a1 + first[e]]
        BY <2>3
      <3> HIDE DEF A
      <3> QED
        BY <1>4, <3>1, <3>2, ColoursOf
    <2>5. PICK q : q = 2 * i + j
      OBVIOUS
    <2>6. PICK to \in Int : to = 2 * w * y + 4 * k + q
      BY <1>1, <2>1, <2>5
    <2> HIDE DEF A
    <2>7. P(y, k, q) = <<to, CASE q = 0 -> RgbAt(a0, first) [] q = 2 -> RgbAt(a1, first)
                               [] OTHER -> RgbAt(a0, first) \o RgbAt(a1, first)>>
      BY <1>3, <2>1, <2>4, <2>6
    <2> HIDE DEF P
    <2>8. PICK d \in Nat : d = s + k
      BY <1>1, <2>1
    <2>9. PICK x \in Nat : x = 2 * d + i
      BY <2>8 DEF Bit
    <2>10. PICK e0 \in Nat : e0 = 2 * d
      BY <2>8
    <2>11. PICK e1 \in Nat : e1 = 2 * d + 1
      BY <2>8
    <2>12. PICK z \in Nat : z = t + y
      BY <1>1, <2>1
    <2>13. n + a0 = RgbBase(mw, e0, z) /\ n + a1 = RgbBase(mw, e1, z)
      <3>1. y * f.src = 3 * mw * y
        BY <1>1, <2>1
      <3>2. 3 * mw * (t + y) = 3 * mw * t + 3 * mw * y
        BY <1>1, <2>1
      <3>3. PICK m1 \in Int, m2 \in Int, m3 \in Int :
                m1 = 3 * mw * t /\ m2 = 3 * mw * y /\ m3 = mw * (t + y) /\ 3 * m3 = m1 + m2
        BY <1>1, <2>1, <3>2
      <3>4. a0 = m2 + 6 * k /\ a1 = m2 + 6 * k + 3 /\ n = 6 * s + m1
        BY <2>1, <2>2, <2>3, <3>1, <3>3
      <3>5. RgbBase(mw, e0, z) = 3 * (m3 + e0) /\ RgbBase(mw, e1, z) = 3 * (m3 + e1)
        BY <2>12, <3>3 DEF RgbBase
      <3> QED
        BY <1>1, <2>1, <2>8, <2>10, <2>11, <3>3, <3>4, <3>5
    <2>14. InPair(x, d, i) /\ InPair(e0, d, 0) /\ InPair(e1, d, 1)
      BY <2>8, <2>9, <2>10, <2>11 DEF InPair, Bit
    <2>15. /\ Letter(i, j) = "Y" => Pixel(c.fmt, c.mode, Letter(i, j), x, z)
                                      = RgbAt(RgbBase(mw, x, z), first)
           /\ Letter(i, j) # "Y" => Pixel(c.fmt, c.mode, Letter(i, j), x, z)
                  = RgbAt(RgbBase(mw, e0, z), first) \o RgbAt(RgbBase(mw, e1, z), first)
      <3>1. PICK fmt, m, comp : fmt = c.fmt /\ m = c.mode /\ comp = Letter(i, j)
        OBVIOUS
      <3>2. /\ comp = "Y" => Pixel(fmt, m, comp, x, z)
                               = RgbAt(RgbBase(mw, x, z), FirstOf(fmt))
            /\ comp # "Y" => Pixel(fmt, m, comp, x, z)
                   = RgbAt(RgbBase(mw, e0, z), FirstOf(fmt))
                       \o RgbAt(RgbBase(mw, e1, z), FirstOf(fmt))
        <4>1. fmt \in RgbFormats /\ HasWidth(m, mw) /\ z \in Nat
          BY <1>1, <3>1 DEF HasWidth
        <4> QED
          <5>1. CASE comp = "Y"
            <6>1. x \in Nat
              OBVIOUS
            <6>2. Pixel(fmt, m, "Y", x, z) = RgbAt(RgbBase(mw, x, z), FirstOf(fmt))
              BY <4>1, <6>1, LumaOfRgb
            <6> QED
              BY <5>1, <6>2
          <5>2. CASE comp # "Y"
            <6>1. HasColours(fmt, m, mw, comp) /\ InRow(x, z, d, i, e0, e1)
              <7>1. comp \in {"U", "V"}
                BY <3>1, <5>2 DEF Letter
              <7> QED
                BY <2>14, <4>1, <7>1 DEF HasColours, InRow
            <6>2. Pixel(fmt, m, comp, x, z)
                   = RgbAt(RgbBase(mw, e0, z), FirstOf(fmt))
                       \o RgbAt(RgbBase(mw, e1, z), FirstOf(fmt))
              BY <6>1, ChromaOfRgb
            <6> QED
              BY <5>2, <6>2
          <5> QED
            BY <5>1, <5>2
      <3> QED
        BY <3>1, <3>2
    <2>16. Byte(c, w, s, t, y, k, i, j) = <<to, Pixel(c.fmt, c.mode, Letter(i, j), x, z)>>
      <3>1. to = 2 * w * y + 4 * k + 2 * i + j
        BY <1>1, <2>1, <2>5, <2>6
      <3> QED
        BY <2>8, <2>9, <2>12, <3>1 DEF Byte
    <2>17. CASE j = 0 /\ i = 0
      <3>1. P(y, k, q) = <<to, RgbAt(a0, first)>>
        BY <2>5, <2>7, <2>17
      <3>2. Letter(i, j) = "Y" /\ x = e0
        BY <2>9, <2>10, <2>17 DEF Letter
      <3>3. Shift(P(y, k, q), n) = <<to, RgbAt(n + a0, first)>>
        BY <1>1, <1>4, <3>1, ColoursOf
      <3> QED
        BY <2>5, <2>13, <2>15, <2>16, <3>2, <3>3
    <2>18. CASE j = 0 /\ i = 1
      <3>1. P(y, k, q) = <<to, RgbAt(a1, first)>>
        BY <2>5, <2>7, <2>18
      <3>2. Letter(i, j) = "Y" /\ x = e1
        BY <2>9, <2>11, <2>18 DEF Letter
      <3>3. Shift(P(y, k, q), n) = <<to, RgbAt(n + a1, first)>>
        BY <1>1, <1>4, <3>1, ColoursOf
      <3> QED
        BY <2>5, <2>13, <2>15, <2>16, <3>2, <3>3
    <2>19. CASE j = 1
      <3>1. q # 0 /\ q # 2
        BY <2>1, <2>5, <2>19 DEF Bit
      <3>2. P(y, k, q) = <<to, RgbAt(a0, first) \o RgbAt(a1, first)>>
        BY <2>7, <3>1
      <3>3. Letter(i, j) # "Y"
        BY <2>19 DEF Letter
      <3>4. Shift(P(y, k, q), n) = <<to, RgbAt(n + a0, first) \o RgbAt(n + a1, first)>>
        <4>1. Shift(<<to, RgbAt(a0, first) \o RgbAt(a1, first)>>, n)
                = <<to, RgbAt(n + a0, first) \o RgbAt(n + a1, first)>>
          <5>1. n \in Int
            BY <1>1
          <5>2. ShiftsTwo(a0, a1, first, to, n)
            BY <1>4, <5>1, ColoursOfTwo
          <5> QED
            BY <5>2 DEF ShiftsTwo
        <4> QED
          BY <3>2, <4>1
      <3> QED
        BY <2>5, <2>13, <2>15, <2>16, <3>3, <3>4
    <2> QED
      BY <2>17, <2>18, <2>19 DEF Bit
  <1> HIDE DEF P, H, K
  <1>7. \A y \in H, k \in K, b \in Quad : D[y][k][b] = P(y, k, b)
    OBVIOUS
  <1> HIDE DEF D
  <1>8. Rgb(f, first) = Looped(D, v, h)
    <2>1. Looped(D, v, h) = {D[y][k][b] : y \in H, k \in K, b \in Quad}
      BY <1>2 DEF Looped
    <2> QED
      BY <1>5, <1>7, <2>1
  <1>9. \A y \in 0 .. h - 1, k \in 0 .. v - 1, i \in Bit, j \in Bit :
            Shift(D[y][k][2 * i + j], n) = Byte(c, w, s, t, y, k, i, j)
    <2>1. \A i \in Bit, j \in Bit : 2 * i + j \in Quad
      BY DEF Bit, Quad
    <2> QED
      BY <1>2, <1>6, <1>7, <2>1
  <1> QED
    BY <1>8, <1>9, WantedByPairs

-----------------------------------------------------------------------------
(***************************************************************************)
(* Groups of eight pixels.                                                 *)
(***************************************************************************)
\* The sixteen bytes of eight pixels of Y41P.
Eights == <<1, 0, 3, 2, 5, 0, 7, 2, 8, 4, 9, 6, 10, 4, 11, 6>>
OffsetIn8(comp, in8) ==
    IF comp = "Y" THEN IF in8 < 4 THEN 2 * in8 + 1 ELSE in8 + 4
    ELSE 4 * (in8 \div 4) + IF comp = "U" THEN 0 ELSE 2

\* Pair k is pair p of eight pixels.
InEight(k, g, p) == g \in Nat /\ p \in Quad /\ k = 4 * g + p

\* The byte that y41p_to_yuyv() picks is the component that the byte stands for.
LEMMA PickOfEight ==
    ASSUME NEW p, NEW q, NEW i, NEW j, p \in Quad, i \in Bit, InPair(q, i, j)
    PROVE  /\ Eights[4 * p + q + 1] \in Nat
           /\ OffsetIn8(Letter(i, j), 2 * p + i) = Eights[4 * p + q + 1]
  <1>1. i \in Bit /\ j \in Bit /\ q = 2 * i + j /\ (p = 0 \/ p = 1 \/ p = 2 \/ p = 3)
    <2>1. p = 0 \/ p = 1 \/ p = 2 \/ p = 3
      BY DEF Quad
    <2> QED
      BY <2>1 DEF InPair
  <1>2. 0 \div 4 = 0 /\ 1 \div 4 = 0 /\ 2 \div 4 = 0 /\ 3 \div 4 = 0
    OBVIOUS
  <1>3. 4 \div 4 = 1 /\ 5 \div 4 = 1 /\ 6 \div 4 = 1 /\ 7 \div 4 = 1
    OBVIOUS
  <1>4. CASE i = 0 /\ j = 0
    BY <1>1, <1>4 DEF OffsetIn8, Letter, Eights
  <1>5. CASE i = 0 /\ j = 1
    BY <1>1, <1>2, <1>3, <1>5 DEF OffsetIn8, Letter, Eights
  <1>6. CASE i = 1 /\ j = 0
    BY <1>1, <1>6 DEF OffsetIn8, Letter, Eights
  <1>7. CASE i = 1 /\ j = 1
    BY <1>1, <1>2, <1>3, <1>7 DEF OffsetIn8, Letter, Eights
  <1> QED
    BY <1>1, <1>4, <1>5, <1>6, <1>7 DEF Bit

\* A number by fours ...
LEMMA IsFourth ==
    ASSUME NEW k, NEW g, NEW p, InEight(k, g, p)
    PROVE  k \in Nat /\ k \div 4 = g /\ k % 4 = p
  <1>1. g \in Nat /\ p \in Nat /\ p < 4 /\ k = 4 * g + p
    BY DEF InEight, Quad
  <1>2. k \div 4 = g
    BY <1>1
  <1>3. k % 4 = p
    BY <1>1
  <1> QED
    BY <1>1, <1>2, <1>3

\* ... and one by eights.
LEMMA IsEighth ==
    ASSUME NEW x, NEW g, NEW n, g \in Nat, n \in 0 .. 7, x = 8 * g + n
    PROVE  x \div 8 = g /\ x % 8 = n
  <1>1. x \div 8 = g
    OBVIOUS
  <1>2. x % 8 = n
    OBVIOUS
  <1> QED
    BY <1>1, <1>2

\* Lines of e times eight pixels.
HasEights(w, e) == e \in Nat /\ w = 8 * e
EightSource(e, z, g, p, q) == 12 * e * z + 12 * g + Eights[4 * p + q + 1]

\* The source of byte q of pair k is the component that it stands for.
LEMMA PixelOfEight ==
    ASSUME NEW c, NEW w, NEW e, NEW z, NEW x, NEW k, NEW i, NEW g, NEW p, NEW q, NEW j,
           c.fmt = "Y41P", c.mode.w = w, HasEights(w, e), z \in Nat,
           InPair(x, k, i), InPair(q, i, j), InEight(k, g, p)
    PROVE  IsSource(c, z, x, i, j, EightSource(e, z, g, p, q))
  <1>1. /\ e \in Nat /\ w = 8 * e /\ i \in Bit /\ x = 2 * k + i /\ g \in Nat /\ p \in Quad
        /\ k = 4 * g + p
    BY DEF HasEights, InPair, InEight
  <1>2. PICK n \in 0 .. 7 : n = 2 * p + i
    BY <1>1 DEF Quad, Bit
  <1>3. x = 8 * g + n
    BY <1>1, <1>2 DEF Quad, Bit
  <1>4. x \div 8 = g /\ x % 8 = n
    BY <1>1, <1>3, IsEighth
  <1>5. (3 * c.mode.w) \div 2 = 12 * e
    <2>1. 3 * c.mode.w = 2 * (12 * e) + 0
      BY <1>1
    <2>2. 12 * e \in Nat
      BY <1>1
    <2> QED
      BY <2>1, <2>2, IsHalf DEF Bit
  <1> DEFINE comp == Letter(i, j)
  <1>6. Pixel(c.fmt, c.mode, comp, x, z) = EightPixel(c.mode, comp, x, z)
    BY PixelKind
  <1>7. EightPixel(c.mode, comp, x, z) = <<12 * g + (12 * e) * z + OffsetIn8(comp, n)>>
    BY <1>4, <1>5 DEF EightPixel, OffsetIn8
  <1>8. OffsetIn8(comp, n) = Eights[4 * p + q + 1] /\ Eights[4 * p + q + 1] \in Nat
    BY <1>1, <1>2, PickOfEight
  <1> HIDE DEF comp
  <1>9. PICK o \in Nat : o = Eights[4 * p + q + 1]
    BY <1>8
  <1>10. PICK s \in Nat : s = (12 * e) * z /\ s = 12 * e * z
    BY <1>1
  <1>11. EightSource(e, z, g, p, q) = 12 * g + s + o
    BY <1>1, <1>9, <1>10 DEF EightSource
  <1>12. Pixel(c.fmt, c.mode, comp, x, z) = <<12 * g + s + o>>
    BY <1>6, <1>7, <1>8, <1>9, <1>10
  <1>13. 12 * g + s + o \in Int
    BY <1>1
  <1> QED
    BY <1>11, <1>12, <1>13 DEF IsSource, comp

\* The converter of groups of eight pixels.
LEMMA GrabbedEights ==
    ASSUME NEW c, NEW v, NEW w, NEW h, NEW e, NEW f, NEW src,
           IsWholeFrame(c, v, w, h), IsCall(f, v, w, h, src), HasEights(w, e), c.fmt = "Y41P"
    PROVE  {Shift(write, 0) : write \in y41p_to_yuyv(f)} = Wanted(c)
  <1> DEFINE linesize == (3 * f.w) \div 2
             groups == (linesize + 11) \div 12
             H == Rows(f)
             G == 0 .. groups - 1
             K == 0 .. v - 1
             B == 0 .. 15
             P(y, g, b) == <<y * (16 * groups + f.dst - 2 * f.w) + 16 * g + b,
                             <<linesize * y + 12 * g + Eights[b + 1]>>>>
             D == [y \in H |-> [k \in K |-> [q \in Quad |-> P(y, k \div 4, 4 * (k % 4) + q)]]]
  <1>1. /\ v \in Nat /\ w \in Nat /\ w = 2 * v /\ h \in Nat
        /\ f.w = w /\ f.h = h /\ f.dst = 2 * w
        /\ c.mode.w = w /\ e \in Nat /\ w = 8 * e /\ v = 4 * e
    BY DEF IsCall, IsWholeFrame, IsCrop, HasEights
  <1>2. H = 0 .. h - 1
    BY Call
  <1>3. linesize = 12 * e
    <2>1. 3 * f.w = 2 * (12 * e) + 0 /\ 12 * e \in Nat
      BY <1>1
    <2> QED
      BY <2>1, IsHalf DEF Bit
  <1>4. groups = e
    <2>1. linesize + 11 = 12 * e + 11
      BY <1>3
    <2>2. (12 * e + 11) \div 12 = e
      BY <1>1
    <2> HIDE DEF linesize
    <2> QED
      BY <2>1, <2>2
  <1>5. y41p_to_yuyv(f) = {P(y, g, b) : y \in H, g \in G, b \in B}
    BY DEF y41p_to_yuyv, Eights
  <1>6. ASSUME NEW y \in Nat, NEW g, NEW p, NEW q, NEW k, InEight(k, g, p), q \in Quad
        PROVE  P(y, g, 4 * p + q) = <<2 * w * y + 4 * k + q, <<EightSource(e, y, g, p, q)>>>>
    <2>1. g \in Nat /\ p \in Nat /\ q \in Nat /\ k = 4 * g + p
      BY <1>6 DEF InEight, Quad
    <2>2. 16 * groups + f.dst - 2 * f.w = 2 * w
      BY <1>1, <1>4
    <2>3. PICK a \in Nat : a = y * (2 * w) /\ a = 2 * w * y
      BY <1>1
    <2>4. y * (16 * groups + f.dst - 2 * f.w) = a
      BY <2>2, <2>3
    <2>5. a + 16 * g + (4 * p + q) = a + 4 * k + q
      BY <2>1
    <2>6. linesize * y = 12 * e * y
      BY <1>3
    <2> HIDE DEF linesize, groups
    <2> QED
      BY <2>3, <2>4, <2>5, <2>6 DEF EightSource
  <1>7. G = 0 .. e - 1 /\ K = 0 .. 4 * e - 1 /\ B = 0 .. 4 * 4 - 1 /\ Quad = 0 .. 4 - 1
    BY <1>1, <1>4 DEF Quad
  <1>8. /\ \A g \in G, p \in Quad : 4 * g + p \in K
        /\ \A k \in K : \E g \in G, p \in Quad : k = 4 * g + p
        /\ \A p \in Quad, q \in Quad : 4 * p + q \in B
        /\ \A b \in B : \E p \in Quad, q \in Quad : b = 4 * p + q
    <2>1. e \in Nat /\ 4 \in Nat
      BY <1>1
    <2>2. /\ \A g \in 0 .. e - 1, p \in Quad : 4 * g + p \in 0 .. 4 * e - 1
          /\ \A k \in 0 .. 4 * e - 1 : \E g \in 0 .. e - 1, p \in Quad : k = 4 * g + p
      BY <2>1, ByFours, Zenon
    <2>3. /\ \A p \in 0 .. 4 - 1, q \in Quad : 4 * p + q \in 0 .. 4 * 4 - 1
          /\ \A b \in 0 .. 4 * 4 - 1 : \E p \in 0 .. 4 - 1, q \in Quad : b = 4 * p + q
      BY <2>1, ByFours, Zenon
    <2> HIDE DEF G, K, B
    <2> QED
      BY <1>7, <2>2, <2>3, Zenon
  <1> HIDE DEF P, H, G, K, B, linesize, groups
  <1>9. \A y \in H, k \in K, q \in Quad : D[y][k][q] = P(y, k \div 4, 4 * (k % 4) + q)
    OBVIOUS
  <1> HIDE DEF D
  <1>10. ASSUME NEW y \in H, NEW k \in K, NEW g, NEW p, NEW q \in Quad, InEight(k, g, p)
         PROVE  D[y][k][q] = P(y, g, 4 * p + q)
    <2>1. k \div 4 = g /\ k % 4 = p
      BY <1>10, IsFourth
    <2> QED
      BY <1>9, <2>1
  <1>11. ASSUME NEW k \in K
         PROVE  \E g \in G, p \in Quad : InEight(k, g, p)
    <2>1. PICK g \in G, p \in Quad : k = 4 * g + p
      BY <1>8
    <2>2. g \in Nat
      BY <1>7, <1>1
    <2> QED
      BY <2>1, <2>2 DEF InEight
  <1>12. y41p_to_yuyv(f) = Looped(D, v, h)
    <2>1. Looped(D, v, h) = {D[y][k][q] : y \in H, k \in K, q \in Quad}
      BY <1>2 DEF Looped, K
    <2>2. ASSUME NEW write \in y41p_to_yuyv(f)
          PROVE  write \in Looped(D, v, h)
      <3>1. PICK y \in H, g \in G, b \in B : write = P(y, g, b)
        BY <1>5
      <3>2. PICK p \in Quad, q \in Quad : b = 4 * p + q
        BY <1>8
      <3>3. PICK k \in K : k = 4 * g + p
        BY <1>8
      <3>4. InEight(k, g, p)
        BY <1>1, <1>7, <3>3 DEF InEight
      <3>5. write = D[y][k][q]
        BY <1>10, <3>1, <3>2, <3>4
      <3> QED
        BY <2>1, <3>5
    <2>3. ASSUME NEW write \in Looped(D, v, h)
          PROVE  write \in y41p_to_yuyv(f)
      <3>1. PICK y \in H, k \in K, q \in Quad : write = D[y][k][q]
        BY <2>1
      <3>2. PICK g \in G, p \in Quad : InEight(k, g, p)
        BY <1>11
      <3>3. write = P(y, g, 4 * p + q)
        BY <1>10, <3>1, <3>2
      <3>4. 4 * p + q \in B
        BY <1>8
      <3> QED
        BY <1>5, <3>3, <3>4
    <2> QED
      BY <2>2, <2>3
  <1>13. WritesPixels(D, c, v, w, h)
    <2> SUFFICES ASSUME NEW z \in H, NEW k \in K, NEW i \in Bit, NEW j \in Bit,
                        NEW q, NEW x, InPair(q, i, j), InPair(x, k, i)
                 PROVE  \E a : /\ IsSource(c, z, x, i, j, a)
                               /\ D[z][k][q] = <<2 * w * z + 4 * k + q, <<a>>>>
      BY <1>2 DEF WritesPixels, K
    <2>1. PICK g \in G, p \in Quad : InEight(k, g, p)
      BY <1>11
    <2>2. q \in Quad
      BY DEF Quad, InPair, Bit
    <2>3. z \in Nat
      BY <1>2
    <2>4. PICK a : a = EightSource(e, z, g, p, q)
      BY Zenon
    <2>5. D[z][k][q] = <<2 * w * z + 4 * k + q, <<a>>>>
      <3>1. D[z][k][q] = P(z, g, 4 * p + q)
        BY <1>10, <2>1, <2>2
      <3>2. P(z, g, 4 * p + q) = <<2 * w * z + 4 * k + q, <<EightSource(e, z, g, p, q)>>>>
        BY <1>6, <2>1, <2>2, <2>3
      <3> QED
        BY <2>4, <3>1, <3>2
    <2>6. IsSource(c, z, x, i, j, a)
      BY <1>1, <2>1, <2>3, <2>4, PixelOfEight
    <2> QED
      BY <2>5, <2>6
  <1> QED
    BY <1>12, <1>13, GrabbedPixels

-----------------------------------------------------------------------------
(***************************************************************************)
(* The frame of the crop, for every row of the table of formats.           *)
(***************************************************************************)
\* The converter of each format.
LEMMA Dispatch ==
    ASSUME NEW fmt, NEW f
    PROVE  /\ fmt = "YUYV" => ToYuyv(fmt, f) = CopyLines(f)
           /\ fmt = "UYVY" => ToYuyv(fmt, f) = uyvy_to_yuyv(f)
           /\ fmt = "YVYU" => ToYuyv(fmt, f) = yvyu_to_yuyv(f)
           /\ fmt = "YYUV" => ToYuyv(fmt, f) = yyuv_to_yuyv(f)
           /\ fmt = "YUV420" => ToYuyv(fmt, f) = yuv420_to_yuyv(f)
           /\ fmt = "YVU420" => ToYuyv(fmt, f) = yvu420_to_yuyv(f)
           /\ fmt = "NV12" => ToYuyv(fmt, f) = nv12_to_yuyv(f)
           /\ fmt = "NV21" => ToYuyv(fmt, f) = nv21_to_yuyv(f)
           /\ fmt = "NV16" => ToYuyv(fmt, f) = nv16_to_yuyv(f)
           /\ fmt = "NV61" => ToYuyv(fmt, f) = nv61_to_yuyv(f)
           /\ fmt = "Y41P" => ToYuyv(fmt, f) = y41p_to_yuyv(f)
           /\ fmt = "SPCA501" => ToYuyv(fmt, f) = s501_to_yuyv(f)
           /\ fmt = "SPCA505" => ToYuyv(fmt, f) = s505_to_yuyv(f)
           /\ fmt = "SPCA508" => ToYuyv(fmt, f) = s508_to_yuyv(f)
           /\ fmt = "RGB24" => ToYuyv(fmt, f) = rgb_to_yuyv(f)
           /\ fmt = "BGR24" => ToYuyv(fmt, f) = bgr_to_yuyv(f)
           /\ fmt \in DOMAIN BayerOrder =>
                 ToYuyv(fmt, f) = rgb_to_yuyv([f EXCEPT !.src = 3 * f.w])
  BY Kinds DEF ToYuyv

\* The bytes of a pixel and of a line.
LEMMA RowFacts ==
    ASSUME NEW p \in FormatRows
    PROVE  /\ p.bpp \in Nat
           /\ p.fmt \in Pairwise => p.bpp = 2
           /\ p.fmt \in Coloured => p.bpp = 3
           /\ p.fmt \in Blockwise \union Other => p.allowscrop = FALSE
  <1> DEFINE Right(q) == /\ q.bpp \in Nat
                         /\ q.fmt \in Pairwise => q.bpp = 2
                         /\ q.fmt \in Coloured => q.bpp = 3
                         /\ q.fmt \in Blockwise \union Other => q.allowscrop = FALSE
  <1>1. ASSUME NEW x \in Pairwise
        PROVE  Right([fmt |-> x, bpp |-> 2, allowscrop |-> TRUE])
    BY DEF Pairwise, Coloured, Blockwise, Other
  <1>2. ASSUME NEW x \in Blockwise
        PROVE  Right([fmt |-> x, bpp |-> 2, allowscrop |-> FALSE])
    BY DEF Pairwise, Coloured, Blockwise, Other
  <1>3. ASSUME NEW x \in Other
        PROVE  Right([fmt |-> x, bpp |-> 0, allowscrop |-> FALSE])
    BY DEF Pairwise, Coloured, Blockwise, Other
  <1>4. ASSUME NEW x \in Coloured
        PROVE  Right([fmt |-> x, bpp |-> 3, allowscrop |-> TRUE])
    BY DEF Pairwise, Coloured, Blockwise, Other
  <1>5. ASSUME NEW x \in Compressed
        PROVE  Right([fmt |-> x, bpp |-> 0, allowscrop |-> FALSE])
    BY DEF Pairwise, Coloured, Blockwise, Other, Compressed
  <1>6. /\ Right([fmt |-> "GREY", bpp |-> 1, allowscrop |-> TRUE])
        /\ Right([fmt |-> "Y16", bpp |-> 2, allowscrop |-> TRUE])
    BY DEF Pairwise, Coloured, Blockwise, Other
  <1> HIDE DEF Right
  <1>7. Right(p)
    <2>1. CASE p \in RowsOf(Pairwise, 2, TRUE)
      BY <1>1, <2>1 DEF RowsOf
    <2>2. CASE p \in RowsOf(Blockwise, 2, FALSE)
      BY <1>2, <2>2 DEF RowsOf
    <2>3. CASE p \in RowsOf(Other, 0, FALSE)
      BY <1>3, <2>3 DEF RowsOf
    <2>4. CASE p \in RowsOf(Coloured, 3, TRUE)
      BY <1>4, <2>4 DEF RowsOf
    <2>5. CASE p \in RowsOf(Compressed, 0, FALSE)
      BY <1>5, <2>5 DEF RowsOf
    <2>6. CASE p \in RowsOf({"GREY"}, 1, TRUE)
      BY <1>6, <2>6 DEF RowsOf
    <2>7. CASE p \in RowsOf({"Y16"}, 2, TRUE)
      BY <1>6, <2>7 DEF RowsOf
    <2> QED
      BY <2>1, <2>2, <2>3, <2>4, <2>5, <2>6, <2>7, Zenon DEF FormatRows
  <1> QED
    BY <1>7 DEF Right

\* The bytes of a line of each kind of format.
LEMMA LineFacts ==
    ASSUME NEW m, NEW mw, NEW p, m.w = mw, mw \in Nat
    PROVE  /\ BytesPerLine(m, p) \in Nat
           /\ p.fmt \in Pairwise => BytesPerLine(m, p) = 2 * mw
           /\ p.fmt \in Coloured => BytesPerLine(m, p) = 3 * mw
  <1>1. /\ DOMAIN SampleBytes = {"YUYV", "YVYU", "UYVY", "YYUV", "BGR24", "RGB24", "GREY", "Y16"}
        /\ \A x \in Pairwise : SampleBytes[x] = 2
        /\ \A x \in Coloured : SampleBytes[x] = 3
        /\ SampleBytes["GREY"] = 1 /\ SampleBytes["Y16"] = 2
    BY DEF SampleBytes, Pairwise, Coloured
  <1>2. Larger(2 * mw, 2 * mw) = 2 * mw /\ Larger(3 * mw, 2 * mw) = 3 * mw
        /\ Larger(1 * mw, 2 * mw) = 2 * mw
    BY DEF Larger
  <1>3. p.fmt \in Pairwise => BytesPerLine(m, p) = 2 * mw
    BY <1>1, <1>2 DEF BytesPerLine, Pairwise
  <1>4. p.fmt \in Coloured => BytesPerLine(m, p) = 3 * mw
    BY <1>1, <1>2 DEF BytesPerLine, Coloured
  <1>5. BytesPerLine(m, p) \in Nat
    <2>1. CASE p.fmt \in DOMAIN SampleBytes
      BY <1>1, <1>2, <2>1 DEF BytesPerLine, Pairwise, Coloured
    <2>2. CASE p.fmt \notin DOMAIN SampleBytes
      BY <2>2 DEF BytesPerLine
    <2> QED
      BY <2>1, <2>2
  <1> QED
    BY <1>3, <1>4, <1>5

\* The call of the converter for c, from lines of src bytes.
CallOf(c) == [w |-> c.out.w, h |-> c.out.h, dst |-> 2 * c.out.w, src |-> c.bytesperline]

\* c is a crop in the format of row p, from a frame with lines of src bytes.
HasRow(c, p, v, w, h, g, mw, s, t, n, src) ==
    /\ p \in FormatRows /\ c.fmt = p.fmt /\ Twice(h, g)
    /\ IsCrop(c, v, w, h, mw, s, t, n) /\ n = 2 * s * p.bpp + src * t
    /\ IsCall(CallOf(c), v, w, h, src) /\ src = BytesPerLine(c.mode, p)
    /\ (p.allowscrop = TRUE \/ IsWholeFrame(c, v, w, h))

\* Every capture that Init() can set up of an even size is such a crop.
LEMMA CropHasRow ==
    ASSUME NEW c, NEW p \in FormatRows, c.mode \in AnyMode, c.size \in AnySize,
           Covers(c.mode, c.size), IsCroppedOf(c, p), Even(c.out)
    PROVE  \E v, w, h, g, mw, s, t, n, src : HasRow(c, p, v, w, h, g, mw, s, t, n, src)
  <1> DEFINE m == c.mode
             size == c.size
             x == EvenHalf(m.w - size.w)
             y == EvenHalf(m.h - size.h)
  <1>1. /\ m.w \in Nat /\ m.h \in Nat /\ size.w \in Nat /\ size.h \in Nat
        /\ m.w - size.w \in Nat /\ m.h - size.h \in Nat
    BY DEF AnyMode, AnySize, Covers
  <1>2. /\ c.out = size /\ c.startX \in Nat /\ c.startX % 2 = 0 /\ c.startY \in Nat
    <2>1. c = Cropped(m, size, p)
      BY DEF IsCroppedOf
    <2> QED
      BY <2>1, CroppedInside
  <1>3. /\ c.fmt = p.fmt /\ c.bytesperline = BytesPerLine(m, p)
        /\ c.startX = Larger(x, 0) /\ c.startY = Larger(y, 0)
        /\ c.capCropOffset = c.startX * p.bpp + c.bytesperline * c.startY
    <2>1. c = Cropped(m, size, p)
      BY DEF IsCroppedOf
    <2>2. /\ Cropped(m, size, p).fmt = p.fmt
          /\ Cropped(m, size, p).bytesperline = BytesPerLine(m, p)
          /\ Cropped(m, size, p).startX = Larger(x, 0)
          /\ Cropped(m, size, p).startY = Larger(y, 0)
          /\ Cropped(m, size, p).capCropOffset
               = Larger(x, 0) * p.bpp + BytesPerLine(m, p) * Larger(y, 0)
      BY DEF Cropped
    <2> HIDE DEF m, size, x, y
    <2> QED
      BY <2>1, <2>2
  <1>4. PICK w \in Nat, h \in Nat, mw \in Nat, t \in Nat :
            w = size.w /\ h = size.h /\ mw = m.w /\ t = c.startY
    BY <1>1, <1>2
  <1>5. w % 2 = 0 /\ h % 2 = 0
    BY <1>2, <1>4 DEF Even
  <1>6. PICK v \in Nat : w = 2 * v
    BY <1>5, PairsOf
  <1>7. PICK g \in Nat : h = 2 * g
    BY <1>5, PairsOf
  <1>8. PICK s \in Nat : c.startX = 2 * s
    BY <1>2, PairsOf
  <1>9. PICK src \in Nat : src = BytesPerLine(m, p)
    <2>1. BytesPerLine(m, p) \in Nat
      BY <1>1, LineFacts
    <2> QED
      BY <2>1
  <1>10. PICK b \in Nat : b = p.bpp
    BY RowFacts
  <1>11. PICK n \in Nat : n = 2 * s * b + src * t
    OBVIOUS
  <1>12. IsCrop(c, v, w, h, mw, s, t, n)
    <2>1. c.capCropOffset = n
      BY <1>3, <1>4, <1>8, <1>9, <1>10, <1>11
    <2>2. c.out.w = w /\ c.out.h = h
      BY <1>2, <1>4
    <2> QED
      BY <1>4, <1>6, <1>8, <2>1, <2>2 DEF IsCrop
  <1>13. IsCall(CallOf(c), v, w, h, src)
    <2>1. c.out.w = w /\ c.out.h = h /\ c.bytesperline = src
      BY <1>2, <1>3, <1>4, <1>9
    <2> QED
      BY <1>6, <2>1 DEF IsCall, CallOf
  <1>14. p.allowscrop = TRUE \/ IsWholeFrame(c, v, w, h)
    <2> SUFFICES ASSUME SizeOf(m) = size
                 PROVE  IsWholeFrame(c, v, w, h)
      BY DEF IsCroppedOf
    <2>1. m.w = size.w /\ m.h = size.h
      BY DEF SizeOf
    <2>2. x = 0 /\ y = 0
      <3>1. m.w - size.w = 0 /\ m.h - size.h = 0
        BY <1>1, <2>1
      <3>2. EvenHalf(0) = 0
        BY DEF EvenHalf
      <3> QED
        BY <3>1, <3>2
    <2>3. Larger(0, 0) = 0
      BY DEF Larger
    <2> HIDE DEF x, y
    <2>4. c.startX = 0 /\ c.startY = 0
      BY <1>3, <2>2, <2>3
    <2>5. s = 0 /\ t = 0 /\ mw = w /\ m.h = h
      BY <1>4, <1>8, <2>1, <2>4
    <2>6. n = 0
      BY <1>10, <1>11, <2>5
    <2> QED
      BY <1>12, <2>5, <2>6 DEF IsWholeFrame
  <1>15. Twice(h, g)
    BY <1>7 DEF Twice
  <1> QED
    BY <1>3, <1>9, <1>10, <1>11, <1>12, <1>13, <1>14, <1>15 DEF HasRow

Shifted(writes, n) == {Shift(write, n) : write \in writes}

\* The formats of pairs, which can be cropped.
LEMMA GrabbedPairwise ==
    ASSUME NEW c, NEW p, NEW v, NEW w, NEW h, NEW g, NEW mw, NEW s, NEW t, NEW n, NEW src,
           HasRow(c, p, v, w, h, g, mw, s, t, n, src), c.fmt \in Pairwise
    PROVE  Shifted(ToYuyv(c.fmt, CallOf(c)), n) = Wanted(c)
  <1> DEFINE f == CallOf(c)
  <1>1. /\ IsCrop(c, v, w, h, mw, s, t, n) /\ IsCall(f, v, w, h, src)
        /\ p \in FormatRows /\ c.fmt = p.fmt
        /\ n = 2 * s * p.bpp + src * t /\ src = BytesPerLine(c.mode, p)
    BY DEF HasRow
  <1>2. mw \in Nat /\ s \in Nat /\ t \in Nat /\ c.mode.w = mw
    BY <1>1 DEF IsCrop
  <1>3. p.bpp = 2
    BY <1>1, RowFacts
  <1>4. src = 2 * mw
    BY <1>1, <1>2, LineFacts
  <1>5. n = 4 * s + 2 * mw * t
    <2>1. n = 2 * s * 2 + (2 * mw) * t
      BY <1>1, <1>3, <1>4
    <2> QED
      BY <1>2, <2>1
  <1> HIDE DEF f
  <1>6. \A pick : Picks(pick, c.fmt) => Shifted(Packed(f, pick), n) = Wanted(c)
    <2> SUFFICES ASSUME NEW pick, Picks(pick, c.fmt)
                 PROVE  Shifted(Packed(f, pick), n) = Wanted(c)
      OBVIOUS
    <2>1. c.fmt \in DOMAIN PairLayout
      BY Kinds DEF Pairwise
    <2>2. {Shift(write, n) : write \in Packed(f, pick)} = Wanted(c)
      BY <1>1, <1>4, <1>5, <2>1, GrabbedPairs
    <2> QED
      BY <2>2 DEF Shifted
  <1>7. /\ Picks(<<0, 1, 2, 3>>, "YUYV") /\ Picks(<<0, 2, 1, 3>>, "YYUV")
        /\ Picks(<<1, 0, 3, 2>>, "UYVY") /\ Picks(<<0, 3, 2, 1>>, "YVYU")
    <2>1. \A i \in Bit, j \in Bit : /\ <<0, 1, 2, 3>>[2 * i + j + 1] = 2 * i + j
                                    /\ <<0, 1, 2, 3>>[2 * i + j + 1] \in Nat
                                    /\ <<0, 2, 1, 3>>[2 * i + j + 1] \in Nat
                                    /\ <<1, 0, 3, 2>>[2 * i + j + 1] \in Nat
                                    /\ <<0, 3, 2, 1>>[2 * i + j + 1] \in Nat
      BY DEF Bit
    <2> QED
      BY <2>1, Places DEF Picks
  <1>8. CASE c.fmt = "YUYV"
    <2>1. ToYuyv(c.fmt, f) = CopyLines(f)
      BY <1>8, Dispatch
    <2>2. CopyLines(f) = Packed(f, <<0, 1, 2, 3>>)
      BY <1>1, CopiedPairs
    <2> QED
      BY <1>6, <1>7, <1>8, <2>1, <2>2 DEF f
  <1>9. CASE c.fmt = "YYUV"
    <2>1. ToYuyv(c.fmt, f) = Packed(f, <<0, 2, 1, 3>>)
      BY <1>9, Dispatch DEF yyuv_to_yuyv
    <2> QED
      BY <1>6, <1>7, <1>9, <2>1 DEF f
  <1>10. CASE c.fmt = "UYVY"
    <2>1. ToYuyv(c.fmt, f) = Packed(f, <<1, 0, 3, 2>>)
      BY <1>10, Dispatch DEF uyvy_to_yuyv
    <2> QED
      BY <1>6, <1>7, <1>10, <2>1 DEF f
  <1>11. CASE c.fmt = "YVYU"
    <2>1. ToYuyv(c.fmt, f) = Packed(f, <<0, 3, 2, 1>>)
      BY <1>11, Dispatch DEF yvyu_to_yuyv
    <2> QED
      BY <1>6, <1>7, <1>11, <2>1 DEF f
  <1> QED
    BY <1>8, <1>9, <1>10, <1>11 DEF Pairwise

\* The formats of three colours, which can be cropped.
LEMMA GrabbedColoured ==
    ASSUME NEW c, NEW p, NEW v, NEW w, NEW h, NEW g, NEW mw, NEW s, NEW t, NEW n, NEW src,
           HasRow(c, p, v, w, h, g, mw, s, t, n, src), c.fmt \in Coloured
    PROVE  Shifted(ToYuyv(c.fmt, CallOf(c)), n) = Wanted(c)
  <1> DEFINE f == CallOf(c)
  <1>1. /\ IsCrop(c, v, w, h, mw, s, t, n) /\ IsCall(f, v, w, h, src)
        /\ p \in FormatRows /\ c.fmt = p.fmt
        /\ n = 2 * s * p.bpp + src * t /\ src = BytesPerLine(c.mode, p)
    BY DEF HasRow
  <1>2. mw \in Nat /\ s \in Nat /\ t \in Nat /\ c.mode.w = mw
    BY <1>1 DEF IsCrop
  <1>3. p.bpp = 3
    BY <1>1, RowFacts
  <1>4. src = 3 * mw
    BY <1>1, <1>2, LineFacts
  <1>5. n = 6 * s + 3 * mw * t
    <2>1. n = 2 * s * 3 + (3 * mw) * t
      BY <1>1, <1>3, <1>4
    <2> QED
      BY <1>2, <2>1
  <1> HIDE DEF f
  <1>6. c.fmt \in RgbFormats
    BY DEF RgbFormats, Coloured
  <1>7. PICK first : first = FirstOf(c.fmt)
    OBVIOUS
  <1>8. {Shift(write, n) : write \in Rgb(f, first)} = Wanted(c)
    BY <1>1, <1>4, <1>5, <1>6, <1>7, GrabbedRgb
  <1>9. ToYuyv(c.fmt, f) = Rgb(f, first)
    <2>1. CASE c.fmt = "RGB24"
      <3>1. first = <<0, 1, 2>>
        BY <1>7, <2>1 DEF FirstOf
      <3> QED
        BY <2>1, <3>1, Dispatch DEF rgb_to_yuyv
    <2>2. CASE c.fmt = "BGR24"
      <3>1. first = <<2, 1, 0>>
        BY <1>7, <2>2 DEF FirstOf
      <3> QED
        BY <2>2, <3>1, Dispatch DEF bgr_to_yuyv
    <2> QED
      BY <2>1, <2>2 DEF Coloured
  <1> QED
    BY <1>8, <1>9 DEF Shifted, f

\* The formats that are grabbed as a whole.
LEMMA GrabbedWhole ==
    ASSUME NEW c, NEW p, NEW v, NEW w, NEW h, NEW g, NEW mw, NEW s, NEW t, NEW n, NEW src,
           HasRow(c, p, v, w, h, g, mw, s, t, n, src), c.fmt \in Blockwise \union Other,
           c.fmt = "Y41P" => w % 8 = 0
    PROVE  Shifted(ToYuyv(c.fmt, CallOf(c)), n) = Wanted(c)
  <1> DEFINE f == CallOf(c)
  <1>1. /\ IsWholeFrame(c, v, w, h) /\ IsCrop(c, v, w, h, mw, s, t, n)
        /\ IsCall(f, v, w, h, src) /\ Twice(h, g)
    <2>1. p \in FormatRows /\ c.fmt = p.fmt
      BY DEF HasRow
    <2>2. p.allowscrop = FALSE
      BY <2>1, RowFacts
    <2> QED
      BY <2>2 DEF HasRow
  <1>2. n = 0 /\ w \in Nat /\ v \in Nat /\ w = 2 * v /\ h \in Nat /\ f.w = w
    BY <1>1 DEF IsWholeFrame, IsCrop, IsCall
  <1> SUFFICES Shifted(ToYuyv(c.fmt, f), n) = Wanted(c)
    OBVIOUS
  <1> HIDE DEF f
  <1>3. CASE c.fmt \in PlanarFormats
    <2>1. /\ c.fmt = "NV16" => Shifted(nv16_to_yuyv(f), 0) = Wanted(c)
          /\ c.fmt = "NV61" => Shifted(nv61_to_yuyv(f), 0) = Wanted(c)
          /\ c.fmt = "NV12" => Shifted(nv12_to_yuyv(f), 0) = Wanted(c)
          /\ c.fmt = "NV21" => Shifted(nv21_to_yuyv(f), 0) = Wanted(c)
          /\ c.fmt = "YUV420" => Shifted(yuv420_to_yuyv(f), 0) = Wanted(c)
          /\ c.fmt = "YVU420" => Shifted(yvu420_to_yuyv(f), 0) = Wanted(c)
      BY <1>1, GrabbedPlanar DEF Shifted
    <2>2. CASE c.fmt = "NV16"
      BY <1>2, <2>1, <2>2, Dispatch
    <2>3. CASE c.fmt = "NV61"
      BY <1>2, <2>1, <2>3, Dispatch
    <2>4. CASE c.fmt = "NV12"
      BY <1>2, <2>1, <2>4, Dispatch
    <2>5. CASE c.fmt = "NV21"
      BY <1>2, <2>1, <2>5, Dispatch
    <2>6. CASE c.fmt = "YUV420"
      BY <1>2, <2>1, <2>6, Dispatch
    <2>7. CASE c.fmt = "YVU420"
      BY <1>2, <2>1, <2>7, Dispatch
    <2> QED
      BY <1>3, <2>2, <2>3, <2>4, <2>5, <2>6, <2>7 DEF PlanarFormats
  <1>4. CASE c.fmt \in Blockwise
    <2>1. /\ c.fmt = "SPCA501" => Shifted(s501_to_yuyv(f), 0) = Wanted(c)
          /\ c.fmt = "SPCA505" => Shifted(s505_to_yuyv(f), 0) = Wanted(c)
          /\ c.fmt = "SPCA508" => Shifted(s508_to_yuyv(f), 0) = Wanted(c)
      BY <1>1, GrabbedSpca DEF Shifted
    <2>2. CASE c.fmt = "SPCA501"
      BY <1>2, <2>1, <2>2, Dispatch
    <2>3. CASE c.fmt = "SPCA505"
      BY <1>2, <2>1, <2>3, Dispatch
    <2>4. CASE c.fmt = "SPCA508"
      BY <1>2, <2>1, <2>4, Dispatch
    <2> QED
      BY <1>4, <2>2, <2>3, <2>4 DEF Blockwise
  <1>5. CASE c.fmt = "Y41P"
    <2>1. PICK e \in Nat : w = 8 * e
      <3>1. w % 8 = 0
        BY <1>5
      <3>2. PICK e \in Nat : e = w \div 8
        BY <1>2
      <3>3. w = 8 * e
        BY <1>2, <3>1, <3>2
      <3> QED
        BY <3>3
    <2>2. HasEights(w, e)
      BY <2>1 DEF HasEights
    <2>3. Shifted(y41p_to_yuyv(f), 0) = Wanted(c)
      BY <1>1, <1>5, <2>2, GrabbedEights DEF Shifted
    <2> QED
      BY <1>2, <1>5, <2>3, Dispatch
  <1>6. CASE c.fmt \in DOMAIN BayerOrder
    <2> DEFINE q == [f EXCEPT !.src = 3 * f.w]
    <2>11. PICK l : l = w
      OBVIOUS
    <2>1. PICK r \in Nat : r = 3 * w
      BY <1>2
    <2>2. IsCall(q, v, w, h, r)
      <3>1. q.w = w /\ q.h = f.h /\ q.dst = f.dst /\ q.src = r
        BY <1>2, <2>1 DEF f, CallOf
      <3> HIDE DEF q
      <3> QED
        BY <1>1, <2>1, <3>1 DEF IsCall
    <2> HIDE DEF q
    <2>3. PICK first : first = FirstOf(c.fmt)
      OBVIOUS
    <2>4. c.fmt \in RgbFormats
      BY <1>6 DEF RgbFormats
    <2>6. first = <<0, 1, 2>>
      BY <1>6, <2>3, Kinds DEF FirstOf
    <2>5. IsCrop(c, v, w, h, w, 0, 0, 0)
      BY <1>1 DEF IsWholeFrame
    <2>7. PICK z, y, o : z = 0 /\ y = 0 /\ o = 0
      OBVIOUS
    <2>8. IsCrop(c, v, w, h, l, z, y, o) /\ o = 6 * z + 3 * l * y /\ r = 3 * l
      BY <1>2, <2>1, <2>5, <2>7, <2>11
    <2>9. {Shift(write, o) : write \in Rgb(q, first)} = Wanted(c)
      BY <2>2, <2>3, <2>4, <2>8, GrabbedRgb
    <2>10. ToYuyv(c.fmt, f) = Rgb(q, first)
      BY <1>6, <2>6, Dispatch DEF rgb_to_yuyv, q
    <2> QED
      BY <1>2, <2>7, <2>9, <2>10 DEF Shifted
  <1>8. c.fmt \in PlanarFormats \union Blockwise \union {"Y41P"} \union DOMAIN BayerOrder
    BY Kinds DEF PlanarFormats, Blockwise, Other
  <1> QED
    BY <1>3, <1>4, <1>5, <1>6, <1>8

\* What Init() sets up is grabbed as a frame of the right bytes.
LEMMA GrabbedFrame ==
    ASSUME NEW c, NEW p \in FormatRows, c.mode \in AnyMode, c.size \in AnySize,
           Covers(c.mode, c.size), IsCroppedOf(c, p), IsConverted(c.fmt), IsWhole(c.fmt, c.out)
    PROVE  GrabRawFrame(c) = Wanted(c)
  <1>1. PICK v, w, h, g, mw, s, t, n, src : HasRow(c, p, v, w, h, g, mw, s, t, n, src)
    BY CropHasRow DEF IsWhole
  <1>2. c.capCropOffset = n /\ c.out.w = w
    BY <1>1 DEF HasRow, IsCrop
  <1>3. GrabRawFrame(c) = Shifted(ToYuyv(c.fmt, CallOf(c)), n)
    BY <1>2 DEF GrabRawFrame, Shifted, CallOf
  <1>4. CASE c.fmt \in Pairwise
    BY <1>1, <1>3, <1>4, GrabbedPairwise
  <1>5. CASE c.fmt \in Coloured
    BY <1>1, <1>3, <1>5, GrabbedColoured
  <1>6. CASE c.fmt \in Blockwise \union Other
    <2>1. c.fmt = "Y41P" => w % 8 = 0
      BY <1>2 DEF IsWhole
    <2> QED
      BY <1>1, <1>3, <1>6, <2>1, GrabbedWhole
  <1>7. c.fmt \in Pairwise \union Coloured \union (Blockwise \union Other)
    BY Kinds DEF IsConverted, Pairwise, Coloured, Blockwise, Other
  <1> QED
    BY <1>4, <1>5, <1>6, <1>7

-----------------------------------------------------------------------------
(***************************************************************************)
(* The colours of Bayer frames.                                            *)
(***************************************************************************)
\* The colour of the samples whose coordinates have parities a and b.
ColourAt(fmt, a, b) == BayerColours[fmt][1 + b][1 + a]

\* The colours around a sample, as BayerOrder has them.
Greens(fmt, a, b) == (a = b) = BayerOrder[fmt].green
Blues(fmt, b) == (b = 0) = BayerOrder[fmt].blue
Side(blue) == IF blue THEN "R" ELSE "B"

\* The colours around a sample are those that BayerOrder implies.
LEMMA BayerTable ==
    ASSUME NEW fmt \in DOMAIN BayerOrder, NEW a \in Bit, NEW b \in Bit
    PROVE  /\ Greens(fmt, a, b) =>
                 /\ ColourAt(fmt, a, b) = "G" /\ ColourAt(fmt, 1 - a, b) = Side(Blues(fmt, b))
                 /\ ColourAt(fmt, a, 1 - b) = Side(~Blues(fmt, b))
           /\ ~Greens(fmt, a, b) =>
                 /\ ColourAt(fmt, a, b) = Side(Blues(fmt, b)) /\ ColourAt(fmt, 1 - a, b) = "G"
                 /\ ColourAt(fmt, a, 1 - b) = "G"
                 /\ ColourAt(fmt, 1 - a, 1 - b) = Side(~Blues(fmt, b))
  <1>5. /\ a = 0 \/ a = 1
        /\ b = 0 \/ b = 1
    BY DEF Bit
  <1>6. 1 - 0 = 1 /\ 1 - 1 = 0 /\ 0 # 1 /\ 1 # 0
    OBVIOUS
  <1>1. CASE fmt = "SGBRG8"
    <2>1. /\ ColourAt(fmt, 0, 0) = "G" /\ ColourAt(fmt, 1, 0) = "B"
          /\ ColourAt(fmt, 0, 1) = "R" /\ ColourAt(fmt, 1, 1) = "G"
      BY <1>1 DEF ColourAt, BayerColours
    <2>2. /\ Greens(fmt, 0, 0) /\ ~Greens(fmt, 0, 1)
          /\ ~Greens(fmt, 1, 0) /\ Greens(fmt, 1, 1)
          /\ ~Blues(fmt, 0) /\ Blues(fmt, 1)
      <3>1. BayerOrder[fmt].green = TRUE /\ BayerOrder[fmt].blue = FALSE
        BY <1>1 DEF BayerOrder
      <3> QED
        BY <1>6, <3>1, Zenon DEF Greens, Blues
    <2> QED
      BY <1>5, <1>6, <2>1, <2>2 DEF Side
  <1>2. CASE fmt = "SGRBG8"
    <2>1. /\ ColourAt(fmt, 0, 0) = "G" /\ ColourAt(fmt, 1, 0) = "R"
          /\ ColourAt(fmt, 0, 1) = "B" /\ ColourAt(fmt, 1, 1) = "G"
      BY <1>2 DEF ColourAt, BayerColours
    <2>2. /\ Greens(fmt, 0, 0) /\ ~Greens(fmt, 0, 1)
          /\ ~Greens(fmt, 1, 0) /\ Greens(fmt, 1, 1)
          /\ Blues(fmt, 0) /\ ~Blues(fmt, 1)
      <3>1. BayerOrder[fmt].green = TRUE /\ BayerOrder[fmt].blue = TRUE
        BY <1>2 DEF BayerOrder
      <3> QED
        BY <1>6, <3>1, Zenon DEF Greens, Blues
    <2> QED
      BY <1>5, <1>6, <2>1, <2>2 DEF Side
  <1>3. CASE fmt = "SBGGR8"
    <2>1. /\ ColourAt(fmt, 0, 0) = "B" /\ ColourAt(fmt, 1, 0) = "G"
          /\ ColourAt(fmt, 0, 1) = "G" /\ ColourAt(fmt, 1, 1) = "R"
      BY <1>3 DEF ColourAt, BayerColours
    <2>2. /\ ~Greens(fmt, 0, 0) /\ Greens(fmt, 0, 1)
          /\ Greens(fmt, 1, 0) /\ ~Greens(fmt, 1, 1)
          /\ ~Blues(fmt, 0) /\ Blues(fmt, 1)
      <3>1. BayerOrder[fmt].green = FALSE /\ BayerOrder[fmt].blue = FALSE
        BY <1>3 DEF BayerOrder
      <3> QED
        BY <1>6, <3>1, Zenon DEF Greens, Blues
    <2> QED
      BY <1>5, <1>6, <2>1, <2>2 DEF Side
  <1>4. CASE fmt = "SRGGB8"
    <2>1. /\ ColourAt(fmt, 0, 0) = "R" /\ ColourAt(fmt, 1, 0) = "G"
          /\ ColourAt(fmt, 0, 1) = "G" /\ ColourAt(fmt, 1, 1) = "B"
      BY <1>4 DEF ColourAt, BayerColours
    <2>2. /\ ~Greens(fmt, 0, 0) /\ Greens(fmt, 0, 1)
          /\ Greens(fmt, 1, 0) /\ ~Greens(fmt, 1, 1)
          /\ Blues(fmt, 0) /\ ~Blues(fmt, 1)
      <3>1. BayerOrder[fmt].green = FALSE /\ BayerOrder[fmt].blue = TRUE
        BY <1>4 DEF BayerOrder
      <3> QED
        BY <1>6, <3>1, Zenon DEF Greens, Blues
    <2> QED
      BY <1>5, <1>6, <2>1, <2>2 DEF Side
  <1> QED
    BY <1>1, <1>2, <1>3, <1>4, Kinds

\* The parities of a number and of its neighbours.
LEMMA Parity ==
    ASSUME NEW x \in Nat
    PROVE  /\ x % 2 \in Bit
           /\ \A z \in {x - 1, x + 1} : z % 2 = 1 - (x % 2)
  <1>1. PICK d \in Nat, r \in Bit : x = 2 * d + r
    BY Halves
  <1>2. x % 2 = r
    BY <1>1, IsHalf
  <1>3. (x + 1) % 2 = 1 - r
    BY <1>1 DEF Bit
  <1>4. (x - 1) % 2 = 1 - r
    BY <1>1 DEF Bit
  <1> QED
    BY <1>2, <1>3, <1>4

\* There are samples on a side and above or below.
LEMMA Neighbours ==
    ASSUME NEW n \in Nat, n >= 2, NEW x \in 0 .. n - 1
    PROVE  {x - 1, x + 1} \intersect 0 .. n - 1 # {}
  <1>1. CASE x = 0
    BY <1>1
  <1>2. CASE x # 0
    BY <1>2
  <1> QED
    BY <1>1, <1>2

\* The samples S are there, and all of them have this colour.
AllOf(fmt, S, colour) == S # {} /\ \A s \in S : Colour(fmt, s) = colour

\* Samples of the same parities have the same colour.
LEMMA Samples ==
    ASSUME NEW fmt, NEW X, NEW Y, NEW a, NEW b, X # {}, Y # {},
           \A x \in X : x % 2 = a, \A y \in Y : y % 2 = b
    PROVE  AllOf(fmt, X \X Y, ColourAt(fmt, a, b))
  <1>1. X \X Y # {}
    <2>1. PICK x \in X, y \in Y : TRUE
      OBVIOUS
    <2>2. <<x, y>> \in X \X Y
      OBVIOUS
    <2> QED
      BY <2>2
  <1>2. ASSUME NEW s \in X \X Y
        PROVE  Colour(fmt, s) = ColourAt(fmt, a, b)
    <2>1. s[1] \in X /\ s[2] \in Y
      OBVIOUS
    <2>2. s[1] % 2 = a /\ s[2] % 2 = b
      BY <2>1
    <2> QED
      BY <2>2 DEF Colour, ColourAt
  <1> QED
    BY <1>1, <1>2 DEF AllOf

\* bayer_to_rgb24() computes each colour from samples of that colour.
LEMMA BayerDemosaics ==
    ASSUME NEW fmt \in DOMAIN BayerOrder, NEW f, f.w \in Nat, f.h \in Nat, f.w >= 2, f.h >= 2
    PROVE  Demosaics(fmt, bayer_to_rgb24(f, BayerOrder[fmt]))
  <1> DEFINE rgb == bayer_to_rgb24(f, BayerOrder[fmt])
             RGB == <<"R", "G", "B">>
  <1>1. ASSUME NEW x \in 0 .. f.w - 1, NEW y \in 0 .. f.h - 1, NEW p, p = <<x, y>>
        PROVE  \A i \in 1 .. 3 :
                 /\ AllOf(fmt, rgb[p][i], RGB[i])
                 /\ Colour(fmt, p) = RGB[i] => rgb[p][i] = {p}
    <2> DEFINE near   == {x - 1, x + 1} \intersect 0 .. f.w - 1
               lines  == {y - 1, y + 1} \intersect Rows(f)
               green  == (x % 2 = y % 2) = BayerOrder[fmt].green
               blue   == (y % 2 = 0) = BayerOrder[fmt].blue
               self   == {<<x, y>>}
               beside == near \X {y}
               above  == {x} \X lines
               bytes  == IF green THEN <<beside, self, above>>
                         ELSE <<self, beside \union above, near \X lines>>
               a == x % 2
               b == y % 2
    <2>1. rgb[p] = IF blue THEN bytes ELSE <<bytes[3], bytes[2], bytes[1]>>
      <3>1. p \in (0 .. f.w - 1) \X Rows(f) /\ p[1] = x /\ p[2] = y
        BY <1>1 DEF Rows
      <3> QED
        BY <3>1 DEF bayer_to_rgb24
    <2>2. x \in Nat /\ y \in Nat /\ a \in Bit /\ b \in Bit
      BY Parity
    <2>3. /\ \A z \in near : z % 2 = 1 - a
          /\ \A z \in lines : z % 2 = 1 - b
      BY <2>2, Parity
    <2>4. near # {} /\ lines # {}
      BY Neighbours DEF Rows
    <2>5. green = Greens(fmt, a, b) /\ blue = Blues(fmt, b)
      BY DEF Greens, Blues
    <2>6. Colour(fmt, p) = ColourAt(fmt, a, b)
      BY <1>1 DEF Colour, ColourAt
    <2> HIDE DEF near, lines, green, blue, a, b
    <2>7. AllOf(fmt, self, ColourAt(fmt, a, b))
      <3>1. \A z \in {p} : z = p
        OBVIOUS
      <3> QED
        BY <1>1, <2>6 DEF AllOf
    <2>8. AllOf(fmt, beside, ColourAt(fmt, 1 - a, b))
      <3>1. \A z \in {y} : z % 2 = b
        BY DEF b
      <3> QED
        BY <2>3, <2>4, <3>1, Samples
    <2>9. AllOf(fmt, above, ColourAt(fmt, a, 1 - b))
      <3>1. \A z \in {x} : z % 2 = a
        BY DEF a
      <3> QED
        BY <2>3, <2>4, <3>1, Samples
    <2>10. AllOf(fmt, near \X lines, ColourAt(fmt, 1 - a, 1 - b))
      BY <2>3, <2>4, Samples
    <2>11. ASSUME NEW S, NEW T, NEW col, AllOf(fmt, S, col), AllOf(fmt, T, col)
           PROVE  AllOf(fmt, S \union T, col)
      BY <2>11 DEF AllOf
    <2>12. self = {p}
      BY <1>1
    <2> DEFINE corner == near \X lines
               cross == beside \union above
    <2>13. /\ green =>
                /\ AllOf(fmt, self, "G") /\ AllOf(fmt, beside, Side(blue))
                /\ AllOf(fmt, above, Side(~blue)) /\ Colour(fmt, p) = "G"
           /\ ~green =>
                /\ AllOf(fmt, self, Side(blue)) /\ AllOf(fmt, cross, "G")
                /\ AllOf(fmt, corner, Side(~blue)) /\ Colour(fmt, p) = Side(blue)
      <3> HIDE DEF self, beside, above
      <3> QED
        BY <2>2, <2>5, <2>6, <2>7, <2>8, <2>9, <2>10, <2>11, BayerTable
    <2>14. /\ green => bytes = <<beside, self, above>>
           /\ ~green => bytes = <<self, cross, corner>>
      OBVIOUS
    <2> HIDE DEF self, beside, above, corner, cross, bytes
    <2>19. ASSUME NEW r1, NEW r2, NEW r3, rgb[p] = <<r1, r2, r3>>,
                  AllOf(fmt, r1, "R"), AllOf(fmt, r2, "G"), AllOf(fmt, r3, "B"),
                  Colour(fmt, p) = "R" => r1 = {p}, Colour(fmt, p) = "G" => r2 = {p},
                  Colour(fmt, p) = "B" => r3 = {p}
           PROVE  \A i \in 1 .. 3 :
                    /\ AllOf(fmt, rgb[p][i], RGB[i])
                    /\ Colour(fmt, p) = RGB[i] => rgb[p][i] = {p}
      <3>1. rgb[p][1] = r1 /\ rgb[p][2] = r2 /\ rgb[p][3] = r3
        BY <2>19
      <3>2. RGB[1] = "R" /\ RGB[2] = "G" /\ RGB[3] = "B"
        OBVIOUS
      <3>3. \A i \in 1 .. 3 : i = 1 \/ i = 2 \/ i = 3
        OBVIOUS
      <3> HIDE DEF rgb, RGB
      <3> QED
        BY <2>19, <3>1, <3>2, <3>3
    <2>20. "R" # "G" /\ "G" # "B" /\ "R" # "B"
      OBVIOUS
    <2>15. CASE green /\ blue
      <3>1. rgb[p] = <<beside, self, above>>
        BY <2>1, <2>14, <2>15
      <3>2. Side(blue) = "R" /\ Side(~blue) = "B"
        BY <2>15 DEF Side
      <3> HIDE DEF rgb, RGB
      <3> QED
        BY <2>12, <2>13, <2>15, <2>19, <2>20, <3>1, <3>2
    <2>16. CASE green /\ ~blue
      <3>1. rgb[p] = <<above, self, beside>>
        BY <2>1, <2>14, <2>16
      <3>2. Side(blue) = "B" /\ Side(~blue) = "R"
        BY <2>16 DEF Side
      <3> HIDE DEF rgb, RGB
      <3> QED
        BY <2>12, <2>13, <2>16, <2>19, <2>20, <3>1, <3>2
    <2>17. CASE ~green /\ blue
      <3>1. rgb[p] = <<self, cross, corner>>
        BY <2>1, <2>14, <2>17
      <3>2. Side(blue) = "R" /\ Side(~blue) = "B"
        BY <2>17 DEF Side
      <3> HIDE DEF rgb, RGB
      <3> QED
        BY <2>12, <2>13, <2>17, <2>19, <2>20, <3>1, <3>2
    <2>18. CASE ~green /\ ~blue
      <3>1. rgb[p] = <<corner, cross, self>>
        BY <2>1, <2>14, <2>18
      <3>2. Side(blue) = "B" /\ Side(~blue) = "R"
        BY <2>18 DEF Side
      <3> HIDE DEF rgb, RGB
      <3> QED
        BY <2>12, <2>13, <2>18, <2>19, <2>20, <3>1, <3>2
    <2> QED
      BY <2>15, <2>16, <2>17, <2>18
  <1>2. DOMAIN rgb = (0 .. f.w - 1) \X (0 .. f.h - 1)
    BY DEF bayer_to_rgb24, Rows
  <1> HIDE DEF rgb
  <1>3. ASSUME NEW p \in DOMAIN rgb, NEW i \in 1 .. 3
        PROVE  /\ AllOf(fmt, rgb[p][i], RGB[i])
               /\ Colour(fmt, p) = RGB[i] => rgb[p][i] = {p}
    <2>1. PICK x \in 0 .. f.w - 1, y \in 0 .. f.h - 1 : p = <<x, y>>
      BY <1>2
    <2> QED
      BY <1>1, <2>1
  <1>4. Demosaics(fmt, rgb)
    BY <1>3 DEF Demosaics, AllOf
  <1> QED
    BY <1>4 DEF rgb

\* What GrabRawFrame() writes is the frame of the crop, for every size that the
\* driver lists, every format of IsConverted that it accepts and every request,
\* as far as FrameConverted says.
THEOREM FrameConvertedHolds == Spec => []FrameConverted
  <1>1. FInv => FrameConverted
    <2> SUFFICES ASSUME FInv, capture # NoCapture
                 PROVE  /\ capture.startX % 2 = 0
                        /\ capture.startX + capture.out.w <= capture.mode.w
                        /\ capture.startY % 2 = 0
                        /\ capture.startY + capture.out.h <= capture.mode.h
                        /\ IsConverted(capture.fmt) /\ IsWhole(capture.fmt, capture.out)
                              => GrabRawFrame(capture) = Wanted(capture)
                        /\ capture.fmt \in DOMAIN BayerOrder
                             /\ capture.out.w >= 3 /\ capture.out.h >= 2 =>
                              Demosaics(capture.fmt,
                                        bayer_to_rgb24(capture.out, BayerOrder[capture.fmt]))
      BY DEF FrameConverted
    <2>1. /\ capture.mode \in ToSet(m_AllFmts) /\ Covers(capture.mode, capture.size)
          /\ capture.size \in Sizes \union ToSet(Extra) /\ capture.out = capture.size
      BY DEF FInv, SetUpRight
    <2>2. capture.mode \in AnyMode
      <3>1. m_AllFmts \in Seq(AnyMode)
        BY ModesAreReal DEF FInv, Typed
      <3> QED
        BY <2>1, <3>1 DEF ToSet
    <2>3. capture.size \in AnySize
      BY <2>1, SizesArePositive DEF AnySize
    <2>4. PICK p \in FormatRows : IsCroppedOf(capture, p)
      BY DEF FInv, SetUpRight
    <2>5. /\ capture.startX % 2 = 0 /\ capture.startX + capture.size.w <= capture.mode.w
          /\ capture.startY % 2 = 0 /\ capture.startY + capture.size.h <= capture.mode.h
      <3>1. capture = Cropped(capture.mode, capture.size, p)
        BY <2>4 DEF IsCroppedOf
      <3> QED
        BY <2>1, <2>2, <2>3, <3>1, CroppedInside
    <2>6. IsConverted(capture.fmt) /\ IsWhole(capture.fmt, capture.out)
            => GrabRawFrame(capture) = Wanted(capture)
      BY <2>1, <2>2, <2>3, <2>4, GrabbedFrame
    <2>7. capture.out.w \in Nat /\ capture.out.h \in Nat
      BY <2>1, <2>3 DEF AnySize
    <2>8. ASSUME capture.fmt \in DOMAIN BayerOrder, capture.out.w >= 3, capture.out.h >= 2
          PROVE  Demosaics(capture.fmt,
                           bayer_to_rgb24(capture.out, BayerOrder[capture.fmt]))
      BY <2>7, <2>8, BayerDemosaics
    <2> QED
      BY <2>1, <2>5, <2>6, <2>8
  <1> QED
    BY <1>1, Invariant, PTL

-----------------------------------------------------------------------------
(***************************************************************************)
(* A frame that previewThread() hands out: planes.                         *)
(***************************************************************************)
\* The call f from a frame with rw pixels in a row to one of pw by ph pixels, for
\* the w by h pixels that both have, whole pairs and pairs of rows.
IsDelivery(f, v, w, g, h, pw, ph, rw) ==
    /\ v \in Nat /\ w \in Nat /\ g \in Nat /\ h \in Nat
    /\ pw \in Nat /\ ph \in Nat /\ rw \in Nat
    /\ w = 2 * v /\ h = 2 * g
    /\ f.w = w /\ f.h = h /\ f.dst = pw /\ f.dstHeight = ph /\ f.src = 2 * rw

\* Where row y of a plane is.
RowAt(stride, y) == stride * y

\* The pairs and rows of such a call, and where its rows begin.
LEMMA Delivery ==
    ASSUME NEW f, NEW v, NEW w, NEW g, NEW h, NEW pw, NEW ph, NEW rw,
           IsDelivery(f, v, w, g, h, pw, ph, rw)
    PROVE  /\ Pairs(f) = v /\ RowPairs(f) = 0 .. g - 1 /\ Rows(f) = 0 .. h - 1
           /\ 2 * ((f.h + 1) \div 2) - 1 = h - 1 /\ 2 * Pairs(f) - 1 = w - 1
           /\ f.w \div 2 = v
           /\ \A y \in Nat : SrcRow(f, y) = 2 * rw * y
           /\ \A y \in Nat, stride \in Nat :
                 /\ PlaneRow(f, y, stride) = RowAt(stride, y)
                 /\ HalfRow(f, y, stride) = RowAt(stride, y)
  <1>1. /\ v \in Nat /\ w \in Nat /\ g \in Nat /\ h \in Nat /\ pw \in Nat /\ rw \in Nat
        /\ w = 2 * v /\ h = 2 * g /\ f.w = w /\ f.h = h /\ f.src = 2 * rw
    BY DEF IsDelivery
  <1>2. Pairs(f) = v /\ f.w \div 2 = v
    <2>1. (2 * v + 1) \div 2 = v /\ (2 * v + 0) \div 2 = v
      BY <1>1, IsHalf DEF Bit
    <2> QED
      BY <1>1, <2>1 DEF Pairs
  <1>3. (f.h + 1) \div 2 = g
    <2>1. (2 * g + 1) \div 2 = g
      BY <1>1, IsHalf DEF Bit
    <2> QED
      BY <1>1, <2>1
  <1>4. RowPairs(f) = 0 .. g - 1 /\ Rows(f) = 0 .. h - 1
    BY <1>1, <1>3 DEF RowPairs, Rows
  <1>5. 2 * ((f.h + 1) \div 2) - 1 = h - 1 /\ 2 * Pairs(f) - 1 = w - 1
    BY <1>1, <1>2, <1>3
  <1>6. ASSUME NEW y \in Nat
        PROVE  SrcRow(f, y) = 2 * rw * y
    <2>1. 4 * Pairs(f) + f.src - 2 * f.w = 2 * rw
      BY <1>1, <1>2
    <2>2. y * (2 * rw) = 2 * rw * y
      BY <1>1
    <2> QED
      BY <2>1, <2>2 DEF SrcRow
  <1>7. ASSUME NEW y \in Nat, NEW stride \in Nat
        PROVE  /\ PlaneRow(f, y, stride) = RowAt(stride, y)
               /\ HalfRow(f, y, stride) = RowAt(stride, y)
    <2>1. 2 * Pairs(f) + stride - f.w = stride /\ Pairs(f) + stride - f.w \div 2 = stride
      BY <1>1, <1>2
    <2>2. y * stride = stride * y
      OBVIOUS
    <2> QED
      BY <2>1, <2>2 DEF PlaneRow, HalfRow, RowAt
  <1> QED
    BY <1>2, <1>4, <1>5, <1>6, <1>7

\* The luminance of the pixels.
LumaOf(pw, rw, w, h) ==
    {<<pw * y + x, <<2 * (rw * y + x) + 0>>>> : x \in 0 .. w - 1, y \in 0 .. h - 1}

\* The luminance plane has the luminance of those pixels.
LEMMA LumaDelivered ==
    ASSUME NEW f, NEW v, NEW w, NEW g, NEW h, NEW pw, NEW ph, NEW rw,
           IsDelivery(f, v, w, g, h, pw, ph, rw)
    PROVE  LumaPlane(f) = LumaOf(pw, rw, w, h)
  <1> DEFINE H == 0 .. 2 * ((f.h + 1) \div 2) - 1
             W == 0 .. 2 * Pairs(f) - 1
             P(y, x) == <<PlaneRow(f, y, f.dst) + x, <<SrcRow(f, y) + 2 * x>>>>
             R(y, x) == <<pw * y + x, <<2 * (rw * y + x) + 0>>>>
  <1>1. pw \in Nat /\ rw \in Nat /\ f.dst = pw
    BY DEF IsDelivery
  <1>2. H = 0 .. h - 1 /\ W = 0 .. w - 1
    <2>1. 2 * ((f.h + 1) \div 2) - 1 = h - 1 /\ 2 * Pairs(f) - 1 = w - 1
      BY Delivery
    <2> QED
      BY <2>1
  <1>3. ASSUME NEW y \in Nat, NEW x \in Nat
        PROVE  P(y, x) = R(y, x)
    <2>1. PlaneRow(f, y, f.dst) = pw * y /\ SrcRow(f, y) = 2 * rw * y
      <3>1. /\ \A z \in Nat : SrcRow(f, z) = 2 * rw * z
            /\ \A z \in Nat, stride \in Nat : PlaneRow(f, z, stride) = RowAt(stride, z)
        BY Delivery
      <3>2. PlaneRow(f, y, pw) = pw * y
        BY <1>1, <3>1 DEF RowAt
      <3> QED
        BY <1>1, <3>1, <3>2
    <2>2. 2 * rw * y + 2 * x = 2 * (rw * y + x) + 0
      BY <1>1
    <2> QED
      BY <2>1, <2>2
  <1>4. /\ LumaPlane(f) = {P(y, x) : y \in H, x \in W}
        /\ LumaOf(pw, rw, w, h) = {R(y, x) : x \in 0 .. w - 1, y \in 0 .. h - 1}
    BY DEF LumaPlane, LumaOf
  <1>5. \A y \in 0 .. h - 1, x \in 0 .. w - 1 : P(y, x) = R(y, x)
    BY <1>3
  <1> HIDE DEF P, R, H, W
  <1> QED
    BY <1>2, <1>4, <1>5

\* The chrominance in byte b of pair x of two rows.
MeanOf(rw, x, y, b) == <<2 * (rw * (2 * y) + 2 * x) + b, 2 * (rw * (2 * y + 1) + 2 * x) + b>>

\* MeanOfRows() reads the chrominance of both rows.
LEMMA MeanDelivered ==
    ASSUME NEW f, NEW v, NEW w, NEW g, NEW h, NEW pw, NEW ph, NEW rw, NEW y, NEW k, NEW b,
           IsDelivery(f, v, w, g, h, pw, ph, rw), y \in Nat, k \in Nat, b \in Nat
    PROVE  MeanOfRows(f, y, k, b) = MeanOf(rw, k, y, b)
  <1>1. rw \in Nat /\ f.src = 2 * rw
    BY DEF IsDelivery
  <1>2. SrcRow(f, 2 * y) = 2 * rw * (2 * y)
    BY Delivery
  <1>3. PICK m \in Nat : m = rw * y
    BY <1>1
  <1>4. 2 * rw * (2 * y) = 4 * m /\ rw * (2 * y) = 2 * m /\ rw * (2 * y + 1) = 2 * m + rw
    BY <1>1, <1>3
  <1>5. MeanOfRows(f, y, k, b) = <<4 * m + 4 * k + b, 4 * m + 4 * k + b + 2 * rw>>
    BY <1>1, <1>2, <1>4 DEF MeanOfRows
  <1>6. MeanOf(rw, k, y, b) = <<2 * (2 * m + 2 * k) + b, 2 * (2 * m + rw + 2 * k) + b>>
    BY <1>4 DEF MeanOf
  <1>7. /\ 4 * m + 4 * k + b = 2 * (2 * m + 2 * k) + b
        /\ 4 * m + 4 * k + b + 2 * rw = 2 * (2 * m + rw + 2 * k) + b
    BY <1>1
  <1> QED
    BY <1>5, <1>6, <1>7

\* The chrominance of the client's formats: both components of each pair.
ChromaOf(layout, p, rw, v, g) ==
    {<<Sample(layout, p, comp, x, y), MeanOf(rw, x, y, IF comp = "U" THEN 1 ELSE 3)>> :
        x \in 0 .. v - 1, y \in 0 .. g - 1, comp \in {"U", "V"}}

\* The planes of the client's frame p of 2 v by 2 g pixels of a raw frame.
PlanesOf(layout, p, rw, v, w, g, h) ==
    LumaOf(p.w, rw, w, h) \union ChromaOf(layout, p, rw, v, g)

HasSize(p, pw, ph) == p.w = pw /\ p.h = ph

\* The lines of the planes are not rounded up.
IsAligned(layout, p) == layout = "NV21" \/ RoundUp16(p.w) = p.w

\* What the client wants of the w by h pixels that raw and p both have.
LEMMA WantedPlanes ==
    ASSUME NEW layout, NEW raw, NEW p, NEW v, NEW w, NEW g, NEW h, layout # "YUYV",
           IsAligned(layout, p),
           v \in Nat, g \in Nat, w = 2 * v, h = 2 * g,
           w = (IF raw.w < p.w THEN raw.w ELSE p.w), h = (IF raw.h < p.h THEN raw.h ELSE p.h)
    PROVE  WantedByClient(layout, raw, p) = PlanesOf(layout, p, raw.w, v, w, g, h)
  <1> DEFINE yuyv(x, y, b) == 2 * (raw.w * y + x) + b
             L == {<<Sample(layout, p, "Y", x, y), <<yuyv(x, y, 0)>>>> :
                     x \in 0 .. w - 1, y \in 0 .. h - 1}
             C == {<<Sample(layout, p, comp, x, y),
                     LET b == IF comp = "U" THEN 1 ELSE 3
                     IN  <<yuyv(2 * x, 2 * y, b), yuyv(2 * x, 2 * y + 1, b)>>>> :
                     x \in 0 .. w \div 2 - 1, y \in 0 .. h \div 2 - 1, comp \in {"U", "V"}}
  <1> DEFINE W0 == IF raw.w < p.w THEN raw.w ELSE p.w
             H0 == IF raw.h < p.h THEN raw.h ELSE p.h
             L0 == {<<Sample(layout, p, "Y", x, y), <<yuyv(x, y, 0)>>>> :
                     x \in 0 .. W0 - 1, y \in 0 .. H0 - 1}
             C0 == {<<Sample(layout, p, comp, x, y),
                      LET b == IF comp = "U" THEN 1 ELSE 3
                      IN  <<yuyv(2 * x, 2 * y, b), yuyv(2 * x, 2 * y + 1, b)>>>> :
                      x \in 0 .. W0 \div 2 - 1, y \in 0 .. H0 \div 2 - 1, comp \in {"U", "V"}}
  <1>5. WantedByClient(layout, raw, p) = L0 \union C0
    BY DEF WantedByClient
  <1>6. W0 = w /\ H0 = h
    OBVIOUS
  <1>7. L0 = L
    <2> HIDE DEF W0, H0
    <2> QED
      BY <1>6
  <1>8. C0 = C
    <2> HIDE DEF W0, H0
    <2> QED
      BY <1>6
  <1>1. WantedByClient(layout, raw, p) = L \union C
    <2> HIDE DEF L, C, L0, C0
    <2> QED
      BY <1>5, <1>7, <1>8
  <1>2. L = LumaOf(p.w, raw.w, w, h)
    <2>1. ASSUME NEW x, NEW y
          PROVE  Sample(layout, p, "Y", x, y) = p.w * y + x
      BY DEF Sample, IsAligned
    <2> QED
      BY <2>1 DEF LumaOf
  <1>3. w \div 2 = v /\ h \div 2 = g
    <2>1. (2 * v + 0) \div 2 = v /\ (2 * g + 0) \div 2 = g
      BY IsHalf DEF Bit
    <2> QED
      BY <2>1
  <1>4. C = ChromaOf(layout, p, raw.w, v, g)
    BY <1>3 DEF ChromaOf, MeanOf
  <1> HIDE DEF L, C
  <1> QED
    BY <1>1, <1>2, <1>4 DEF PlanesOf

\* One plane with both components in turn.
LEMMA PlaneInTurn ==
    ASSUME NEW f, NEW v, NEW w, NEW g, NEW h, NEW pw, NEW ph, NEW rw, NEW p,
           IsDelivery(f, v, w, g, h, pw, ph, rw), HasSize(p, pw, ph)
    PROVE  yuyv_to_yvu420sp(f) = PlanesOf("NV21", p, rw, v, w, g, h)
  <1> DEFINE G == RowPairs(f)
             K == 0 .. Pairs(f) - 1
             P(y, k, i) == <<f.dst * f.dstHeight + PlaneRow(f, y, f.dst) + 2 * k + i,
                             MeanOfRows(f, y, k, 3 - 2 * i)>>
             R(x, y, comp) == <<Sample("NV21", p, comp, x, y),
                                MeanOf(rw, x, y, IF comp = "U" THEN 1 ELSE 3)>>
             C == {P(y, k, i) : y \in G, k \in K, i \in {0, 1}}
  <1>1. pw \in Nat /\ ph \in Nat /\ v \in Nat /\ g \in Nat /\ f.dst = pw /\ f.dstHeight = ph
        /\ p.w = pw /\ p.h = ph
    BY DEF IsDelivery, HasSize
  <1>2. G = 0 .. g - 1 /\ K = 0 .. v - 1
    <2>1. RowPairs(f) = 0 .. g - 1 /\ Pairs(f) = v
      BY Delivery
    <2> QED
      BY <2>1
  <1>3. ASSUME NEW y \in Nat, NEW k \in Nat
        PROVE  P(y, k, 0) = R(k, y, "V") /\ P(y, k, 1) = R(k, y, "U")
    <2>1. \A z \in Nat, stride \in Nat : PlaneRow(f, z, stride) = RowAt(stride, z)
      BY Delivery
    <2>2. PICK r \in Nat : r = pw * y
      BY <1>1
    <2>3. PlaneRow(f, y, pw) = r
      BY <1>1, <2>1, <2>2 DEF RowAt
    <2>4. PICK a \in Nat : a = pw * ph
      BY <1>1
    <2>5. /\ MeanOfRows(f, y, k, 3) = MeanOf(rw, k, y, 3)
          /\ MeanOfRows(f, y, k, 1) = MeanOf(rw, k, y, 1)
      BY MeanDelivered
    <2>6. 3 - 2 * 0 = 3 /\ 3 - 2 * 1 = 1
      OBVIOUS
    <2>7. /\ Sample("NV21", p, "V", k, y) = a + r + 2 * k + 0
          /\ Sample("NV21", p, "U", k, y) = a + r + 2 * k + 1
      BY <1>1, <2>2, <2>4 DEF Sample
    <2> QED
      BY <1>1, <2>3, <2>4, <2>5, <2>6, <2>7
  <1>4. /\ yuyv_to_yvu420sp(f) = LumaPlane(f) \union C
        /\ ChromaOf("NV21", p, rw, v, g)
             = {R(x, y, comp) : x \in 0 .. v - 1, y \in 0 .. g - 1, comp \in {"U", "V"}}
    BY DEF yuyv_to_yvu420sp, ChromaOf
  <1>5. \A y \in G, k \in K : P(y, k, 0) = R(k, y, "V") /\ P(y, k, 1) = R(k, y, "U")
    BY <1>2, <1>3
  <1> HIDE DEF P, R
  <1>6. C = ChromaOf("NV21", p, rw, v, g)
    <2> HIDE DEF G, K
    <2> QED
      BY <1>2, <1>4, <1>5
  <1>7. LumaPlane(f) = LumaOf(pw, rw, w, h)
    BY LumaDelivered
  <1> HIDE DEF C
  <1> QED
    BY <1>1, <1>4, <1>6, <1>7 DEF PlanesOf

\* Two planes: V and U, or U and V.
LEMMA PlanesOfOneEach ==
    ASSUME NEW f, NEW v, NEW w, NEW g, NEW h, NEW pw, NEW ph, NEW rw, NEW p,
           NEW layout, NEW first, NEW second,
           IsDelivery(f, v, w, g, h, pw, ph, rw), HasSize(p, pw, ph),
           IsAligned(layout, p),
           \/ layout = "YV12" /\ first = 3 /\ second = 1
           \/ layout = "I420" /\ first = 1 /\ second = 3
    PROVE  TwoPlanes(f, first, second) = PlanesOf(layout, p, rw, v, w, g, h)
  <1> DEFINE G == RowPairs(f)
             K == 0 .. Pairs(f) - 1
             S == ChromaStride(f)
             start(i) == f.dst * f.dstHeight + i * ((S * f.dstHeight) \div 2)
             P(y, k, i) == <<start(i) + HalfRow(f, y, S) + k,
                             MeanOfRows(f, y, k, IF i = 0 THEN first ELSE second)>>
             R(x, y, comp) == <<Sample(layout, p, comp, x, y),
                                MeanOf(rw, x, y, IF comp = "U" THEN 1 ELSE 3)>>
             C == {P(y, k, i) : y \in G, k \in K, i \in {0, 1}}
             F == IF layout = "YV12" THEN "V" ELSE "U"
             T == IF layout = "YV12" THEN "U" ELSE "V"
  <1>1. pw \in Nat /\ ph \in Nat /\ v \in Nat /\ g \in Nat /\ f.dst = pw /\ f.dstHeight = ph
        /\ p.w = pw /\ p.h = ph
    BY DEF IsDelivery, HasSize
  <1>2. G = 0 .. g - 1 /\ K = 0 .. v - 1
    <2>1. RowPairs(f) = 0 .. g - 1 /\ Pairs(f) = v
      BY Delivery
    <2> QED
      BY <2>1
  <1>3. ASSUME NEW y \in Nat, NEW k \in Nat
        PROVE  P(y, k, 0) = R(k, y, F) /\ P(y, k, 1) = R(k, y, T)
    <2>1. \A z \in Nat, stride \in Nat : HalfRow(f, z, stride) = RowAt(stride, z)
      BY Delivery
    <2>2. PICK s \in Nat : s = RoundUp16(pw \div 2) /\ s = S
      BY <1>1 DEF RoundUp16, ChromaStride
    <2>3. PICK r \in Nat : r = s * y
      OBVIOUS
    <2>4. HalfRow(f, y, s) = r
      BY <2>1, <2>3 DEF RowAt
    <2>5. PICK a \in Nat : a = pw * ph
      BY <1>1
    <2>6. PICK b \in Nat : b = (s * ph) \div 2
      <3>1. PICK n \in Nat : n = s * ph
        BY <1>1
      <3>2. n \div 2 \in Nat
        OBVIOUS
      <3> QED
        BY <3>1, <3>2
    <2>7. /\ MeanOfRows(f, y, k, 3) = MeanOf(rw, k, y, 3)
          /\ MeanOfRows(f, y, k, 1) = MeanOf(rw, k, y, 1)
      BY MeanDelivered
    <2>8. /\ Sample(layout, p, F, k, y) = a + r + k + 0
          /\ Sample(layout, p, T, k, y) = a + r + k + b
      <3> USE <1>1, <2>2, <2>3, <2>5, <2>6
      <3>1. CASE layout = "YV12"
        BY <3>1 DEF Sample, IsAligned
      <3>2. CASE layout = "I420"
        BY <3>2 DEF Sample, IsAligned
      <3> QED
        BY <3>1, <3>2
    <2>9. start(0) = a /\ start(1) = a + b
      BY <1>1, <2>2, <2>5, <2>6
    <2>10. /\ (IF 0 = 0 THEN first ELSE second) = (IF F = "U" THEN 1 ELSE 3)
           /\ (IF 1 = 0 THEN first ELSE second) = (IF T = "U" THEN 1 ELSE 3)
           /\ first \in {1, 3} /\ second \in {1, 3}
      OBVIOUS
    <2>11. a + r + k + 0 = a + r + k /\ a + r + k + b = a + b + r + k
      OBVIOUS
    <2> HIDE DEF start, F, T, S
    <2> QED
      BY <2>2, <2>4, <2>7, <2>8, <2>9, <2>10, <2>11
  <1>4. /\ TwoPlanes(f, first, second) = LumaPlane(f) \union C
        /\ ChromaOf(layout, p, rw, v, g)
             = {R(x, y, comp) : x \in 0 .. v - 1, y \in 0 .. g - 1, comp \in {"U", "V"}}
    BY DEF TwoPlanes, ChromaOf
  <1>5. \A y \in G, k \in K : P(y, k, 0) = R(k, y, F) /\ P(y, k, 1) = R(k, y, T)
    BY <1>2, <1>3
  <1> HIDE DEF P, R
  <1>6. C = ChromaOf(layout, p, rw, v, g)
    <2>1. (F = "V" /\ T = "U") \/ (F = "U" /\ T = "V")
      OBVIOUS
    <2> HIDE DEF G, K, F, T
    <2> QED
      BY <1>2, <1>4, <1>5, <2>1
  <1>7. LumaPlane(f) = LumaOf(pw, rw, w, h)
    BY LumaDelivered
  <1> HIDE DEF C
  <1> QED
    BY <1>1, <1>4, <1>6, <1>7 DEF PlanesOf

-----------------------------------------------------------------------------
(***************************************************************************)
(* All bytes of a frame.                                                   *)
(***************************************************************************)
\* A product of numbers grows with each of them.
LEMMA ProductGrows ==
    ASSUME NEW n \in Nat, NEW y \in Nat, NEW z \in Nat, y <= z
    PROVE  n * y <= n * z /\ n * y \in Nat
  <1>1. PICK d \in Nat : z = y + d
    <2>1. z - y \in Nat /\ z = y + (z - y)
      OBVIOUS
    <2> QED
      BY <2>1
  <1>2. n * (y + d) = n * y + n * d
    OBVIOUS
  <1>3. n * y \in Nat /\ n * d \in Nat
    OBVIOUS
  <1> QED
    BY <1>1, <1>2, <1>3

\* The bytes of h rows of n bytes are numbered row by row.
LEMMA RowsOfBytes ==
    ASSUME NEW n \in Nat, NEW h \in Nat, n > 0
    PROVE  /\ \A y \in 0 .. h - 1, b \in 0 .. n - 1 : n * y + b \in 0 .. n * h - 1
           /\ \A a \in 0 .. n * h - 1 :
                 \E y \in 0 .. h - 1, b \in 0 .. n - 1 : a = n * y + b
  <1>1. ASSUME NEW y \in 0 .. h - 1, NEW b \in 0 .. n - 1
        PROVE  n * y + b \in 0 .. n * h - 1
    <2>1. n * (y + 1) <= n * h
      BY ProductGrows
    <2>2. n * (y + 1) = n * y + n /\ n * y \in Nat /\ n * h \in Nat
      BY ProductGrows
    <2> QED
      BY <2>1, <2>2
  <1>2. ASSUME NEW a \in 0 .. n * h - 1
        PROVE  \E y \in 0 .. h - 1, b \in 0 .. n - 1 : a = n * y + b
    <2> DEFINE S == {y \in Nat : n * (y + 1) > a}
    <2>1. a \in Nat /\ n * h \in Nat /\ a < n * h
      OBVIOUS
    <2>2. a \in S
      <3>1. (a + 1) * 1 <= (a + 1) * n
        BY <2>1, ProductGrows
      <3>2. (a + 1) * n = n * (a + 1) /\ (a + 1) * 1 = a + 1
        BY <2>1
      <3>3. n * (a + 1) \in Nat
        BY <2>1
      <3> QED
        BY <2>1, <3>1, <3>2, <3>3
    <2>3. PICK y \in S : \A z \in S : y <= z
      <3>1. S \in SUBSET Nat /\ S # {}
        BY <2>2
      <3> HIDE DEF S
      <3> QED
        BY <3>1, Least
    <2>4. y \in Nat /\ n * (y + 1) > a
      BY <2>3
    <2>5. n * y <= a
      <3>1. CASE y = 0
        BY <2>1, <3>1
      <3>2. CASE y # 0
        <4>1. y - 1 \in Nat /\ y - 1 \notin S
          BY <2>3, <2>4, <3>2
        <4>2. ~(n * ((y - 1) + 1) > a)
          BY <4>1
        <4>3. (y - 1) + 1 = y
          BY <2>4
        <4>4. n * y \in Nat
          BY <2>4
        <4> QED
          BY <2>1, <4>2, <4>3, <4>4
      <3> QED
        BY <3>1, <3>2
    <2>6. y < h
      <3> SUFFICES ASSUME h <= y
                   PROVE  FALSE
        BY <2>4
      <3>1. n * h <= n * y
        BY <2>4, ProductGrows
      <3>2. n * y \in Nat
        BY <2>4
      <3> QED
        BY <2>1, <2>5, <3>1, <3>2
    <2>7. n * (y + 1) = n * y + n /\ n * y \in Nat
      BY <2>4
    <2>8. a - n * y \in 0 .. n - 1 /\ a = n * y + (a - n * y) /\ y \in 0 .. h - 1
      BY <2>1, <2>4, <2>5, <2>6, <2>7
    <2> QED
      BY <2>8
  <1> QED
    BY <1>1, <1>2

\* The bytes of the pixels that two frames of YUYV have in common.
BytesOf(pw, rw, w, h) ==
    {<<2 * (pw * y + x) + b, <<2 * (rw * y + x) + b>>>> :
        x \in 0 .. w - 1, y \in 0 .. h - 1, b \in Bit}

\* They are what the client wants of a YUYV frame.
LEMMA WantedBytes ==
    ASSUME NEW raw, NEW p, NEW w, NEW h,
           w = (IF raw.w < p.w THEN raw.w ELSE p.w), h = (IF raw.h < p.h THEN raw.h ELSE p.h)
    PROVE  WantedByClient("YUYV", raw, p) = BytesOf(p.w, raw.w, w, h)
  <1> DEFINE yuyv(x, y, b) == 2 * (raw.w * y + x) + b
             W0 == IF raw.w < p.w THEN raw.w ELSE p.w
             H0 == IF raw.h < p.h THEN raw.h ELSE p.h
             C0 == {<<2 * (p.w * y + x) + b, <<yuyv(x, y, b)>>>> :
                       x \in 0 .. W0 - 1, y \in 0 .. H0 - 1, b \in {0, 1}}
  <1>1. WantedByClient("YUYV", raw, p) = C0
    BY DEF WantedByClient
  <1>2. W0 = w /\ H0 = h
    OBVIOUS
  <1> HIDE DEF W0, H0
  <1>3. C0 = BytesOf(p.w, raw.w, w, h)
    BY <1>2 DEF BytesOf, Bit
  <1> QED
    BY <1>1, <1>3

\* Two bytes for each of w pixels.
LEMMA ByTwos ==
    ASSUME NEW w \in Nat
    PROVE  /\ \A x \in 0 .. w - 1, i \in Bit : 2 * x + i \in 0 .. 2 * w - 1
           /\ \A b \in 0 .. 2 * w - 1 : \E x \in 0 .. w - 1, i \in Bit : b = 2 * x + i
  <1>1. ASSUME NEW b \in 0 .. 2 * w - 1
        PROVE  \E x \in 0 .. w - 1, i \in Bit : b = 2 * x + i
    <2>1. PICK x \in Nat, i \in Bit : b = 2 * x + i
      BY Halves
    <2>2. x \in 0 .. w - 1
      BY <2>1 DEF Bit
    <2> QED
      BY <2>1, <2>2
  <1>2. \A x \in 0 .. w - 1, i \in Bit : 2 * x + i \in 0 .. 2 * w - 1
    BY DEF Bit
  <1> QED
    BY <1>1, <1>2

\* The copy of the lines has them all.
LEMMA BytesDelivered ==
    ASSUME NEW f, NEW w \in Nat, NEW h \in Nat, NEW pw \in Nat, NEW rw \in Nat,
           f.w = w, f.h = h, f.dst = 2 * pw, f.src = 2 * rw
    PROVE  CopyLines(f) = BytesOf(pw, rw, w, h)
  <1> DEFINE H == Rows(f)
             B == 0 .. 2 * f.w - 1
             X == 0 .. w - 1
             P(y, b) == <<f.dst * y + b, <<f.src * y + b>>>>
             R(x, y, b) == <<2 * (pw * y + x) + b, <<2 * (rw * y + x) + b>>>>
  <1>1. H = 0 .. h - 1 /\ B = 0 .. 2 * w - 1
    BY DEF Rows
  <1>2. ASSUME NEW y \in Nat, NEW x \in Nat, NEW i \in Bit
        PROVE  P(y, 2 * x + i) = R(x, y, i)
    <2>1. PICK m \in Nat, k \in Nat : m = pw * y /\ k = rw * y
      OBVIOUS
    <2>2. f.dst * y = 2 * m /\ f.src * y = 2 * k
      BY <2>1
    <2>3. 2 * m + (2 * x + i) = 2 * (m + x) + i /\ 2 * k + (2 * x + i) = 2 * (k + x) + i
      BY DEF Bit
    <2> QED
      BY <2>1, <2>2, <2>3
  <1>3. /\ CopyLines(f) = {P(y, b) : y \in H, b \in B}
        /\ BytesOf(pw, rw, w, h) = {R(x, y, b) : x \in X, y \in 0 .. h - 1, b \in Bit}
    BY DEF CopyLines, BytesOf
  <1>4. /\ \A x \in X, i \in Bit : 2 * x + i \in B
        /\ \A b \in B : \E x \in X, i \in Bit : b = 2 * x + i
    <2> HIDE DEF B
    <2> QED
      BY <1>1, ByTwos
  <1>5. ASSUME NEW y \in H, NEW x \in X, NEW i \in Bit
        PROVE  P(y, 2 * x + i) = R(x, y, i)
    <2>1. y \in Nat /\ x \in Nat
      BY <1>1
    <2> HIDE DEF P, R, H, B, X
    <2> QED
      BY <1>2, <2>1
  <1>6. H = 0 .. h - 1
    BY <1>1
  <1> HIDE DEF P, R, H, B, X
  <1>7. ASSUME NEW y \in H, NEW b \in B
        PROVE  \E x \in X, i \in Bit : P(y, b) = R(x, y, i)
    <2>1. PICK x \in X, i \in Bit : b = 2 * x + i
      BY <1>4
    <2> QED
      BY <1>5, <2>1
  <1>8. ASSUME NEW y \in H, NEW x \in X, NEW i \in Bit
        PROVE  \E b \in B : P(y, b) = R(x, y, i)
    BY <1>4, <1>5
  <1>9. BytesOf(pw, rw, w, h) = {R(x, y, b) : x \in X, y \in H, b \in Bit}
    BY <1>3, <1>6
  <1> DEFINE L == {P(y, b) : y \in H, b \in B}
             N == {R(x, y, b) : x \in X, y \in H, b \in Bit}
  <1>10. L \subseteq N
    <2> SUFFICES ASSUME NEW z \in L
                 PROVE  z \in N
      OBVIOUS
    <2>1. PICK y \in H, b \in B : z = P(y, b)
      OBVIOUS
    <2>2. PICK x \in X, i \in Bit : P(y, b) = R(x, y, i)
      BY <1>7
    <2> QED
      BY <2>1, <2>2
  <1>11. N \subseteq L
    <2> SUFFICES ASSUME NEW z \in N
                 PROVE  z \in L
      OBVIOUS
    <2>1. PICK x \in X, y \in H, i \in Bit : z = R(x, y, i)
      OBVIOUS
    <2>2. PICK b \in B : P(y, b) = R(x, y, i)
      BY <1>8
    <2> QED
      BY <2>1, <2>2
  <1>12. CopyLines(f) = L
    BY <1>3
  <1>13. BytesOf(pw, rw, w, h) = N
    BY <1>9
  <1> HIDE DEF L, N
  <1> QED
    BY <1>10, <1>11, <1>12, <1>13

\* All bytes of a frame of w by h pixels.
LEMMA AllBytes ==
    ASSUME NEW w \in Nat, NEW h \in Nat, w > 0
    PROVE  {<<b, <<b>>>> : b \in 0 .. 2 * (w * h) - 1} = BytesOf(w, w, w, h)
  <1> DEFINE A == 0 .. 2 * (w * h) - 1
             H == 0 .. h - 1
             X == 0 .. w - 1
             R(x, y, b) == <<2 * (w * y + x) + b, <<2 * (w * y + x) + b>>>>
  <1>1. PICK n \in Nat : n = 2 * w /\ n > 0
    OBVIOUS
  <1>2. A = 0 .. n * h - 1
    <2>1. n * h = 2 * (w * h)
      BY <1>1
    <2> QED
      BY <2>1
  <1>3. /\ \A y \in H, b \in 0 .. n - 1 : n * y + b \in 0 .. n * h - 1
        /\ \A a \in 0 .. n * h - 1 : \E y \in H, b \in 0 .. n - 1 : a = n * y + b
    BY <1>1, RowsOfBytes
  <1>4. /\ \A x \in X, i \in Bit : 2 * x + i \in 0 .. n - 1
        /\ \A b \in 0 .. n - 1 : \E x \in X, i \in Bit : b = 2 * x + i
    BY <1>1, ByTwos
  <1>5. ASSUME NEW y \in H, NEW x \in X, NEW i \in Bit
        PROVE  n * y + (2 * x + i) = 2 * (w * y + x) + i
    <2>1. PICK m \in Nat : m = w * y
      OBVIOUS
    <2>2. n * y = 2 * m
      BY <1>1, <2>1
    <2> QED
      BY <2>1, <2>2 DEF Bit
  <1>6. BytesOf(w, w, w, h) = {R(x, y, b) : x \in X, y \in H, b \in Bit}
    BY DEF BytesOf
  <1>7. ASSUME NEW a \in A
        PROVE  \E x \in X, y \in H, i \in Bit : a = 2 * (w * y + x) + i
    <2>1. PICK y \in H, b \in 0 .. n - 1 : a = n * y + b
      BY <1>2, <1>3
    <2>2. PICK x \in X, i \in Bit : b = 2 * x + i
      BY <1>4
    <2> QED
      BY <1>5, <2>1, <2>2
  <1>8. ASSUME NEW y \in H, NEW x \in X, NEW i \in Bit
        PROVE  2 * (w * y + x) + i \in A
    <2>1. n * y + (2 * x + i) \in A
      BY <1>2, <1>3, <1>4
    <2> QED
      BY <1>5, <2>1
  <1>9. ASSUME NEW a, NEW x, NEW y, NEW i, a = 2 * (w * y + x) + i
        PROVE  <<a, <<a>>>> = R(x, y, i)
    BY <1>9
  <1>10. \A a \in A : \E x \in X, y \in H, i \in Bit : <<a, <<a>>>> = R(x, y, i)
    <2> SUFFICES ASSUME NEW a \in A
                 PROVE  \E x \in X, y \in H, i \in Bit : <<a, <<a>>>> = R(x, y, i)
      OBVIOUS
    <2>1. PICK x \in X, y \in H, i \in Bit : a = 2 * (w * y + x) + i
      BY <1>7
    <2> QED
      BY <2>1
  <1>11. \A x \in X, y \in H, i \in Bit : \E a \in A : <<a, <<a>>>> = R(x, y, i)
    <2> HIDE DEF A, X, H
    <2> QED
      BY <1>8
  <1> HIDE DEF A, X, H, R
  <1> DEFINE L == {<<b, <<b>>>> : b \in A}
             N == {R(x, y, b) : x \in X, y \in H, b \in Bit}
  <1>12. L \subseteq N
    <2> SUFFICES ASSUME NEW z \in L
                 PROVE  z \in N
      OBVIOUS
    <2>1. PICK a \in A : z = <<a, <<a>>>>
      OBVIOUS
    <2> QED
      BY <1>10, <2>1
  <1>13. N \subseteq L
    <2> SUFFICES ASSUME NEW z \in N
                 PROVE  z \in L
      OBVIOUS
    <2>1. PICK x \in X, y \in H, i \in Bit : z = R(x, y, i)
      OBVIOUS
    <2>2. PICK a \in A : <<a, <<a>>>> = R(x, y, i)
      BY <1>11
    <2> QED
      BY <2>1, <2>2
  <1> HIDE DEF L, N
  <1>14. L = N
    BY <1>12, <1>13
  <1> QED
    BY <1>6, <1>14 DEF A, L, N

-----------------------------------------------------------------------------
(***************************************************************************)
(* The window.                                                             *)
(***************************************************************************)
\* The sources of byte c of a pixel of the window, whose Y is at byte at + 2 i of
\* its pair.
RgbOf(at, i, c) ==
    CASE c = 0 -> <<at + 2 * i, at + 3>>
      [] c = 1 -> <<at + 2 * i, at + 1, at + 3>>
      [] c = 2 -> <<at + 2 * i, at + 1>>

\* Every pixel of a raw frame with whole pairs is in the window, which has lines
\* of stride pixels.
LEMMA WindowDelivered ==
    ASSUME NEW raw, NEW stride \in Nat, NEW v \in Nat, NEW w \in Nat, NEW h \in Nat,
           raw.w = w, raw.h = h, w = 2 * v
    PROVE  WindowFrame(raw, stride) = WantedByWindow(raw, stride)
  <1> DEFINE f == [w |-> raw.w, h |-> raw.h, dst |-> 4 * stride, src |-> 2 * raw.w]
             H == Rows(f)
             K == 0 .. f.w \div 2 - 1
             X == 0 .. raw.w - 1
             yuyv(x, y, b) == 2 * (raw.w * y + x) + b
             pair(x) == 2 * (x \div 2)
             P(y, k, i, c) == <<f.dst * y + 8 * k + 4 * i + c, RgbOf(f.src * y + 4 * k, i, c)>>
             R(x, y, c) ==
                <<4 * (stride * y + x) + c,
                  CASE c = 0 -> <<yuyv(x, y, 0), yuyv(pair(x), y, 3)>>
                    [] c = 1 -> <<yuyv(x, y, 0), yuyv(pair(x), y, 1), yuyv(pair(x), y, 3)>>
                    [] c = 2 -> <<yuyv(x, y, 0), yuyv(pair(x), y, 1)>>>>
             C == 0 .. 2
             L == {P(y, k, i, c) : y \in H, k \in K, i \in Bit, c \in C}
             N == {R(x, y, c) : x \in X, y \in H, c \in C}
  <1>1. H = 0 .. h - 1 /\ X = 0 .. w - 1
    BY DEF Rows
  <1>2. K = 0 .. v - 1
    <2>1. (2 * v + 0) \div 2 = v
      BY IsHalf DEF Bit
    <2>2. f.w \div 2 = v
      BY <2>1
    <2> QED
      BY <2>2
  <1>3. WindowFrame(raw, stride) = L
    BY DEF WindowFrame, yuyv_to_rgb32, RgbOf, Bit
  <1>4. WantedByWindow(raw, stride) = N
    <2>1. H = 0 .. raw.h - 1
      BY DEF Rows
    <2> HIDE DEF H
    <2> QED
      BY <2>1 DEF WantedByWindow
  <1>5. ASSUME NEW y \in Nat, NEW k \in Nat, NEW i \in Bit, NEW c \in C
        PROVE  P(y, k, i, c) = R(2 * k + i, y, c)
    <2>1. (2 * k + i) \div 2 = k
      BY IsHalf
    <2>2. PICK m \in Nat : m = w * y
      OBVIOUS
    <2>3. PICK n \in Nat : n = stride * y
      OBVIOUS
    <2>4. f.src * y = 2 * m /\ f.dst * y = 4 * n
      BY <2>2, <2>3
    <2>5. pair(2 * k + i) = 2 * k
      BY <2>1
    <2>6. /\ yuyv(2 * k + i, y, 0) = 2 * m + 4 * k + 2 * i
          /\ yuyv(2 * k, y, 1) = 2 * m + 4 * k + 1
          /\ yuyv(2 * k, y, 3) = 2 * m + 4 * k + 3
      BY <2>2 DEF Bit
    <2>7. 4 * (stride * y + (2 * k + i)) + c = 4 * n + 8 * k + 4 * i + c
      BY <2>3 DEF Bit
    <2> HIDE DEF pair, yuyv
    <2>8. c = 0 \/ c = 1 \/ c = 2
      OBVIOUS
    <2> QED
      BY <2>4, <2>5, <2>6, <2>7, <2>8 DEF RgbOf
  <1> HIDE DEF P, R, C, yuyv, pair
  <1>6. L \subseteq N
    <2> SUFFICES ASSUME NEW z \in L
                 PROVE  z \in N
      OBVIOUS
    <2>1. PICK y \in H, k \in K, i \in Bit, c \in C : z = P(y, k, i, c)
      OBVIOUS
    <2>2. y \in Nat /\ k \in Nat /\ 2 * k + i \in X
      BY <1>1, <1>2 DEF Bit
    <2>3. P(y, k, i, c) = R(2 * k + i, y, c)
      BY <1>5, <2>2
    <2> HIDE DEF H, X, K
    <2> QED
      BY <2>1, <2>2, <2>3
  <1>7. N \subseteq L
    <2> SUFFICES ASSUME NEW z \in N
                 PROVE  z \in L
      OBVIOUS
    <2>1. PICK x \in X, y \in H, c \in C : z = R(x, y, c)
      OBVIOUS
    <2>2. y \in Nat /\ x \in Nat /\ x < 2 * v
      BY <1>1
    <2>3. PICK k \in Nat, i \in Bit : x = 2 * k + i
      BY <2>2, Halves
    <2>4. k \in K
      BY <1>2, <2>2, <2>3 DEF Bit
    <2>5. P(y, k, i, c) = R(2 * k + i, y, c)
      BY <1>5, <2>2
    <2> HIDE DEF H, X, K
    <2> QED
      BY <2>1, <2>3, <2>4, <2>5
  <1> HIDE DEF L, N
  <1> QED
    BY <1>3, <1>4, <1>6, <1>7

-----------------------------------------------------------------------------
(***************************************************************************)
(* Every format and every size.                                            *)
(***************************************************************************)
\* A size of whole pairs of pixels and of rows.
IsPaired(s, v, w, g, h) ==
    /\ v \in Nat /\ w \in Nat /\ g \in Nat /\ h \in Nat
    /\ s.w = w /\ s.h = h /\ w = 2 * v /\ h = 2 * g

\* A frame of even size has whole pairs of pixels and of rows.
LEMMA EvenIsPaired ==
    ASSUME NEW s \in AllSizes, Even(s)
    PROVE  /\ \E v, w, g, h : IsPaired(s, v, w, g, h)
           /\ s.w > 0
  <1>1. s.w \in Nat \ {0} /\ s.h \in Nat \ {0}
    BY SizesArePositive DEF AllSizes
  <1>2. s.w % 2 = 0 /\ s.h % 2 = 0
    BY DEF Even
  <1>3. PICK v \in Nat : s.w = 2 * v
    BY <1>1, <1>2, PairsOf
  <1>4. PICK g \in Nat : s.h = 2 * g
    BY <1>1, <1>2, PairsOf
  <1>5. IsPaired(s, v, s.w, g, s.h)
    BY <1>1, <1>3, <1>4 DEF IsPaired
  <1> QED
    BY <1>1, <1>5

\* Lines of whole 16 pixels are not rounded up.
LEMMA WholeLines ==
    ASSUME NEW s, NEW w, s.w = w, w \in Nat, w % 16 = 0
    PROVE  \A layout : IsAligned(layout, s)
  <1>1. RoundUp16(w) = w
    BY DEF RoundUp16
  <1> QED
    BY <1>1 DEF IsAligned

\* The frame of the recorder: all pixels of raw, in a frame of raw's size.
LEMMA RecordingDelivered ==
    ASSUME NEW raw \in AllSizes, Even(raw)
    PROVE  /\ \A fmt \in {"yuv422sp", "yuv420sp"} :
                 RecordingFrame(fmt, raw) = WantedByClient("NV21", raw, raw)
           /\ raw.w % 16 = 0 =>
                 RecordingFrame("yuv420p", raw) = WantedByClient("I420", raw, raw)
           /\ RecordingFrame("yuv422i-yuyv", raw) = WantedByClient("YUYV", raw, raw)
  <1>1. PICK v, w, g, h : IsPaired(raw, v, w, g, h)
    BY EvenIsPaired
  <1>2. v \in Nat /\ w \in Nat /\ g \in Nat /\ h \in Nat /\ raw.w = w /\ raw.h = h
        /\ w = 2 * v /\ h = 2 * g
    BY <1>1 DEF IsPaired
  <1>3. /\ HasSize(raw, raw.w, raw.h)
        /\ w = (IF raw.w < raw.w THEN raw.w ELSE raw.w)
        /\ h = (IF raw.h < raw.h THEN raw.h ELSE raw.h)
    BY <1>2 DEF HasSize
  <1> DEFINE f == [w |-> raw.w, h |-> raw.h, dst |-> raw.w, dstHeight |-> raw.h,
                   src |-> 2 * raw.w]
  <1>4. IsDelivery(f, v, w, g, h, raw.w, raw.h, raw.w)
    BY <1>2 DEF IsDelivery
  <1>5. \A layout : layout # "YUYV" /\ IsAligned(layout, raw) =>
           WantedByClient(layout, raw, raw)
             = PlanesOf(layout, raw, raw.w, v, w, g, h)
    BY <1>2, <1>3, WantedPlanes
  <1>6. /\ \A fmt \in {"yuv422sp", "yuv420sp"} : RecordingFrame(fmt, raw) = yuyv_to_yvu420sp(f)
        /\ RecordingFrame("yuv420p", raw) = yuyv_to_yuv420p(f)
        /\ RecordingFrame("yuv422i-yuyv", raw) = {<<b, <<b>>>> : b \in 0 .. 2 * Area(raw) - 1}
    BY DEF RecordingFrame
  <1> HIDE DEF f
  <1>7. yuyv_to_yvu420sp(f) = PlanesOf("NV21", raw, raw.w, v, w, g, h)
    BY <1>3, <1>4, PlaneInTurn
  <1>6a. /\ IsAligned("NV21", raw)
         /\ raw.w % 16 = 0 => IsAligned("I420", raw)
    <2>1. raw.w % 16 = 0 => IsAligned("I420", raw)
      BY <1>2, WholeLines
    <2> QED
      BY <2>1 DEF IsAligned
  <1>8. IsAligned("I420", raw) => yuyv_to_yuv420p(f) = PlanesOf("I420", raw, raw.w, v, w, g, h)
    BY <1>3, <1>4, PlanesOfOneEach DEF yuyv_to_yuv420p
  <1>9. {<<b, <<b>>>> : b \in 0 .. 2 * Area(raw) - 1} = WantedByClient("YUYV", raw, raw)
    <2>1. WantedByClient("YUYV", raw, raw) = BytesOf(raw.w, raw.w, w, h)
      BY <1>3, WantedBytes
    <2>2. w > 0
      BY <1>2, EvenIsPaired
    <2>3. {<<b, <<b>>>> : b \in 0 .. 2 * (w * h) - 1} = BytesOf(w, w, w, h)
      BY <1>2, <2>2, AllBytes
    <2>4. Area(raw) = w * h /\ raw.w = w
      BY <1>2 DEF Area
    <2> HIDE <1>2
    <2> QED
      BY <2>1, <2>3, <2>4
  <1> QED
    BY <1>5, <1>6, <1>6a, <1>7, <1>8, <1>9

\* The preview frame: the pixels that it and raw both have.
LEMMA PreviewDelivered ==
    ASSUME NEW raw \in AllSizes, NEW p \in AllSizes, Even(raw), Even(p)
    PROVE  /\ \A fmt \in {"yuv422sp", "yuv420sp"} :
                 PreviewFrame(fmt, raw, p) = WantedByClient("NV21", raw, p)
           /\ p.w % 16 = 0 =>
                 PreviewFrame("yuv420p", raw, p) = WantedByClient("YV12", raw, p)
           /\ (Area(p) = Area(raw) => p = raw) =>
                 PreviewFrame("yuv422i-yuyv", raw, p) = WantedByClient("YUYV", raw, p)
  <1> DEFINE w == IF raw.w < p.w THEN raw.w ELSE p.w
             h == IF raw.h < p.h THEN raw.h ELSE p.h
             f == [w |-> w, h |-> h, dst |-> p.w, dstHeight |-> p.h, src |-> 2 * raw.w]
  <1>1. PICK v1, w1, g1, h1 : IsPaired(raw, v1, w1, g1, h1)
    BY EvenIsPaired
  <1>2. PICK v2, w2, g2, h2 : IsPaired(p, v2, w2, g2, h2)
    BY EvenIsPaired
  <1>3. /\ raw.w \in Nat /\ p.w \in Nat /\ p.h \in Nat /\ w \in Nat /\ h \in Nat
        /\ (IF p.w < raw.w THEN p.w ELSE raw.w) = w
        /\ (IF p.h < raw.h THEN p.h ELSE raw.h) = h
    BY <1>1, <1>2 DEF IsPaired
  <1>4. PICK v \in Nat : w = 2 * v
    BY <1>1, <1>2 DEF IsPaired
  <1>5. PICK g \in Nat : h = 2 * g
    BY <1>1, <1>2 DEF IsPaired
  <1>6. IsDelivery(f, v, w, g, h, p.w, p.h, raw.w)
    <2> HIDE DEF w, h
    <2> QED
      BY <1>3, <1>4, <1>5 DEF IsDelivery
  <1>6a. HasSize(p, p.w, p.h)
    BY DEF HasSize
  <1>6b. /\ IsAligned("NV21", p)
         /\ p.w % 16 = 0 => IsAligned("YV12", p)
    <2>1. p.w % 16 = 0 => IsAligned("YV12", p)
      BY <1>3, WholeLines
    <2> QED
      BY <2>1 DEF IsAligned
  <1>7. \A layout : layout # "YUYV" /\ IsAligned(layout, p) =>
           WantedByClient(layout, raw, p)
             = PlanesOf(layout, p, raw.w, v, w, g, h)
    BY <1>4, <1>5, WantedPlanes
  <1>8. /\ \A fmt \in {"yuv422sp", "yuv420sp"} : PreviewFrame(fmt, raw, p) = yuyv_to_yvu420sp(f)
        /\ PreviewFrame("yuv420p", raw, p) = yuyv_to_yvu420p(f)
        /\ PreviewFrame("yuv422i-yuyv", raw, p)
             = IF Area(raw) = Area(p)
               THEN {<<b, <<b>>>> : b \in 0 .. 2 * Area(raw) - 1}
               ELSE CopyLines([f EXCEPT !.dst = 2 * p.w])
    <2> HIDE DEF w, h
    <2> QED
      BY <1>3 DEF PreviewFrame
  <1>9. yuyv_to_yvu420sp(f) = PlanesOf("NV21", p, raw.w, v, w, g, h)
    <2> HIDE DEF f, w, h
    <2> QED
      BY <1>6, <1>6a, PlaneInTurn
  <1>10. IsAligned("YV12", p) => yuyv_to_yvu420p(f) = PlanesOf("YV12", p, raw.w, v, w, g, h)
    <2> HIDE DEF f, w, h
    <2> QED
      BY <1>6, <1>6a, PlanesOfOneEach DEF yuyv_to_yvu420p
  <1>11. ASSUME Area(p) = Area(raw) => p = raw
         PROVE  PreviewFrame("yuv422i-yuyv", raw, p) = WantedByClient("YUYV", raw, p)
    <2>1. CASE Area(raw) = Area(p)
      <3>1. p = raw
        BY <1>11, <2>1
      <3>2. {<<b, <<b>>>> : b \in 0 .. 2 * Area(raw) - 1} = WantedByClient("YUYV", raw, raw)
        <4>1. RecordingFrame("yuv422i-yuyv", raw)
                = {<<b, <<b>>>> : b \in 0 .. 2 * Area(raw) - 1}
          BY DEF RecordingFrame
        <4> QED
          BY <4>1, RecordingDelivered
      <3> HIDE DEF f
      <3> QED
        BY <1>8, <2>1, <3>1, <3>2
    <2>2. CASE Area(raw) # Area(p)
      <3> DEFINE c == [f EXCEPT !.dst = 2 * p.w]
      <3>1. c.w = w /\ c.h = h /\ c.dst = 2 * p.w /\ c.src = 2 * raw.w
        <4> HIDE DEF w, h
        <4> QED
          OBVIOUS
      <3>2. PreviewFrame("yuv422i-yuyv", raw, p) = CopyLines(c)
        <4> HIDE DEF f
        <4> QED
          BY <1>8, <2>2
      <3>3. WantedByClient("YUYV", raw, p) = BytesOf(p.w, raw.w, w, h)
        BY WantedBytes
      <3> HIDE DEF c, f, w, h
      <3>4. CopyLines(c) = BytesOf(p.w, raw.w, w, h)
        BY <1>3, <3>1, BytesDelivered
      <3> QED
        BY <3>2, <3>3, <3>4
    <2> QED
      BY <2>1, <2>2
  <1> HIDE DEF f, w, h
  <1> QED
    BY <1>6b, <1>7, <1>8, <1>9, <1>10, <1>11

\* What previewThread() hands out is the captured frame in the client's format, for
\* all sizes that the driver or initDefaultParameters() has.
LEMMA FramesDelivered ==
    ASSUME NEW raw \in AllSizes, Even(raw)
    PROVE  Delivers[raw]
  <1>1. \A fmt \in {"yuv422sp", "yuv420sp"} :
            /\ RecordingFrame(fmt, raw) = WantedByClient("NV21", raw, raw)
            /\ \A p \in {s \in AllSizes : Even(s)} :
                  PreviewFrame(fmt, raw, p) = WantedByClient("NV21", raw, p)
    BY RecordingDelivered, PreviewDelivered
  <1>2. raw.w % 16 = 0 =>
           RecordingFrame("yuv420p", raw) = WantedByClient("I420", raw, raw)
    BY RecordingDelivered
  <1>3. \A p \in {s \in AllSizes : Even(s) /\ s.w % 16 = 0} :
            PreviewFrame("yuv420p", raw, p) = WantedByClient("YV12", raw, p)
    BY PreviewDelivered
  <1>4. RecordingFrame("yuv422i-yuyv", raw) = WantedByClient("YUYV", raw, raw)
    BY RecordingDelivered
  <1>5. \A p \in {s \in AllSizes : Even(s) /\ (Area(s) = Area(raw) => s = raw)} :
            PreviewFrame("yuv422i-yuyv", raw, p) = WantedByClient("YUYV", raw, p)
    BY PreviewDelivered
  <1>6. \A stride \in {raw.w, RoundUp16(raw.w)} :
            WindowFrame(raw, stride) = WantedByWindow(raw, stride)
    <2>1. PICK v, w, g, h : IsPaired(raw, v, w, g, h)
      BY EvenIsPaired
    <2>2. v \in Nat /\ w \in Nat /\ h \in Nat /\ raw.w = w /\ raw.h = h /\ w = 2 * v
      BY <2>1 DEF IsPaired
    <2>3. raw.w \in Nat /\ RoundUp16(raw.w) \in Nat
      <3>1. PICK n \in Nat : n = raw.w
        BY <2>2
      <3>2. 16 * ((n + 15) \div 16) \in Nat
        OBVIOUS
      <3> QED
        BY <3>1, <3>2 DEF RoundUp16
    <2> QED
      BY <2>2, <2>3, WindowDelivered
  <1>7. raw \in {s \in AllSizes : Even(s)}
    OBVIOUS
  <1> QED
    BY <1>1, <1>2, <1>3, <1>4, <1>5, <1>6, <1>7 DEF Delivers

\* Every frame that the clients get of a capture has its pixels in their layout,
\* but for the sizes that FrameDelivered leaves out.
THEOREM FrameDeliveredHolds == Spec => []FrameDelivered
  <1>1. FInv => FrameDelivered
    <2> SUFFICES ASSUME FInv, capture # NoCapture, Even(capture.out)
                 PROVE  Delivers[capture.out]
      BY DEF FrameDelivered
    <2>1. capture.out \in AllSizes
      BY DEF FInv, SetUpRight, AllSizes
    <2> QED
      BY <2>1, FramesDelivered
  <1> QED
    BY <1>1, Invariant, PTL
=============================================================================
