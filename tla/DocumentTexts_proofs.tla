------------------------- MODULE DocumentTexts_proofs -------------------------
(***************************************************************************)
(* Proofs about how the texts of documents are cut and joined, how their units  *)
(* are filtered and how their dates are found, for texts of any length.         *)
(*                                                                         *)
(* The operators are folds and other recursive functions.  A set of numbers    *)
(* with 0 in it that is closed under successors holds all numbers (Upwards):     *)
(* that is the induction the proofs use.                                       *)
(***************************************************************************)
EXTENDS DocumentTexts, SequencesExt, SequenceTheorems, FiniteSetTheorems,
        WellFoundedInduction, TLAPS

-----------------------------------------------------------------------------
(* Induction, recursion and folds *)

Less == {ss \in Nat \X Nat : ss[1] < ss[2]}

\* A set of numbers that is not empty has a least one.
LEMMA LeastNumber ==
  ASSUME NEW T, T \subseteq Nat, T # {}
  PROVE  \E x \in T : \A y \in T : x <= y
<1>1. IsWellFoundedOn(Less, Nat)
  BY NatLessThanWellFounded DEF OpToRel, Less
<1>2. PICK x \in T : \A y \in T : ~ (<<y, x>> \in Less)
  BY <1>1, WFMin
<1>3. \A y \in T : ~ (y < x)
  <2> TAKE y \in T
  <2>1. <<y, x>> \in Nat \X Nat /\ <<y, x>>[1] = y /\ <<y, x>>[2] = x
    OBVIOUS
  <2> QED  BY <1>2, <2>1 DEF Less
<1> QED  BY <1>3

\* Induction up to a number, for the set of the numbers that have the property.
LEMMA Upwards ==
  ASSUME NEW n \in Nat, NEW S, 0 \in S, \A k \in 0 .. n - 1 : k \in S => k + 1 \in S
  PROVE  \A k \in 0 .. n : k \in S
<1> DEFINE T == {k \in 0 .. n : k \notin S}
<1> SUFFICES ASSUME T # {} PROVE FALSE
  OBVIOUS
<1>1. T \subseteq Nat
  OBVIOUS
<1>2. PICK x \in T : \A y \in T : x <= y
  BY <1>1, LeastNumber
<1>3. x \in 1 .. n /\ x - 1 \in 0 .. n - 1 /\ x \notin S
  BY <1>2
<1>4. x - 1 \in S
  BY <1>2, <1>3
<1>5. (x - 1) + 1 = x
  BY <1>3
<1> QED  BY <1>3, <1>4, <1>5

\* A value for each number up to n, each made of the one before.
Iterates(n, v, F, h) == h[0] = v /\ \A i \in 1 .. n : h[i] = F[i][h[i - 1]]
Iterated(V, n, v, F) == \E h \in [0 .. n -> V] : Iterates(n, v, F, h)
LEMMA Recursion ==
  ASSUME NEW V, NEW n \in Nat, NEW v \in V, NEW F \in [1 .. n -> [V -> V]]
  PROVE  Iterated(V, n, v, F)
<1> DEFINE Is(h, k) == h[0] = v /\ \A i \in 1 .. k : h[i] = F[i][h[i - 1]]
           Some(k) == \E h \in [0 .. k -> V] : Is(h, k)
           S == {k \in 0 .. n : Some(k)}
<1>1. Some(0)
  <2>1. [i \in 0 .. 0 |-> v] \in [0 .. 0 -> V] /\ Is([i \in 0 .. 0 |-> v], 0)
    <3>1. \A i \in 1 .. 0 : FALSE
      OBVIOUS
    <3> QED  BY <3>1
  <2> HIDE DEF Is
  <2> QED  BY <2>1
<1>2. ASSUME NEW k \in 0 .. n - 1, Some(k) PROVE Some(k + 1)
  <2>1. PICK h \in [0 .. k -> V] : Is(h, k)
    BY <1>2
  <2> DEFINE g == [i \in 0 .. k + 1 |-> IF i = k + 1 THEN F[k + 1][h[k]] ELSE h[i]]
  <2>2. F[k + 1][h[k]] \in V
    <3>1. k + 1 \in 1 .. n /\ k \in 0 .. k
      OBVIOUS
    <3>2. F[k + 1] \in [V -> V] /\ h[k] \in V
      BY <3>1
    <3> QED  BY <3>2
  <2>3. g \in [0 .. k + 1 -> V]
    BY <2>2
  <2>4. Is(g, k + 1)
    <3>1. g[0] = v
      BY <2>1
    <3>2. ASSUME NEW i \in 1 .. k + 1 PROVE g[i] = F[i][g[i - 1]]
      <4>1. CASE i = k + 1
        <5>1. i - 1 = k /\ i \in 0 .. k + 1 /\ k \in 0 .. k + 1 /\ k # k + 1
          BY <4>1
        <5> QED  BY <4>1, <5>1
      <4>2. CASE i # k + 1
        <5>1. i \in 1 .. k /\ i \in 0 .. k + 1 /\ i - 1 \in 0 .. k + 1 /\ i - 1 # k + 1
          BY <4>2
        <5> QED  BY <2>1, <4>2, <5>1
      <4> QED  BY <4>1, <4>2
    <3> QED  BY <3>1, <3>2
  <2> HIDE DEF Is, g
  <2> QED  BY <2>3, <2>4
<1>3. Some(n)
  <2> HIDE DEF Some
  <2>1. 0 \in S
    BY <1>1
  <2>2. \A k \in 0 .. n - 1 : k \in S => k + 1 \in S
    BY <1>2
  <2>3. \A k \in 0 .. n : k \in S
    BY <2>1, <2>2, Upwards
  <2> QED  BY <2>3
<1> QED  BY <1>3 DEF Iterated, Iterates

\* The greatest of a set of numbers up to n.
LEMMA MaxIn ==
  ASSUME NEW n \in Nat, NEW S \in SUBSET (1 .. n), S # {}
  PROVE  Max(S) \in S /\ \A y \in S : y <= Max(S)
<1> DEFINE T == {n - y : y \in S}
<1>1. T \subseteq Nat /\ T # {}
  <2>1. \A y \in S : n - y \in Nat
    OBVIOUS
  <2>2. PICK y \in S : TRUE
    OBVIOUS
  <2>3. n - y \in T
    OBVIOUS
  <2> QED  BY <2>1, <2>3
<1>2. PICK z \in T : \A y \in T : z <= y
  BY <1>1, LeastNumber
<1>3. PICK x \in S : z = n - x
  BY <1>2
<1>4. \A y \in S : x >= y
  <2> TAKE y \in S
  <2>1. n - x <= n - y
    BY <1>2, <1>3
  <2> QED  BY <2>1
<1>5. Max(S) \in S /\ \A y \in S : Max(S) >= y
  BY <1>3, <1>4 DEF Max
<1> QED  BY <1>5

\* The recursion of a fold from the left over 1 .. n has a solution.
Folds(n, v, F, g) == \A S \in SUBSET (1 .. n) :
                       g[S] = IF S = {} THEN v ELSE F[Max(S)][g[S \ {Max(S)}]]
Folded(V, n, v, F) == \E g \in [SUBSET (1 .. n) -> V] : Folds(n, v, F, g)
LEMMA FoldExists ==
  ASSUME NEW V, NEW n \in Nat, NEW v \in V, NEW F \in [1 .. n -> [V -> V]]
  PROVE  Folded(V, n, v, F)
<1> DEFINE Is(g, k) == \A S \in SUBSET (1 .. k) :
                         g[S] = IF S = {} THEN v ELSE F[Max(S)][g[S \ {Max(S)}]]
           Some(k) == \E g \in [SUBSET (1 .. k) -> V] : Is(g, k)
           N == {k \in 0 .. n : Some(k)}
<1>1. Some(0)
  <2> DEFINE g == [S \in SUBSET (1 .. 0) |-> v]
  <2>1. g \in [SUBSET (1 .. 0) -> V]
    OBVIOUS
  <2>2. \A S \in SUBSET (1 .. 0) : S = {}
    OBVIOUS
  <2>3. Is(g, 0)
    BY <2>2
  <2> HIDE DEF Is, g
  <2> QED  BY <2>1, <2>3
<1>2. ASSUME NEW k \in 0 .. n - 1, Some(k) PROVE Some(k + 1)
  <2>1. PICK g \in [SUBSET (1 .. k) -> V] : Is(g, k)
    BY <1>2
  <2> DEFINE h == [S \in SUBSET (1 .. k + 1) |->
                     IF k + 1 \in S THEN F[k + 1][g[S \ {k + 1}]] ELSE g[S]]
  <2>2. \A S \in SUBSET (1 .. k + 1) : S \ {k + 1} \in SUBSET (1 .. k)
    OBVIOUS
  <2>3. \A S \in SUBSET (1 .. k + 1) : k + 1 \notin S => S \in SUBSET (1 .. k)
    OBVIOUS
  <2>4. F[k + 1] \in [V -> V]
    <3>1. k + 1 \in 1 .. n
      OBVIOUS
    <3> QED  BY <3>1
  <2>5. h \in [SUBSET (1 .. k + 1) -> V]
    BY <2>2, <2>3, <2>4
  <2>6. ASSUME NEW S \in SUBSET (1 .. k + 1)
        PROVE  h[S] = IF S = {} THEN v ELSE F[Max(S)][h[S \ {Max(S)}]]
    <3>1. CASE k + 1 \in S
      <4>1. Max(S) \in S /\ \A y \in S : y <= Max(S)
        <5>1. k + 1 \in Nat /\ S # {}
          BY <3>1
        <5> QED  BY <5>1, MaxIn
      <4>2. Max(S) = k + 1
        <5>1. Max(S) \in 1 .. k + 1 /\ k + 1 <= Max(S)
          BY <3>1, <4>1
        <5> QED  BY <5>1
      <4>3. S \ {k + 1} \in SUBSET (1 .. k + 1) /\ k + 1 \notin S \ {k + 1}
        OBVIOUS
      <4> QED  BY <3>1, <4>2, <4>3
    <3>2. CASE k + 1 \notin S
      <4>1. S \in SUBSET (1 .. k)
        BY <2>3, <3>2
      <4>2. S \ {Max(S)} \in SUBSET (1 .. k + 1) /\ k + 1 \notin S \ {Max(S)}
        BY <3>2
      <4>3. h[S] = g[S] /\ h[S \ {Max(S)}] = g[S \ {Max(S)}]
        BY <3>2, <4>2
      <4> QED  BY <2>1, <4>1, <4>3
    <3> QED  BY <3>1, <3>2
  <2>7. Is(h, k + 1)
    BY <2>6
  <2> HIDE DEF Is, h
  <2> QED  BY <2>5, <2>7
<1>3. Some(n)
  <2> HIDE DEF Some
  <2>1. 0 \in N
    BY <1>1
  <2>2. \A k \in 0 .. n - 1 : k \in N => k + 1 \in N
    BY <1>2
  <2>3. \A k \in 0 .. n : k \in N
    BY <2>1, <2>2, Upwards
  <2> QED  BY <2>3
<1> QED  BY <1>3 DEF Folded, Folds

\* What a fold from the left has come to after the first i elements.
LEMMA Prefix ==
  ASSUME NEW n \in Nat, NEW i \in 1 .. n
  PROVE  /\ 1 .. i \in SUBSET (1 .. n) /\ 1 .. i # {} /\ 1 .. i - 1 \in SUBSET (1 .. n)
         /\ Max(1 .. i) = i /\ (1 .. i) \ {i} = 1 .. i - 1
<1>1. i \in Nat /\ 1 .. i \in SUBSET (1 .. n) /\ 1 .. i # {} /\ i \in 1 .. i
  OBVIOUS
<1>2. Max(1 .. i) \in 1 .. i /\ \A y \in 1 .. i : y <= Max(1 .. i)
  BY <1>1, MaxIn
<1>3. i <= Max(1 .. i) /\ Max(1 .. i) <= i
  BY <1>1, <1>2
<1>4. Max(1 .. i) = i
  BY <1>2, <1>3
<1> QED  BY <1>1, <1>4

-----------------------------------------------------------------------------
(* FlattenSeq *)

\* The values flatten comes to, one sequence after the other.
Flattens(ss, h) == h[0] = <<>> /\ \A i \in 1 .. Len(ss) : h[i] = h[i - 1] \o ss[i]
FlattensOn(ss, h) == h[1] = ss[1] /\ \A i \in 2 .. Len(ss) : h[i] = h[i - 1] \o ss[i]

\* They determine the result.
LEMMA FlattenComesTo ==
  ASSUME NEW ss, Len(ss) \in Nat \ {0}, NEW h, FlattensOn(ss, h)
  PROVE  FlattenSeq(ss) = h[Len(ss)]
<1> DEFINE n == Len(ss)
           Is(f) == f = [i \in 1 .. n |-> IF i = 1 THEN ss[i] ELSE f[i - 1] \o ss[i]]
           g == [i \in 1 .. n |-> h[i]]
           flatten == CHOOSE f : Is(f)
           T == {i \in 0 .. n : i = 0 \/ flatten[i] = h[i]}
<1>1. Is(g)
  <2>1. ASSUME NEW i \in 1 .. n PROVE g[i] = IF i = 1 THEN ss[i] ELSE g[i - 1] \o ss[i]
    <3>1. CASE i = 1
      BY <3>1 DEF FlattensOn
    <3>2. CASE i # 1
      <4>1. i - 1 \in 1 .. n /\ i \in 2 .. n
        BY <3>2
      <4> QED  BY <3>2, <4>1 DEF FlattensOn
    <3> QED  BY <3>1, <3>2
  <2> QED  BY <2>1
<1>2. Is(flatten)
  <2> HIDE DEF Is
  <2> QED  BY <1>1
<1>3. FlattenSeq(ss) = flatten[n]
  BY DEF FlattenSeq
<1>4. \A k \in 0 .. n - 1 : k \in T => k + 1 \in T
  <2> TAKE k \in 0 .. n - 1
  <2>1. k + 1 \in 1 .. n /\ (k + 1) - 1 = k /\ k + 1 \in 0 .. n
    OBVIOUS
  <2> HIDE DEF flatten
  <2>2. flatten[k + 1] = IF k + 1 = 1 THEN ss[k + 1] ELSE flatten[k] \o ss[k + 1]
    BY <1>2, <2>1
  <2>3. CASE k = 0
    <3>1. k + 1 = 1 /\ flatten[k + 1] = ss[1]
      BY <2>2, <2>3
    <3> QED  BY <2>1, <3>1 DEF FlattensOn
  <2>4. CASE k # 0
    <3>1. k + 1 \in 2 .. n
      BY <2>4
    <3> QED  BY <2>1, <2>2, <2>4, <3>1 DEF FlattensOn
  <2> QED  BY <2>3, <2>4
<1>5. 0 \in T /\ n \in Nat
  OBVIOUS
<1>6. \A i \in 0 .. n : i \in T
  <2> HIDE DEF T
  <2> QED  BY <1>4, <1>5, Upwards
<1>7. n \in T
  <2> HIDE DEF T
  <2> QED  BY <1>6
<1> HIDE DEF flatten
<1> QED  BY <1>3, <1>7

LEMMA FlattenEmpty == FlattenSeq(<<>>) = <<>>
BY DEF FlattenSeq

LEMMA FlattenIs ==
  ASSUME NEW W, NEW ss \in Seq(Seq(W)), NEW h, Flattens(ss, h)
  PROVE  FlattenSeq(ss) = h[Len(ss)] /\ \A i \in 0 .. Len(ss) : h[i] \in Seq(W)
<1> DEFINE n == Len(ss)
           Typed(i) == h[i] \in Seq(W)
           S == {i \in 0 .. n : Typed(i)}
<1>1. n \in Nat /\ \A i \in 1 .. n : ss[i] \in Seq(W)
  OBVIOUS
<1>2. Typed(0)
  BY EmptySeq DEF Flattens
<1>3. ASSUME NEW k \in 0 .. n - 1, Typed(k) PROVE Typed(k + 1)
  <2>1. k + 1 \in 1 .. n /\ (k + 1) - 1 = k
    BY <1>1
  <2>2. h[k + 1] = h[k] \o ss[k + 1] /\ ss[k + 1] \in Seq(W) /\ h[k] \in Seq(W)
    BY <1>1, <1>3, <2>1 DEF Flattens
  <2> QED  BY ONLY <2>2, ConcatProperties DEF Typed
<1>4. \A i \in 0 .. n : Typed(i)
  <2> HIDE DEF Typed
  <2>1. 0 \in S /\ \A k \in 0 .. n - 1 : k \in S => k + 1 \in S
    BY ONLY <1>1, <1>2, <1>3
  <2>2. \A i \in 0 .. n : i \in S
    <3> HIDE DEF S
    <3> QED  BY ONLY <1>1, <2>1, Upwards
  <2> QED  BY <2>2
<1>5. FlattenSeq(ss) = h[n]
  <2>1. CASE n = 0
    <3>1. ss = <<>>
      BY <2>1, EmptySeq
    <3> QED  BY <2>1, <3>1, FlattenEmpty DEF Flattens
  <2>2. CASE n # 0
    <3>1. 1 \in 1 .. n /\ 1 - 1 = 0 /\ Len(ss) \in Nat \ {0}
      BY <1>1, <2>2
    <3>2. h[1] = <<>> \o ss[1] /\ ss[1] \in Seq(W)
      BY <1>1, <3>1 DEF Flattens
    <3>3. h[1] = ss[1]
      BY ONLY <3>2, ConcatEmptySeq
    <3>4. \A i \in 2 .. n : h[i] = h[i - 1] \o ss[i]
      <4> TAKE i \in 2 .. n
      <4>1. i \in 1 .. n
        BY <1>1
      <4> QED  BY <4>1 DEF Flattens
    <3>5. FlattensOn(ss, h)
      BY ONLY <3>3, <3>4 DEF FlattensOn
    <3> QED  BY ONLY <3>1, <3>5, FlattenComesTo, Zenon
  <2> QED  BY <2>1, <2>2
<1> QED  BY <1>4, <1>5

\* There are such values.
Flattening(V, n, ss) == <<>> \in V /\ \A i \in 1 .. n : \A t \in V : t \o ss[i] \in V
FlattensUpTo(V, n, ss) ==
  \E h \in [0 .. n -> V] : h[0] = <<>> /\ \A i \in 1 .. n : h[i] = h[i - 1] \o ss[i]
LEMMA FlattenExists ==
  ASSUME NEW V, NEW n \in Nat, NEW ss, Flattening(V, n, ss)
  PROVE  FlattensUpTo(V, n, ss)
<1> DEFINE F == [i \in 1 .. n |-> [t \in V |-> t \o ss[i]]]
<1>1. <<>> \in V /\ F \in [1 .. n -> [V -> V]]
  BY DEF Flattening
<1>2. PICK h \in [0 .. n -> V] : h[0] = <<>> /\ \A i \in 1 .. n : h[i] = F[i][h[i - 1]]
  <2> HIDE DEF F
  <2>1. Iterated(V, n, <<>>, F)
    BY <1>1, Recursion
  <2> QED  BY ONLY <2>1 DEF Iterated, Iterates
<1>3. \A i \in 1 .. n : h[i] = h[i - 1] \o ss[i]
  <2> TAKE i \in 1 .. n
  <2>1. i - 1 \in 0 .. n
    OBVIOUS
  <2> QED  BY <1>2, <2>1
<1> QED  BY <1>2, <1>3 DEF FlattensUpTo

LEMMA FlattenSteps ==
  ASSUME NEW W, NEW ss \in Seq(Seq(W))
  PROVE  \E h \in [0 .. Len(ss) -> Seq(W)] : Flattens(ss, h) /\ FlattenSeq(ss) = h[Len(ss)]
<1> DEFINE n == Len(ss)
<1>1. n \in Nat /\ \A i \in 1 .. n : ss[i] \in Seq(W)
  OBVIOUS
<1>2. Flattening(Seq(W), n, ss)
  BY <1>1, ConcatProperties, EmptySeq DEF Flattening
<1>3. FlattensUpTo(Seq(W), n, ss)
  BY ONLY <1>1, <1>2, FlattenExists
<1>4. PICK h \in [0 .. n -> Seq(W)] : h[0] = <<>> /\ \A i \in 1 .. n : h[i] = h[i - 1] \o ss[i]
  BY ONLY <1>3 DEF FlattensUpTo
<1>5. Flattens(ss, h)
  BY ONLY <1>4 DEF Flattens
<1>6. FlattenSeq(ss) = h[n]
  BY <1>5, FlattenIs
<1> QED  BY <1>5, <1>6

LEMMA FlattenType ==
  ASSUME NEW W, NEW ss \in Seq(Seq(W))
  PROVE  FlattenSeq(ss) \in Seq(W)
<1>1. PICK h \in [0 .. Len(ss) -> Seq(W)] : FlattenSeq(ss) = h[Len(ss)]
  BY FlattenSteps
<1>2. Len(ss) \in 0 .. Len(ss)
  OBVIOUS
<1> QED  BY ONLY <1>1, <1>2

Associate(s, t, u) == (s \o t) \o u = s \o (t \o u)
LEMMA Associative ==
  ASSUME NEW W, NEW s, s \in Seq(W), NEW t, t \in Seq(W), NEW u, u \in Seq(W)
  PROVE  Associate(s, t, u)
BY ConcatAssociative DEF Associate

LEMMA FlattenConcat ==
  ASSUME NEW W, NEW ss \in Seq(Seq(W)), NEW tt \in Seq(Seq(W))
  PROVE  FlattenSeq(ss \o tt) = FlattenSeq(ss) \o FlattenSeq(tt)
<1> DEFINE n == Len(ss)
           m == Len(tt)
           st == ss \o tt
<1>1. PICK g \in [0 .. n -> Seq(W)] : Flattens(ss, g) /\ FlattenSeq(ss) = g[n]
  BY FlattenSteps
<1>2. PICK h \in [0 .. m -> Seq(W)] : Flattens(tt, h) /\ FlattenSeq(tt) = h[m]
  BY FlattenSteps
<1> DEFINE f == [i \in 0 .. n + m |-> IF i <= n THEN g[i] ELSE g[n] \o h[i - n]]
<1>3. /\ n \in Nat /\ m \in Nat /\ st \in Seq(Seq(W)) /\ Len(st) = n + m
      /\ \A i \in 1 .. n + m : st[i] = IF i <= n THEN ss[i] ELSE tt[i - n]
  BY ConcatProperties
<1>4. /\ \A i \in 0 .. n : g[i] \in Seq(W)
      /\ \A i \in 0 .. m : h[i] \in Seq(W)
      /\ \A i \in 1 .. m : tt[i] \in Seq(W)
  <2>1. \A i \in 0 .. n : g[i] \in Seq(W)
    BY ONLY TRUE
  <2>2. \A i \in 0 .. m : h[i] \in Seq(W)
    BY ONLY TRUE
  <2>3. \A i \in 1 .. m : tt[i] \in Seq(W)
    BY ONLY TRUE
  <2> QED  BY ONLY <2>1, <2>2, <2>3, Zenon
<1> HIDE DEF n, m, st
<1>5. /\ g[0] = <<>> /\ \A i \in 1 .. n : g[i] = g[i - 1] \o ss[i]
      /\ h[0] = <<>> /\ \A i \in 1 .. m : h[i] = h[i - 1] \o tt[i]
  BY ONLY <1>1, <1>2 DEF Flattens, n, m
<1>6. f[0] = <<>>
  BY ONLY <1>3, <1>5
<1>8. ASSUME NEW i \in 1 .. n + m PROVE f[i] = f[i - 1] \o st[i]
  <2>1. i \in 0 .. n + m /\ i - 1 \in 0 .. n + m
    BY ONLY <1>3, i \in 1 .. n + m
  <2>2. CASE i <= n
    <3>1. i \in 1 .. n /\ i - 1 <= n
      BY ONLY <1>3, <2>2
    <3>2. f[i] = g[i] /\ f[i - 1] = g[i - 1]
      BY ONLY <2>1, <2>2, <3>1
    <3> QED  BY ONLY <1>3, <1>5, <2>2, <3>1, <3>2
  <2>3. CASE i = n + 1
    <3>1. i - 1 <= n /\ i - 1 = n /\ ~(i <= n) /\ i - n = 1 /\ 1 \in 1 .. m /\ 1 - 1 = 0
      BY ONLY <1>3, <2>3
    <3>2. f[i] = g[n] \o h[1] /\ f[i - 1] = g[n] /\ st[i] = tt[1]
      BY ONLY <1>3, <2>1, <3>1
    <3>3. h[1] = <<>> \o tt[1] /\ tt[1] \in Seq(W)
      BY ONLY <1>4, <1>5, <3>1
    <3>4. h[1] = tt[1]
      BY ONLY <3>3, ConcatEmptySeq
    <3> QED  BY ONLY <3>2, <3>4
  <2>4. CASE i > n + 1
    <3>1. /\ i - n \in 1 .. m /\ (i - 1) - n = (i - n) - 1 /\ ~(i <= n) /\ ~(i - 1 <= n)
          /\ (i - n) - 1 \in 0 .. m /\ n \in 0 .. n
      BY ONLY <1>3, <2>4
    <3>2. f[i] = g[n] \o h[i - n] /\ f[i - 1] = g[n] \o h[(i - n) - 1] /\ st[i] = tt[i - n]
      BY ONLY <1>3, <2>1, <3>1
    <3>3. h[i - n] = h[(i - n) - 1] \o tt[i - n]
      BY ONLY <1>5, <3>1
    <3>4. g[n] \in Seq(W) /\ h[(i - n) - 1] \in Seq(W) /\ tt[i - n] \in Seq(W)
      BY ONLY <1>4, <3>1
    <3> HIDE DEF f
    <3>5. (g[n] \o h[(i - n) - 1]) \o tt[i - n] = g[n] \o (h[(i - n) - 1] \o tt[i - n])
      <4>1. Associate(g[n], h[(i - n) - 1], tt[i - n])
        BY ONLY <3>4, Associative
      <4> QED  BY ONLY <4>1 DEF Associate
    <3> QED  BY ONLY <3>2, <3>3, <3>5, Zenon
  <2>5. i <= n \/ i = n + 1 \/ i > n + 1
    BY ONLY <1>3, <2>1
  <2> HIDE DEF f
  <2> QED  BY ONLY <2>2, <2>3, <2>4, <2>5
<1>9. FlattenSeq(st) = f[n + m]
  <2> HIDE DEF f
  <2>1. Flattens(st, f)
    BY ONLY <1>3, <1>6, <1>8 DEF Flattens
  <2>2. FlattenSeq(st) = f[Len(st)]
    BY ONLY <1>3, <2>1, FlattenIs
  <2> QED  BY ONLY <1>3, <2>2
<1>10. f[n + m] = g[n] \o h[m]
  <2>1. CASE m = 0
    <3>1. n + m <= n /\ n + m = n /\ n + m \in 0 .. n + m /\ n \in 0 .. n
      BY ONLY <1>3, <2>1
    <3>2. f[n + m] = g[n] /\ g[n] \in Seq(W)
      BY ONLY <1>4, <3>1
    <3>3. g[n] \o <<>> = g[n]
      BY ONLY <3>2, ConcatEmptySeq
    <3> QED  BY ONLY <1>5, <2>1, <3>2, <3>3
  <2>2. CASE m # 0
    <3>1. ~(n + m <= n) /\ (n + m) - n = m /\ n + m \in 0 .. n + m
      BY ONLY <1>3, <2>2
    <3> QED  BY ONLY <3>1
  <2> QED  BY ONLY <2>1, <2>2
<1> HIDE DEF f
<1> QED  BY ONLY <1>1, <1>2, <1>9, <1>10 DEF n, m, st

LEMMA FlattenOne ==
  ASSUME NEW W, NEW t \in Seq(W)
  PROVE  FlattenSeq(<<t>>) = t /\ <<t>> \in Seq(Seq(W))
<1> DEFINE h == [i \in 0 .. 1 |-> IF i = 0 THEN <<>> ELSE t]
<1>1. <<t>> \in Seq(Seq(W)) /\ Len(<<t>>) = 1 /\ <<t>>[1] = t
  OBVIOUS
<1>2. h[0] = <<>> /\ h[1] = t
  OBVIOUS
<1>3. \A i \in 1 .. 1 : i = 1 /\ i - 1 = 0
  OBVIOUS
<1> HIDE DEF h
<1>4. <<>> \o t = t
  BY ConcatEmptySeq
<1>5. Flattens(<<t>>, h)
  BY <1>1, <1>2, <1>3, <1>4 DEF Flattens
<1>6. FlattenSeq(<<t>>) = h[Len(<<t>>)]
  BY <1>1, <1>5, FlattenIs
<1> QED  BY <1>1, <1>2, <1>6

LEMMA FlattenAppend ==
  ASSUME NEW W, NEW ss \in Seq(Seq(W)), NEW t \in Seq(W)
  PROVE  FlattenSeq(Append(ss, t)) = FlattenSeq(ss) \o t
<1>1. Append(ss, t) = ss \o <<t>>
  BY AppendIsConcat
<1>2. <<t>> \in Seq(Seq(W)) /\ FlattenSeq(<<t>>) = t
  BY FlattenOne
<1>3. FlattenSeq(ss \o <<t>>) = FlattenSeq(ss) \o FlattenSeq(<<t>>)
  BY <1>2, FlattenConcat
<1> QED  BY ONLY <1>1, <1>2, <1>3

\* The last of the sequences is continued.
LEMMA FlattenExtend ==
  ASSUME NEW W, NEW ss \in Seq(Seq(W)), ss # <<>>, NEW t \in Seq(W)
  PROVE  /\ [ss EXCEPT ![Len(ss)] = @ \o t] \in Seq(Seq(W))
         /\ FlattenSeq([ss EXCEPT ![Len(ss)] = @ \o t]) = FlattenSeq(ss) \o t
<1> DEFINE n == Len(ss)
           tt == [ss EXCEPT ![n] = @ \o t]
<1>1. n \in Nat \ {0} /\ ss[n] \in Seq(W) /\ t \in Seq(W)
  BY EmptySeq
<1>2. ss[n] \o t \in Seq(W)
  BY ONLY <1>1, ConcatProperties
<1>3. /\ tt \in Seq(Seq(W)) /\ Len(tt) = n
      /\ \A i \in 1 .. n : tt[i] = IF i = n THEN ss[n] \o t ELSE ss[i]
  BY <1>1, <1>2, ExceptSeq
<1>4. PICK h \in [0 .. n -> Seq(W)] : Flattens(ss, h) /\ FlattenSeq(ss) = h[n]
  BY FlattenSteps
<1>5. \A i \in 0 .. n : h[i] \in Seq(W)
  OBVIOUS
<1> HIDE DEF n, tt
<1>6. h[0] = <<>> /\ \A i \in 1 .. n : h[i] = h[i - 1] \o ss[i]
  BY ONLY <1>4 DEF Flattens, n
<1> DEFINE g == [i \in 0 .. n |-> IF i = n THEN h[n] \o t ELSE h[i]]
<1>7. g[0] = <<>>
  BY ONLY <1>1, <1>6
<1>9. ASSUME NEW i \in 1 .. n PROVE g[i] = g[i - 1] \o tt[i]
  <2>1. i \in 0 .. n /\ i - 1 \in 0 .. n /\ i - 1 # n
    BY ONLY <1>1
  <2>2. CASE i = n
    <3>1. h[n] = h[n - 1] \o ss[n] /\ h[n - 1] \in Seq(W)
      BY ONLY <1>5, <1>6, <2>1, <2>2
    <3>2. g[i] = h[n] \o t /\ g[i - 1] = h[n - 1] /\ tt[i] = ss[n] \o t
      BY ONLY <1>3, <2>1, <2>2
    <3> HIDE DEF g
    <3>3. (h[n - 1] \o ss[n]) \o t = h[n - 1] \o (ss[n] \o t)
      <4>1. Associate(h[n - 1], ss[n], t)
        BY ONLY <1>1, <3>1, Associative
      <4> QED  BY ONLY <4>1 DEF Associate
    <3> QED  BY ONLY <3>1, <3>2, <3>3, Zenon
  <2>3. CASE i # n
    BY ONLY <1>3, <1>6, <2>1, <2>3
  <2> QED  BY ONLY <2>2, <2>3
<1>10. FlattenSeq(tt) = g[n]
  <2> HIDE DEF g
  <2>1. Flattens(tt, g)
    BY ONLY <1>3, <1>7, <1>9 DEF Flattens
  <2> QED  BY ONLY <1>3, <2>1, FlattenIs
<1>11. g[n] = h[n] \o t
  BY ONLY <1>1
<1> HIDE DEF g
<1> QED  BY ONLY <1>3, <1>4, <1>10, <1>11 DEF n, tt

\* Flattening what each sequence is a flattening of.
LEMMA FlattenTwice ==
  ASSUME NEW W, NEW ss \in Seq(Seq(W)), NEW parts \in Seq(Seq(Seq(W))), Len(parts) = Len(ss),
         \A i \in 1 .. Len(ss) : FlattenSeq(parts[i]) = ss[i]
  PROVE  FlattenSeq(FlattenSeq(parts)) = FlattenSeq(ss)
<1> DEFINE n == Len(ss)
<1>1. PICK g \in [0 .. n -> Seq(Seq(W))] : Flattens(parts, g) /\ FlattenSeq(parts) = g[n]
  BY FlattenSteps
<1> DEFINE h == [i \in 0 .. n |-> FlattenSeq(g[i])]
<1>2. n \in Nat /\ \A i \in 1 .. n : parts[i] \in Seq(Seq(W))
  OBVIOUS
<1>3. h[0] = <<>>
  BY <1>1, <1>2, FlattenEmpty DEF Flattens
<1>4. ASSUME NEW i \in 1 .. n PROVE h[i] = h[i - 1] \o ss[i]
  <2>1. i \in 0 .. n /\ i - 1 \in 0 .. n
    BY <1>2
  <2>2. g[i - 1] \in Seq(Seq(W)) /\ parts[i] \in Seq(Seq(W)) /\ g[i] = g[i - 1] \o parts[i]
    BY <1>1, <1>2, <2>1 DEF Flattens
  <2>3. FlattenSeq(g[i - 1] \o parts[i]) = FlattenSeq(g[i - 1]) \o FlattenSeq(parts[i])
    BY ONLY <2>2, FlattenConcat
  <2>4. FlattenSeq(parts[i]) = ss[i]
    OBVIOUS
  <2> QED  BY ONLY <2>1, <2>2, <2>3, <2>4
<1>5. FlattenSeq(ss) = h[n]
  <2> HIDE DEF h
  <2>1. Flattens(ss, h)
    BY <1>3, <1>4 DEF Flattens
  <2> QED  BY <2>1, FlattenIs
<1>6. h[n] = FlattenSeq(g[n])
  BY ONLY <1>2
<1> QED  BY ONLY <1>1, <1>5, <1>6

\* Each sequence is a stretch of the flattened one.
Around(s, t, a, b) == s = a \o (t \o b)
LEMMA FlattenAround ==
  ASSUME NEW W, NEW ss \in Seq(Seq(W)), NEW k \in 1 .. Len(ss)
  PROVE  \E a, b \in Seq(W) : Around(FlattenSeq(ss), ss[k], a, b)
<1> DEFINE n == Len(ss)
           before == SubSeq(ss, 1, k - 1)
           after  == SubSeq(ss, k + 1, n)
<1>1. n \in Nat /\ ss[k] \in Seq(W) /\ k \in Nat /\ k >= 1 /\ k <= n
  OBVIOUS
<1>2. before \in Seq(Seq(W)) /\ after \in Seq(Seq(W))
  <2>1. \A i \in 1 .. k - 1 : ss[i] \in Seq(W)
    BY <1>1
  <2>2. \A i \in k + 1 .. n : ss[i] \in Seq(W)
    BY <1>1
  <2> QED  BY <1>1, <2>1, <2>2, SubSeqProperties
<1>3. ss = before \o (<<ss[k]>> \o after)
  <2>1. SubSeq(ss, k, n) = <<ss[k]>> \o after
    BY <1>1, SubSeqRecursiveFirst
  <2>2. before \o SubSeq(ss, (k - 1) + 1, n) = SubSeq(ss, 1, n)
    <3>1. 1 \in 1 .. Len(ss) + 1 /\ k - 1 \in 1 - 1 .. Len(ss) /\ n \in k - 1 .. Len(ss)
      BY <1>1
    <3> QED  BY <3>1, ConcatAdjacentSubSeq
  <2>3. (k - 1) + 1 = k
    BY <1>1
  <2>4. SubSeq(ss, 1, n) = ss
    BY SubSeqFull
  <2> QED  BY ONLY <2>1, <2>2, <2>3, <2>4
<1> HIDE DEF n, before, after
<1>4. <<ss[k]>> \in Seq(Seq(W)) /\ FlattenSeq(<<ss[k]>>) = ss[k]
  BY ONLY <1>1, FlattenOne
<1>5. FlattenSeq(<<ss[k]>> \o after) = ss[k] \o FlattenSeq(after)
  BY ONLY <1>2, <1>4, FlattenConcat
<1>6. <<ss[k]>> \o after \in Seq(Seq(W))
  BY ONLY <1>2, <1>4, ConcatProperties
<1>7. FlattenSeq(ss) = FlattenSeq(before) \o (ss[k] \o FlattenSeq(after))
  BY ONLY <1>2, <1>3, <1>5, <1>6, FlattenConcat
<1>8. FlattenSeq(before) \in Seq(W) /\ FlattenSeq(after) \in Seq(W)
  BY ONLY <1>2, FlattenType
<1>9. Around(FlattenSeq(ss), ss[k], FlattenSeq(before), FlattenSeq(after))
  BY ONLY <1>7 DEF Around
<1> QED  BY ONLY <1>8, <1>9

-----------------------------------------------------------------------------
(* Folds *)

\* What satisfies the recursion of a fold from the left goes through the elements one
\* by one.
FoldsIn(V, n, v, F, iter) ==
  /\ iter[{}] = v
  /\ \A S \in SUBSET (1 .. n) :
       S # {} /\ iter[S \ {Max(S)}] \in V => iter[S] = F[Max(S)][iter[S \ {Max(S)}]]
IteratedTo(V, n, v, F, last) ==
  \E h \in [0 .. n -> V] : Iterates(n, v, F, h) /\ last = h[n]
LEMMA FoldGoesOn ==
  ASSUME NEW V, NEW n \in Nat, NEW v \in V, NEW F \in [1 .. n -> [V -> V]], NEW iter,
         FoldsIn(V, n, v, F, iter)
  PROVE  IteratedTo(V, n, v, F, iter[1 .. n])
<1> DEFINE S == {i \in 0 .. n : iter[1 .. i] \in V}
           h == [i \in 0 .. n |-> iter[1 .. i]]
<1>1. ASSUME NEW i \in 1 .. n, iter[1 .. i - 1] \in V
      PROVE  iter[1 .. i] = F[i][iter[1 .. i - 1]]
  <2>1. /\ 1 .. i \in SUBSET (1 .. n) /\ 1 .. i # {} /\ Max(1 .. i) = i
        /\ (1 .. i) \ {Max(1 .. i)} = 1 .. i - 1
    BY Prefix
  <2> QED  BY <1>1, <2>1 DEF FoldsIn
<1>2. 0 \in S /\ 1 .. 0 = {} /\ iter[1 .. 0] = v
  BY DEF FoldsIn
<1>3. \A k \in 0 .. n - 1 : k \in S => k + 1 \in S
  <2> TAKE k \in 0 .. n - 1
  <2>1. k + 1 \in 1 .. n /\ (k + 1) - 1 = k /\ k + 1 \in 0 .. n
    OBVIOUS
  <2>2. F[k + 1] \in [V -> V]
    BY <2>1
  <2>3. iter[1 .. k] \in V => iter[1 .. k + 1] = F[k + 1][iter[1 .. k]]
    BY <1>1, <2>1
  <2> QED  BY <2>1, <2>2, <2>3
<1>4. \A k \in 0 .. n : k \in S
  <2> HIDE DEF S
  <2> QED  BY <1>2, <1>3, Upwards
<1>5. h \in [0 .. n -> V] /\ h[0] = v /\ h[n] = iter[1 .. n]
  BY <1>2, <1>4
<1>6. \A i \in 1 .. n : h[i] = F[i][h[i - 1]]
  <2> TAKE i \in 1 .. n
  <2>1. i \in 0 .. n /\ i - 1 \in 0 .. n
    OBVIOUS
  <2> QED  BY <1>1, <1>4, <2>1
<1> HIDE DEF h
<1> QED  BY <1>5, <1>6 DEF IteratedTo, Iterates

LEMMA NotEmpty ==
  ASSUME NEW s, Len(s) \in Nat \ {0}
  PROVE  s # <<>>
<1>1. Len(<<>>) = 0
  BY EmptySeq
<1> QED  BY <1>1

Appended(s, x, l) ==
  /\ Len(l) = Len(s) + 1 /\ l[Len(s) + 1] = x /\ l # <<>> /\ Len(s) \in Nat
  /\ \A j \in 1 .. Len(s) : l[j] = s[j]
LEMMA AppendIs ==
  ASSUME NEW W, NEW s \in Seq(W), NEW x \in W
  PROVE  Append(s, x) \in Seq(W) /\ Appended(s, x, Append(s, x))
<1>1. /\ Append(s, x) \in Seq(W) /\ Len(Append(s, x)) = Len(s) + 1
      /\ Append(s, x)[Len(s) + 1] = x
  BY AppendProperties
<1>2. \A j \in 1 .. Len(s) : Append(s, x)[j] = s[j]
  BY AppendProperties
<1>3. Len(s) \in Nat
  OBVIOUS
<1>4. Append(s, x) # <<>>
  BY <1>1, <1>3, NotEmpty
<1> QED  BY ONLY <1>1, <1>2, <1>3, <1>4 DEF Appended

-----------------------------------------------------------------------------
(* Chunking: str.split *)

PartSteps(text, sep, h) ==
  /\ h[0] = << <<>> >>
  /\ \A i \in 1 .. Len(text) :
       h[i] = IF i > 1 /\ text[i - 1].sep = sep
              THEN Append(h[i - 1], <<text[i]>>)
              ELSE [h[i - 1] EXCEPT ![Len(h[i - 1])] = Append(@, text[i])]
LEMMA PartsAtSteps ==
  ASSUME NEW W, NEW text \in Seq(W), NEW sep
  PROVE  \E h \in [0 .. Len(text) -> Seq(Seq(W)) \ {<<>>}] :
           PartSteps(text, sep, h) /\ PartsAt(text, sep) = h[Len(text)]
<1> DEFINE n == Len(text)
           V == Seq(Seq(W)) \ {<<>>}
           s == [i \in 1 .. n |-> i]
           step(parts, i) == IF i > 1 /\ text[i - 1].sep = sep
                             THEN Append(parts, <<text[i]>>)
                             ELSE [parts EXCEPT ![Len(parts)] = Append(@, text[i])]
           F == [i \in 1 .. n |-> [parts \in V |-> step(parts, i)]]
           Is(f) == f = [S \in SUBSET DOMAIN s |->
                           IF S = {} THEN << <<>> >>
                           ELSE step(f[S \ {Max(S)}], s[Max(S)])]
           iter == CHOOSE f : Is(f)
<1>1. n \in Nat /\ << <<>> >> \in V
  <2>1. <<>> \in Seq(W)
    BY EmptySeq
  <2>2. << <<>> >> \in Seq(Seq(W)) /\ << <<>> >> # <<>>
    BY <2>1
  <2> QED  BY <2>2
<1>2. \A i \in 1 .. n : \A parts \in V : step(parts, i) \in V
  <2> TAKE i \in 1 .. n
  <2> TAKE parts \in V
  <2>1. text[i] \in W /\ <<text[i]>> \in Seq(W)
    OBVIOUS
  <2>2. Append(parts, <<text[i]>>) \in V
    <3>1. /\ Append(parts, <<text[i]>>) \in Seq(Seq(W))
          /\ Appended(parts, <<text[i]>>, Append(parts, <<text[i]>>))
      BY <2>1, AppendIs
    <3> QED  BY ONLY <3>1 DEF Appended
  <2>3. Len(parts) \in Nat \ {0} /\ parts[Len(parts)] \in Seq(W)
    BY EmptySeq
  <2>4. Append(parts[Len(parts)], text[i]) \in Seq(W)
    BY <2>1, <2>3, AppendProperties
  <2>5. /\ [parts EXCEPT ![Len(parts)] = Append(@, text[i])] \in Seq(Seq(W))
        /\ Len([parts EXCEPT ![Len(parts)] = Append(@, text[i])]) = Len(parts)
    BY <2>3, <2>4, ExceptSeq
  <2>6. [parts EXCEPT ![Len(parts)] = Append(@, text[i])] # <<>>
    BY <2>3, <2>5, EmptySeq
  <2> QED  BY <2>2, <2>5, <2>6
<1>3. F \in [1 .. n -> [V -> V]]
  <2> HIDE DEF step, V
  <2> QED  BY <1>2
<1>4. \A S \in SUBSET (1 .. n) : S # {} => Max(S) \in 1 .. n /\ S \ {Max(S)} \in SUBSET (1 .. n)
  BY <1>1, MaxIn
<1>5. PICK g \in [SUBSET (1 .. n) -> V] :
        \A S \in SUBSET (1 .. n) : g[S] = IF S = {} THEN << <<>> >> ELSE F[Max(S)][g[S \ {Max(S)}]]
  <2> HIDE DEF F, V, n
  <2>1. Folded(V, n, << <<>> >>, F)
    BY ONLY <1>1, <1>3, FoldExists
  <2> QED  BY ONLY <2>1 DEF Folded, Folds
<1>6. DOMAIN s = 1 .. n
  OBVIOUS
<1>7. Is(g)
  <2> HIDE DEF step, V
  <2>1. ASSUME NEW S \in SUBSET (1 .. n)
        PROVE  g[S] = IF S = {} THEN << <<>> >> ELSE step(g[S \ {Max(S)}], s[Max(S)])
    <3>1. CASE S = {}
      BY <1>5, <3>1
    <3>2. CASE S # {}
      BY <1>4, <1>5, <3>2
    <3> QED  BY <3>1, <3>2
  <2> HIDE DEF s
  <2> QED  BY <1>6, <2>1
<1>8. Is(iter)
  <2> HIDE DEF Is
  <2> QED  BY <1>7
<1>9. PartsAt(text, sep) = iter[1 .. n]
  BY <1>6 DEF PartsAt, FoldLeft, MapThenFoldSet
<1>10. /\ iter[{}] = << <<>> >>
       /\ \A S \in SUBSET (1 .. n) :
            S # {} /\ iter[S \ {Max(S)}] \in V => iter[S] = F[Max(S)][iter[S \ {Max(S)}]]
  <2> HIDE DEF step, V, iter
  <2>1. \A S \in SUBSET (1 .. n) :
          iter[S] = IF S = {} THEN << <<>> >> ELSE step(iter[S \ {Max(S)}], s[Max(S)])
    BY <1>6, <1>8
  <2> QED  BY <1>4, <2>1
<1>11. PICK h \in [0 .. n -> V] :
         /\ h[0] = << <<>> >> /\ \A i \in 1 .. n : h[i] = F[i][h[i - 1]]
         /\ iter[1 .. n] = h[n]
  <2> HIDE DEF F, V, iter, n
  <2>1. FoldsIn(V, n, << <<>> >>, F, iter)
    BY ONLY <1>10 DEF FoldsIn
  <2>2. IteratedTo(V, n, << <<>> >>, F, iter[1 .. n])
    BY ONLY <1>1, <1>3, <2>1, FoldGoesOn
  <2> QED  BY ONLY <2>2 DEF IteratedTo, Iterates
<1>12. \A i \in 1 .. n : h[i] = step(h[i - 1], i)
  <2> HIDE DEF step, V
  <2> TAKE i \in 1 .. n
  <2>1. h[i - 1] \in V
    BY <1>1
  <2> QED  BY <1>11, <2>1
<1>13. PartSteps(text, sep, h)
  BY ONLY <1>11, <1>12 DEF PartSteps
<1> HIDE DEF iter
<1> QED  BY ONLY <1>9, <1>11, <1>13

\* str.split keeps every word and gives no empty part.
LEMMA PartsAtIs ==
  ASSUME NEW W, NEW text \in Seq(W), text # <<>>, NEW sep
  PROVE  /\ PartsAt(text, sep) \in Seq(Seq(W))
         /\ FlattenSeq(PartsAt(text, sep)) = text
         /\ \A k \in 1 .. Len(PartsAt(text, sep)) : PartsAt(text, sep)[k] # <<>>
<1> DEFINE n == Len(text)
           V == Seq(Seq(W)) \ {<<>>}
           Ok(parts, i) ==
             /\ FlattenSeq(parts) = SubSeq(text, 1, i)
             /\ \A k \in 1 .. Len(parts) : parts[k] # <<>>
<1>0. PICK h \in [0 .. n -> V] : PartSteps(text, sep, h) /\ PartsAt(text, sep) = h[n]
  BY PartsAtSteps
<1>1. /\ h[0] = << <<>> >>
      /\ \A i \in 1 .. n : h[i] = IF i > 1 /\ text[i - 1].sep = sep
                                  THEN Append(h[i - 1], <<text[i]>>)
                                  ELSE [h[i - 1] EXCEPT ![Len(h[i - 1])] = Append(@, text[i])]
  BY ONLY <1>0 DEF PartSteps
<1>2. n \in Nat \ {0} /\ \A i \in 1 .. n : text[i] \in W /\ <<text[i]>> \in Seq(W)
  BY EmptySeq
<1>3. \A i \in 1 .. n : SubSeq(text, 1, i) = SubSeq(text, 1, i - 1) \o <<text[i]>>
  <2> TAKE i \in 1 .. n
  <2>1. i - 1 \in Nat /\ i \in 1 .. Len(text) /\ 1 \in 1 .. i /\ i \in Nat
    BY <1>2
  <2> QED  BY <2>1, SubSeqRecursiveSecond
<1>4. ASSUME NEW i \in 1 .. n, i = 1 \/ Ok(h[i - 1], i - 1)
      PROVE  Ok(h[i], i)
  <2> DEFINE parts == h[i - 1]
             m == Len(parts)
             longer == [parts EXCEPT ![m] = Append(@, text[i])]
  <2>1. i - 1 \in 0 .. n /\ parts \in Seq(Seq(W)) /\ parts # <<>> /\ m \in Nat \ {0}
    <3>1. i - 1 \in 0 .. n
      BY <1>2
    <3>2. parts \in Seq(Seq(W)) /\ parts # <<>>
      BY <3>1
    <3> QED  BY <3>1, <3>2, EmptySeq
  <2>2. text[i] \in W /\ <<text[i]>> \in Seq(W) /\ parts[m] \in Seq(W)
    BY <1>2, <2>1
  <2>3. FlattenSeq(parts) = SubSeq(text, 1, i - 1)
    <3>1. CASE i = 1
      <4>1. parts = << <<>> >> /\ SubSeq(text, 1, i - 1) = <<>>
        BY <1>1, <3>1, SubSeqEmpty
      <4>2. <<>> \in Seq(W)
        BY EmptySeq
      <4> QED  BY <4>1, <4>2, FlattenOne
    <3> QED  BY <1>4, <3>1
  <2>4. CASE i > 1 /\ text[i - 1].sep = sep
    <3>1. h[i] = Append(parts, <<text[i]>>)
      BY <1>1, <2>4
    <3>2. /\ Len(h[i]) = m + 1 /\ h[i][m + 1] = <<text[i]>>
          /\ \A k \in 1 .. m : h[i][k] = parts[k]
      BY <2>1, <2>2, <3>1, AppendProperties
    <3>3. FlattenSeq(h[i]) = SubSeq(text, 1, i)
      BY <1>3, <2>1, <2>2, <2>3, <3>1, FlattenAppend
    <3>4. <<text[i]>> # <<>>
      <4> DEFINE t == text[i]
      <4>0. t = text[i]
        BY DEF t
      <4> HIDE DEF t
      <4>1. Len(<<t>>) \in Nat \ {0}
        OBVIOUS
      <4> QED  BY ONLY <4>0, <4>1, NotEmpty
    <3>5. \A k \in 1 .. m + 1 : h[i][k] # <<>>
      <4>0. \A k \in 1 .. m : parts[k] # <<>>
        BY <1>4, <2>4
      <4>1. \A k \in 1 .. m : h[i][k] # <<>>
        BY ONLY <3>2, <4>0
      <4>2. \A k \in 1 .. m + 1 : k \in 1 .. m \/ k = m + 1
        BY ONLY <2>1
      <4> QED  BY ONLY <3>2, <3>4, <4>1, <4>2
    <3> HIDE DEF parts
    <3> QED  BY ONLY <2>1, <3>2, <3>3, <3>5
  <2>5. CASE ~(i > 1 /\ text[i - 1].sep = sep)
    <3>1. h[i] = longer
      BY <1>1, <2>5
    <3>2. Append(parts[m], text[i]) = parts[m] \o <<text[i]>>
      BY <2>2, AppendIsConcat
    <3>3. h[i] = [parts EXCEPT ![m] = @ \o <<text[i]>>]
      BY <3>1, <3>2
    <3>4. FlattenSeq(h[i]) = SubSeq(text, 1, i)
      <4> HIDE DEF parts
      <4>1. FlattenSeq(h[i]) = FlattenSeq(parts) \o <<text[i]>>
        BY ONLY <2>1, <2>2, <3>3, FlattenExtend DEF m
      <4> QED  BY ONLY <1>3, <2>3, <4>1, i \in 1 .. n
    <3> DEFINE l == Append(parts[m], text[i])
               len == Len(parts[m])
    <3>5. /\ l \in Seq(W) /\ Len(l) = len + 1 /\ l[len + 1] = text[i]
          /\ l # <<>> /\ len \in Nat
          /\ \A j \in 1 .. len : l[j] = parts[m][j]
      <4>1. l \in Seq(W) /\ Appended(parts[m], text[i], l)
        BY ONLY <2>2, AppendIs
      <4> QED  BY ONLY <4>1 DEF Appended
    <3>6. /\ Len(h[i]) = m /\ h[i][m] = l
          /\ \A k \in 1 .. m : k # m => h[i][k] = parts[k]
      <4> HIDE DEF l
      <4>1. l = Append(parts[m], text[i])
        BY DEF l
      <4>2. h[i] = [parts EXCEPT ![m] = l]
        BY ONLY <3>1, <4>1
      <4> HIDE DEF parts
      <4>3. /\ Len([parts EXCEPT ![m] = l]) = Len(parts)
            /\ \A k \in 1 .. Len(parts) :
                 [parts EXCEPT ![m] = l][k] = IF k = m THEN l ELSE parts[k]
        BY ONLY <2>1, <3>5, ExceptSeq DEF m
      <4>4. Len(parts) = m
        BY DEF m
      <4> HIDE DEF m
      <4> QED  BY ONLY <2>1, <4>2, <4>3, <4>4
    <3>7. \A k \in 1 .. m : h[i][k] # <<>>
      <4> TAKE k \in 1 .. m
      <4>1. CASE k = m
        BY <3>5, <3>6, <4>1
      <4>2. CASE k # m
        <5>1. i # 1
          <6> SUFFICES ASSUME i = 1 PROVE FALSE
            OBVIOUS
          <6>1. m = 1
            <7>1. h[i - 1] = << <<>> >>
              BY ONLY <1>1, i = 1
            <7> QED  BY ONLY <7>1
          <6> QED  BY <4>2, <6>1
        <5> QED  BY <1>4, <3>6, <4>2, <5>1
      <4> QED  BY <4>1, <4>2
    <3> QED  BY <3>4, <3>6, <3>7
  <2> QED  BY <2>4, <2>5
<1> DEFINE S == {i \in 0 .. n : i = 0 \/ Ok(h[i], i)}
<1>5. \A k \in 0 .. n - 1 : k \in S => k + 1 \in S
  <2> HIDE DEF Ok
  <2> TAKE k \in 0 .. n - 1
  <2>1. k + 1 \in 1 .. n /\ k + 1 \in 0 .. n /\ (k + 1) - 1 = k /\ (k + 1 = 1 <=> k = 0)
    BY <1>2
  <2>2. k \in S => k + 1 = 1 \/ Ok(h[(k + 1) - 1], (k + 1) - 1)
    BY <2>1
  <2> QED  BY <1>4, <2>1, <2>2
<1>6. n \in S
  <2>1. 0 \in S
    BY <1>2
  <2> HIDE DEF S
  <2>2. \A k \in 0 .. n : k \in S
    BY <1>2, <1>5, <2>1, Upwards
  <2> QED  BY <1>2, <2>2
<1>7. Ok(h[n], n) /\ h[n] \in Seq(Seq(W))
  BY <1>2, <1>6
<1>8. SubSeq(text, 1, n) = text
  BY SubSeqFull
<1> HIDE DEF n
<1> QED  BY ONLY <1>0, <1>7, <1>8

-----------------------------------------------------------------------------
(* Chunking: _recursive_split *)

\* What the sequences hold is all that the flattened one holds.
LEMMA FlattenElement ==
  ASSUME NEW W, NEW ss \in Seq(Seq(W)), NEW k \in 1 .. Len(FlattenSeq(ss))
  PROVE  \E i \in 1 .. Len(ss) : \E j \in 1 .. Len(ss[i]) : FlattenSeq(ss)[k] = ss[i][j]
<1> DEFINE n == Len(ss)
           From(x) == \E i \in 1 .. n : \E j \in 1 .. Len(ss[i]) : x = ss[i][j]
<1>1. PICK h \in [0 .. n -> Seq(W)] :
        /\ h[0] = <<>> /\ \A i \in 1 .. n : h[i] = h[i - 1] \o ss[i]
        /\ FlattenSeq(ss) = h[n]
  BY FlattenSteps DEF Flattens
<1> DEFINE All(t) == \A x \in 1 .. Len(t) : From(t[x])
           S == {i \in 0 .. n : All(h[i])}
<1>2. n \in Nat
  OBVIOUS
<1>3. 0 \in S
  BY <1>1, <1>2
<1>4. \A i \in 0 .. n - 1 : i \in S => i + 1 \in S
  <2> HIDE DEF From
  <2> TAKE i \in 0 .. n - 1
  <2> HAVE i \in S
  <2>0. i + 1 \in 0 .. n
    BY <1>2
  <2> SUFFICES All(h[i + 1])
    <3> HIDE DEF All
    <3> QED  BY <2>0, Zenon
  <2> SUFFICES ASSUME NEW x \in 1 .. Len(h[i + 1])
               PROVE  From(h[i + 1][x])
    OBVIOUS
  <2>1. i \in 0 .. n /\ i + 1 \in 1 .. n /\ (i + 1) - 1 = i
    BY <1>2
  <2>2. h[i + 1] = h[i] \o ss[i + 1] /\ h[i] \in Seq(W) /\ ss[i + 1] \in Seq(W)
    <3>1. h[i + 1] = h[i] \o ss[i + 1]
      BY ONLY <1>1, <2>1
    <3>2. h[i] \in Seq(W)
      BY <2>1
    <3>3. ss[i + 1] \in Seq(W)
      BY <2>1
    <3> QED  BY ONLY <3>1, <3>2, <3>3
  <2>3. /\ Len(h[i + 1]) = Len(h[i]) + Len(ss[i + 1])
        /\ h[i + 1][x] = IF x <= Len(h[i]) THEN h[i][x] ELSE ss[i + 1][x - Len(h[i])]
    BY <2>2, ConcatProperties
  <2>4. Len(h[i]) \in Nat /\ Len(ss[i + 1]) \in Nat
    BY <2>2
  <2>5. CASE x <= Len(h[i])
    BY <2>3, <2>4, <2>5
  <2>6. CASE ~(x <= Len(h[i]))
    <3>1. x - Len(h[i]) \in 1 .. Len(ss[i + 1])
      BY <2>3, <2>4, <2>6
    <3> QED  BY <2>1, <2>3, <2>6, <3>1 DEF From
  <2> QED  BY <2>5, <2>6
<1>5. n \in S
  <2> HIDE DEF S
  <2>1. \A i \in 0 .. n : i \in S
    BY <1>2, <1>3, <1>4, Upwards
  <2> QED  BY <1>2, <2>1
<1> HIDE DEF From
<1>6. From(FlattenSeq(ss)[k])
  BY <1>1, <1>5
<1> QED  BY <1>6 DEF From

NoneEmpty(parts) == \A k \in 1 .. Len(parts) : parts[k] # <<>>

LEMMA CutAtIs ==
  ASSUME NEW W, NEW parts \in Seq(Seq(W)), NoneEmpty(parts), NEW sep, NEW maxWords
  PROVE  /\ CutAt(parts, sep, maxWords) \in Seq(Seq(W))
         /\ FlattenSeq(CutAt(parts, sep, maxWords)) = FlattenSeq(parts)
         /\ NoneEmpty(CutAt(parts, sep, maxWords))
<1> DEFINE n == Len(parts)
           Of(i) == IF Len(parts[i]) <= maxWords THEN <<parts[i]>> ELSE PartsAt(parts[i], sep)
           pp == [i \in DOMAIN parts |-> Of(i)]
           cut == FlattenSeq(pp)
<1>1. cut = CutAt(parts, sep, maxWords)
  BY DEF CutAt
<1>2. n \in Nat /\ DOMAIN parts = 1 .. n /\ \A i \in 1 .. n : parts[i] \in Seq(W) /\ parts[i] # <<>>
  BY DEF NoneEmpty
<1>3. ASSUME NEW i \in 1 .. n
      PROVE  /\ Of(i) \in Seq(Seq(W)) /\ FlattenSeq(Of(i)) = parts[i]
             /\ \A j \in 1 .. Len(Of(i)) : Of(i)[j] # <<>>
  <2>1. CASE Len(parts[i]) <= maxWords
    <3>1. <<parts[i]>> \in Seq(Seq(W)) /\ FlattenSeq(<<parts[i]>>) = parts[i]
      BY <1>2, FlattenOne
    <3>2. \A j \in 1 .. Len(<<parts[i]>>) : <<parts[i]>>[j] = parts[i]
      OBVIOUS
    <3> QED  BY <1>2, <2>1, <3>1, <3>2
  <2>2. CASE ~(Len(parts[i]) <= maxWords)
    <3> DEFINE q == PartsAt(parts[i], sep)
    <3>1. /\ q \in Seq(Seq(W)) /\ FlattenSeq(q) = parts[i]
          /\ \A j \in 1 .. Len(q) : q[j] # <<>>
      BY <1>2, PartsAtIs
    <3>2. Of(i) = q
      BY <2>2
    <3> HIDE DEF q
    <3> QED  BY <3>1, <3>2
  <2> QED  BY <2>1, <2>2
<1> HIDE DEF Of
<1>4. pp \in Seq(Seq(Seq(W))) /\ Len(pp) = n /\ \A i \in 1 .. n : pp[i] = Of(i)
  BY <1>2, <1>3
<1> HIDE DEF pp
<1>5. cut \in Seq(Seq(W)) /\ FlattenSeq(cut) = FlattenSeq(parts)
  <2>1. cut \in Seq(Seq(W))
    BY <1>4, FlattenType
  <2>2. \A i \in 1 .. Len(parts) : FlattenSeq(pp[i]) = parts[i]
    BY <1>3, <1>4
  <2> QED  BY <1>4, <2>1, <2>2, FlattenTwice
<1>6. \A k \in 1 .. Len(cut) : cut[k] # <<>>
  <2> TAKE k \in 1 .. Len(cut)
  <2>1. PICK i \in 1 .. Len(pp) : \E j \in 1 .. Len(pp[i]) : cut[k] = pp[i][j]
    BY <1>4, FlattenElement
  <2> QED  BY <1>3, <1>4, <2>1
<1> QED  BY <1>1, <1>5, <1>6 DEF NoneEmpty

\* The pieces of a text that is cut anywhere, from a word to the next one.
CutPlace(i, step, n) == IF i * step < n THEN i * step ELSE n
LEMMA CutPlaces ==
  ASSUME NEW n \in Nat \ {0}, NEW step \in Nat \ {0}, NEW m, m = (n + step - 1) \div step
  PROVE  /\ m \in Nat /\ CutPlace(0, step, n) = 0 /\ CutPlace(m, step, n) = n
         /\ \A i \in 1 .. m : /\ (i - 1) * step < n /\ CutPlace(i - 1, step, n) = (i - 1) * step
                              /\ (i - 1) * step \in Nat /\ CutPlace(i, step, n) \in 1 .. n
                              /\ CutPlace(i, step, n) - (i - 1) * step \in 1 .. step
<1>1. /\ m \in Nat /\ step * m <= n + step - 1 /\ n + step - 1 < step * m + step
  OBVIOUS
<1>2. CutPlace(0, step, n) = 0
  BY DEF CutPlace
<1>3. CutPlace(m, step, n) = n
  BY <1>1 DEF CutPlace
<1>4. ASSUME NEW i \in 1 .. m
      PROVE  /\ (i - 1) * step < n /\ CutPlace(i - 1, step, n) = (i - 1) * step
             /\ (i - 1) * step \in Nat /\ CutPlace(i, step, n) \in 1 .. n
             /\ CutPlace(i, step, n) - (i - 1) * step \in 1 .. step
  <2> DEFINE a == (i - 1) * step
  <2>1. a \in Nat /\ i * step = a + step
    OBVIOUS
  <2>2. i * step <= step * m
    OBVIOUS
  <2> HIDE DEF a
  <2>3. a < n
    BY <1>1, <2>1, <2>2
  <2> QED  BY <2>1, <2>3 DEF CutPlace, a
<1> QED  BY <1>1, <1>2, <1>3, <1>4

LEMMA StretchType ==
  ASSUME NEW W, NEW s, s \in Seq(W), NEW x \in 1 .. Len(s), NEW y \in 1 .. Len(s), x <= y
  PROVE  /\ SubSeq(s, x, y) \in Seq(W) /\ Len(SubSeq(s, x, y)) = (y - x) + 1
         /\ SubSeq(s, x, y) # <<>>
<1>1. x \in Nat /\ y \in Nat
  BY ONLY s \in Seq(W), LenProperties, x \in 1 .. Len(s), y \in 1 .. Len(s)
<1>2. \A i \in x .. y : s[i] \in W
  <2>1. \A i \in x .. y : i \in 1 .. Len(s)
    BY ONLY s \in Seq(W), LenProperties, x \in 1 .. Len(s), y \in 1 .. Len(s)
  <2> QED  BY ONLY <2>1, s \in Seq(W), ElementOfSeq
<1>3. /\ SubSeq(s, x, y) \in Seq(W)
      /\ Len(SubSeq(s, x, y)) = IF x <= y THEN (y - x) + 1 ELSE 0
  BY ONLY <1>1, <1>2, SubSeqProperties
<1>4. (y - x) + 1 \in Nat \ {0}
  BY ONLY <1>1, x <= y
<1>5. Len(SubSeq(s, x, y)) \in Nat \ {0}
  BY ONLY <1>3, <1>4, x <= y
<1> QED  BY ONLY <1>3, <1>5, x <= y, NotEmpty

\* _hard_word_split keeps every word and gives pieces of the size asked for.
Splits(W, text, largest, parts) ==
  /\ parts \in Seq(Seq(W)) /\ FlattenSeq(parts) = text
  /\ \A k \in 1 .. Len(parts) : Len(parts[k]) \in 1 .. largest

LEMMA HardWordSplitIs ==
  ASSUME NEW W, NEW text, text \in Seq(W), text # <<>>, NEW step \in Nat \ {0}
  PROVE  Splits(W, text, step, HardWordSplit(text, step))
<1> DEFINE n == Len(text)
           m == (n + step - 1) \div step
           Place(i) == CutPlace(i, step, n)
           Piece(i) == SubSeq(text, (i - 1) * step + 1, Place(i))
           pieces == [i \in 1 .. m |-> Piece(i)]
           h == [i \in 0 .. m |-> SubSeq(text, 1, Place(i))]
<1>1. n \in Nat \ {0}
  BY EmptySeq
<1>2. HardWordSplit(text, step) = pieces
  BY DEF HardWordSplit, CutPlace
<1>3. /\ m \in Nat /\ Place(0) = 0 /\ Place(m) = n
      /\ \A i \in 1 .. m : /\ (i - 1) * step < n /\ Place(i - 1) = (i - 1) * step
                           /\ (i - 1) * step \in Nat /\ Place(i) \in 1 .. n
                           /\ Place(i) - (i - 1) * step \in 1 .. step
  <2> HIDE DEF n
  <2> QED  BY ONLY <1>1, step \in Nat \ {0}, CutPlaces
<1> HIDE DEF m, Place
<1>4. ASSUME NEW i \in 1 .. m
      PROVE  /\ Piece(i) \in Seq(W) /\ Len(Piece(i)) \in 1 .. step
             /\ SubSeq(text, 1, Place(i)) = SubSeq(text, 1, Place(i - 1)) \o Piece(i)
  <2> DEFINE a == (i - 1) * step
             b == Place(i)
  <2>1. a \in Nat /\ a < n /\ b \in 1 .. n /\ b - a \in 1 .. step /\ Place(i - 1) = a
    BY ONLY <1>3, i \in 1 .. m
  <2> HIDE DEF a, b, n
  <2>2. /\ a + 1 \in 1 .. n /\ b \in 1 .. n /\ a + 1 <= b /\ (b - (a + 1)) + 1 = b - a
        /\ a \in 1 - 1 .. n /\ b \in a .. n /\ 1 \in 1 .. n + 1
    BY ONLY <1>1, <2>1, step \in Nat \ {0}
  <2>3. /\ SubSeq(text, a + 1, b) \in Seq(W)
        /\ Len(SubSeq(text, a + 1, b)) = (b - (a + 1)) + 1
    BY ONLY <2>2, text \in Seq(W), StretchType DEF n
  <2>4. SubSeq(text, 1, a) \o SubSeq(text, a + 1, b) = SubSeq(text, 1, b)
    BY ONLY <2>2, text \in Seq(W), ConcatAdjacentSubSeq DEF n
  <2>5. Piece(i) = SubSeq(text, a + 1, b)
    BY DEF a, b
  <2> HIDE DEF Piece
  <2> QED  BY ONLY <2>1, <2>2, <2>3, <2>4, <2>5 DEF b
<1> HIDE DEF Piece
<1>5. pieces \in Seq(Seq(W)) /\ Len(pieces) = m /\ \A i \in 1 .. m : pieces[i] = Piece(i)
  BY ONLY <1>3, <1>4
<1> HIDE DEF pieces
<1>6. Flattens(pieces, h)
  <2>1. h[0] = <<>>
    <3>1. SubSeq(text, 1, 0) = <<>>
      BY SubSeqEmpty
    <3> QED  BY ONLY <1>3, <3>1
  <2>2. ASSUME NEW i \in 1 .. m PROVE h[i] = h[i - 1] \o pieces[i]
    <3>1. i \in 0 .. m /\ i - 1 \in 0 .. m
      BY ONLY <1>3, i \in 1 .. m
    <3>2. h[i] = SubSeq(text, 1, Place(i)) /\ h[i - 1] = SubSeq(text, 1, Place(i - 1))
      BY ONLY <3>1
    <3> HIDE DEF h
    <3> QED  BY ONLY <1>4, <1>5, <3>2, i \in 1 .. m
  <2> HIDE DEF h
  <2> QED  BY ONLY <1>5, <2>1, <2>2 DEF Flattens
<1>7. h[m] = SubSeq(text, 1, n)
  BY ONLY <1>3
<1> HIDE DEF h
<1>8. FlattenSeq(pieces) = h[m]
  BY ONLY <1>5, <1>6, FlattenIs
<1>9. SubSeq(text, 1, n) = text
  BY ONLY text \in Seq(W), SubSeqFull DEF n
<1>10. \A k \in 1 .. Len(pieces) : Len(pieces[k]) \in 1 .. step
  BY ONLY <1>4, <1>5
<1> QED  BY ONLY <1>2, <1>5, <1>7, <1>8, <1>9, <1>10 DEF Splits

LEMMA CutHardIs ==
  ASSUME NEW W, NEW parts, parts \in Seq(Seq(W)), NoneEmpty(parts), NEW maxWords \in Nat \ {0}
  PROVE  Splits(W, FlattenSeq(parts), maxWords, CutHard(parts, maxWords))
<1> DEFINE n == Len(parts)
           Of(i) == HardWordSplit(parts[i], maxWords)
           pp == [i \in DOMAIN parts |-> Of(i)]
           cut == FlattenSeq(pp)
<1>1. cut = CutHard(parts, maxWords)
  BY DEF CutHard
<1>2. n \in Nat /\ DOMAIN parts = 1 .. n /\ \A i \in 1 .. n : parts[i] \in Seq(W) /\ parts[i] # <<>>
  BY DEF NoneEmpty
<1>3. \A i \in 1 .. n : Splits(W, parts[i], maxWords, Of(i))
  BY ONLY <1>2, maxWords \in Nat \ {0}, HardWordSplitIs
<1>4. \A i \in 1 .. n : /\ Of(i) \in Seq(Seq(W)) /\ FlattenSeq(Of(i)) = parts[i]
                        /\ \A j \in 1 .. Len(Of(i)) : Len(Of(i)[j]) \in 1 .. maxWords
  BY ONLY <1>3 DEF Splits
<1> HIDE DEF Of
<1>5. pp \in Seq(Seq(Seq(W))) /\ Len(pp) = n /\ \A i \in 1 .. n : pp[i] = Of(i)
  BY ONLY <1>2, <1>4
<1> HIDE DEF pp
<1>6. cut \in Seq(Seq(W)) /\ FlattenSeq(cut) = FlattenSeq(parts)
  <2>1. cut \in Seq(Seq(W))
    BY ONLY <1>5, FlattenType
  <2>2. \A i \in 1 .. Len(parts) : FlattenSeq(pp[i]) = parts[i]
    BY ONLY <1>4, <1>5
  <2> QED  BY <1>5, <2>1, <2>2, FlattenTwice
<1>7. \A k \in 1 .. Len(cut) : Len(cut[k]) \in 1 .. maxWords
  <2> TAKE k \in 1 .. Len(cut)
  <2>1. PICK i \in 1 .. Len(pp) : \E j \in 1 .. Len(pp[i]) : cut[k] = pp[i][j]
    BY ONLY <1>5, k \in 1 .. Len(cut), FlattenElement
  <2> QED  BY ONLY <1>4, <1>5, <2>1
<1> QED  BY ONLY <1>1, <1>6, <1>7 DEF Splits

\* _recursive_split keeps every word and gives parts of the size asked for.
LEMMA RecursiveSplitIs ==
  ASSUME NEW W, NEW text \in Seq(W), text # <<>>, NEW maxWords \in Nat \ {0}
  PROVE  Splits(W, text, maxWords, RecursiveSplit(text, maxWords))
<1> DEFINE p0 == <<text>>
           p1 == CutAt(p0, 1, maxWords)
           p2 == CutAt(p1, 2, maxWords)
           p3 == CutAt(p2, 3, maxWords)
           p4 == CutAt(p3, 4, maxWords)
           Ok(p) == p \in Seq(Seq(W)) /\ FlattenSeq(p) = text /\ NoneEmpty(p)
<1>1. RecursiveSplit(text, maxWords) = CutHard(p4, maxWords)
  BY DEF RecursiveSplit
<1>2. Ok(p0)
  BY FlattenOne DEF NoneEmpty
<1> HIDE DEF p0
<1>3. Ok(p1)
  BY <1>2, CutAtIs
<1> HIDE DEF p1
<1>4. Ok(p2)
  BY <1>3, CutAtIs
<1> HIDE DEF p2
<1>5. Ok(p3)
  BY <1>4, CutAtIs
<1> HIDE DEF p3
<1>6. Ok(p4)
  BY <1>5, CutAtIs
<1> HIDE DEF p4
<1> QED  BY ONLY <1>1, <1>6, maxWords \in Nat \ {0}, CutHardIs

-----------------------------------------------------------------------------
(* The elements of sequences *)

ElementOf(x, ss) == \E k \in 1 .. Len(ss) : x = ss[k]

LEMMA ElementOfConcat ==
  ASSUME NEW S, NEW cs, cs \in Seq(S), NEW ds, ds \in Seq(S)
  PROVE  \A x : ElementOf(x, cs \o ds) <=> ElementOf(x, cs) \/ ElementOf(x, ds)
<1> DEFINE n == Len(cs)
           m == Len(ds)
           es == cs \o ds
<1>1. /\ n \in Nat /\ m \in Nat /\ Len(es) = n + m
      /\ \A k \in 1 .. n + m : es[k] = IF k <= n THEN cs[k] ELSE ds[k - n]
  BY ConcatProperties
<1> HIDE DEF n, m, es
<1>2. \A k \in 1 .. n : k \in 1 .. n + m /\ es[k] = cs[k]
  BY ONLY <1>1
<1>3. \A k \in 1 .. m : n + k \in 1 .. n + m /\ es[n + k] = ds[k]
  <2> TAKE k \in 1 .. m
  <2>1. n + k \in 1 .. n + m /\ ~(n + k <= n) /\ (n + k) - n = k
    BY ONLY <1>1, k \in 1 .. m
  <2> QED  BY ONLY <1>1, <2>1
<1>4. \A k \in 1 .. n + m : \/ k \in 1 .. n /\ es[k] = cs[k]
                            \/ k - n \in 1 .. m /\ es[k] = ds[k - n]
  <2> TAKE k \in 1 .. n + m
  <2>1. CASE k <= n
    BY ONLY <1>1, <2>1, k \in 1 .. n + m
  <2>2. CASE ~(k <= n)
    <3>1. k - n \in 1 .. m
      BY ONLY <1>1, <2>2, k \in 1 .. n + m
    <3> QED  BY ONLY <1>1, <2>2, <3>1, k \in 1 .. n + m
  <2> QED  BY ONLY <2>1, <2>2
<1>5. Len(es) = n + m /\ Len(cs) = n /\ Len(ds) = m
  BY <1>1 DEF n, m
<1>6. ASSUME NEW x PROVE ElementOf(x, es) <=> ElementOf(x, cs) \/ ElementOf(x, ds)
  <2>1. ElementOf(x, es) => ElementOf(x, cs) \/ ElementOf(x, ds)
    BY ONLY <1>4, <1>5 DEF ElementOf
  <2>2. ElementOf(x, cs) => ElementOf(x, es)
    BY ONLY <1>2, <1>5 DEF ElementOf
  <2>3. ElementOf(x, ds) => ElementOf(x, es)
    <3> SUFFICES ASSUME ElementOf(x, ds) PROVE ElementOf(x, es)
      OBVIOUS
    <3>1. PICK k \in 1 .. m : x = ds[k]
      BY ONLY <1>5, ElementOf(x, ds) DEF ElementOf
    <3>2. n + k \in 1 .. n + m /\ x = es[n + k]
      BY ONLY <1>3, <3>1
    <3> QED  BY ONLY <1>5, <3>2 DEF ElementOf
  <2> QED  BY ONLY <2>1, <2>2, <2>3
<1> QED  BY ONLY <1>6 DEF es

LEMMA ElementOfOne == \A t : \A x : ElementOf(x, <<t>>) <=> x = t
<1> TAKE t
<1>1. Len(<<t>>) = 1 /\ <<t>>[1] = t
  OBVIOUS
<1>2. \A k : k \in 1 .. 1 <=> k = 1
  OBVIOUS
<1> QED  BY ONLY <1>1, <1>2 DEF ElementOf

LEMMA ElementOfAppend ==
  ASSUME NEW S, NEW cs, cs \in Seq(S), NEW t, t \in S
  PROVE  \A x : ElementOf(x, Append(cs, t)) <=> ElementOf(x, cs) \/ x = t
<1>1. Append(cs, t) = cs \o <<t>>
  BY AppendIsConcat
<1>2. <<t>> \in Seq(S)
  OBVIOUS
<1>3. \A x : ElementOf(x, cs \o <<t>>) <=> ElementOf(x, cs) \/ ElementOf(x, <<t>>)
  BY ONLY <1>2, cs \in Seq(S), ElementOfConcat
<1> QED  BY ONLY <1>1, <1>3, ElementOfOne, Zenon

-----------------------------------------------------------------------------
(* A sequence that is a stretch of another *)

PartOf(W, c, u) == \E a, b \in Seq(W) : Around(c, u, a, b)

LEMMA WithinSelf ==
  ASSUME NEW W, NEW u, u \in Seq(W)
  PROVE  PartOf(W, u, u)
<1>1. <<>> \in Seq(W)
  BY EmptySeq
<1>2. <<>> \o (u \o <<>>) = u
  BY ConcatEmptySeq
<1> QED  BY ONLY <1>1, <1>2 DEF PartOf, Around

LEMMA WithinLonger ==
  ASSUME NEW W, NEW c, c \in Seq(W), NEW d, d \in Seq(W), NEW u, u \in Seq(W), PartOf(W, c, u)
  PROVE  PartOf(W, c \o d, u)
<1>1. PICK a, b \in Seq(W) : c = a \o (u \o b)
  BY DEF PartOf, Around
<1>3. u \o b \in Seq(W) /\ b \o d \in Seq(W)
  BY ConcatProperties
<1>4. Associate(a, u \o b, d)
  BY ONLY <1>3, a \in Seq(W), d \in Seq(W), Associative
<1>5. Associate(u, b, d)
  BY ONLY b \in Seq(W), d \in Seq(W), u \in Seq(W), Associative
<1>6. Around(c \o d, u, a, b \o d)
  BY ONLY <1>1, <1>4, <1>5 DEF Around, Associate
<1> QED  BY ONLY <1>3, <1>6, a \in Seq(W), Zenon DEF PartOf

LEMMA WithinLast ==
  ASSUME NEW W, NEW c, c \in Seq(W), NEW u, u \in Seq(W)
  PROVE  PartOf(W, c \o u, u)
<1>1. <<>> \in Seq(W)
  BY EmptySeq
<1>2. u \o <<>> = u
  BY ConcatEmptySeq
<1>3. Around(c \o u, u, c, <<>>)
  BY ONLY <1>2 DEF Around
<1> QED  BY ONLY <1>1, <1>3, c \in Seq(W), Zenon DEF PartOf

LEMMA WithinEmpty ==
  ASSUME NEW W, NEW u, u \in Seq(W), PartOf(W, <<>>, u)
  PROVE  u = <<>>
<1>1. PICK a, b \in Seq(W) : <<>> = a \o (u \o b)
  BY DEF PartOf, Around
<1>2. u \o b \in Seq(W)
  BY ConcatProperties
<1>3. Len(a) \in Nat /\ Len(u) \in Nat /\ Len(b) \in Nat
  OBVIOUS
<1>4. Len(u \o b) = Len(u) + Len(b) /\ Len(a \o (u \o b)) = Len(a) + Len(u \o b)
  BY <1>2, ConcatProperties
<1>5. Len(<<>>) = 0
  BY EmptySeq
<1>6. Len(a \o (u \o b)) = 0
  BY ONLY <1>1, <1>5, Zenon
<1>7. Len(u) = 0
  BY ONLY <1>3, <1>4, <1>6
<1> QED  BY ONLY <1>7, u \in Seq(W), EmptySeq

\* The stretch is between two indices.
Between(c, u) == \E a, b \in 1 .. Len(c) : SubSeq(c, a, b) = u
LEMMA WithinBounds ==
  ASSUME NEW W, NEW c, c \in Seq(W), NEW u, u \in Seq(W), u # <<>>, PartOf(W, c, u)
  PROVE  Between(c, u)
<1>1. PICK x, y \in Seq(W) : c = x \o (u \o y)
  BY DEF PartOf, Around
<1> DEFINE p == Len(x)
           q == Len(u)
           r == Len(y)
<1>2. p \in Nat /\ q \in Nat \ {0} /\ r \in Nat
  BY EmptySeq
<1>3. u \o y \in Seq(W) /\ Len(u \o y) = q + r
  BY ConcatProperties
<1>4. Len(c) = p + (q + r)
  BY <1>1, <1>3, ConcatProperties
<1>5. SubSeq(u \o y, 1, q) = u
  <2>1. 1 \in 1 .. q /\ q \in 1 .. q
    BY <1>2
  <2>2. SubSeq(u \o y, 1, q) = SubSeq(u, 1, q)
    BY <2>1, SubSeqOfConcat1
  <2>3. SubSeq(u, 1, q) = u
    BY SubSeqFull
  <2> QED  BY ONLY <2>2, <2>3
<1>6. SubSeq(x \o (u \o y), p + 1, p + q) = SubSeq(u \o y, (p + 1) - p, (p + q) - p)
  <2>1. p + 1 \in p + 1 .. p + (q + r) /\ p + q \in p + 1 .. p + (q + r)
    BY <1>2
  <2>2. p + 1 \in Len(x) + 1 .. Len(x) + Len(u \o y) /\ p + q \in Len(x) + 1 .. Len(x) + Len(u \o y)
    BY ONLY <1>3, <2>1
  <2> QED  BY <1>3, <2>2, SubSeqOfConcat2
<1>7. (p + 1) - p = 1 /\ (p + q) - p = q /\ p + 1 \in 1 .. Len(c) /\ p + q \in 1 .. Len(c)
  BY ONLY <1>2, <1>4
<1>8. SubSeq(c, p + 1, p + q) = u
  BY ONLY <1>1, <1>5, <1>6, <1>7
<1> QED  BY ONLY <1>7, <1>8 DEF Between

-----------------------------------------------------------------------------
(* Chunking: the greedy loop of chunk_units *)

\* Chunks of a size, and what is kept of a unit that is not too large.
Sized(cs, largest) == \A x : ElementOf(x, cs) => Len(x) \in 1 .. largest
Held(W, cs, u) == \E x : ElementOf(x, cs) /\ PartOf(W, x, u)

Packing(W) == [chunks : Seq(Seq(W)), current : Seq(W)]

LEMMA ClosedIs ==
  ASSUME NEW W, NEW p, p \in Packing(W)
  PROVE  /\ Closed(p) \in Seq(Seq(W))
         /\ FlattenSeq(Closed(p)) = FlattenSeq(p.chunks) \o p.current
         /\ \A x : ElementOf(x, Closed(p)) <=>
              \/ ElementOf(x, p.chunks)
              \/ x = p.current /\ p.current # <<>>
<1>1. p.chunks \in Seq(Seq(W)) /\ p.current \in Seq(W)
  BY DEF Packing
<1>2. FlattenSeq(p.chunks) \in Seq(W)
  BY <1>1, FlattenType
<1>3. CASE p.current = <<>>
  <2>1. Closed(p) = p.chunks
    BY <1>3 DEF Closed
  <2>2. FlattenSeq(p.chunks) \o p.current = FlattenSeq(p.chunks)
    BY <1>2, <1>3, ConcatEmptySeq
  <2>3. \A x : ElementOf(x, p.chunks) <=>
                 \/ ElementOf(x, p.chunks)
                 \/ x = p.current /\ p.current # <<>>
    BY ONLY <1>3, Zenon
  <2>4. FlattenSeq(Closed(p)) = FlattenSeq(p.chunks) \o p.current
    BY ONLY <2>1, <2>2, Zenon
  <2> QED  BY ONLY <1>1, <2>1, <2>3, <2>4, Zenon
<1>4. CASE p.current # <<>>
  <2>1. Closed(p) = Append(p.chunks, p.current)
    BY <1>4 DEF Closed
  <2>2. Append(p.chunks, p.current) \in Seq(Seq(W))
    BY ONLY <1>1, AppendIs
  <2>3. FlattenSeq(Append(p.chunks, p.current)) = FlattenSeq(p.chunks) \o p.current
    BY ONLY <1>1, FlattenAppend
  <2>4. \A x : ElementOf(x, Append(p.chunks, p.current)) <=>
                 ElementOf(x, p.chunks) \/ x = p.current
    BY ONLY <1>1, ElementOfAppend
  <2> QED  BY ONLY <1>4, <2>1, <2>2, <2>3, <2>4
<1> QED  BY ONLY <1>3, <1>4

\* Closing keeps the bound and what is held.
LEMMA ClosedKeeps ==
  ASSUME NEW W, NEW p, p \in Packing(W), NEW largest \in Nat,
         Sized(p.chunks, largest), Len(p.current) <= largest
  PROVE  /\ Sized(Closed(p), largest)
         /\ \A u : /\ u \in Seq(W) /\ u # <<>>
                   /\ Held(W, p.chunks, u) \/ PartOf(W, p.current, u)
                   => Held(W, Closed(p), u)
<1>1. p.current \in Seq(W)
  BY DEF Packing
<1>2. \A x : ElementOf(x, Closed(p)) <=>
               \/ ElementOf(x, p.chunks)
               \/ x = p.current /\ p.current # <<>>
  BY ClosedIs
<1>3. p.current # <<>> => Len(p.current) \in 1 .. largest
  <2>1. p.current # <<>> => Len(p.current) \in Nat \ {0}
    BY ONLY <1>1, EmptySeq
  <2> QED  BY <2>1
<1>4. Sized(Closed(p), largest)
  BY ONLY <1>2, <1>3, Sized(p.chunks, largest) DEF Sized
<1>5. ASSUME NEW u, u \in Seq(W), u # <<>>, Held(W, p.chunks, u) \/ PartOf(W, p.current, u)
      PROVE  Held(W, Closed(p), u)
  <2>1. CASE Held(W, p.chunks, u)
    BY ONLY <1>2, <2>1, Zenon DEF Held
  <2>2. CASE PartOf(W, p.current, u)
    <3>1. p.current # <<>>
      BY ONLY <1>5, <2>2, WithinEmpty
    <3>2. ElementOf(p.current, Closed(p))
      BY ONLY <1>2, <3>1
    <3> QED  BY ONLY <2>2, <3>2, Zenon DEF Held
  <2> QED  BY <1>5, <2>1, <2>2
<1> QED  BY ONLY <1>4, <1>5, Zenon

\* The pieces of a unit that is too large.
PiecesOf(W, u, ps, largest) ==
  ps \in Seq(Seq(W)) /\ FlattenSeq(ps) = u /\ Sized(ps, largest)

PackAdd(units, maxSize, pieces, p, i) ==
  IF Len(units[i]) > maxSize
  THEN [chunks |-> Closed(p) \o pieces[i], current |-> <<>>]
  ELSE IF Len(p.current) + Len(units[i]) > maxSize
  THEN [chunks |-> Closed(p), current |-> units[i]]
  ELSE [p EXCEPT !.current = @ \o units[i]]

PackSteps(units, maxSize, pieces, n, h) ==
  /\ h[0] = [chunks |-> <<>>, current |-> <<>>]
  /\ \A i \in 1 .. n : h[i] = PackAdd(units, maxSize, pieces, h[i - 1], i)

LEMMA WithCurrent ==
  ASSUME NEW A, NEW B, NEW p \in [chunks : A, current : B], NEW x \in B
  PROVE  /\ [p EXCEPT !.current = x] \in [chunks : A, current : B]
         /\ [p EXCEPT !.current = x].chunks = p.chunks
         /\ [p EXCEPT !.current = x].current = x
OBVIOUS

LEMMA PackAddType ==
  ASSUME NEW W, NEW units, NEW i, units[i] \in Seq(W), NEW maxSize, NEW pieces,
         Len(units[i]) > maxSize => pieces[i] \in Seq(Seq(W)),
         NEW p, p \in Packing(W)
  PROVE  PackAdd(units, maxSize, pieces, p, i) \in Packing(W)
<1>1. p.chunks \in Seq(Seq(W)) /\ p.current \in Seq(W)
  BY DEF Packing
<1>2. Closed(p) \in Seq(Seq(W))
  BY ClosedIs
<1>3. <<>> \in Seq(W) /\ p.current \o units[i] \in Seq(W)
  BY <1>1, EmptySeq, ConcatProperties
<1>4. Len(units[i]) > maxSize => Closed(p) \o pieces[i] \in Seq(Seq(W))
  BY <1>2, ConcatProperties
<1>5. [p EXCEPT !.current = @ \o units[i]] \in Packing(W)
  BY ONLY <1>3, p \in Packing(W), WithCurrent DEF Packing
<1>6. \A c \in Seq(Seq(W)) : \A d \in Seq(W) : [chunks |-> c, current |-> d] \in Packing(W)
  BY DEF Packing
<1>8. [chunks |-> Closed(p), current |-> units[i]] \in Packing(W)
  BY ONLY <1>2, <1>6, units[i] \in Seq(W), Zenon
<1>9. Len(units[i]) > maxSize => [chunks |-> Closed(p) \o pieces[i], current |-> <<>>] \in Packing(W)
  BY ONLY <1>3, <1>4, <1>6, Zenon
<1> QED  BY ONLY <1>5, <1>8, <1>9 DEF PackAdd

PiecesTyped(W, units, maxSize, pieces) ==
  \A i \in 1 .. Len(units) : Len(units[i]) > maxSize => pieces[i] \in Seq(Seq(W))
PackedAfter(W, units, maxSize, pieces, n) ==
  \E h \in [0 .. n -> Packing(W)] :
    /\ PackSteps(units, maxSize, pieces, n, h)
    /\ Packed(units, maxSize, pieces) = Closed(h[n])

LEMMA PackedSteps ==
  ASSUME NEW W, NEW units, units \in Seq(Seq(W)), NEW maxSize, NEW pieces,
         PiecesTyped(W, units, maxSize, pieces)
  PROVE  PackedAfter(W, units, maxSize, pieces, Len(units))
<1> DEFINE n == Len(units)
           V == Packing(W)
           v == [chunks |-> <<>>, current |-> <<>>]
           s == [i \in DOMAIN units |-> i]
           step(p, i) == PackAdd(units, maxSize, pieces, p, i)
           F == [i \in 1 .. n |-> [p \in V |-> step(p, i)]]
           Is(f) == f = [S \in SUBSET DOMAIN s |->
                           IF S = {} THEN v ELSE step(f[S \ {Max(S)}], s[Max(S)])]
           iter == CHOOSE f : Is(f)
<1>1. n \in Nat /\ v \in V
  <2>1. <<>> \in Seq(W) /\ <<>> \in Seq(Seq(W))
    BY EmptySeq
  <2> QED  BY <2>1 DEF Packing
<1>2. \A i \in 1 .. n : \A p \in V : step(p, i) \in V
  <2> TAKE i \in 1 .. n
  <2> TAKE p \in V
  <2>1. units[i] \in Seq(W) /\ (Len(units[i]) > maxSize => pieces[i] \in Seq(Seq(W)))
    BY DEF PiecesTyped
  <2> QED  BY ONLY <2>1, p \in V, PackAddType
<1>3. F \in [1 .. n -> [V -> V]]
  <2> HIDE DEF step, V, n
  <2> QED  BY ONLY <1>2
<1>4. \A S \in SUBSET (1 .. n) : S # {} => Max(S) \in 1 .. n /\ S \ {Max(S)} \in SUBSET (1 .. n)
  <2> HIDE DEF n
  <2> QED  BY ONLY <1>1, MaxIn
<1>5. PICK g \in [SUBSET (1 .. n) -> V] :
        \A S \in SUBSET (1 .. n) : g[S] = IF S = {} THEN v ELSE F[Max(S)][g[S \ {Max(S)}]]
  <2> HIDE DEF F, V, n, v
  <2>1. Folded(V, n, v, F)
    BY ONLY <1>1, <1>3, FoldExists
  <2> QED  BY ONLY <2>1 DEF Folded, Folds
<1>6. DOMAIN s = 1 .. n
  OBVIOUS
<1>7. \A i \in 1 .. n : s[i] = i
  OBVIOUS
<1>8. Is(g)
  <2> HIDE DEF step, V, n, v
  <2>1. ASSUME NEW S \in SUBSET (1 .. n)
        PROVE  g[S] = IF S = {} THEN v ELSE step(g[S \ {Max(S)}], Max(S))
    <3>1. CASE S = {}
      BY <1>5, <3>1
    <3>2. CASE S # {}
      BY <1>4, <1>5, <3>2
    <3> QED  BY <3>1, <3>2
  <2> HIDE DEF s
  <2>2. \A S \in SUBSET (1 .. n) : S # {} => s[Max(S)] = Max(S)
    BY <1>4, <1>7
  <2> QED  BY <1>6, <2>1, <2>2
<1>9. Is(iter)
  <2> HIDE DEF Is
  <2> QED  BY <1>8
<1>10. Packed(units, maxSize, pieces) = Closed(iter[1 .. n])
  BY <1>6 DEF Packed, FoldLeft, MapThenFoldSet, PackAdd
<1>11. /\ iter[{}] = v
       /\ \A S \in SUBSET (1 .. n) :
            S # {} /\ iter[S \ {Max(S)}] \in V => iter[S] = F[Max(S)][iter[S \ {Max(S)}]]
  <2> HIDE DEF step, V, iter, n, v
  <2>1. \A S \in SUBSET (1 .. n) :
          iter[S] = IF S = {} THEN v ELSE step(iter[S \ {Max(S)}], s[Max(S)])
    BY <1>6, <1>9
  <2> HIDE DEF s
  <2> QED  BY <1>4, <1>7, <2>1
<1>12. PICK h \in [0 .. n -> V] :
         /\ h[0] = v /\ \A i \in 1 .. n : h[i] = F[i][h[i - 1]]
         /\ iter[1 .. n] = h[n]
  <2> HIDE DEF F, V, iter, n, v
  <2>1. FoldsIn(V, n, v, F, iter)
    BY ONLY <1>11 DEF FoldsIn
  <2>2. IteratedTo(V, n, v, F, iter[1 .. n])
    BY ONLY <1>1, <1>3, <2>1, FoldGoesOn
  <2> QED  BY ONLY <2>2 DEF IteratedTo, Iterates
<1>13. \A i \in 1 .. n : h[i] = step(h[i - 1], i)
  <2> HIDE DEF step, V
  <2> TAKE i \in 1 .. n
  <2> HIDE DEF n
  <2>1. h[i - 1] \in V
    <3>1. i - 1 \in 0 .. n
      BY <1>1
    <3> QED  BY <3>1
  <2> QED  BY ONLY <1>12, <2>1, i \in 1 .. n
<1>14. PackSteps(units, maxSize, pieces, n, h)
  BY ONLY <1>12, <1>13 DEF PackSteps
<1> HIDE DEF iter
<1> QED  BY ONLY <1>10, <1>12, <1>14 DEF PackedAfter

\* What the loop keeps: the words so far, the bound, and the units that are not too large.
Kept(W, p, u) == Held(W, p.chunks, u) \/ PartOf(W, p.current, u)
PackKeeps(W, units, maxSize, largest, p, i, words) ==
  /\ FlattenSeq(p.chunks) \o p.current = words
  /\ Sized(p.chunks, largest)
  /\ Len(p.current) <= maxSize
  /\ \A j \in 1 .. i : Len(units[j]) <= maxSize => Kept(W, p, units[j])

\* One unit more.
LEMMA PackAddKeeps ==
  ASSUME NEW W, NEW units, NEW i \in Nat \ {0}, \A j \in 1 .. i : units[j] \in Seq(W) /\ units[j] # <<>>,
         NEW maxSize \in Nat, NEW largest \in Nat, maxSize <= largest,
         NEW pieces, Len(units[i]) > maxSize => PiecesOf(W, units[i], pieces[i], largest),
         NEW p, p \in Packing(W), NEW words,
         PackKeeps(W, units, maxSize, largest, p, i - 1, words)
  PROVE  PackKeeps(W, units, maxSize, largest, PackAdd(units, maxSize, pieces, p, i), i,
                   words \o units[i])
<1> DEFINE u == units[i]
           cs == Closed(p)
           q == PackAdd(units, maxSize, pieces, p, i)
<1>1. p.chunks \in Seq(Seq(W)) /\ p.current \in Seq(W)
  BY DEF Packing
<1>2. i \in 1 .. i /\ \A j \in 1 .. i : j = i \/ j \in 1 .. i - 1
  OBVIOUS
<1>3. u \in Seq(W) /\ u # <<>> /\ Len(u) \in Nat
  <2>1. u \in Seq(W) /\ u # <<>>
    BY <1>2
  <2> QED  BY ONLY <2>1, LenProperties
<1>4. Len(p.current) \in Nat
  BY ONLY <1>1, LenProperties
<1>5. /\ FlattenSeq(p.chunks) \o p.current = words /\ Sized(p.chunks, largest)
      /\ Len(p.current) <= maxSize /\ Len(p.current) <= largest
      /\ \A j \in 1 .. i - 1 : Len(units[j]) <= maxSize => Kept(W, p, units[j])
  BY <1>4 DEF PackKeeps
<1>6. cs \in Seq(Seq(W)) /\ FlattenSeq(cs) = words
  BY ONLY <1>5, p \in Packing(W), ClosedIs
<1>7. /\ Sized(cs, largest)
      /\ \A x : x \in Seq(W) /\ x # <<>> /\ Kept(W, p, x) => Held(W, cs, x)
  BY ONLY <1>5, p \in Packing(W), largest \in Nat, ClosedKeeps DEF Kept
<1>8. \A j \in 1 .. i - 1 : Len(units[j]) <= maxSize => Held(W, cs, units[j])
  <2> TAKE j \in 1 .. i - 1
  <2>1. j \in 1 .. i
    OBVIOUS
  <2>2. units[j] \in Seq(W) /\ units[j] # <<>>
    BY <2>1
  <2>3. Len(units[j]) <= maxSize => Kept(W, p, units[j])
    BY <1>5
  <2> QED  BY ONLY <1>7, <2>2, <2>3
<1>9. FlattenSeq(p.chunks) \in Seq(W) /\ words \in Seq(W)
  BY ONLY <1>1, <1>5, FlattenType, ConcatProperties
<1>10. <<>> \in Seq(W) /\ Len(<<>>) = 0 /\ maxSize \in Nat
  BY EmptySeq
<1> HIDE DEF u, cs
<1>11. CASE Len(u) > maxSize
  <2>1. q = [chunks |-> cs \o pieces[i], current |-> <<>>]
    BY <1>11 DEF PackAdd, u, cs
  <2>2. pieces[i] \in Seq(Seq(W)) /\ FlattenSeq(pieces[i]) = u /\ Sized(pieces[i], largest)
    BY <1>11 DEF PiecesOf, u
  <2>3. FlattenSeq(cs \o pieces[i]) = words \o u
    <3>1. FlattenSeq(cs \o pieces[i]) = FlattenSeq(cs) \o FlattenSeq(pieces[i])
      BY ONLY <1>6, <2>2, FlattenConcat
    <3> QED  BY ONLY <1>6, <2>2, <3>1
  <2>4. words \o u \in Seq(W)
    BY ONLY <1>3, <1>9, ConcatProperties
  <2>5. (words \o u) \o <<>> = words \o u
    BY ONLY <2>4, ConcatEmptySeq
  <2>6. \A x : ElementOf(x, cs \o pieces[i]) <=> ElementOf(x, cs) \/ ElementOf(x, pieces[i])
    BY ONLY <1>6, <2>2, ElementOfConcat
  <2>7. Sized(cs \o pieces[i], largest)
    BY ONLY <1>7, <2>2, <2>6 DEF Sized
  <2>8. \A j \in 1 .. i : Len(units[j]) <= maxSize => Held(W, cs \o pieces[i], units[j])
    <3>1. ASSUME NEW x, Held(W, cs, x) PROVE Held(W, cs \o pieces[i], x)
      BY ONLY <2>6, <3>1, Zenon DEF Held
    <3>2. ~(Len(units[i]) <= maxSize)
      BY ONLY <1>3, <1>10, <1>11 DEF u
    <3> QED  BY ONLY <1>2, <1>8, <3>1, <3>2
  <2>9. q.chunks = cs \o pieces[i] /\ q.current = <<>>
    BY ONLY <2>1
  <2>10. \A j \in 1 .. i : Len(units[j]) <= maxSize => Kept(W, q, units[j])
    BY ONLY <2>8, <2>9 DEF Kept
  <2>11. FlattenSeq(q.chunks) \o q.current = words \o u
    BY ONLY <2>3, <2>5, <2>9
  <2>12. Sized(q.chunks, largest) /\ Len(q.current) <= maxSize
    BY ONLY <1>10, <2>7, <2>9
  <2> HIDE DEF q
  <2> QED  BY ONLY <2>10, <2>11, <2>12 DEF PackKeeps, q, u
<1>12. CASE ~(Len(u) > maxSize) /\ Len(p.current) + Len(u) > maxSize
  <2>1. q = [chunks |-> cs, current |-> u]
    BY <1>12 DEF PackAdd, u, cs
  <2>2. q.chunks = cs /\ q.current = u
    BY ONLY <2>1
  <2>3. Len(u) <= maxSize
    BY ONLY <1>3, <1>10, <1>12
  <2>4. PartOf(W, u, u)
    BY ONLY <1>3, WithinSelf
  <2>5. \A j \in 1 .. i : Len(units[j]) <= maxSize => Kept(W, q, units[j])
    <3>1. Kept(W, q, units[i])
      BY ONLY <2>2, <2>4 DEF Kept, u
    <3>2. \A j \in 1 .. i - 1 : Len(units[j]) <= maxSize => Kept(W, q, units[j])
      BY ONLY <1>8, <2>2 DEF Kept
    <3> QED  BY ONLY <1>2, <3>1, <3>2
  <2>6. FlattenSeq(q.chunks) \o q.current = words \o u
    BY ONLY <1>6, <2>2
  <2>7. Sized(q.chunks, largest) /\ Len(q.current) <= maxSize
    BY ONLY <1>7, <2>2, <2>3
  <2> HIDE DEF q
  <2> QED  BY ONLY <2>5, <2>6, <2>7 DEF PackKeeps, q, u
<1>13. CASE ~(Len(u) > maxSize) /\ ~(Len(p.current) + Len(u) > maxSize)
  <2>1. q = [p EXCEPT !.current = @ \o u]
    BY <1>13 DEF PackAdd, u
  <2>2. p.current \o u \in Seq(W) /\ Len(p.current \o u) = Len(p.current) + Len(u)
    BY ONLY <1>1, <1>3, ConcatProperties
  <2>3. q.chunks = p.chunks /\ q.current = p.current \o u
    BY ONLY <2>1, <2>2, p \in Packing(W), WithCurrent DEF Packing
  <2>4. Len(q.current) <= maxSize
    BY ONLY <1>3, <1>4, <1>10, <1>13, <2>2, <2>3
  <2>5. \A j \in 1 .. i : Len(units[j]) <= maxSize => Kept(W, q, units[j])
    <3>1. Kept(W, q, units[i])
      <4>1. PartOf(W, p.current \o u, u)
        BY ONLY <1>1, <1>3, WithinLast
      <4> QED  BY ONLY <2>3, <4>1 DEF Kept, u
    <3>2. ASSUME NEW j \in 1 .. i - 1, Kept(W, p, units[j]) PROVE Kept(W, q, units[j])
      <4>1. units[j] \in Seq(W)
        <5>1. j \in 1 .. i
          OBVIOUS
        <5> QED  BY <5>1
      <4>2. PartOf(W, p.current, units[j]) => PartOf(W, p.current \o u, units[j])
        BY ONLY <1>1, <1>3, <4>1, WithinLonger
      <4> QED  BY ONLY <2>3, <3>2, <4>2 DEF Kept
    <3> QED  BY ONLY <1>2, <1>5, <3>1, <3>2
  <2>6. FlattenSeq(q.chunks) \o q.current = words \o u
    <3>1. Associate(FlattenSeq(p.chunks), p.current, u)
      BY ONLY <1>1, <1>3, <1>9, Associative
    <3> QED  BY ONLY <1>5, <2>3, <3>1 DEF Associate
  <2>7. Sized(q.chunks, largest)
    BY ONLY <1>5, <2>3
  <2> HIDE DEF q
  <2> QED  BY ONLY <2>4, <2>5, <2>6, <2>7 DEF PackKeeps, q, u
<1> QED  BY ONLY <1>11, <1>12, <1>13

\* Every word is in one chunk in its order, the chunks have the size, and a unit that is
\* not too large is not cut.
Packs(W, units, maxSize, largest, chunks) ==
  /\ chunks \in Seq(Seq(W))
  /\ FlattenSeq(chunks) = FlattenSeq(units)
  /\ Sized(chunks, largest)
  /\ \A i \in 1 .. Len(units) : Len(units[i]) <= maxSize => Held(W, chunks, units[i])

LEMMA PackedIs ==
  ASSUME NEW W, NEW units, units \in Seq(Seq(W)), NoneEmpty(units),
         NEW maxSize \in Nat, NEW largest \in Nat, maxSize <= largest, NEW pieces,
         \A i \in 1 .. Len(units) :
           Len(units[i]) > maxSize => PiecesOf(W, units[i], pieces[i], largest)
  PROVE  Packs(W, units, maxSize, largest, Packed(units, maxSize, pieces))
<1> DEFINE n == Len(units)
<1>1. n \in Nat /\ \A i \in 1 .. n : units[i] \in Seq(W) /\ units[i] # <<>>
  <2>1. n \in Nat /\ \A i \in 1 .. n : units[i] \in Seq(W)
    BY ONLY units \in Seq(Seq(W)), LenProperties, ElementOfSeq
  <2>2. \A i \in 1 .. n : units[i] # <<>>
    BY ONLY NoneEmpty(units) DEF NoneEmpty
  <2> QED  BY ONLY <2>1, <2>2
<1>2. PiecesTyped(W, units, maxSize, pieces)
  BY DEF PiecesOf, PiecesTyped
<1>3. PICK h \in [0 .. n -> Packing(W)] :
        /\ PackSteps(units, maxSize, pieces, n, h)
        /\ Packed(units, maxSize, pieces) = Closed(h[n])
  <2>1. PackedAfter(W, units, maxSize, pieces, n)
    BY ONLY <1>2, units \in Seq(Seq(W)), PackedSteps
  <2> QED  BY ONLY <2>1 DEF PackedAfter
<1>4. PICK g \in [0 .. n -> Seq(W)] : Flattens(units, g) /\ FlattenSeq(units) = g[n]
  BY ONLY units \in Seq(Seq(W)), FlattenSteps
<1>5. g[0] = <<>> /\ \A i \in 1 .. n : g[i] = g[i - 1] \o units[i]
  BY ONLY <1>4 DEF Flattens
<1>6. /\ h[0] = [chunks |-> <<>>, current |-> <<>>]
      /\ \A i \in 1 .. n : h[i] = PackAdd(units, maxSize, pieces, h[i - 1], i)
  BY ONLY <1>3 DEF PackSteps
<1>7. \A i \in 0 .. n : h[i] \in Packing(W)
  OBVIOUS
<1> DEFINE Ok(i) == PackKeeps(W, units, maxSize, largest, h[i], i, g[i])
           S == {i \in 0 .. n : Ok(i)}
<1>8. Ok(0)
  <2>1. <<>> \o <<>> = <<>> /\ Len(<<>>) = 0
    BY ONLY EmptySeq, ConcatEmptySeq
  <2>2. h[0].chunks = <<>> /\ h[0].current = <<>>
    BY ONLY <1>6
  <2>3. Sized(<<>>, largest)
    BY ONLY <2>1 DEF Sized, ElementOf
  <2>4. FlattenSeq(h[0].chunks) \o h[0].current = g[0]
    BY ONLY <1>5, <2>1, <2>2, FlattenEmpty
  <2>5. Len(h[0].current) <= maxSize
    BY ONLY <2>1, <2>2, maxSize \in Nat
  <2>6. \A j \in 1 .. 0 : FALSE
    OBVIOUS
  <2> QED  BY ONLY <2>2, <2>3, <2>4, <2>5, <2>6 DEF PackKeeps
<1>9. ASSUME NEW i \in 1 .. n, Ok(i - 1) PROVE Ok(i)
  <2>1. i \in Nat \ {0} /\ i - 1 \in 0 .. n
    BY <1>1
  <2>2. \A j \in 1 .. i : units[j] \in Seq(W) /\ units[j] # <<>>
    <3> TAKE j \in 1 .. i
    <3>1. j \in 1 .. n
      BY <1>1
    <3> QED  BY ONLY <1>1, <3>1
  <2>3. Len(units[i]) > maxSize => PiecesOf(W, units[i], pieces[i], largest)
    OBVIOUS
  <2>4. h[i - 1] \in Packing(W)
    BY ONLY <1>7, <2>1
  <2>5. PackKeeps(W, units, maxSize, largest, PackAdd(units, maxSize, pieces, h[i - 1], i), i,
                  g[i - 1] \o units[i])
    BY ONLY <1>9, <2>1, <2>2, <2>3, <2>4, maxSize \in Nat, largest \in Nat, maxSize <= largest,
            PackAddKeeps
  <2> HIDE DEF n
  <2> QED  BY ONLY <1>5, <1>6, <2>5, i \in 1 .. n
<1>10. Ok(n)
  <2> HIDE DEF Ok, n
  <2>0. n \in Nat
    BY ONLY <1>1, Zenon
  <2>1. 0 \in S
    BY ONLY <2>0, <1>8
  <2>2. \A k \in 0 .. n - 1 : k \in S => k + 1 \in S
    <3> TAKE k \in 0 .. n - 1
    <3>1. k + 1 \in 1 .. n /\ (k + 1) - 1 = k /\ k + 1 \in 0 .. n
      BY ONLY <2>0, k \in 0 .. n - 1
    <3> QED  BY ONLY <1>9, <3>1
  <2>3. \A k \in 0 .. n : k \in S
    <3> HIDE DEF S
    <3> QED  BY ONLY <2>0, <2>1, <2>2, Upwards
  <2> QED  BY ONLY <2>0, <2>3
<1>11. /\ FlattenSeq(h[n].chunks) \o h[n].current = FlattenSeq(units)
       /\ Sized(h[n].chunks, largest)
       /\ Len(h[n].current) <= maxSize
       /\ \A j \in 1 .. n : Len(units[j]) <= maxSize => Kept(W, h[n], units[j])
  BY ONLY <1>4, <1>10 DEF PackKeeps
<1>12. h[n] \in Packing(W)
  BY <1>1, <1>7
<1>13. Len(h[n].current) <= largest
  <2>1. h[n].current \in Seq(W)
    BY ONLY <1>12 DEF Packing
  <2>2. Len(h[n].current) \in Nat
    BY ONLY <2>1, LenProperties
  <2> QED  BY ONLY <1>11, <2>2, maxSize \in Nat, largest \in Nat, maxSize <= largest
<1> DEFINE cs == Closed(h[n])
<1> HIDE DEF cs, n
<1>14. cs \in Seq(Seq(W)) /\ FlattenSeq(cs) = FlattenSeq(units)
  BY ONLY <1>11, <1>12, ClosedIs DEF cs
<1>15. /\ Sized(cs, largest)
       /\ \A x : x \in Seq(W) /\ x # <<>> /\ Kept(W, h[n], x) => Held(W, cs, x)
  BY ONLY <1>11, <1>12, <1>13, largest \in Nat, ClosedKeeps DEF Kept, cs
<1>16. \A i \in 1 .. n : Len(units[i]) <= maxSize => Held(W, cs, units[i])
  BY ONLY <1>1, <1>11, <1>15
<1> QED  BY ONLY <1>3, <1>14, <1>15, <1>16 DEF Packs, cs, n

-----------------------------------------------------------------------------
(* Chunking: units that are too large *)

\* A text that is no longer than the step is one piece.
LEMMA OnePiece ==
  ASSUME NEW W, NEW text, text \in Seq(W), NEW step \in Nat, Len(text) \in 1 .. step
  PROVE  HardWordSplit(text, step) = <<text>>
<1> DEFINE n == Len(text)
           m == (n + step - 1) \div step
           Piece(i) == SubSeq(text, (i - 1) * step + 1, IF i * step < n THEN i * step ELSE n)
<1>1. n \in Nat /\ n >= 1 /\ n <= step
  OBVIOUS
<1> HIDE DEF n
<1>2. m = 1
  BY ONLY <1>1, step \in Nat
<1>3. Piece(1) = text
  <2>1. (1 - 1) * step + 1 = 1 /\ 1 * step = step /\ ~(step < n)
    BY ONLY <1>1, step \in Nat
  <2>2. Piece(1) = SubSeq(text, 1, n)
    BY ONLY <2>1
  <2>3. SubSeq(text, 1, n) = text
    BY ONLY text \in Seq(W), SubSeqFull DEF n
  <2> QED  BY ONLY <2>2, <2>3
<1>4. HardWordSplit(text, step) = [i \in 1 .. m |-> Piece(i)]
  BY ONLY TRUE DEF HardWordSplit, n
<1> HIDE DEF m, Piece
<1>5. [i \in 1 .. 1 |-> Piece(i)] = <<text>>
  BY ONLY <1>3
<1> QED  BY ONLY <1>2, <1>4, <1>5

LEMMA FallbackIs ==
  ASSUME ChunkingAssumption, NEW maxSize \in Nat
  PROVE  Fallback(maxSize) \in Nat \ {0} /\ maxSize <= Fallback(maxSize)
BY DEF ChunkingAssumption, Fallback

LEMMA SplitOversizedIs ==
  ASSUME ChunkingAssumption, NEW W,
         NEW text, text \in Seq(W), text # <<>>, NEW maxSize \in Nat
  PROVE  PiecesOf(W, text, SplitOversized(text, maxSize), Fallback(maxSize))
<1> DEFINE largest == Fallback(maxSize)
           split == RecursiveSplit(text, largest)
           pieces == [i \in DOMAIN split |-> HardWordSplit(split[i], largest)]
<1>1. largest \in Nat \ {0} /\ largest \in Nat /\ maxSize <= largest
  BY FallbackIs
<1> HIDE DEF largest
<1>2. /\ split \in Seq(Seq(W)) /\ FlattenSeq(split) = text
      /\ \A k \in 1 .. Len(split) : Len(split[k]) \in 1 .. largest
  BY ONLY <1>1, text \in Seq(W), text # <<>>, RecursiveSplitIs DEF Splits
<1> HIDE DEF split
<1>3. Len(split) \in Nat /\ DOMAIN split = 1 .. Len(split) /\ \A k \in 1 .. Len(split) : split[k] \in Seq(W)
  BY ONLY <1>2, LenProperties, ElementOfSeq
<1>4. NoneEmpty(split)
  <2>1. ASSUME NEW k \in 1 .. Len(split) PROVE split[k] # <<>>
    <3>1. Len(split[k]) \in Nat \ {0}
      BY ONLY <1>1, <1>2, k \in 1 .. Len(split)
    <3> QED  BY ONLY <3>1, NotEmpty
  <2> QED  BY ONLY <2>1 DEF NoneEmpty
<1>5. ASSUME NEW i \in 1 .. Len(split)
      PROVE  PiecesOf(W, split[i], pieces[i], largest)
  <2>1. split[i] \in Seq(W) /\ Len(split[i]) \in 1 .. largest
    BY ONLY <1>2, <1>3, i \in 1 .. Len(split)
  <2>2. pieces[i] = <<split[i]>>
    <3>1. HardWordSplit(split[i], largest) = <<split[i]>>
      BY ONLY <1>1, <2>1, OnePiece
    <3> QED  BY ONLY <1>3, <3>1, i \in 1 .. Len(split)
  <2>3. <<split[i]>> \in Seq(Seq(W)) /\ FlattenSeq(<<split[i]>>) = split[i]
    BY ONLY <2>1, FlattenOne
  <2>4. Sized(<<split[i]>>, largest)
    BY ONLY <2>1, ElementOfOne DEF Sized
  <2> QED  BY ONLY <2>2, <2>3, <2>4 DEF PiecesOf
<1> HIDE DEF pieces
<1>6. Packs(W, split, maxSize, largest, Packed(split, maxSize, pieces))
  BY ONLY <1>1, <1>2, <1>4, <1>5, maxSize \in Nat, PackedIs
<1>7. SplitOversized(text, maxSize) = Packed(split, maxSize, pieces)
  BY ONLY TRUE DEF SplitOversized, split, pieces, largest
<1> QED  BY ONLY <1>2, <1>6, <1>7 DEF Packs, PiecesOf, largest

\* chunk_units, for units of any length.
LEMMA ChunkUnitsIs ==
  ASSUME ChunkingAssumption, NEW W,
         NEW units, units \in Seq(Seq(W)), NoneEmpty(units), NEW maxSize \in Nat
  PROVE  Packs(W, units, maxSize, Fallback(maxSize), ChunkUnits(units, maxSize))
<1> DEFINE largest == Fallback(maxSize)
           pieces == [i \in DOMAIN units |-> SplitOversized(units[i], maxSize)]
<1>1. largest \in Nat /\ maxSize <= largest
  BY FallbackIs
<1>2. DOMAIN units = 1 .. Len(units) /\ \A i \in 1 .. Len(units) : units[i] \in Seq(W) /\ units[i] # <<>>
  <2>1. DOMAIN units = 1 .. Len(units) /\ \A i \in 1 .. Len(units) : units[i] \in Seq(W)
    BY ONLY units \in Seq(Seq(W)), LenProperties, ElementOfSeq
  <2>2. \A i \in 1 .. Len(units) : units[i] # <<>>
    BY ONLY NoneEmpty(units) DEF NoneEmpty
  <2> QED  BY ONLY <2>1, <2>2
<1>3. ASSUME NEW i \in 1 .. Len(units)
      PROVE  PiecesOf(W, units[i], pieces[i], largest)
  <2>1. units[i] \in Seq(W) /\ units[i] # <<>>
    BY ONLY <1>2, i \in 1 .. Len(units)
  <2>2. PiecesOf(W, units[i], SplitOversized(units[i], maxSize), largest)
    BY ONLY <2>1, ChunkingAssumption, maxSize \in Nat, SplitOversizedIs
  <2>3. pieces[i] = SplitOversized(units[i], maxSize)
    BY ONLY <1>2, i \in 1 .. Len(units)
  <2> QED  BY ONLY <2>2, <2>3
<1> HIDE DEF pieces, largest
<1>4. Packs(W, units, maxSize, largest, Packed(units, maxSize, pieces))
  BY ONLY <1>1, <1>3, units \in Seq(Seq(W)), NoneEmpty(units), maxSize \in Nat, PackedIs
<1>5. ChunkUnits(units, maxSize) = Packed(units, maxSize, pieces)
  BY ONLY TRUE DEF ChunkUnits, pieces
<1> QED  BY ONLY <1>4, <1>5 DEF largest

-----------------------------------------------------------------------------
(* Chunking: extract_section_units, and the chunks of a document *)

\* The blocks of a document have texts that are not empty.
BlocksOf(W, blocks) ==
  /\ Len(blocks) \in Nat /\ DOMAIN blocks = 1 .. Len(blocks)
  /\ \A i \in 1 .. Len(blocks) : blocks[i].text \in Seq(W) /\ blocks[i].text # <<>>
TextsOf(blocks) == [i \in DOMAIN blocks |-> blocks[i].text]

SectionAdd(units, block) ==
  IF units = <<>> \/ block.heading
  THEN Append(units, block.text)
  ELSE [units EXCEPT ![Len(units)] = @ \o block.text]
SectionSteps(blocks, n, h) ==
  /\ h[0] = <<>>
  /\ \A i \in 1 .. n : h[i] = SectionAdd(h[i - 1], blocks[i])

\* The texts taken into units one by one.
Sections(W, units, words) ==
  units \in Seq(Seq(W)) /\ NoneEmpty(units) /\ FlattenSeq(units) = words

LEMMA SectionAddIs ==
  ASSUME NEW W, NEW units, NEW words, Sections(W, units, words),
         NEW block, block.text \in Seq(W), block.text # <<>>
  PROVE  Sections(W, SectionAdd(units, block), words \o block.text)
<1> DEFINE t == block.text
           n == Len(units)
<1>1. units \in Seq(Seq(W)) /\ NoneEmpty(units) /\ FlattenSeq(units) = words
  BY DEF Sections
<1>2. t \in Seq(W) /\ t # <<>> /\ n \in Nat
  BY ONLY block.text \in Seq(W), block.text # <<>>, <1>1, LenProperties
<1> HIDE DEF t
<1>3. CASE units = <<>> \/ block.heading
  <2> DEFINE l == Append(units, t)
  <2>1. SectionAdd(units, block) = l
    BY ONLY <1>3 DEF SectionAdd, t
  <2>2. l \in Seq(Seq(W)) /\ Appended(units, t, l)
    BY ONLY <1>1, <1>2, AppendIs
  <2>3. FlattenSeq(l) = words \o t
    BY ONLY <1>1, <1>2, FlattenAppend
  <2> HIDE DEF l
  <2>4. NoneEmpty(l)
    <3>1. \A k \in 1 .. n + 1 : k \in 1 .. n \/ k = n + 1
      BY ONLY <1>2
    <3> QED  BY ONLY <1>1, <1>2, <2>2, <3>1 DEF NoneEmpty, Appended
  <2> QED  BY ONLY <2>1, <2>2, <2>3, <2>4 DEF Sections, t
<1>4. CASE ~(units = <<>> \/ block.heading)
  <2> DEFINE l == [units EXCEPT ![n] = @ \o t]
  <2>1. SectionAdd(units, block) = l
    BY ONLY <1>4 DEF SectionAdd, t
  <2>2. n \in 1 .. n /\ n \in Nat \ {0}
    BY ONLY <1>1, <1>4, EmptySeq
  <2>3. l \in Seq(Seq(W)) /\ FlattenSeq(l) = words \o t
    BY ONLY <1>1, <1>2, <1>4, FlattenExtend
  <2>4. units[n] \in Seq(W) /\ units[n] # <<>>
    BY ONLY <1>1, <2>2, ElementOfSeq DEF NoneEmpty
  <2>5. units[n] \o t \in Seq(W) /\ Len(units[n] \o t) = Len(units[n]) + Len(t)
    BY ONLY <1>2, <2>4, ConcatProperties
  <2>6. units[n] \o t # <<>>
    <3>1. Len(units[n]) \in Nat \ {0} /\ Len(t) \in Nat
      BY ONLY <1>2, <2>4, EmptySeq, LenProperties
    <3>2. Len(units[n] \o t) \in Nat \ {0}
      BY ONLY <2>5, <3>1
    <3> QED  BY ONLY <3>2, NotEmpty
  <2>7. Len(l) = n /\ \A j \in 1 .. n : l[j] = IF j = n THEN units[n] \o t ELSE units[j]
    BY ONLY <1>1, <2>2, <2>5, ExceptSeq
  <2> HIDE DEF l
  <2>8. NoneEmpty(l)
    BY ONLY <1>1, <2>6, <2>7 DEF NoneEmpty
  <2> QED  BY ONLY <2>1, <2>3, <2>8 DEF Sections, t
<1> QED  BY ONLY <1>3, <1>4

SectionedAfter(W, blocks, last) ==
  \E h \in [0 .. Len(blocks) -> Seq(Seq(W))] :
    SectionSteps(blocks, Len(blocks), h) /\ last = h[Len(blocks)]

\* The loop over the blocks.
LEMMA GroupedSteps ==
  ASSUME NEW W, NEW blocks, BlocksOf(W, blocks), Headed(blocks)
  PROVE  SectionedAfter(W, blocks, Grouped(blocks))
<1> DEFINE n == Len(blocks)
           V == Seq(Seq(W))
           v == <<>>
           step(units, block) == SectionAdd(units, block)
           F == [i \in 1 .. n |-> [u \in V |-> step(u, blocks[i])]]
           Is(f) == f = [S \in SUBSET DOMAIN blocks |->
                           IF S = {} THEN v ELSE step(f[S \ {Max(S)}], blocks[Max(S)])]
           iter == CHOOSE f : Is(f)
<1>1. n \in Nat /\ v \in V
  BY EmptySeq DEF BlocksOf
<1>2. \A i \in 1 .. n : \A u \in V : step(u, blocks[i]) \in V
  <2> TAKE i \in 1 .. n
  <2> TAKE u \in V
  <2> DEFINE t == blocks[i].text
  <2>1. t \in Seq(W) /\ u \in Seq(Seq(W))
    BY DEF BlocksOf
  <2> HIDE DEF t
  <2>2. Append(u, t) \in Seq(Seq(W))
    BY ONLY <2>1, AppendIs
  <2>3. u # <<>> => [u EXCEPT ![Len(u)] = @ \o t] \in Seq(Seq(W))
    BY ONLY <2>1, FlattenExtend
  <2> QED  BY ONLY <2>2, <2>3 DEF SectionAdd, t
<1>3. F \in [1 .. n -> [V -> V]]
  <2> HIDE DEF step, V, n
  <2> QED  BY ONLY <1>2
<1>4. \A S \in SUBSET (1 .. n) : S # {} => Max(S) \in 1 .. n /\ S \ {Max(S)} \in SUBSET (1 .. n)
  <2> HIDE DEF n
  <2> QED  BY ONLY <1>1, MaxIn
<1>5. PICK g \in [SUBSET (1 .. n) -> V] :
        \A S \in SUBSET (1 .. n) : g[S] = IF S = {} THEN v ELSE F[Max(S)][g[S \ {Max(S)}]]
  <2> HIDE DEF F, V, n, v
  <2>1. Folded(V, n, v, F)
    BY ONLY <1>1, <1>3, FoldExists
  <2> QED  BY ONLY <2>1 DEF Folded, Folds
<1>6. DOMAIN blocks = 1 .. n
  BY DEF BlocksOf
<1>7. Is(g)
  <2> HIDE DEF step, V, n, v
  <2>1. ASSUME NEW S \in SUBSET (1 .. n)
        PROVE  g[S] = IF S = {} THEN v ELSE step(g[S \ {Max(S)}], blocks[Max(S)])
    <3>1. CASE S = {}
      BY <1>5, <3>1
    <3>2. CASE S # {}
      BY <1>4, <1>5, <3>2
    <3> QED  BY <3>1, <3>2
  <2> QED  BY <1>6, <2>1
<1>8. Is(iter)
  <2> HIDE DEF Is
  <2> QED  BY <1>7
<1>9. Grouped(blocks) = iter[1 .. n]
  BY <1>6 DEF Grouped, FoldLeft, MapThenFoldSet, SectionAdd
<1>10. /\ iter[{}] = v
       /\ \A S \in SUBSET (1 .. n) :
            S # {} /\ iter[S \ {Max(S)}] \in V => iter[S] = F[Max(S)][iter[S \ {Max(S)}]]
  <2> HIDE DEF step, V, iter, n, v
  <2>1. \A S \in SUBSET (1 .. n) :
          iter[S] = IF S = {} THEN v ELSE step(iter[S \ {Max(S)}], blocks[Max(S)])
    BY <1>6, <1>8
  <2> QED  BY <1>4, <2>1
<1>11. PICK h \in [0 .. n -> V] :
         /\ h[0] = v /\ \A i \in 1 .. n : h[i] = F[i][h[i - 1]]
         /\ iter[1 .. n] = h[n]
  <2> HIDE DEF F, V, iter, n, v
  <2>1. FoldsIn(V, n, v, F, iter)
    BY ONLY <1>10 DEF FoldsIn
  <2>2. IteratedTo(V, n, v, F, iter[1 .. n])
    BY ONLY <1>1, <1>3, <2>1, FoldGoesOn
  <2> QED  BY ONLY <2>2 DEF IteratedTo, Iterates
<1>12. \A i \in 1 .. n : h[i] = step(h[i - 1], blocks[i])
  <2> HIDE DEF step, V
  <2> TAKE i \in 1 .. n
  <2> HIDE DEF n
  <2>1. h[i - 1] \in V
    <3>1. i - 1 \in 0 .. n
      BY <1>1
    <3> QED  BY <3>1
  <2> QED  BY ONLY <1>11, <2>1, i \in 1 .. n
<1>13. SectionSteps(blocks, n, h)
  BY ONLY <1>11, <1>12 DEF SectionSteps
<1> HIDE DEF iter
<1> QED  BY ONLY <1>9, <1>11, <1>13 DEF SectionedAfter

\* Every word of the blocks is in one unit, in its order, and no unit is empty.
LEMMA GroupedIs ==
  ASSUME NEW W, NEW blocks, BlocksOf(W, blocks)
  PROVE  Sections(W, Grouped(blocks), FlattenSeq(TextsOf(blocks)))
<1> DEFINE n == Len(blocks)
           texts == TextsOf(blocks)
<1>1. n \in Nat /\ DOMAIN blocks = 1 .. n
  BY DEF BlocksOf
<1>2. \A i \in 1 .. n : blocks[i].text \in Seq(W) /\ blocks[i].text # <<>>
  BY DEF BlocksOf
<1>3. /\ texts \in Seq(Seq(W)) /\ Len(texts) = n
      /\ \A i \in 1 .. n : texts[i] = blocks[i].text
  <2> HIDE DEF n
  <2> QED  BY ONLY <1>1, <1>2 DEF TextsOf
<1> HIDE DEF texts
<1>4. CASE Headed(blocks)
  <2>1. SectionedAfter(W, blocks, Grouped(blocks))
    BY ONLY <1>4, BlocksOf(W, blocks), GroupedSteps
  <2>2. PICK h \in [0 .. n -> Seq(Seq(W))] :
          SectionSteps(blocks, n, h) /\ Grouped(blocks) = h[n]
    BY ONLY <2>1 DEF SectionedAfter
  <2>3. PICK g \in [0 .. n -> Seq(W)] : Flattens(texts, g) /\ FlattenSeq(texts) = g[n]
    BY ONLY <1>3, FlattenSteps
  <2>4. g[0] = <<>> /\ \A i \in 1 .. n : g[i] = g[i - 1] \o blocks[i].text
    BY ONLY <1>3, <2>3 DEF Flattens
  <2>5. h[0] = <<>> /\ \A i \in 1 .. n : h[i] = SectionAdd(h[i - 1], blocks[i])
    BY ONLY <2>2 DEF SectionSteps
  <2> DEFINE Ok(i) == Sections(W, h[i], g[i])
             S == {i \in 0 .. n : Ok(i)}
  <2>6. Ok(0)
    <3>1. <<>> \in Seq(Seq(W)) /\ Len(<<>>) = 0
      BY EmptySeq
    <3>2. NoneEmpty(<<>>)
      BY ONLY <3>1 DEF NoneEmpty
    <3> QED  BY ONLY <2>4, <2>5, <3>1, <3>2, FlattenEmpty DEF Sections
  <2>7. ASSUME NEW i \in 1 .. n, Ok(i - 1) PROVE Ok(i)
    <3>1. blocks[i].text \in Seq(W) /\ blocks[i].text # <<>>
      BY ONLY <1>2, i \in 1 .. n
    <3>2. Sections(W, SectionAdd(h[i - 1], blocks[i]), g[i - 1] \o blocks[i].text)
      BY ONLY <2>7, <3>1, SectionAddIs
    <3> QED  BY ONLY <2>4, <2>5, <3>2, i \in 1 .. n
  <2>8. Ok(n)
    <3> HIDE DEF Ok, n
    <3>1. 0 \in S
      BY ONLY <1>1, <2>6
    <3>2. \A k \in 0 .. n - 1 : k \in S => k + 1 \in S
      <4> TAKE k \in 0 .. n - 1
      <4>1. k + 1 \in 1 .. n /\ (k + 1) - 1 = k /\ k + 1 \in 0 .. n
        BY ONLY <1>1, k \in 0 .. n - 1
      <4> QED  BY ONLY <2>7, <4>1
    <3>3. \A k \in 0 .. n : k \in S
      <4> HIDE DEF S
      <4> QED  BY ONLY <1>1, <3>1, <3>2, Upwards
    <3> QED  BY ONLY <1>1, <3>3
  <2> QED  BY ONLY <2>2, <2>3, <2>8 DEF texts
<1>5. CASE ~Headed(blocks)
  <2>1. Grouped(blocks) = texts
    BY ONLY <1>5 DEF Grouped, TextsOf, texts
  <2>2. NoneEmpty(texts)
    BY ONLY <1>2, <1>3 DEF NoneEmpty
  <2> QED  BY ONLY <1>3, <2>1, <2>2 DEF Sections, texts
<1> QED  BY ONLY <1>4, <1>5

-----------------------------------------------------------------------------
(* Chunking: documents that are taken for HTML *)

LEMMA FlattenHolds ==
  ASSUME NEW S, NEW ss, ss \in Seq(Seq(S)), NEW i \in 1 .. Len(ss), NEW x, ElementOf(x, ss[i])
  PROVE  ElementOf(x, FlattenSeq(ss))
<1>1. PICK a, b \in Seq(S) : Around(FlattenSeq(ss), ss[i], a, b)
  BY ONLY ss \in Seq(Seq(S)), i \in 1 .. Len(ss), FlattenAround
<1>2. ss[i] \in Seq(S)
  BY ONLY ss \in Seq(Seq(S)), i \in 1 .. Len(ss), ElementOfSeq
<1>3. ss[i] \o b \in Seq(S)
  BY ONLY <1>2, b \in Seq(S), ConcatProperties
<1>4. ElementOf(x, ss[i] \o b)
  BY ONLY <1>2, b \in Seq(S), ElementOf(x, ss[i]), ElementOfConcat
<1>5. ElementOf(x, a \o (ss[i] \o b))
  BY ONLY <1>3, <1>4, a \in Seq(S), ElementOfConcat
<1> QED  BY ONLY <1>1, <1>5 DEF Around

\* A word that is followed by other white space is a word of the documents.
Spaces(W) == \A w \in W : Space(w) \in W

LEMMA SpacedIs ==
  ASSUME NEW W, Spaces(W), NEW text, text \in Seq(W)
  PROVE  Spaced(text) \in Seq(W) /\ (text # <<>> => Spaced(text) # <<>>)
<1> DEFINE n == Len(text)
           t == Spaced(text)
<1>1. n \in Nat /\ DOMAIN text = 1 .. n /\ \A i \in 1 .. n : text[i] \in W
  BY ONLY text \in Seq(W), LenProperties, ElementOfSeq
<1>2. \A i \in 1 .. n : Space(text[i]) \in W
  BY ONLY <1>1, Spaces(W) DEF Spaces
<1>3. t = [i \in 1 .. n |-> Space(text[i])]
  BY ONLY <1>1 DEF Spaced, t
<1>4. text # <<>> => n \in Nat \ {0}
  BY ONLY text \in Seq(W), EmptySeq
<1> HIDE DEF n, t
<1>5. t \in Seq(W) /\ Len(t) = n
  BY ONLY <1>1, <1>2, <1>3
<1> QED  BY ONLY <1>4, <1>5, NotEmpty DEF t

\* A document as the tasks read it.
DocumentOf(W, doc) ==
  /\ doc.tagged \in BOOLEAN /\ BlocksOf(W, doc.blocks) /\ doc.loose \in Seq(W)
  /\ Len(doc.elements) \in Nat /\ DOMAIN doc.elements = 1 .. Len(doc.elements)
  /\ \A i \in 1 .. Len(doc.elements) : doc.elements[i].text \in Seq(W)

LEMMA OrderedIs ==
  ASSUME NEW W, Spaces(W), NEW doc, DocumentOf(W, doc)
  PROVE  BlocksOf(W, Ordered(doc))
<1> DEFINE V == {b \in [heading : BOOLEAN, text : Seq(W)] : b.text # <<>>}
           n == Len(doc.elements)
           pp == [i \in DOMAIN doc.elements |-> AsBlock(doc.elements[i])]
           blocks == Ordered(doc)
<1>1. n \in Nat /\ DOMAIN doc.elements = 1 .. n /\ \A i \in 1 .. n : doc.elements[i].text \in Seq(W)
  BY ONLY DocumentOf(W, doc) DEF DocumentOf
<1>2. ASSUME NEW i \in 1 .. n PROVE AsBlock(doc.elements[i]) \in Seq(V)
  <2> DEFINE e == doc.elements[i]
             b == [heading |-> e.tag \in Headings, text |-> Spaced(e.text)]
  <2>1. e.text # <<>> => b \in V
    <3>1. Spaced(e.text) \in Seq(W) /\ (e.text # <<>> => Spaced(e.text) # <<>>)
      BY ONLY <1>1, Spaces(W), i \in 1 .. n, SpacedIs
    <3> QED  BY ONLY <3>1
  <2>2. AsBlock(e) = IF e.text # <<>> /\ e.tag \in Headings \cup Paragraphs THEN <<b>> ELSE <<>>
    BY DEF AsBlock
  <2> HIDE DEF e, b, V
  <2>3. <<>> \in Seq(V) /\ (b \in V => <<b>> \in Seq(V))
    BY EmptySeq
  <2> QED  BY ONLY <2>1, <2>2, <2>3 DEF e
<1>3. blocks = FlattenSeq(pp)
  BY DEF Ordered
<1> HIDE DEF V, n
<1>4. pp \in Seq(Seq(V))
  BY ONLY <1>1, <1>2
<1> HIDE DEF pp
<1>5. blocks \in Seq(V)
  BY ONLY <1>3, <1>4, FlattenType
<1> HIDE DEF blocks
<1>6. Len(blocks) \in Nat /\ DOMAIN blocks = 1 .. Len(blocks) /\ \A i \in 1 .. Len(blocks) : blocks[i] \in V
  BY ONLY <1>5, LenProperties, ElementOfSeq
<1>7. \A b \in V : b.text \in Seq(W) /\ b.text # <<>>
  BY DEF V
<1> QED  BY ONLY <1>6, <1>7 DEF BlocksOf, blocks

LEMMA AsTextIs ==
  ASSUME NEW W, Spaces(W), NEW text, text \in Seq(W)
  PROVE  /\ AsText(text) \in Seq(Seq(W) \ {<<>>})
         /\ text # <<>> => ElementOf(Spaced(text), AsText(text))
<1> DEFINE V == Seq(W) \ {<<>>}
           t == Spaced(text)
<1>1. t \in Seq(W) /\ (text # <<>> => t # <<>>)
  BY ONLY Spaces(W), text \in Seq(W), SpacedIs
<1>2. text # <<>> => t \in V
  BY ONLY <1>1
<1>3. AsText(text) = IF text # <<>> THEN <<t>> ELSE <<>>
  BY DEF AsText
<1> HIDE DEF V, t
<1>4. <<>> \in Seq(V) /\ (t \in V => <<t>> \in Seq(V))
  BY EmptySeq
<1>5. ElementOf(t, <<t>>)
  BY ONLY ElementOfOne
<1> QED  BY ONLY <1>2, <1>3, <1>4, <1>5 DEF V, t

LEMMA TextsOfTagIs ==
  ASSUME NEW W, Spaces(W), NEW doc, DocumentOf(W, doc), NEW tag
  PROVE  /\ TextsOfTag(doc, tag) \in Seq(Seq(W) \ {<<>>})
         /\ \A i \in 1 .. Len(doc.elements) :
              doc.elements[i].text # <<>> /\ doc.elements[i].tag = tag =>
                ElementOf(Spaced(doc.elements[i].text), TextsOfTag(doc, tag))
<1> DEFINE V == Seq(W) \ {<<>>}
           n == Len(doc.elements)
           Text(i) == doc.elements[i].text
           Of(i) == IF doc.elements[i].tag = tag THEN AsText(Text(i)) ELSE <<>>
           pp == [i \in DOMAIN doc.elements |-> Of(i)]
<1>1. n \in Nat /\ DOMAIN doc.elements = 1 .. n /\ \A i \in 1 .. n : Text(i) \in Seq(W)
  BY ONLY DocumentOf(W, doc) DEF DocumentOf
<1>2. TextsOfTag(doc, tag) = FlattenSeq(pp)
  BY DEF TextsOfTag
<1>3. \A i \in 1 .. n : /\ AsText(Text(i)) \in Seq(V)
                        /\ Text(i) # <<>> => ElementOf(Spaced(Text(i)), AsText(Text(i)))
  BY ONLY <1>1, Spaces(W), AsTextIs
<1> HIDE DEF V, Text, n
<1>4. <<>> \in Seq(V)
  BY EmptySeq
<1>5. \A i \in 1 .. n : /\ Of(i) \in Seq(V)
                        /\ Text(i) # <<>> /\ doc.elements[i].tag = tag => ElementOf(Spaced(Text(i)), Of(i))
  BY ONLY <1>3, <1>4
<1> HIDE DEF Of
<1>6. pp \in Seq(Seq(V)) /\ Len(pp) = n /\ \A i \in 1 .. n : pp[i] = Of(i)
  BY ONLY <1>1, <1>5
<1> HIDE DEF pp
<1>7. FlattenSeq(pp) \in Seq(V)
  BY ONLY <1>6, FlattenType
<1>8. \A i \in 1 .. n : Text(i) # <<>> /\ doc.elements[i].tag = tag =>
                        ElementOf(Spaced(Text(i)), FlattenSeq(pp))
  <2> SUFFICES ASSUME NEW i \in 1 .. n, Text(i) # <<>>, doc.elements[i].tag = tag
               PROVE  ElementOf(Spaced(Text(i)), FlattenSeq(pp))
    OBVIOUS
  <2>1. i \in 1 .. Len(pp) /\ ElementOf(Spaced(Text(i)), pp[i])
    BY ONLY <1>5, <1>6, i \in 1 .. n, Text(i) # <<>>, doc.elements[i].tag = tag
  <2> QED  BY ONLY <1>6, <2>1, FlattenHolds
<1> QED  BY ONLY <1>2, <1>7, <1>8 DEF V, n, Text

\* The texts of the elements of all tags and what is outside of them.
AllRead(doc, units) ==
  /\ \A i \in 1 .. Len(doc.elements) :
       doc.elements[i].text # <<>> /\ doc.elements[i].tag \in ToSet(BlockTags) =>
         ElementOf(Spaced(doc.elements[i].text), units)
  /\ doc.loose # <<>> => ElementOf(Spaced(doc.loose), units)

LEMMA BlockTagsAre ==
  DOMAIN BlockTags = 1 .. 19
BY DEF BlockTags

LEMMA CleanedIs ==
  ASSUME NEW W, Spaces(W), NEW doc, DocumentOf(W, doc)
  PROVE  Cleaned(doc) \in Seq(Seq(W) \ {<<>>}) /\ AllRead(doc, Cleaned(doc))
<1> DEFINE V == Seq(W) \ {<<>>}
           n == Len(doc.elements)
           pp == [k \in DOMAIN BlockTags |-> TextsOfTag(doc, BlockTags[k])]
           loose == AsText(doc.loose)
           all == FlattenSeq(pp)
<1>1. Cleaned(doc) = all \o loose
  BY DEF Cleaned
<1>2. doc.loose \in Seq(W)
  BY ONLY DocumentOf(W, doc) DEF DocumentOf
<1>3. loose \in Seq(V) /\ (doc.loose # <<>> => ElementOf(Spaced(doc.loose), loose))
  BY ONLY <1>2, Spaces(W), AsTextIs
<1>4. \A k \in 1 .. 19 :
        /\ TextsOfTag(doc, BlockTags[k]) \in Seq(V)
        /\ \A i \in 1 .. n :
             doc.elements[i].text # <<>> /\ doc.elements[i].tag = BlockTags[k] =>
               ElementOf(Spaced(doc.elements[i].text), TextsOfTag(doc, BlockTags[k]))
  BY ONLY Spaces(W), DocumentOf(W, doc), TextsOfTagIs
<1> HIDE DEF V, n, loose
<1>5. pp \in Seq(Seq(V)) /\ Len(pp) = 19 /\ \A k \in 1 .. 19 : pp[k] = TextsOfTag(doc, BlockTags[k])
  BY ONLY <1>4, BlockTagsAre
<1> HIDE DEF pp
<1>6. all \in Seq(V)
  BY ONLY <1>5, FlattenType
<1>7. ASSUME NEW i \in 1 .. n, doc.elements[i].text # <<>>, doc.elements[i].tag \in ToSet(BlockTags)
      PROVE  ElementOf(Spaced(doc.elements[i].text), all)
  <2>1. PICK k \in 1 .. 19 : doc.elements[i].tag = BlockTags[k]
    BY ONLY <1>7, BlockTagsAre DEF ToSet
  <2>2. k \in 1 .. Len(pp) /\ ElementOf(Spaced(doc.elements[i].text), pp[k])
    BY ONLY <1>4, <1>5, <1>7, <2>1, k \in 1 .. 19, i \in 1 .. n
  <2> QED  BY ONLY <1>5, <2>2, FlattenHolds
<1> HIDE DEF all
<1>8. all \o loose \in Seq(V)
  BY ONLY <1>3, <1>6, ConcatProperties
<1>9. \A x : ElementOf(x, all \o loose) <=> ElementOf(x, all) \/ ElementOf(x, loose)
  BY ONLY <1>3, <1>6, ElementOfConcat
<1>10. AllRead(doc, all \o loose)
  BY ONLY <1>3, <1>7, <1>9 DEF AllRead, n
<1> QED  BY ONLY <1>1, <1>8, <1>10 DEF V

LEMMA SectionUnitsAre ==
  ASSUME NEW W, Spaces(W), NEW doc, DocumentOf(W, doc)
  PROVE  /\ SectionUnits(doc) \in Seq(Seq(W)) /\ NoneEmpty(SectionUnits(doc))
         /\ UnitsHoldTheText(doc, SectionUnits(doc))
<1> DEFINE units == SectionUnits(doc)
           ordered == Ordered(doc)
           cleaned == Cleaned(doc)
           V == Seq(W) \ {<<>>}
<1>1. doc.tagged \in BOOLEAN /\ BlocksOf(W, doc.blocks) /\ DOMAIN doc.elements = 1 .. Len(doc.elements)
  BY ONLY DocumentOf(W, doc) DEF DocumentOf
<1>2. BlocksOf(W, ordered)
  BY ONLY Spaces(W), DocumentOf(W, doc), OrderedIs
<1>3. cleaned \in Seq(V) /\ AllRead(doc, cleaned)
  BY ONLY Spaces(W), DocumentOf(W, doc), CleanedIs
<1>4. units = IF doc.tagged /\ Headed(ordered) THEN Grouped(ordered)
              ELSE IF doc.tagged /\ cleaned # <<>> THEN cleaned ELSE Grouped(doc.blocks)
  BY DEF SectionUnits
<1>5. UnitsHoldTheText(doc, units) <=>
        /\ ~doc.tagged => FlattenSeq(units) = Words(doc.blocks)
        /\ doc.tagged /\ Headed(ordered) => FlattenSeq(units) = Words(ordered)
        /\ doc.tagged /\ ~Headed(ordered) =>
             /\ \A i \in DOMAIN doc.elements :
                  doc.elements[i].text # <<>> /\ doc.elements[i].tag \in ToSet(BlockTags) =>
                    \E j \in DOMAIN units : units[j] = Spaced(doc.elements[i].text)
             /\ doc.loose # <<>> => \E j \in DOMAIN units : units[j] = Spaced(doc.loose)
  BY DEF UnitsHoldTheText
<1> HIDE DEF units, ordered, cleaned, V
<1>6. \A blocks : BlocksOf(W, blocks) =>
        /\ Grouped(blocks) \in Seq(Seq(W)) /\ NoneEmpty(Grouped(blocks))
        /\ FlattenSeq(Grouped(blocks)) = Words(blocks)
  <2> TAKE blocks
  <2> HAVE BlocksOf(W, blocks)
  <2>1. Sections(W, Grouped(blocks), FlattenSeq(TextsOf(blocks)))
    BY ONLY BlocksOf(W, blocks), GroupedIs
  <2>2. Words(blocks) = FlattenSeq(TextsOf(blocks))
    BY DEF Words, TextsOf
  <2> QED  BY ONLY <2>1, <2>2 DEF Sections
<1>7. CASE doc.tagged /\ Headed(ordered)
  BY ONLY <1>2, <1>4, <1>5, <1>6, <1>7 DEF units
<1>8. CASE ~doc.tagged
  BY ONLY <1>1, <1>4, <1>5, <1>6, <1>8 DEF units
<1>9. CASE doc.tagged /\ ~Headed(ordered)
  <2>1. CASE cleaned # <<>>
    <3>1. units = cleaned
      BY ONLY <1>4, <1>9, <2>1
    <3>2. V \subseteq Seq(W) /\ <<>> \notin V
      BY DEF V
    <3>3. \A k \in 1 .. Len(cleaned) : cleaned[k] \in V
      BY ONLY <1>3, ElementOfSeq
    <3>4. NoneEmpty(cleaned)
      BY ONLY <3>2, <3>3 DEF NoneEmpty
    <3>5. cleaned \in Seq(Seq(W))
      BY ONLY <1>3, <3>2, SeqMonotonic
    <3>6. DOMAIN cleaned = 1 .. Len(cleaned)
      BY ONLY <1>3, LenProperties
    <3>7. UnitsHoldTheText(doc, units)
      BY ONLY <1>1, <1>3, <1>5, <1>9, <3>1, <3>6 DEF AllRead, ElementOf
    <3> QED  BY ONLY <3>1, <3>4, <3>5, <3>7 DEF units
  <2>2. CASE cleaned = <<>>
    <3>1. units = Grouped(doc.blocks)
      BY ONLY <1>4, <1>9, <2>2
    <3>2. \A x : ~ElementOf(x, cleaned)
      <4>1. 1 .. Len(<<>>) = {}
        BY EmptySeq
      <4> QED  BY ONLY <2>2, <4>1 DEF ElementOf
    <3>3. UnitsHoldTheText(doc, units)
      BY ONLY <1>1, <1>3, <1>5, <1>9, <3>2 DEF AllRead
    <3> QED  BY ONLY <1>1, <1>6, <3>1, <3>3 DEF units
  <2> QED  BY ONLY <2>1, <2>2
<1> QED  BY ONLY <1>1, <1>7, <1>8, <1>9

\* The chunks of a document hold its units and these what is read of it, whatever its
\* blocks and elements and the budget (extract_section_units and chunk_units).
THEOREM UnitsKept ==
  ASSUME ChunkingAssumption, NEW W, Spaces(W), NEW doc, DocumentOf(W, doc), NEW maxSize \in Nat
  PROVE  UnitsAreKept(doc, maxSize)
<1> DEFINE units == SectionUnits(doc)
           chunks == ChunkUnits(units, maxSize)
           largest == Fallback(maxSize)
<1>1. units \in Seq(Seq(W)) /\ NoneEmpty(units) /\ UnitsHoldTheText(doc, units)
  BY ONLY Spaces(W), DocumentOf(W, doc), SectionUnitsAre
<1> HIDE DEF units
<1>2. Packs(W, units, maxSize, largest, chunks)
  BY ONLY <1>1, ChunkingAssumption, maxSize \in Nat, ChunkUnitsIs
<1> HIDE DEF chunks, largest
<1>3. /\ chunks \in Seq(Seq(W)) /\ FlattenSeq(chunks) = FlattenSeq(units) /\ Sized(chunks, largest)
      /\ \A i \in 1 .. Len(units) : Len(units[i]) <= maxSize => Held(W, chunks, units[i])
  BY ONLY <1>1, <1>2 DEF Packs
<1>4. DOMAIN chunks = 1 .. Len(chunks) /\ \A k \in 1 .. Len(chunks) : chunks[k] \in Seq(W)
  BY ONLY <1>3, LenProperties, ElementOfSeq
<1>5. DOMAIN units = 1 .. Len(units) /\ \A i \in 1 .. Len(units) : units[i] \in Seq(W)
  BY ONLY <1>1, LenProperties, ElementOfSeq
<1>6. \A i \in DOMAIN chunks : Len(chunks[i]) \in 1 .. largest
  BY ONLY <1>3, <1>4 DEF Sized, ElementOf
<1>7. ASSUME NEW i \in DOMAIN units, Len(units[i]) <= maxSize
      PROVE  \E k \in DOMAIN chunks : \E a, b \in DOMAIN chunks[k] :
               SubSeq(chunks[k], a, b) = units[i]
  <2>1. i \in 1 .. Len(units) /\ units[i] \in Seq(W)
    BY ONLY <1>5, i \in DOMAIN units
  <2>2. units[i] # <<>>
    BY ONLY <1>1, <2>1 DEF NoneEmpty
  <2>3. Held(W, chunks, units[i])
    BY ONLY <1>3, <1>7, <2>1
  <2>4. PICK k \in 1 .. Len(chunks) : PartOf(W, chunks[k], units[i])
    BY ONLY <2>3 DEF Held, ElementOf
  <2>5. chunks[k] \in Seq(W)
    BY ONLY <1>4, k \in 1 .. Len(chunks)
  <2>6. DOMAIN chunks[k] = 1 .. Len(chunks[k])
    BY ONLY <2>5, LenProperties
  <2>7. Between(chunks[k], units[i])
    BY ONLY <2>1, <2>2, <2>4, <2>5, WithinBounds
  <2> QED  BY ONLY <1>4, <2>6, <2>7 DEF Between
<1>8. Holding(units, chunks, maxSize, largest)
  BY ONLY <1>3, <1>6, <1>7 DEF Holding
<1> QED  BY ONLY <1>1, <1>8 DEF UnitsAreKept, units, chunks, largest

-----------------------------------------------------------------------------
(* Chunking: semantic_chunk_text *)

\* Where each sequence ends in the flattened one.
EndsOf(ss, text, n, pos) ==
  /\ pos \in [0 .. n -> Nat] /\ pos[0] = 0 /\ pos[n] = Len(text)
  /\ \A i \in 1 .. n : /\ pos[i] = pos[i - 1] + Len(ss[i]) /\ pos[i] <= Len(text)
                       /\ ss[i] = SubSeq(text, pos[i - 1] + 1, pos[i])

\* The two sides of a concatenation.
LeftPart(s, t, m, k) == SubSeq(s \o t, m, k) = SubSeq(s, m, k)
LEMMA LeftPartIs ==
  ASSUME NEW W, NEW s, s \in Seq(W), NEW t, t \in Seq(W),
         NEW m, m \in 1 .. Len(s), NEW k, k \in 1 .. Len(s)
  PROVE  LeftPart(s, t, m, k)
BY SubSeqOfConcat1 DEF LeftPart

RightPart(s, t) == SubSeq(s \o t, Len(s) + 1, Len(s) + Len(t)) = t
LEMMA RightPartIs ==
  ASSUME NEW W, NEW s, s \in Seq(W), NEW t, t \in Seq(W), Len(t) \in Nat \ {0}
  PROVE  RightPart(s, t)
<1> DEFINE m == Len(s) + 1
           k == Len(s) + Len(t)
<1>1. Len(s) \in Nat
  BY ONLY s \in Seq(W), LenProperties
<1>2. /\ m \in Len(s) + 1 .. Len(s) + Len(t) /\ k \in Len(s) + 1 .. Len(s) + Len(t)
      /\ m - Len(s) = 1 /\ k - Len(s) = Len(t)
  BY ONLY <1>1, Len(t) \in Nat \ {0}
<1> HIDE DEF m, k
<1>3. SubSeq(s \o t, m, k) = SubSeq(t, m - Len(s), k - Len(s))
  BY ONLY <1>2, s \in Seq(W), t \in Seq(W), SubSeqOfConcat2
<1>4. SubSeq(t, 1, Len(t)) = t
  BY ONLY t \in Seq(W), SubSeqFull
<1> QED  BY ONLY <1>2, <1>3, <1>4 DEF RightPart, m, k

LEMMA Inside ==
  ASSUME NEW a \in Nat, NEW d \in Nat \ {0}, NEW c \in Nat, NEW m \in Nat, a + d <= c
  PROVE  a + 1 \in 1 .. c /\ a + d \in 1 .. c /\ a + d <= c + m
OBVIOUS

LEMMA FlattenPositions ==
  ASSUME NEW W, NEW ss, ss \in Seq(Seq(W)), NoneEmpty(ss)
  PROVE  \E pos : EndsOf(ss, FlattenSeq(ss), Len(ss), pos)
<1> DEFINE n == Len(ss)
<1>1. n \in Nat
  BY ONLY ss \in Seq(Seq(W)), LenProperties
<1>2. \A i \in 1 .. n : ss[i] \in Seq(W) /\ Len(ss[i]) \in Nat \ {0}
  <2> TAKE i \in 1 .. n
  <2>1. ss[i] \in Seq(W)
    BY ONLY ss \in Seq(Seq(W)), ElementOfSeq, i \in 1 .. n
  <2>2. ss[i] # <<>>
    BY ONLY NoneEmpty(ss), i \in 1 .. n DEF NoneEmpty
  <2> QED  BY ONLY <2>1, <2>2, EmptySeq
<1>3. PICK g \in [0 .. n -> Seq(W)] : Flattens(ss, g) /\ FlattenSeq(ss) = g[n]
  BY ONLY ss \in Seq(Seq(W)), FlattenSteps
<1>4. g[0] = <<>> /\ \A i \in 1 .. n : g[i] = g[i - 1] \o ss[i]
  BY ONLY <1>3 DEF Flattens
<1>5. \A i \in 0 .. n : g[i] \in Seq(W) /\ Len(g[i]) \in Nat
  <2> TAKE i \in 0 .. n
  <2>1. g[i] \in Seq(W)
    OBVIOUS
  <2> QED  BY ONLY <2>1, LenProperties
<1> HIDE DEF n
<1> DEFINE pos == [i \in 0 .. n |-> Len(g[i])]
<1>6. \A i \in 0 .. n : pos[i] = Len(g[i]) /\ pos[i] \in Nat
  BY ONLY <1>5
<1> HIDE DEF pos
<1>7. \A i \in 1 .. n : i \in 0 .. n /\ i - 1 \in 0 .. n
  BY ONLY <1>1
<1>8. ASSUME NEW i \in 1 .. n PROVE pos[i] = pos[i - 1] + Len(ss[i])
  <2>1. Len(g[i - 1] \o ss[i]) = Len(g[i - 1]) + Len(ss[i])
    BY ONLY <1>2, <1>5, <1>7, i \in 1 .. n, ConcatProperties
  <2> QED  BY ONLY <1>4, <1>6, <1>7, <2>1, i \in 1 .. n
<1> DEFINE Part(i, j) == /\ pos[j] <= pos[i] /\ ss[j] = SubSeq(g[i], pos[j - 1] + 1, pos[j])
           Ok(i) == \A j \in 1 .. i : Part(i, j)
           S == {i \in 0 .. n : Ok(i)}
<1>9. ASSUME NEW i \in 0 .. n - 1, Ok(i) PROVE Ok(i + 1)
  <2>1. i + 1 \in 1 .. n /\ (i + 1) - 1 = i /\ i \in 0 .. n /\ i + 1 \in 0 .. n
    BY ONLY <1>1, i \in 0 .. n - 1
  <2>2. g[i + 1] = g[i] \o ss[i + 1] /\ g[i] \in Seq(W) /\ ss[i + 1] \in Seq(W)
    BY ONLY <1>2, <1>4, <1>5, <2>1
  <2>3. /\ pos[i + 1] = pos[i] + Len(ss[i + 1]) /\ Len(ss[i + 1]) \in Nat \ {0}
        /\ pos[i] \in Nat /\ pos[i] = Len(g[i])
    BY ONLY <1>2, <1>6, <1>8, <2>1
  <2>4. Part(i + 1, i + 1)
    <3>1. RightPart(g[i], ss[i + 1])
      BY ONLY <2>2, <2>3, RightPartIs
    <3>2. SubSeq(g[i] \o ss[i + 1], pos[i] + 1, pos[i + 1]) = ss[i + 1]
      BY ONLY <2>3, <3>1 DEF RightPart
    <3>3. SubSeq(g[i + 1], pos[i] + 1, pos[i + 1]) = ss[i + 1]
      BY ONLY <2>2, <3>2
    <3>4. pos[i + 1] <= pos[i + 1]
      BY ONLY <2>3
    <3> QED  BY ONLY <2>1, <3>3, <3>4
  <2>5. ASSUME NEW j \in 1 .. i PROVE Part(i + 1, j)
    <3>1. Part(i, j)
      BY <1>9
    <3>2. j \in 1 .. n /\ j \in 0 .. n /\ j - 1 \in 0 .. n
      BY ONLY <1>1, i \in 0 .. n - 1, j \in 1 .. i
    <3>3. pos[j] = pos[j - 1] + Len(ss[j]) /\ Len(ss[j]) \in Nat \ {0} /\ pos[j - 1] \in Nat
      BY ONLY <1>2, <1>6, <1>8, <3>2
    <3>4. pos[j - 1] + 1 \in 1 .. Len(g[i]) /\ pos[j] \in 1 .. Len(g[i]) /\ pos[j] <= pos[i + 1]
      <4>1. pos[j] <= pos[i]
        BY ONLY <3>1
      <4>2. /\ pos[j - 1] + 1 \in 1 .. pos[i] /\ pos[j - 1] + Len(ss[j]) \in 1 .. pos[i]
            /\ pos[j - 1] + Len(ss[j]) <= pos[i] + Len(ss[i + 1])
        BY ONLY <2>3, <3>3, <4>1, Inside
      <4> QED  BY ONLY <2>3, <3>3, <4>2
    <3>5. LeftPart(g[i], ss[i + 1], pos[j - 1] + 1, pos[j])
      BY ONLY <2>2, <3>4, LeftPartIs
    <3>6. SubSeq(g[i + 1], pos[j - 1] + 1, pos[j]) = SubSeq(g[i], pos[j - 1] + 1, pos[j])
      BY ONLY <2>2, <3>5 DEF LeftPart
    <3> QED  BY ONLY <3>1, <3>4, <3>6
  <2>6. \A j \in 1 .. i + 1 : j \in 1 .. i \/ j = i + 1
    BY ONLY <1>1, i \in 0 .. n - 1
  <2> HIDE DEF Part
  <2> QED  BY ONLY <2>4, <2>5, <2>6
<1>10. Ok(n)
  <2> HIDE DEF Part
  <2>1. Ok(0)
    <3>1. \A j \in 1 .. 0 : FALSE
      OBVIOUS
    <3> QED  BY ONLY <3>1
  <2> HIDE DEF Ok
  <2>2. 0 \in S /\ \A k \in 0 .. n - 1 : k \in S => k + 1 \in S
    <3>1. 0 \in 0 .. n /\ \A k \in 0 .. n - 1 : k + 1 \in 0 .. n
      BY ONLY <1>1
    <3> QED  BY ONLY <1>9, <2>1, <3>1
  <2>3. \A k \in 0 .. n : k \in S
    <3> HIDE DEF S
    <3> QED  BY ONLY <1>1, <2>2, Upwards
  <2> QED  BY ONLY <1>1, <2>3
<1>11. EndsOf(ss, g[n], n, pos)
  <2>1. pos \in [0 .. n -> Nat]
    BY ONLY <1>5 DEF pos
  <2>2. pos[0] = 0 /\ pos[n] = Len(g[n])
    <3>1. Len(<<>>) = 0
      BY EmptySeq
    <3>2. 0 \in 0 .. n /\ n \in 0 .. n
      BY ONLY <1>1
    <3> QED  BY ONLY <1>4, <1>6, <3>1, <3>2
  <2>3. \A i \in 1 .. n : /\ pos[i] = pos[i - 1] + Len(ss[i]) /\ pos[i] <= Len(g[n])
                          /\ ss[i] = SubSeq(g[n], pos[i - 1] + 1, pos[i])
    BY ONLY <1>8, <1>10, <2>2
  <2> QED  BY ONLY <2>1, <2>2, <2>3 DEF EndsOf
<1> QED  BY ONLY <1>3, <1>11 DEF n

SemAdd(p, segment, target, overlap) ==
  IF Len(p.current) + Len(segment) > target /\ p.current # <<>>
  THEN [chunks |-> Append(p.chunks, p.current),
        current |-> Overlap(p.current, overlap) \o segment]
  ELSE [p EXCEPT !.current = @ \o segment]
SemSteps(ss, target, overlap, h) ==
  /\ h[0] = [chunks |-> <<>>, current |-> <<>>]
  /\ \A i \in 1 .. Len(ss) : h[i] = SemAdd(h[i - 1], ss[i], target, overlap)
SemAfter(W, ss, target, overlap, last) ==
  \E h \in [0 .. Len(ss) -> Packing(W)] :
    SemSteps(ss, target, overlap, h) /\ last = Closed(h[Len(ss)])

\* A stretch of a text.
LEMMA OverlapType ==
  ASSUME NEW W, NEW s, s \in Seq(W), NEW overlap \in Nat
  PROVE  Overlap(s, overlap) \in Seq(W)
<1>1. Len(s) \in Nat
  BY ONLY s \in Seq(W), LenProperties
<1>2. CASE overlap > 0 /\ Len(s) > overlap
  <2> DEFINE x == Len(s) - overlap + 1
             y == Len(s)
  <2>1. x \in 1 .. Len(s) /\ y \in 1 .. Len(s) /\ x <= y
    BY ONLY <1>1, <1>2, overlap \in Nat
  <2>2. Overlap(s, overlap) = SubSeq(s, x, y)
    BY ONLY <1>2 DEF Overlap
  <2> HIDE DEF x, y
  <2> QED  BY ONLY <2>1, <2>2, s \in Seq(W), StretchType
<1>3. CASE ~(overlap > 0 /\ Len(s) > overlap)
  BY ONLY <1>3, EmptySeq DEF Overlap
<1> QED  BY ONLY <1>2, <1>3

LEMMA SemAddType ==
  ASSUME NEW W, NEW segment, segment \in Seq(W), NEW target, NEW overlap \in Nat,
         NEW p, p \in Packing(W)
  PROVE  SemAdd(p, segment, target, overlap) \in Packing(W)
<1>1. p.chunks \in Seq(Seq(W)) /\ p.current \in Seq(W)
  BY DEF Packing
<1>2. Append(p.chunks, p.current) \in Seq(Seq(W))
  BY ONLY <1>1, AppendIs
<1>3. Overlap(p.current, overlap) \in Seq(W)
  BY ONLY <1>1, overlap \in Nat, OverlapType
<1>4. p.current \o segment \in Seq(W) /\ Overlap(p.current, overlap) \o segment \in Seq(W)
  BY ONLY <1>1, <1>3, segment \in Seq(W), ConcatProperties
<1>5. [p EXCEPT !.current = @ \o segment] \in Packing(W)
  BY ONLY <1>4, p \in Packing(W), WithCurrent DEF Packing
<1>6. \A c \in Seq(Seq(W)) : \A d \in Seq(W) : [chunks |-> c, current |-> d] \in Packing(W)
  BY DEF Packing
<1>7. [chunks |-> Append(p.chunks, p.current),
       current |-> Overlap(p.current, overlap) \o segment] \in Packing(W)
  BY ONLY <1>2, <1>4, <1>6, Zenon
<1> QED  BY ONLY <1>5, <1>7 DEF SemAdd

\* The loop over the segments.
LEMMA SemanticSteps ==
  ASSUME NEW W, NEW text, NEW target, NEW maxWords, NEW overlap \in Nat,
         text # <<>>, ~(Len(text) <= maxWords),
         NEW ss, ss = RecursiveSplit(text, maxWords), ss \in Seq(Seq(W))
  PROVE  SemAfter(W, ss, target, overlap, SemanticChunks(text, target, maxWords, overlap))
<1> DEFINE n == Len(ss)
           V == Packing(W)
           v == [chunks |-> <<>>, current |-> <<>>]
           step(p, segment) == SemAdd(p, segment, target, overlap)
           F == [i \in 1 .. n |-> [p \in V |-> step(p, ss[i])]]
           Is(f) == f = [S \in SUBSET DOMAIN ss |->
                           IF S = {} THEN v ELSE step(f[S \ {Max(S)}], ss[Max(S)])]
           iter == CHOOSE f : Is(f)
<1>1. n \in Nat /\ v \in V
  <2>1. <<>> \in Seq(W) /\ <<>> \in Seq(Seq(W))
    BY EmptySeq
  <2>2. n \in Nat
    BY ONLY ss \in Seq(Seq(W)), LenProperties
  <2> QED  BY ONLY <2>1, <2>2 DEF Packing
<1>2. \A i \in 1 .. n : \A p \in V : step(p, ss[i]) \in V
  <2> TAKE i \in 1 .. n
  <2> TAKE p \in V
  <2>1. ss[i] \in Seq(W)
    BY ONLY ss \in Seq(Seq(W)), ElementOfSeq, i \in 1 .. n
  <2> QED  BY ONLY <2>1, p \in V, overlap \in Nat, SemAddType
<1>3. F \in [1 .. n -> [V -> V]]
  <2> HIDE DEF step, V, n
  <2> QED  BY ONLY <1>2
<1>4. \A S \in SUBSET (1 .. n) : S # {} => Max(S) \in 1 .. n /\ S \ {Max(S)} \in SUBSET (1 .. n)
  <2> HIDE DEF n
  <2> QED  BY ONLY <1>1, MaxIn
<1>5. PICK g \in [SUBSET (1 .. n) -> V] :
        \A S \in SUBSET (1 .. n) : g[S] = IF S = {} THEN v ELSE F[Max(S)][g[S \ {Max(S)}]]
  <2> HIDE DEF F, V, n, v
  <2>1. Folded(V, n, v, F)
    BY ONLY <1>1, <1>3, FoldExists
  <2> QED  BY ONLY <2>1 DEF Folded, Folds
<1>6. DOMAIN ss = 1 .. n
  <2>1. DOMAIN ss = 1 .. n
    BY ONLY ss \in Seq(Seq(W)), LenProperties
  <2> QED  BY ONLY <2>1
<1>7. Is(g)
  <2> HIDE DEF step, V, n, v
  <2>1. ASSUME NEW S \in SUBSET (1 .. n)
        PROVE  g[S] = IF S = {} THEN v ELSE step(g[S \ {Max(S)}], ss[Max(S)])
    <3>1. CASE S = {}
      BY ONLY <1>5, <3>1, S \in SUBSET (1 .. n)
    <3>2. CASE S # {}
      BY ONLY <1>4, <1>5, <3>2, S \in SUBSET (1 .. n)
    <3> QED  BY <3>1, <3>2
  <2> QED  BY ONLY <1>5, <1>6, <2>1
<1>8. Is(iter)
  <2> HIDE DEF Is
  <2> QED  BY <1>7
<1>9. SemanticChunks(text, target, maxWords, overlap) = Closed(iter[1 .. n])
  BY <1>6 DEF SemanticChunks, FoldLeft, MapThenFoldSet, SemAdd
<1>10. /\ iter[{}] = v
       /\ \A S \in SUBSET (1 .. n) :
            S # {} /\ iter[S \ {Max(S)}] \in V => iter[S] = F[Max(S)][iter[S \ {Max(S)}]]
  <2> HIDE DEF step, V, iter, n, v
  <2>1. \A S \in SUBSET (1 .. n) :
          iter[S] = IF S = {} THEN v ELSE step(iter[S \ {Max(S)}], ss[Max(S)])
    BY ONLY <1>6, <1>8
  <2> QED  BY ONLY <1>4, <2>1
<1>11. PICK h \in [0 .. n -> V] :
         /\ h[0] = v /\ \A i \in 1 .. n : h[i] = F[i][h[i - 1]]
         /\ iter[1 .. n] = h[n]
  <2> HIDE DEF F, V, iter, n, v
  <2>1. FoldsIn(V, n, v, F, iter)
    BY ONLY <1>10 DEF FoldsIn
  <2>2. IteratedTo(V, n, v, F, iter[1 .. n])
    BY ONLY <1>1, <1>3, <2>1, FoldGoesOn
  <2> QED  BY ONLY <2>2 DEF IteratedTo, Iterates
<1>12. \A i \in 1 .. n : h[i] = step(h[i - 1], ss[i])
  <2> HIDE DEF step, V
  <2> TAKE i \in 1 .. n
  <2> HIDE DEF n
  <2>1. h[i - 1] \in V
    <3>1. i - 1 \in 0 .. n
      BY ONLY <1>1, i \in 1 .. n
    <3> QED  BY ONLY <1>11, <3>1
  <2> QED  BY ONLY <1>11, <2>1, i \in 1 .. n
<1>13. SemSteps(ss, target, overlap, h)
  BY ONLY <1>11, <1>12 DEF SemSteps
<1> HIDE DEF iter
<1> QED  BY ONLY <1>9, <1>11, <1>13 DEF SemAfter

\* The words repeated and the segment after them are a stretch.
OverlapReaches(text, current, y, z, overlap, new) ==
  \E o \in 0 .. overlap :
    /\ (y + 1) - o \in 1 .. z /\ new = SubSeq(text, (y + 1) - o, z)
LEMMA OverlapIs ==
  ASSUME NEW W, NEW text, text \in Seq(W), NEW overlap \in Nat,
         NEW x \in 1 .. Len(text), NEW y \in 1 .. Len(text), x <= y,
         NEW z \in 1 .. Len(text), y < z, NEW current, current = SubSeq(text, x, y)
  PROVE  OverlapReaches(text, current, y, z, overlap,
                        Overlap(current, overlap) \o SubSeq(text, y + 1, z))
<1> DEFINE m == (y + 1) - overlap
           l == (y - x) + 1
           from == Len(current) - overlap + 1
           seg == SubSeq(text, y + 1, z)
<1>1. Len(text) \in Nat /\ x \in Nat /\ y \in Nat /\ z \in Nat /\ y + 1 \in 1 .. Len(text)
  BY ONLY text \in Seq(W), LenProperties, x \in 1 .. Len(text), y \in 1 .. Len(text),
          z \in 1 .. Len(text), y < z
<1>2. current \in Seq(W) /\ Len(current) = l
  BY ONLY text \in Seq(W), x \in 1 .. Len(text), y \in 1 .. Len(text), x <= y,
          current = SubSeq(text, x, y), StretchType
<1>3. seg \in Seq(W)
  BY ONLY <1>1, text \in Seq(W), z \in 1 .. Len(text), y < z, StretchType
<1>4. CASE overlap > 0 /\ Len(current) > overlap
  <2>1. /\ from \in 1 .. l /\ l \in 1 .. l /\ (x + from) - 1 = m /\ (x + l) - 1 = y
        /\ m \in 1 .. z /\ m \in 1 .. Len(text) + 1 /\ y \in m - 1 .. Len(text)
        /\ z \in y .. Len(text) /\ overlap \in 0 .. overlap
    BY ONLY <1>1, <1>2, <1>4, overlap \in Nat, x \in 1 .. Len(text), y \in 1 .. Len(text),
            x <= y, z \in 1 .. Len(text), y < z
  <2>2. Overlap(current, overlap) = SubSeq(current, from, l)
    BY ONLY <1>2, <1>4 DEF Overlap
  <2> HIDE DEF from
  <2>3. SubSeq(SubSeq(text, x, y), from, l) = SubSeq(text, (x + from) - 1, (x + l) - 1)
    BY ONLY <2>1, text \in Seq(W), x \in 1 .. Len(text), y \in 1 .. Len(text), SubSeqOfSubSeq
  <2>4. Overlap(current, overlap) = SubSeq(text, m, y)
    BY ONLY <2>1, <2>2, <2>3, current = SubSeq(text, x, y)
  <2> HIDE DEF m, l
  <2>5. SubSeq(text, m, y) \o SubSeq(text, y + 1, z) = SubSeq(text, m, z)
    BY ONLY <2>1, text \in Seq(W), ConcatAdjacentSubSeq
  <2>6. overlap \in 0 .. overlap /\ m \in 1 .. z
        /\ Overlap(current, overlap) \o SubSeq(text, y + 1, z) = SubSeq(text, m, z)
    BY ONLY <2>1, <2>4, <2>5
  <2> QED  BY ONLY <2>6 DEF OverlapReaches, m
<1>5. CASE ~(overlap > 0 /\ Len(current) > overlap)
  <2>1. Overlap(current, overlap) = <<>>
    BY ONLY <1>5 DEF Overlap
  <2>2. <<>> \o seg = seg
    BY ONLY <1>3, ConcatEmptySeq
  <2>3. 0 \in 0 .. overlap /\ (y + 1) - 0 = y + 1 /\ y + 1 \in 1 .. z
    BY ONLY <1>1, overlap \in Nat, y < z
  <2>4. Overlap(current, overlap) \o SubSeq(text, y + 1, z) = SubSeq(text, (y + 1) - 0, z)
    BY ONLY <2>1, <2>2, <2>3
  <2> QED  BY ONLY <2>3, <2>4 DEF OverlapReaches
<1> QED  BY ONLY <1>4, <1>5

\* Sequences 1 to m of cs are stretches of the text.  Each begins at most so many words
\* before the end of the one before it, and they go as far as `last`.
Linked(text, cs, m, last, largest, overlap, b, e) ==
  /\ b \in [1 .. m -> 1 .. Len(text)] /\ e \in [1 .. m -> 1 .. Len(text)]
  /\ b[1] = 1 /\ e[m] = last
  /\ \A k \in 1 .. m : /\ cs[k] = SubSeq(text, b[k], e[k])
                       /\ b[k] <= e[k] /\ (e[k] - b[k]) + 1 <= largest
  /\ \A k \in 2 .. m : e[k - 1] + 1 - b[k] \in 0 .. overlap
AreLinked(text, cs, m, last, largest, overlap) ==
  \E b, e : Linked(text, cs, m, last, largest, overlap, b, e)

\* The first segment.
LEMMA LinkFirst ==
  ASSUME NEW W, NEW text, text \in Seq(W), NEW last \in 1 .. Len(text),
         NEW largest \in Nat, last <= largest, NEW overlap,
         NEW cs, cs[1] = SubSeq(text, 1, last)
  PROVE  AreLinked(text, cs, 1, last, largest, overlap)
<1> DEFINE b == [k \in 1 .. 1 |-> 1]
           e == [k \in 1 .. 1 |-> last]
<1>1. Len(text) \in Nat
  BY ONLY text \in Seq(W), LenProperties
<1>2. b \in [1 .. 1 -> 1 .. Len(text)] /\ e \in [1 .. 1 -> 1 .. Len(text)]
  BY ONLY <1>1, last \in 1 .. Len(text)
<1>3. \A k \in 1 .. 1 : k = 1 /\ b[k] = 1 /\ e[k] = last
  OBVIOUS
<1>4. \A k \in 2 .. 1 : FALSE
  OBVIOUS
<1>5. 1 <= last /\ (last - 1) + 1 <= largest /\ 1 \in 1 .. 1
  BY ONLY <1>1, last \in 1 .. Len(text), last <= largest
<1> HIDE DEF b, e
<1>6. Linked(text, cs, 1, last, largest, overlap, b, e)
  BY ONLY <1>2, <1>3, <1>4, <1>5, cs[1] = SubSeq(text, 1, last) DEF Linked
<1> QED  BY ONLY <1>6 DEF AreLinked

\* The last one goes further.
LEMMA LinkFurther ==
  ASSUME NEW W, NEW text, text \in Seq(W), NEW m \in Nat \ {0}, NEW overlap \in Nat,
         NEW last \in 1 .. Len(text), NEW z \in 1 .. Len(text), last < z,
         NEW largest \in Nat, NEW cs, AreLinked(text, cs, m, last, largest, overlap),
         NEW ds, \A k \in 1 .. m - 1 : ds[k] = cs[k],
         ds[m] = cs[m] \o SubSeq(text, last + 1, z), Len(ds[m]) <= largest
  PROVE  AreLinked(text, ds, m, z, largest, overlap)
<1>1. PICK b, e : Linked(text, cs, m, last, largest, overlap, b, e)
  BY ONLY AreLinked(text, cs, m, last, largest, overlap) DEF AreLinked
<1>2. /\ b \in [1 .. m -> 1 .. Len(text)] /\ e \in [1 .. m -> 1 .. Len(text)]
      /\ b[1] = 1 /\ e[m] = last
      /\ \A k \in 2 .. m : e[k - 1] + 1 - b[k] \in 0 .. overlap
  BY ONLY <1>1 DEF Linked
<1>3. \A k \in 1 .. m : cs[k] = SubSeq(text, b[k], e[k])
  BY ONLY <1>1 DEF Linked
<1>4. \A k \in 1 .. m : b[k] <= e[k] /\ (e[k] - b[k]) + 1 <= largest
  BY ONLY <1>1 DEF Linked
<1> DEFINE f == [e EXCEPT ![m] = z]
<1>5. m \in 1 .. m /\ Len(text) \in Nat
  BY ONLY m \in Nat \ {0}, text \in Seq(W), LenProperties
<1>6. f \in [1 .. m -> 1 .. Len(text)] /\ \A k \in 1 .. m : f[k] = IF k = m THEN z ELSE e[k]
  BY ONLY <1>2, <1>5, z \in 1 .. Len(text)
<1>7. \A k \in 2 .. m : k - 1 \in 1 .. m /\ k - 1 # m
  BY ONLY m \in Nat \ {0}
<1> HIDE DEF f
<1>8. b[m] \in 1 .. Len(text) /\ b[m] <= last /\ b[m] <= z
  <2>1. b[m] \in 1 .. Len(text)
    BY ONLY <1>2, <1>5
  <2>2. b[m] <= last
    BY ONLY <1>2, <1>4, <1>5
  <2> QED  BY ONLY <1>5, <2>1, <2>2, last \in 1 .. Len(text), z \in 1 .. Len(text), last < z
<1>9. ds[m] = SubSeq(text, b[m], z)
  <2>1. cs[m] = SubSeq(text, b[m], last)
    BY ONLY <1>2, <1>3, <1>5
  <2>2. /\ b[m] \in 1 .. Len(text) + 1 /\ last \in b[m] - 1 .. Len(text) /\ z \in last .. Len(text)
    BY ONLY <1>5, <1>8, last \in 1 .. Len(text), z \in 1 .. Len(text), last < z
  <2> DEFINE x == b[m]
  <2> HIDE DEF x
  <2>3. SubSeq(text, x, last) \o SubSeq(text, last + 1, z) = SubSeq(text, x, z)
    <3>1. /\ x \in 1 .. Len(text) + 1 /\ last \in x - 1 .. Len(text) /\ z \in last .. Len(text)
      BY ONLY <2>2 DEF x
    <3> QED  BY ONLY <3>1, text \in Seq(W), ConcatAdjacentSubSeq
  <2> QED  BY ONLY <2>1, <2>3, ds[m] = cs[m] \o SubSeq(text, last + 1, z) DEF x
<1>10. (z - b[m]) + 1 <= largest
  BY ONLY <1>8, <1>9, text \in Seq(W), z \in 1 .. Len(text), Len(ds[m]) <= largest, StretchType
<1>11. \A k \in 1 .. m : ds[k] = SubSeq(text, b[k], f[k])
  <2> TAKE k \in 1 .. m
  <2>1. CASE k = m
    BY ONLY <1>5, <1>6, <1>9, <2>1
  <2>2. CASE k # m
    <3>1. k \in 1 .. m - 1
      BY ONLY <2>2, m \in Nat \ {0}, k \in 1 .. m
    <3>2. ds[k] = cs[k]
      BY ONLY <3>1, \A j \in 1 .. m - 1 : ds[j] = cs[j]
    <3> QED  BY ONLY <1>3, <1>6, <2>2, <3>2, k \in 1 .. m
  <2> QED  BY ONLY <2>1, <2>2
<1>12. \A k \in 1 .. m : b[k] <= f[k] /\ (f[k] - b[k]) + 1 <= largest
  BY ONLY <1>4, <1>6, <1>8, <1>10
<1>13. \A k \in 2 .. m : f[k - 1] + 1 - b[k] \in 0 .. overlap
  BY ONLY <1>2, <1>6, <1>7
<1>14. f[m] = z
  BY ONLY <1>5, <1>6
<1>15. Linked(text, ds, m, z, largest, overlap, b, f)
  BY ONLY <1>2, <1>6, <1>11, <1>12, <1>13, <1>14 DEF Linked
<1> QED  BY ONLY <1>15 DEF AreLinked

\* One more.
LEMMA LinkOneMore ==
  ASSUME NEW W, NEW text, text \in Seq(W), NEW m \in Nat \ {0}, NEW overlap \in Nat,
         NEW last \in 1 .. Len(text), NEW z \in 1 .. Len(text), last < z,
         NEW largest \in Nat, overlap + (z - last) <= largest,
         NEW cs, AreLinked(text, cs, m, last, largest, overlap),
         NEW ds, \A k \in 1 .. m : ds[k] = cs[k],
         ds[m + 1] = Overlap(cs[m], overlap) \o SubSeq(text, last + 1, z)
  PROVE  AreLinked(text, ds, m + 1, z, largest, overlap)
<1>1. PICK b, e : Linked(text, cs, m, last, largest, overlap, b, e)
  BY ONLY AreLinked(text, cs, m, last, largest, overlap) DEF AreLinked
<1>2. /\ b \in [1 .. m -> 1 .. Len(text)] /\ e \in [1 .. m -> 1 .. Len(text)]
      /\ b[1] = 1 /\ e[m] = last
      /\ \A k \in 2 .. m : e[k - 1] + 1 - b[k] \in 0 .. overlap
  BY ONLY <1>1 DEF Linked
<1>3. \A k \in 1 .. m : cs[k] = SubSeq(text, b[k], e[k])
  BY ONLY <1>1 DEF Linked
<1>4. \A k \in 1 .. m : b[k] <= e[k] /\ (e[k] - b[k]) + 1 <= largest
  BY ONLY <1>1 DEF Linked
<1>5. m \in 1 .. m /\ Len(text) \in Nat
  BY ONLY m \in Nat \ {0}, text \in Seq(W), LenProperties
<1>6. b[m] \in 1 .. Len(text) /\ b[m] <= last /\ cs[m] = SubSeq(text, b[m], last)
  <2>1. b[m] \in 1 .. Len(text)
    BY ONLY <1>2, <1>5
  <2>2. b[m] <= last
    BY ONLY <1>2, <1>4, <1>5
  <2>3. cs[m] = SubSeq(text, b[m], last)
    BY ONLY <1>2, <1>3, <1>5
  <2> QED  BY ONLY <2>1, <2>2, <2>3
<1> DEFINE x == b[m]
<1>7. OverlapReaches(text, cs[m], last, z, overlap, ds[m + 1])
  <2>1. x \in 1 .. Len(text) /\ x <= last /\ cs[m] = SubSeq(text, x, last)
    BY ONLY <1>6
  <2> HIDE DEF x
  <2>2. OverlapReaches(text, cs[m], last, z, overlap,
                       Overlap(cs[m], overlap) \o SubSeq(text, last + 1, z))
    BY ONLY <2>1, text \in Seq(W), overlap \in Nat, last \in 1 .. Len(text),
            z \in 1 .. Len(text), last < z, OverlapIs
  <2> QED  BY ONLY <2>2, ds[m + 1] = Overlap(cs[m], overlap) \o SubSeq(text, last + 1, z)
<1>8. PICK o \in 0 .. overlap :
        (last + 1) - o \in 1 .. z /\ ds[m + 1] = SubSeq(text, (last + 1) - o, z)
  BY ONLY <1>7 DEF OverlapReaches
<1> DEFINE y == (last + 1) - o
           c == [k \in 1 .. m + 1 |-> IF k = m + 1 THEN y ELSE b[k]]
           f == [k \in 1 .. m + 1 |-> IF k = m + 1 THEN z ELSE e[k]]
<1>9. /\ y \in 1 .. Len(text) /\ y <= z /\ (z - y) + 1 <= largest
      /\ (last + 1) - y = o
  BY ONLY <1>5, <1>8, last \in 1 .. Len(text), z \in 1 .. Len(text), last < z, overlap \in Nat,
          largest \in Nat, overlap + (z - last) <= largest
<1>10. ds[m + 1] = SubSeq(text, y, z)
  BY ONLY <1>8
<1> HIDE DEF x, y
<1>11. /\ \A k \in 1 .. m : k \in 1 .. m + 1 /\ k # m + 1
       /\ \A k \in 1 .. m + 1 : k \in 1 .. m \/ k = m + 1
       /\ m + 1 \in 1 .. m + 1 /\ 1 \in 1 .. m
       /\ \A k \in 2 .. m + 1 : k - 1 \in 1 .. m
       /\ \A k \in 2 .. m + 1 : k \in 2 .. m \/ (k = m + 1 /\ k - 1 = m)
       /\ \A k \in 2 .. m : k \in 1 .. m
  BY ONLY m \in Nat \ {0}
<1>12. /\ c \in [1 .. m + 1 -> 1 .. Len(text)] /\ f \in [1 .. m + 1 -> 1 .. Len(text)]
       /\ \A k \in 1 .. m : c[k] = b[k] /\ f[k] = e[k]
       /\ c[m + 1] = y /\ f[m + 1] = z
  <2>1. \A k \in 1 .. m + 1 : /\ (IF k = m + 1 THEN y ELSE b[k]) \in 1 .. Len(text)
                              /\ (IF k = m + 1 THEN z ELSE e[k]) \in 1 .. Len(text)
    BY ONLY <1>2, <1>9, <1>11, z \in 1 .. Len(text)
  <2>2. c \in [1 .. m + 1 -> 1 .. Len(text)] /\ f \in [1 .. m + 1 -> 1 .. Len(text)]
    BY ONLY <2>1
  <2>3. /\ \A k \in 1 .. m : c[k] = b[k] /\ f[k] = e[k]
        /\ c[m + 1] = y /\ f[m + 1] = z
    BY ONLY <1>11
  <2> QED  BY ONLY <2>2, <2>3
<1> HIDE DEF c, f
<1>13. \A k \in 1 .. m + 1 : /\ ds[k] = SubSeq(text, c[k], f[k])
                             /\ c[k] <= f[k] /\ (f[k] - c[k]) + 1 <= largest
  <2> TAKE k \in 1 .. m + 1
  <2>1. CASE k = m + 1
    BY ONLY <1>9, <1>10, <1>12, <2>1
  <2>2. CASE k \in 1 .. m
    <3>1. ds[k] = cs[k]
      BY ONLY <2>2, \A j \in 1 .. m : ds[j] = cs[j]
    <3>2. ds[k] = SubSeq(text, c[k], f[k])
      BY ONLY <1>3, <1>12, <2>2, <3>1
    <3>3. c[k] <= f[k] /\ (f[k] - c[k]) + 1 <= largest
      BY ONLY <1>4, <1>12, <2>2
    <3> QED  BY ONLY <3>2, <3>3
  <2> QED  BY ONLY <1>11, <2>1, <2>2, k \in 1 .. m + 1
<1>14. \A k \in 2 .. m + 1 : f[k - 1] + 1 - c[k] \in 0 .. overlap
  <2> TAKE k \in 2 .. m + 1
  <2>1. CASE k = m + 1 /\ k - 1 = m
    <3>1. f[k - 1] = last /\ c[k] = y
      BY ONLY <1>2, <1>5, <1>12, <2>1
    <3> QED  BY ONLY <1>8, <1>9, <3>1
  <2>2. CASE k \in 2 .. m
    BY ONLY <1>2, <1>11, <1>12, <2>2, k \in 2 .. m + 1
  <2> QED  BY ONLY <1>11, <2>1, <2>2, k \in 2 .. m + 1
<1>15. c[1] = 1 /\ f[m + 1] = z
  BY ONLY <1>2, <1>11, <1>12
<1>16. Linked(text, ds, m + 1, z, largest, overlap, c, f)
  BY ONLY <1>12, <1>13, <1>14, <1>15 DEF Linked
<1> QED  BY ONLY <1>16 DEF AreLinked

\* What the loop over the segments keeps, once it has taken one.
SemKeeps(W, text, p, last, largest, overlap) ==
  /\ p \in Packing(W) /\ p.current # <<>>
  /\ AreLinked(text, Append(p.chunks, p.current), Len(p.chunks) + 1, last, largest, overlap)

\* The first segment.
LEMMA SemFirst ==
  ASSUME NEW W, NEW text, text \in Seq(W), NEW z \in 1 .. Len(text),
         NEW segment, segment = SubSeq(text, 1, z), NEW target, NEW overlap \in Nat,
         NEW largest \in Nat, z <= largest
  PROVE  SemKeeps(W, text, SemAdd([chunks |-> <<>>, current |-> <<>>], segment, target, overlap),
                  z, largest, overlap)
<1> DEFINE v == [chunks |-> <<>>, current |-> <<>>]
           p == SemAdd(v, segment, target, overlap)
<1>1. /\ Len(text) \in Nat /\ 1 \in 1 .. Len(text) /\ 1 <= z
  BY ONLY text \in Seq(W), LenProperties, z \in 1 .. Len(text)
<1>2. segment \in Seq(W) /\ segment # <<>>
  BY ONLY <1>1, text \in Seq(W), z \in 1 .. Len(text), segment = SubSeq(text, 1, z), StretchType
<1>3. v \in Packing(W) /\ v.current = <<>> /\ v.chunks = <<>>
  <2>1. <<>> \in Seq(W) /\ <<>> \in Seq(Seq(W))
    BY EmptySeq
  <2> QED  BY ONLY <2>1 DEF Packing
<1> HIDE DEF v
<1>4. p \in Packing(W)
  BY ONLY <1>2, <1>3, overlap \in Nat, SemAddType
<1>5. <<>> \o segment = segment
  BY ONLY <1>2, ConcatEmptySeq
<1>6. p = [v EXCEPT !.current = @ \o segment]
  BY ONLY <1>3 DEF SemAdd
<1>7. p.chunks = <<>> /\ p.current = segment
  <2>1. [v EXCEPT !.current = segment].chunks = v.chunks
        /\ [v EXCEPT !.current = segment].current = segment
    BY ONLY <1>2, <1>3, WithCurrent DEF Packing
  <2> QED  BY ONLY <1>3, <1>5, <1>6, <2>1
<1> HIDE DEF p
<1>8. Len(<<>>) + 1 = 1 /\ Append(<<>>, segment)[1] = segment
  <2>1. <<>> \in Seq(Seq(W)) /\ Len(<<>>) = 0
    BY EmptySeq
  <2>2. Appended(<<>>, segment, Append(<<>>, segment))
    BY ONLY <1>2, <2>1, AppendIs
  <2> QED  BY ONLY <2>1, <2>2 DEF Appended
<1>9. AreLinked(text, Append(<<>>, segment), 1, z, largest, overlap)
  BY ONLY <1>8, text \in Seq(W), z \in 1 .. Len(text), segment = SubSeq(text, 1, z),
          largest \in Nat, z <= largest, LinkFirst
<1> QED  BY ONLY <1>2, <1>4, <1>7, <1>8, <1>9 DEF SemKeeps, p, v

\* One segment more.
LEMMA SemAddKeeps ==
  ASSUME NEW W, NEW text, text \in Seq(W), NEW last \in 1 .. Len(text), NEW z \in 1 .. Len(text),
         last < z, NEW segment, segment = SubSeq(text, last + 1, z), NEW target \in Nat,
         NEW overlap \in Nat, NEW largest \in Nat, target <= largest,
         overlap + (z - last) <= largest,
         NEW p, SemKeeps(W, text, p, last, largest, overlap)
  PROVE  SemKeeps(W, text, SemAdd(p, segment, target, overlap), z, largest, overlap)
<1> DEFINE new == SemAdd(p, segment, target, overlap)
           m == Len(p.chunks) + 1
           cs == Append(p.chunks, p.current)
<1>1. p \in Packing(W) /\ p.current # <<>> /\ AreLinked(text, cs, m, last, largest, overlap)
  BY ONLY SemKeeps(W, text, p, last, largest, overlap) DEF SemKeeps
<1>2. p.chunks \in Seq(Seq(W)) /\ p.current \in Seq(W)
  BY ONLY <1>1 DEF Packing
<1>3. Len(text) \in Nat /\ last + 1 \in 1 .. Len(text) /\ last + 1 <= z
  BY ONLY text \in Seq(W), LenProperties, last \in 1 .. Len(text), z \in 1 .. Len(text), last < z
<1>4. segment \in Seq(W) /\ segment # <<>>
  BY ONLY <1>3, text \in Seq(W), z \in 1 .. Len(text), segment = SubSeq(text, last + 1, z), StretchType
<1>5. new \in Packing(W)
  BY ONLY <1>1, <1>4, overlap \in Nat, SemAddType
<1>6. Len(p.chunks) \in Nat /\ m \in Nat \ {0} /\ Len(p.current) \in Nat /\ Len(segment) \in Nat \ {0}
  <2>1. Len(p.chunks) \in Nat /\ Len(p.current) \in Nat
    BY ONLY <1>2, LenProperties
  <2>2. Len(segment) \in Nat \ {0}
    BY ONLY <1>4, EmptySeq
  <2> QED  BY ONLY <2>1, <2>2
<1>7. cs \in Seq(Seq(W)) /\ Appended(p.chunks, p.current, cs)
  BY ONLY <1>2, AppendIs
<1>8. \A t, u \in Seq(W) : u # <<>> => t \o u # <<>>
  <2> SUFFICES ASSUME NEW t, t \in Seq(W), NEW u, u \in Seq(W), u # <<>> PROVE t \o u # <<>>
    OBVIOUS
  <2>1. Len(t) \in Nat /\ Len(u) \in Nat \ {0}
    BY ONLY t \in Seq(W), u \in Seq(W), u # <<>>, LenProperties, EmptySeq
  <2>2. Len(t \o u) = Len(t) + Len(u)
    BY ONLY t \in Seq(W), u \in Seq(W), ConcatProperties
  <2>3. Len(t \o u) \in Nat \ {0}
    BY ONLY <2>1, <2>2
  <2> QED  BY ONLY <2>3, NotEmpty
<1>9. Overlap(p.current, overlap) \in Seq(W)
  BY ONLY <1>2, overlap \in Nat, OverlapType
<1> HIDE DEF new
<1>10. CASE Len(p.current) + Len(segment) > target
  <2> DEFINE added == Overlap(p.current, overlap) \o segment
             ds == Append(cs, added)
  <2>1. added \in Seq(W) /\ added # <<>>
    BY ONLY <1>4, <1>8, <1>9, ConcatProperties
  <2>2. new = [chunks |-> cs, current |-> added]
    BY ONLY <1>1, <1>10 DEF SemAdd, new
  <2>3. new.chunks = cs /\ new.current = added
    BY ONLY <2>2
  <2> HIDE DEF cs
  <2>4. Appended(cs, added, ds)
    BY ONLY <1>7, <2>1, AppendIs
  <2>5. Len(cs) = m /\ cs[m] = p.current
    BY ONLY <1>7 DEF Appended
  <2>6. ds[m + 1] = added /\ \A k \in 1 .. m : ds[k] = cs[k]
    BY ONLY <2>4, <2>5 DEF Appended
  <2>7. ds[m + 1] = Overlap(cs[m], overlap) \o SubSeq(text, last + 1, z)
    BY ONLY <2>5, <2>6, segment = SubSeq(text, last + 1, z)
  <2> HIDE DEF ds, added, m
  <2>8. AreLinked(text, ds, m + 1, z, largest, overlap)
    BY ONLY <1>1, <1>6, <2>6, <2>7, text \in Seq(W), overlap \in Nat, last \in 1 .. Len(text),
            z \in 1 .. Len(text), last < z, largest \in Nat, overlap + (z - last) <= largest,
            LinkOneMore
  <2> QED  BY ONLY <1>5, <2>1, <2>3, <2>5, <2>8 DEF SemKeeps, ds, new
<1>11. CASE ~(Len(p.current) + Len(segment) > target)
  <2> DEFINE longer == p.current \o segment
             ds == Append(p.chunks, longer)
  <2>1. longer \in Seq(W) /\ longer # <<>> /\ Len(longer) = Len(p.current) + Len(segment)
    BY ONLY <1>2, <1>4, <1>8, ConcatProperties
  <2>2. new = [p EXCEPT !.current = longer]
    BY ONLY <1>11 DEF SemAdd, new
  <2> HIDE DEF longer
  <2>3. new.chunks = p.chunks /\ new.current = longer
    BY ONLY <1>1, <2>1, <2>2, WithCurrent DEF Packing
  <2>4. Appended(p.chunks, longer, ds)
    BY ONLY <1>2, <2>1, AppendIs
  <2>5. ds[m] = longer /\ \A k \in 1 .. m - 1 : ds[k] = p.chunks[k]
    <3>1. m - 1 = Len(p.chunks)
      BY ONLY <1>6
    <3> QED  BY ONLY <2>4, <3>1 DEF Appended
  <2>6. cs[m] = p.current /\ \A k \in 1 .. m - 1 : cs[k] = p.chunks[k]
    <3>1. m - 1 = Len(p.chunks)
      BY ONLY <1>6
    <3> QED  BY ONLY <1>7, <3>1 DEF Appended
  <2> HIDE DEF cs, ds, m
  <2>7. ds[m] = cs[m] \o SubSeq(text, last + 1, z) /\ \A k \in 1 .. m - 1 : ds[k] = cs[k]
    BY ONLY <2>5, <2>6, segment = SubSeq(text, last + 1, z) DEF longer
  <2>8. Len(ds[m]) <= largest
    BY ONLY <1>6, <1>11, <2>1, <2>5, target \in Nat, largest \in Nat, target <= largest
  <2>9. AreLinked(text, ds, m, z, largest, overlap)
    BY ONLY <1>1, <1>6, <2>7, <2>8, text \in Seq(W), overlap \in Nat, last \in 1 .. Len(text),
            z \in 1 .. Len(text), last < z, largest \in Nat, LinkFurther
  <2> QED  BY ONLY <1>5, <2>1, <2>3, <2>9 DEF SemKeeps, ds, m, new
<1> QED  BY ONLY <1>10, <1>11 DEF new

\* No word comes twice in a text.
OnceOnly(text) == \A i, j \in 1 .. Len(text) : text[i] = text[j] => i = j

LEMMA StretchEnds ==
  ASSUME NEW W, NEW s, s \in Seq(W), NEW x \in 1 .. Len(s), NEW y \in 1 .. Len(s), x <= y
  PROVE  SubSeq(s, x, y)[1] = s[x] /\ SubSeq(s, x, y)[(y - x) + 1] = s[y]
<1>1. x \in Nat /\ y \in Nat /\ Len(s) \in Nat
  BY ONLY s \in Seq(W), LenProperties, x \in 1 .. Len(s), y \in 1 .. Len(s)
<1>2. \A i \in x .. y : s[i] \in W
  <2>1. \A i \in x .. y : i \in 1 .. Len(s)
    BY ONLY <1>1, x \in 1 .. Len(s), y \in 1 .. Len(s)
  <2> QED  BY ONLY <2>1, s \in Seq(W), ElementOfSeq
<1>3. \A i \in 1 .. (y - x) + 1 : SubSeq(s, x, y)[i] = s[(x + i) - 1]
  BY ONLY <1>1, <1>2, SubSeqProperties
<1>4. 1 \in 1 .. (y - x) + 1 /\ (y - x) + 1 \in 1 .. (y - x) + 1
      /\ (x + 1) - 1 = x /\ (x + ((y - x) + 1)) - 1 = y
  BY ONLY <1>1, x <= y
<1> QED  BY ONLY <1>3, <1>4

\* Stretches that are linked cover the text.
LEMMA LinkedCover ==
  ASSUME NEW W, NEW text, text \in Seq(W), OnceOnly(text), NEW cs, cs \in Seq(Seq(W)),
         Len(cs) \in Nat \ {0}, NEW largest \in Nat, NEW overlap \in Nat,
         AreLinked(text, cs, Len(cs), Len(text), largest, overlap)
  PROVE  Covers(cs, text, largest, overlap)
<1> DEFINE m == Len(cs)
           RankedAt(w) == CHOOSE i \in DOMAIN text : text[i] = w
<1>1. PICK b, e : Linked(text, cs, m, Len(text), largest, overlap, b, e)
  BY ONLY AreLinked(text, cs, Len(cs), Len(text), largest, overlap) DEF AreLinked
<1>2. /\ b \in [1 .. m -> 1 .. Len(text)] /\ e \in [1 .. m -> 1 .. Len(text)]
      /\ b[1] = 1 /\ e[m] = Len(text)
      /\ \A k \in 2 .. m : e[k - 1] + 1 - b[k] \in 0 .. overlap
  BY ONLY <1>1 DEF Linked
<1>3. \A k \in 1 .. m : cs[k] = SubSeq(text, b[k], e[k])
  BY ONLY <1>1 DEF Linked
<1>4. \A k \in 1 .. m : b[k] <= e[k] /\ (e[k] - b[k]) + 1 <= largest
  BY ONLY <1>1 DEF Linked
<1>5. DOMAIN text = 1 .. Len(text) /\ DOMAIN cs = 1 .. m
  BY ONLY text \in Seq(W), cs \in Seq(Seq(W)), LenProperties
<1>6. \A i \in 1 .. Len(text) : RankedAt(text[i]) = i
  <2> TAKE i \in 1 .. Len(text)
  <2>1. i \in DOMAIN text /\ text[i] = text[i]
    BY ONLY <1>5, i \in 1 .. Len(text)
  <2>2. RankedAt(text[i]) \in DOMAIN text /\ text[RankedAt(text[i])] = text[i]
    BY ONLY <2>1
  <2> HIDE DEF RankedAt
  <2> QED  BY ONLY <1>5, <2>2, i \in 1 .. Len(text), OnceOnly(text) DEF OnceOnly
<1> HIDE DEF RankedAt
<1>7. ASSUME NEW k \in 1 .. m
      PROVE  /\ Head(cs[k]) = text[b[k]] /\ Last(cs[k]) = text[e[k]]
             /\ Len(cs[k]) <= largest
  <2> DEFINE x == b[k]
             y == e[k]
  <2>1. x \in 1 .. Len(text) /\ y \in 1 .. Len(text)
    BY ONLY <1>2, k \in 1 .. m
  <2>2. x <= y /\ (y - x) + 1 <= largest
    BY ONLY <1>4, k \in 1 .. m
  <2>3. cs[k] = SubSeq(text, x, y)
    BY ONLY <1>3, k \in 1 .. m
  <2> HIDE DEF x, y
  <2>4. /\ SubSeq(text, x, y) \in Seq(W) /\ Len(SubSeq(text, x, y)) = (y - x) + 1
        /\ SubSeq(text, x, y) # <<>>
    BY ONLY <2>1, <2>2, text \in Seq(W), StretchType
  <2>5. SubSeq(text, x, y)[1] = text[x] /\ SubSeq(text, x, y)[(y - x) + 1] = text[y]
    BY ONLY <2>1, <2>2, text \in Seq(W), StretchEnds
  <2>6. Head(cs[k]) = cs[k][1]
    BY ONLY <2>3, <2>4, HeadTailProperties
  <2>7. Last(cs[k]) = cs[k][Len(cs[k])]
    BY ONLY DEF Last
  <2> QED  BY ONLY <2>2, <2>3, <2>4, <2>5, <2>6, <2>7 DEF x, y
<1>8. \A k \in 1 .. m : RankedAt(Head(cs[k])) = b[k] /\ RankedAt(Last(cs[k])) = e[k]
  <2> TAKE k \in 1 .. m
  <2>1. b[k] \in 1 .. Len(text) /\ e[k] \in 1 .. Len(text)
    BY ONLY <1>2, k \in 1 .. m
  <2>2. RankedAt(text[b[k]]) = b[k] /\ RankedAt(text[e[k]]) = e[k]
    BY ONLY <1>6, <2>1
  <2> QED  BY ONLY <1>7, <2>2, k \in 1 .. m
<1>9. 1 \in 1 .. m /\ m \in 1 .. m /\ \A k \in 2 .. m : k \in 1 .. m /\ k - 1 \in 1 .. m
  BY ONLY Len(cs) \in Nat \ {0}
<1>10. cs # <<>> /\ Last(cs) = cs[m]
  BY ONLY Len(cs) \in Nat \ {0}, NotEmpty DEF Last
<1>11. RankedAt(Head(cs[1])) = 1 /\ RankedAt(Last(Last(cs))) = Len(text)
  BY ONLY <1>2, <1>8, <1>9, <1>10
<1>12. \A k \in DOMAIN cs : /\ cs[k] = SubSeq(text, RankedAt(Head(cs[k])), RankedAt(Last(cs[k])))
                            /\ Len(cs[k]) <= largest
  <2> TAKE k \in DOMAIN cs
  <2>1. k \in 1 .. m
    BY ONLY <1>5, k \in DOMAIN cs
  <2> QED  BY ONLY <1>3, <1>7, <1>8, <2>1
<1>13. \A k \in 2 .. Len(cs) : RankedAt(Last(cs[k - 1])) + 1 - RankedAt(Head(cs[k])) \in 0 .. overlap
  BY ONLY <1>2, <1>8, <1>9
<1> QED  BY ONLY <1>10, <1>11, <1>12, <1>13 DEF Covers, RankedAt

LEMMA LargerIs ==
  ASSUME NEW m \in Nat, NEW n \in Nat
  PROVE  Larger(m, n) \in Nat /\ m <= Larger(m, n) /\ n <= Larger(m, n)
BY DEF Larger

\* The chunks of a text that is too large for one are linked.
SemanticLinks(W, text, chunks, largest, overlap) ==
  /\ chunks \in Seq(Seq(W)) /\ Len(chunks) \in Nat \ {0}
  /\ AreLinked(text, chunks, Len(chunks), Len(text), largest, overlap)
LEMMA SemanticLoop ==
  ASSUME NEW W, NEW text, text \in Seq(W), text # <<>>,
         NEW maxWords \in Nat \ {0}, NEW target \in Nat, NEW overlap \in Nat,
         ~(Len(text) <= maxWords),
         NEW largest \in Nat, target <= largest, overlap + maxWords <= largest
  PROVE  SemanticLinks(W, text, SemanticChunks(text, target, maxWords, overlap),
                       largest, overlap)
<1> DEFINE ss == RecursiveSplit(text, maxWords)
           n == Len(ss)
           chunks == SemanticChunks(text, target, maxWords, overlap)
<1>1. ss \in Seq(Seq(W)) /\ FlattenSeq(ss) = text /\ \A k \in 1 .. n : Len(ss[k]) \in 1 .. maxWords
  BY RecursiveSplitIs DEF Splits
<1>2. SemAfter(W, ss, target, overlap, chunks)
  BY ONLY <1>1, text # <<>>, ~(Len(text) <= maxWords), overlap \in Nat, SemanticSteps
<1> HIDE DEF ss, chunks
<1>3. n \in Nat /\ \A k \in 1 .. n : ss[k] \in Seq(W)
  BY ONLY <1>1, LenProperties, ElementOfSeq
<1>4. NoneEmpty(ss)
  <2> SUFFICES ASSUME NEW k \in 1 .. Len(ss) PROVE ss[k] # <<>>
    BY DEF NoneEmpty
  <2>1. Len(ss[k]) \in Nat \ {0}
    BY ONLY <1>1, maxWords \in Nat \ {0}, k \in 1 .. Len(ss)
  <2> QED  BY ONLY <2>1, NotEmpty
<1>5. PICK h \in [0 .. n -> Packing(W)] :
        SemSteps(ss, target, overlap, h) /\ chunks = Closed(h[n])
  BY ONLY <1>2 DEF SemAfter
<1>6. /\ h[0] = [chunks |-> <<>>, current |-> <<>>]
      /\ \A i \in 1 .. n : h[i] = SemAdd(h[i - 1], ss[i], target, overlap)
  BY ONLY <1>5 DEF SemSteps
<1>7. PICK pos : EndsOf(ss, text, n, pos)
  <2>1. \E pos : EndsOf(ss, FlattenSeq(ss), Len(ss), pos)
    BY ONLY <1>1, <1>4, FlattenPositions
  <2> QED  BY ONLY <1>1, <2>1
<1>8. /\ pos \in [0 .. n -> Nat] /\ pos[0] = 0 /\ pos[n] = Len(text)
      /\ \A i \in 1 .. n : pos[i] = pos[i - 1] + Len(ss[i]) /\ pos[i] <= Len(text)
  BY ONLY <1>7 DEF EndsOf
<1>9. \A i \in 1 .. n : ss[i] = SubSeq(text, pos[i - 1] + 1, pos[i])
  BY ONLY <1>7 DEF EndsOf
<1> HIDE DEF n
<1>10. Len(text) \in Nat \ {0}
  BY ONLY text \in Seq(W), text # <<>>, EmptySeq
<1>11. n \in Nat \ {0}
  BY ONLY <1>3, <1>8, <1>10
<1>12. \A i \in 1 .. n : Len(ss[i]) \in 1 .. maxWords
  BY ONLY <1>1 DEF n
<1>13. \A i \in 1 .. n : pos[i] \in 1 .. Len(text)
  <2> TAKE i \in 1 .. n
  <2>1. pos[i - 1] \in Nat /\ pos[i] \in Nat
    <3>1. i - 1 \in 0 .. n /\ i \in 0 .. n
      BY ONLY <1>3, i \in 1 .. n
    <3> QED  BY ONLY <1>8, <3>1
  <2>2. Len(ss[i]) \in Nat \ {0} /\ pos[i] = pos[i - 1] + Len(ss[i]) /\ pos[i] <= Len(text)
    BY ONLY <1>8, <1>12, maxWords \in Nat \ {0}, i \in 1 .. n
  <2> QED  BY ONLY <1>10, <2>1, <2>2
<1> DEFINE Ok(i) == i # 0 => SemKeeps(W, text, h[i], pos[i], largest, overlap)
           S == {i \in 0 .. n : Ok(i)}
<1>14. ASSUME NEW i \in 1 .. n, Ok(i - 1) PROVE Ok(i)
  <2> DEFINE last == pos[i - 1]
             z == pos[i]
             segment == ss[i]
             p == h[i - 1]
  <2>1. z \in 1 .. Len(text) /\ segment = SubSeq(text, last + 1, z)
        /\ h[i] = SemAdd(p, segment, target, overlap)
        /\ z = last + Len(segment) /\ Len(segment) \in 1 .. maxWords
    BY ONLY <1>6, <1>8, <1>9, <1>12, <1>13, i \in 1 .. n
  <2>0. /\ \E d \in 1 .. maxWords : z = last + d
        /\ last \in Nat /\ z \in Nat
    <3>1. i - 1 \in 0 .. n
      BY ONLY <1>3, i \in 1 .. n
    <3>2. last \in Nat
      BY ONLY <1>8, <3>1
    <3>3. Len(segment) \in 1 .. maxWords /\ z = last + Len(segment)
      BY ONLY <2>1, Zenon
    <3> HIDE DEF last, z, segment
    <3> QED  BY ONLY <3>2, <3>3, maxWords \in Nat \ {0}
  <2>2. CASE i - 1 = 0
    <3>1. last = 0 /\ p = [chunks |-> <<>>, current |-> <<>>]
      BY ONLY <1>6, <1>8, <2>2
    <3> HIDE DEF last, z, segment, p
    <3>2. z <= largest /\ last + 1 = 1
      BY ONLY <2>0, <3>1, maxWords \in Nat \ {0}, overlap \in Nat, largest \in Nat,
              overlap + maxWords <= largest
    <3>3. segment = SubSeq(text, 1, z)
      BY ONLY <2>1, <3>2
    <3>4. SemKeeps(W, text, SemAdd(p, segment, target, overlap), z, largest, overlap)
      BY ONLY <2>1, <3>1, <3>2, <3>3, text \in Seq(W), overlap \in Nat, largest \in Nat, SemFirst
    <3> QED  BY ONLY <2>1, <3>4 DEF z
  <2>3. CASE i - 1 # 0
    <3>1. i - 1 \in 1 .. n
      BY ONLY <1>3, <2>3, i \in 1 .. n
    <3>2. last \in 1 .. Len(text)
      BY ONLY <1>13, <3>1
    <3>3. SemKeeps(W, text, p, last, largest, overlap)
      BY ONLY <1>14, <2>3
    <3> HIDE DEF last, z, segment, p
    <3>4. last < z /\ overlap + (z - last) <= largest
      BY ONLY <2>0, maxWords \in Nat \ {0}, overlap \in Nat, largest \in Nat,
              overlap + maxWords <= largest
    <3>5. SemKeeps(W, text, SemAdd(p, segment, target, overlap), z, largest, overlap)
      BY ONLY <2>1, <3>2, <3>3, <3>4, text \in Seq(W), target \in Nat, overlap \in Nat,
              largest \in Nat, target <= largest, SemAddKeeps
    <3> QED  BY ONLY <2>1, <3>5 DEF z
  <2> QED  BY ONLY <2>2, <2>3
<1>15. Ok(n)
  <2> HIDE DEF Ok
  <2>1. 0 \in S
    <3>1. Ok(0)
      BY DEF Ok
    <3> QED  BY ONLY <1>3, <1>11, <3>1
  <2>2. \A k \in 0 .. n - 1 : k \in S => k + 1 \in S
    <3> TAKE k \in 0 .. n - 1
    <3>1. k + 1 \in 1 .. n /\ (k + 1) - 1 = k /\ k + 1 \in 0 .. n
      BY ONLY <1>11, k \in 0 .. n - 1
    <3> QED  BY ONLY <1>14, <3>1
  <2>3. \A k \in 0 .. n : k \in S
    <3> HIDE DEF S
    <3>1. n \in Nat
      BY ONLY <1>11
    <3> QED  BY ONLY <2>1, <2>2, <3>1, Upwards
  <2> QED  BY ONLY <1>11, <2>3
<1> DEFINE p == h[n]
           cs == Append(p.chunks, p.current)
<1>16. /\ p \in Packing(W) /\ p.current # <<>>
       /\ AreLinked(text, cs, Len(p.chunks) + 1, Len(text), largest, overlap)
  BY ONLY <1>8, <1>11, <1>15 DEF SemKeeps
<1>17. chunks = cs
  BY ONLY <1>5, <1>16 DEF Closed
<1> HIDE DEF p
<1>18. p.chunks \in Seq(Seq(W)) /\ p.current \in Seq(W)
  BY ONLY <1>16 DEF Packing
<1>19. cs \in Seq(Seq(W)) /\ Appended(p.chunks, p.current, cs)
  BY ONLY <1>18, AppendIs
<1> HIDE DEF cs
<1>20. Len(cs) = Len(p.chunks) + 1 /\ Len(cs) \in Nat \ {0}
  BY ONLY <1>19 DEF Appended
<1> QED  BY ONLY <1>16, <1>17, <1>19, <1>20 DEF SemanticLinks, chunks

\* Overlapping chunks cover a text and repeat no more than they are asked to, whatever
\* the text and the sizes (semantic_chunk_text of lib/llm/text.py).
THEOREM OverlapBounded ==
  ASSUME NEW W, NEW text, text \in Seq(W), OnceOnly(text),
         NEW maxWords \in Nat \ {0}, NEW target \in Nat, NEW overlap \in Nat
  PROVE  OverlapIsBounded(text, target, maxWords, overlap)
<1> DEFINE inner == Larger(target, maxWords)
           largest == Larger(inner, overlap + maxWords)
           chunks == SemanticChunks(text, target, maxWords, overlap)
<1> SUFFICES ASSUME text # <<>> PROVE Covers(chunks, text, largest, overlap)
  BY DEF OverlapIsBounded
<1>1. /\ target <= largest /\ maxWords <= largest /\ overlap + maxWords <= largest
      /\ largest \in Nat
  <2>1. maxWords \in Nat /\ overlap + maxWords \in Nat
    OBVIOUS
  <2>2. inner \in Nat /\ target <= inner /\ maxWords <= inner
    BY ONLY <2>1, target \in Nat, LargerIs
  <2> HIDE DEF inner
  <2>3. largest \in Nat /\ inner <= largest /\ overlap + maxWords <= largest
    BY ONLY <2>1, <2>2, LargerIs
  <2> HIDE DEF largest
  <2> QED  BY ONLY <2>1, <2>2, <2>3, target \in Nat
<1> HIDE DEF inner, largest
<1>2. Len(text) \in Nat \ {0}
  BY EmptySeq
<1>3. CASE Len(text) <= maxWords
  <2> DEFINE last == Len(text)
  <2>1. chunks = <<text>>
    BY ONLY text # <<>>, <1>3 DEF SemanticChunks
  <2>2. /\ <<text>> \in Seq(Seq(W)) /\ Len(<<text>>) = 1 /\ <<text>>[1] = text
    BY ONLY text \in Seq(W)
  <2>3. SubSeq(text, 1, last) = text
    BY ONLY text \in Seq(W), SubSeqFull
  <2>4. last \in 1 .. Len(text) /\ last <= largest
    BY ONLY <1>1, <1>2, <1>3, maxWords \in Nat \ {0}
  <2> HIDE DEF last
  <2>5. AreLinked(text, <<text>>, 1, last, largest, overlap)
    BY ONLY <1>1, <2>2, <2>3, <2>4, text \in Seq(W), LinkFirst
  <2>6. AreLinked(text, <<text>>, Len(<<text>>), Len(text), largest, overlap)
    BY ONLY <2>2, <2>5 DEF last
  <2>7. Len(<<text>>) \in Nat \ {0}
    BY ONLY <2>2
  <2> DEFINE cs == <<text>>
  <2>8. cs \in Seq(Seq(W)) /\ Len(cs) \in Nat \ {0} /\ chunks = cs
        /\ AreLinked(text, cs, Len(cs), Len(text), largest, overlap)
    BY ONLY <2>1, <2>2, <2>6, <2>7
  <2> HIDE DEF cs, chunks
  <2> QED  BY ONLY <1>1, <2>8, text \in Seq(W), OnceOnly(text), overlap \in Nat, LinkedCover
<1>4. CASE ~(Len(text) <= maxWords)
  <2>1. SemanticLinks(W, text, chunks, largest, overlap)
    BY ONLY <1>1, <1>4, text \in Seq(W), text # <<>>, maxWords \in Nat \ {0},
            target \in Nat, overlap \in Nat, SemanticLoop
  <2> HIDE DEF chunks
  <2>2. /\ chunks \in Seq(Seq(W)) /\ Len(chunks) \in Nat \ {0}
        /\ AreLinked(text, chunks, Len(chunks), Len(text), largest, overlap)
    BY ONLY <2>1 DEF SemanticLinks
  <2> QED  BY ONLY <1>1, <2>2, text \in Seq(W), OnceOnly(text), overlap \in Nat, LinkedCover
<1> QED  BY ONLY <1>3, <1>4

-----------------------------------------------------------------------------
(* Where the elements of several sequences are when they are put in a row *)

OffsetsOf(ss, off) ==
  /\ off \in [0 .. Len(ss) -> Nat] /\ off[0] = 0
  /\ \A i \in 1 .. Len(ss) : off[i] = off[i - 1] + Len(ss[i])
  /\ \A i, k \in 0 .. Len(ss) : i <= k => off[i] <= off[k]
PlacedTo(ss, n, t, off) ==
  /\ Len(t) = off[n]
  /\ \A i \in 1 .. n : \A j \in 1 .. Len(ss[i]) : t[off[i - 1] + j] = ss[i][j]
  /\ \A k \in 1 .. Len(t) : \E i \in 1 .. n : \E j \in 1 .. Len(ss[i]) : k = off[i - 1] + j
Placed(ss, t) == \E off : OffsetsOf(ss, off) /\ PlacedTo(ss, Len(ss), t, off)

\* Numbers that never fall from one to the next.
LEMMA Growing ==
  ASSUME NEW n \in Nat, NEW off, off \in [0 .. n -> Nat],
         \A i \in 1 .. n : off[i - 1] <= off[i]
  PROVE  \A i, k \in 0 .. n : i <= k => off[i] <= off[k]
<1> DEFINE S == {k \in 0 .. n : \A i \in 0 .. k : off[i] <= off[k]}
<1>1. 0 \in S
  <2>1. 0 \in 0 .. n /\ \A i \in 0 .. 0 : i = 0
    OBVIOUS
  <2>2. off[0] \in Nat
    BY ONLY <2>1, off \in [0 .. n -> Nat]
  <2> QED  BY ONLY <2>1, <2>2
<1>2. \A k \in 0 .. n - 1 : k \in S => k + 1 \in S
  <2> SUFFICES ASSUME NEW k \in 0 .. n - 1, k \in S PROVE k + 1 \in S
    OBVIOUS
  <2>1. k + 1 \in 1 .. n /\ (k + 1) - 1 = k /\ k + 1 \in 0 .. n /\ k \in 0 .. n
    OBVIOUS
  <2>2. off[k] <= off[k + 1] /\ off[k] \in Nat /\ off[k + 1] \in Nat
    BY ONLY <2>1, off \in [0 .. n -> Nat], \A i \in 1 .. n : off[i - 1] <= off[i]
  <2>3. \A i \in 0 .. k + 1 : i = k + 1 \/ i \in 0 .. k
    BY ONLY <2>1
  <2>4. \A i \in 0 .. k : off[i] <= off[k] /\ off[i] \in Nat
    <3> TAKE i \in 0 .. k
    <3>1. i \in 0 .. n
      BY ONLY <2>1, i \in 0 .. k, n \in Nat
    <3> QED  BY ONLY <3>1, off \in [0 .. n -> Nat], k \in S
  <2>5. \A i \in 0 .. k + 1 : off[i] <= off[k + 1]
    <3> TAKE i \in 0 .. k + 1
    <3>1. CASE i = k + 1
      BY ONLY <2>2, <3>1
    <3>2. CASE i \in 0 .. k
      <4>1. off[i] <= off[k] /\ off[i] \in Nat
        BY ONLY <2>4, <3>2
      <4> QED  BY ONLY <2>2, <4>1
    <3> QED  BY ONLY <2>3, <3>1, <3>2
  <2> QED  BY ONLY <2>1, <2>5
<1>3. \A k \in 0 .. n : k \in S
  <2> HIDE DEF S
  <2> QED  BY ONLY <1>1, <1>2, n \in Nat, Upwards
<1>4. \A i, k \in 0 .. n : i <= k => i \in 0 .. k
  OBVIOUS
<1> QED  BY ONLY <1>3, <1>4

\* Two sequences in a row.
Joined(s, t, st) ==
  /\ Len(st) = Len(s) + Len(t)
  /\ \A k \in 1 .. Len(s) : st[k] = s[k]
  /\ \A j \in 1 .. Len(t) : st[Len(s) + j] = t[j]
LEMMA JoinedIs ==
  ASSUME NEW W, NEW s, s \in Seq(W), NEW t, t \in Seq(W)
  PROVE  Joined(s, t, s \o t)
<1>1. /\ Len(s \o t) = Len(s) + Len(t)
      /\ \A k \in 1 .. Len(s) + Len(t) : (s \o t)[k] = IF k <= Len(s) THEN s[k] ELSE t[k - Len(s)]
  BY ONLY s \in Seq(W), t \in Seq(W), ConcatProperties
<1>2. Len(s) \in Nat /\ Len(t) \in Nat
  BY ONLY s \in Seq(W), t \in Seq(W), LenProperties
<1> DEFINE a == Len(s)
           b == Len(t)
           st == s \o t
<1>3. a \in Nat /\ b \in Nat
  BY ONLY <1>2
<1>4. \A k \in 1 .. a + b : st[k] = IF k <= a THEN s[k] ELSE t[k - a]
  BY ONLY <1>1
<1> HIDE DEF a, b, st
<1>5. \A k \in 1 .. a : k \in 1 .. a + b /\ k <= a
  BY ONLY <1>3
<1>6. \A j \in 1 .. b : a + j \in 1 .. a + b /\ ~(a + j <= a) /\ (a + j) - a = j
  BY ONLY <1>3
<1>7. \A k \in 1 .. a : st[k] = s[k]
  BY ONLY <1>4, <1>5
<1>8. \A j \in 1 .. b : st[a + j] = t[j]
  BY ONLY <1>4, <1>6
<1> QED  BY ONLY <1>1, <1>7, <1>8 DEF Joined, a, b, st

LEMMA FlattenPlaces ==
  ASSUME NEW W, NEW ss, ss \in Seq(Seq(W))
  PROVE  Placed(ss, FlattenSeq(ss))
<1> DEFINE n == Len(ss)
<1>1. n \in Nat /\ \A i \in 1 .. n : ss[i] \in Seq(W)
  BY ONLY ss \in Seq(Seq(W)), LenProperties, ElementOfSeq
<1>2. PICK h \in [0 .. n -> Seq(W)] : Flattens(ss, h) /\ FlattenSeq(ss) = h[n]
  BY ONLY ss \in Seq(Seq(W)), FlattenSteps
<1>3. h[0] = <<>> /\ \A i \in 1 .. n : h[i] = h[i - 1] \o ss[i]
  BY ONLY <1>2 DEF Flattens
<1> HIDE DEF n
<1> DEFINE off == [i \in 0 .. n |-> Len(h[i])]
<1>4. \A i \in 0 .. n : h[i] \in Seq(W) /\ off[i] = Len(h[i]) /\ off[i] \in Nat
  BY ONLY h \in [0 .. n -> Seq(W)], LenProperties
<1>5. off \in [0 .. n -> Nat]
  BY ONLY <1>4
<1>6. off[0] = 0
  BY ONLY <1>1, <1>3, <1>4, EmptySeq
<1> HIDE DEF off
<1>7. ASSUME NEW i \in 1 .. n
      PROVE  /\ i \in 0 .. n /\ i - 1 \in 0 .. n /\ h[i - 1] \in Seq(W) /\ ss[i] \in Seq(W)
             /\ Len(ss[i]) \in Nat /\ off[i - 1] \in Nat /\ off[i] \in Nat
             /\ off[i] = off[i - 1] + Len(ss[i])
             /\ \A k \in 1 .. off[i - 1] : h[i][k] = h[i - 1][k]
             /\ \A j \in 1 .. Len(ss[i]) : h[i][off[i - 1] + j] = ss[i][j]
  <2>1. i \in 0 .. n /\ i - 1 \in 0 .. n
    BY ONLY <1>1, i \in 1 .. n
  <2>2. h[i - 1] \in Seq(W) /\ ss[i] \in Seq(W) /\ h[i] = h[i - 1] \o ss[i]
    BY ONLY <1>1, <1>3, <1>4, <2>1, i \in 1 .. n
  <2>3. Joined(h[i - 1], ss[i], h[i])
    BY ONLY <2>2, JoinedIs
  <2>4. off[i - 1] = Len(h[i - 1]) /\ off[i] = Len(h[i]) /\ off[i - 1] \in Nat /\ off[i] \in Nat
    BY ONLY <1>4, <2>1
  <2>5. Len(ss[i]) \in Nat
    BY ONLY <2>2, LenProperties
  <2> QED  BY ONLY <2>1, <2>2, <2>3, <2>4, <2>5 DEF Joined
<1>8. OffsetsOf(ss, off)
  <2>1. \A i \in 1 .. n : off[i - 1] <= off[i]
    <3> TAKE i \in 1 .. n
    <3>1. Len(ss[i]) \in Nat /\ off[i - 1] \in Nat /\ off[i] = off[i - 1] + Len(ss[i])
      BY ONLY <1>7, i \in 1 .. n
    <3> QED  BY ONLY <3>1
  <2>2. \A i, k \in 0 .. n : i <= k => off[i] <= off[k]
    BY ONLY <1>1, <1>5, <2>1, Growing
  <2>3. \A i \in 1 .. n : off[i] = off[i - 1] + Len(ss[i])
    BY ONLY <1>7
  <2> QED  BY ONLY <1>5, <1>6, <2>2, <2>3 DEF OffsetsOf, n
<1> DEFINE S == {m \in 0 .. n : PlacedTo(ss, m, h[m], off)}
<1>9. 0 \in S
  <2>1. Len(<<>>) = 0 /\ \A k \in 1 .. 0 : FALSE
    BY EmptySeq
  <2>2. PlacedTo(ss, 0, <<>>, off)
    BY ONLY <1>6, <2>1 DEF PlacedTo
  <2> QED  BY ONLY <1>1, <1>3, <2>2
<1>10. \A m \in 0 .. n - 1 : m \in S => m + 1 \in S
  <2> SUFFICES ASSUME NEW m \in 0 .. n - 1, m \in S PROVE m + 1 \in S
    OBVIOUS
  <2> DEFINE i == m + 1
  <2>1. i \in 1 .. n /\ i - 1 = m /\ i \in 0 .. n /\ m \in 0 .. n /\ m \in Nat
    BY ONLY <1>1, m \in 0 .. n - 1
  <2>2. /\ Len(h[m]) = off[m]
        /\ \A k \in 1 .. m : \A j \in 1 .. Len(ss[k]) : h[m][off[k - 1] + j] = ss[k][j]
        /\ \A x \in 1 .. off[m] : \E k \in 1 .. m : \E j \in 1 .. Len(ss[k]) : x = off[k - 1] + j
    BY ONLY m \in S DEF PlacedTo
  <2>3. /\ off[m] \in Nat /\ Len(ss[i]) \in Nat /\ off[i] = off[m] + Len(ss[i])
        /\ \A k \in 1 .. off[m] : h[i][k] = h[m][k]
        /\ \A j \in 1 .. Len(ss[i]) : h[i][off[m] + j] = ss[i][j]
    <3>1. off[i - 1] = off[m] /\ h[i - 1] = h[m]
      BY ONLY <2>1
    <3> QED  BY ONLY <1>7, <2>1, <3>1
  <2>4. \A k \in 1 .. i : k \in 1 .. m \/ k = i
    BY ONLY <2>1
  <2>5. \A k \in 1 .. m : k \in 1 .. i /\ k \in 1 .. n
    BY ONLY <1>1, <2>1
  <2>6. i \in 1 .. i
    BY ONLY <2>1
  <2> HIDE DEF i
  <2>7. ASSUME NEW k \in 1 .. i, NEW j \in 1 .. Len(ss[k]) PROVE h[i][off[k - 1] + j] = ss[k][j]
    <3>1. CASE k = i
      BY ONLY <2>1, <2>3, <3>1, j \in 1 .. Len(ss[k])
    <3>2. CASE k \in 1 .. m
      <4>1. /\ k \in 1 .. n /\ k \in 0 .. n /\ off[k - 1] \in Nat /\ Len(ss[k]) \in Nat
            /\ off[k] = off[k - 1] + Len(ss[k]) /\ off[k] \in Nat
        BY ONLY <1>7, <2>5, <3>2
      <4>2. k <= m
        BY ONLY <2>1, <3>2
      <4>3. off[k] <= off[m]
        BY ONLY <1>8, <2>1, <4>1, <4>2 DEF OffsetsOf, n
      <4>4. off[k - 1] + j \in 1 .. off[m]
        BY ONLY <2>3, <4>1, <4>3, j \in 1 .. Len(ss[k])
      <4> QED  BY ONLY <2>2, <2>3, <3>2, <4>4, j \in 1 .. Len(ss[k])
    <3> QED  BY ONLY <2>4, <3>1, <3>2, k \in 1 .. i
  <2>8. ASSUME NEW x \in 1 .. off[i]
        PROVE  \E k \in 1 .. i : \E j \in 1 .. Len(ss[k]) : x = off[k - 1] + j
    <3>1. CASE x \in 1 .. off[m]
      BY ONLY <2>2, <2>5, <3>1
    <3>2. CASE ~(x \in 1 .. off[m])
      <4>1. x - off[m] \in 1 .. Len(ss[i]) /\ x = off[m] + (x - off[m])
        BY ONLY <2>3, <3>2, x \in 1 .. off[i]
      <4> QED  BY ONLY <2>1, <2>6, <4>1
    <3> QED  BY ONLY <3>1, <3>2
  <2>9. Len(h[i]) = off[i]
    BY ONLY <1>4, <2>1
  <2>10. PlacedTo(ss, i, h[i], off)
    BY ONLY <2>7, <2>8, <2>9 DEF PlacedTo
  <2> QED  BY ONLY <2>1, <2>10 DEF i
<1>11. \A m \in 0 .. n : m \in S
  <2> HIDE DEF S
  <2> QED  BY ONLY <1>1, <1>9, <1>10, Upwards
<1>12. n \in 0 .. n
  BY ONLY <1>1
<1>13. PlacedTo(ss, n, FlattenSeq(ss), off)
  BY ONLY <1>2, <1>11, <1>12
<1> QED  BY ONLY <1>8, <1>13 DEF Placed, n

\* A place in one of them is a place in all.
LEMMA PlaceInRange ==
  ASSUME NEW ss, Len(ss) \in Nat, NEW t, NEW off, OffsetsOf(ss, off), PlacedTo(ss, Len(ss), t, off),
         NEW i \in 1 .. Len(ss), Len(ss[i]) \in Nat, NEW j \in 1 .. Len(ss[i])
  PROVE  off[i - 1] + j \in 1 .. Len(t)
<1> DEFINE n == Len(ss)
<1>1. i \in 0 .. n /\ i - 1 \in 0 .. n /\ n \in 0 .. n /\ i <= n
  OBVIOUS
<1>2. off[i - 1] \in Nat /\ off[i] \in Nat /\ off[n] \in Nat /\ off[i] <= off[n]
  BY ONLY <1>1, OffsetsOf(ss, off) DEF OffsetsOf
<1>3. off[i] = off[i - 1] + Len(ss[i])
  BY ONLY OffsetsOf(ss, off), i \in 1 .. Len(ss) DEF OffsetsOf
<1>4. Len(t) = off[n]
  BY ONLY PlacedTo(ss, Len(ss), t, off) DEF PlacedTo
<1> QED  BY ONLY <1>2, <1>3, <1>4, Len(ss[i]) \in Nat, j \in 1 .. Len(ss[i])

-----------------------------------------------------------------------------
(* Sorting by rank: the place of an element is the number of those before it *)

StrictOrder(n, R) ==
  /\ \A i \in 1 .. n : ~(<<i, i>> \in R)
  /\ \A i, k \in 1 .. n : i # k => <<i, k>> \in R \/ <<k, i>> \in R
  /\ \A i, j, k \in 1 .. n : <<i, j>> \in R /\ <<j, k>> \in R => <<i, k>> \in R
Below(n, R, i) == {k \in 1 .. n : <<k, i>> \in R}
RankOf(n, R, i) == Cardinality(Below(n, R, i))
SortedBy(n, R, at) ==
  /\ \A r \in 1 .. n : at[r] \in 1 .. n
  /\ \A i \in 1 .. n : \E r \in 1 .. n : at[r] = i
  /\ \A r, q \in 1 .. n : r < q => <<at[r], at[q]>> \in R

LEMMA RankGrows ==
  ASSUME NEW n \in Nat, NEW R, StrictOrder(n, R)
  PROVE  /\ \A i \in 1 .. n : RankOf(n, R, i) \in 0 .. n - 1
         /\ \A i, k \in 1 .. n : <<i, k>> \in R => RankOf(n, R, i) < RankOf(n, R, k)
<1>1. IsFiniteSet(1 .. n) /\ Cardinality(1 .. n) = n
  <2>1. IsFiniteSet(1 .. n) /\ Cardinality(1 .. n) = IF 1 > n THEN 0 ELSE n - 1 + 1
    BY ONLY n \in Nat, FS_Interval
  <2> QED  BY ONLY <2>1, n \in Nat
<1>2. \A i \in 1 .. n : /\ Below(n, R, i) \in SUBSET (1 .. n) /\ IsFiniteSet(Below(n, R, i))
                        /\ RankOf(n, R, i) \in Nat
  <2> TAKE i \in 1 .. n
  <2>1. Below(n, R, i) \in SUBSET (1 .. n)
    BY DEF Below
  <2>2. IsFiniteSet(Below(n, R, i))
    BY ONLY <1>1, <2>1, FS_Subset
  <2> QED  BY ONLY <2>1, <2>2, FS_CardinalityType DEF RankOf
<1>3. \A i \in 1 .. n : RankOf(n, R, i) \in 0 .. n - 1
  <2> TAKE i \in 1 .. n
  <2> DEFINE B == Below(n, R, i)
  <2>1. i \notin B
    BY ONLY StrictOrder(n, R), i \in 1 .. n DEF StrictOrder, Below
  <2>2. B \in SUBSET (1 .. n) /\ IsFiniteSet(B) /\ Cardinality(B) \in Nat /\ Cardinality(B) = RankOf(n, R, i)
    BY ONLY <1>2, i \in 1 .. n DEF RankOf
  <2> HIDE DEF B
  <2>3. Cardinality(B) <= n /\ (n = Cardinality(B) => 1 .. n = B)
    <3> DEFINE A == 1 .. n
    <3>1. IsFiniteSet(A) /\ Cardinality(A) = n /\ B \in SUBSET A
      BY ONLY <1>1, <2>2
    <3> HIDE DEF A
    <3>2. Cardinality(B) <= Cardinality(A) /\ (Cardinality(A) = Cardinality(B) => A = B)
      BY ONLY <3>1, FS_Subset
    <3> QED  BY ONLY <3>1, <3>2 DEF A
  <2> QED  BY ONLY <2>1, <2>2, <2>3, i \in 1 .. n, n \in Nat
<1>4. ASSUME NEW i \in 1 .. n, NEW k \in 1 .. n, <<i, k>> \in R
      PROVE  RankOf(n, R, i) < RankOf(n, R, k)
  <2> DEFINE B == Below(n, R, i)
             D == Below(n, R, k)
  <2>1. i \in D /\ i \notin B
    BY ONLY StrictOrder(n, R), <1>4 DEF StrictOrder, Below
  <2>2. B \subseteq D
    BY ONLY StrictOrder(n, R), <1>4 DEF StrictOrder, Below
  <2>3. /\ IsFiniteSet(B) /\ IsFiniteSet(D) /\ Cardinality(B) \in Nat /\ Cardinality(D) \in Nat
        /\ Cardinality(B) = RankOf(n, R, i) /\ Cardinality(D) = RankOf(n, R, k)
    BY ONLY <1>2 DEF RankOf
  <2> HIDE DEF B, D
  <2>4. B \in SUBSET D
    BY ONLY <2>2
  <2>5. Cardinality(B) <= Cardinality(D) /\ (Cardinality(D) = Cardinality(B) => D = B)
    BY ONLY <2>3, <2>4, FS_Subset
  <2> QED  BY ONLY <2>1, <2>3, <2>5
<1> QED  BY ONLY <1>3, <1>4

\* Every rank is taken.
LEMMA RanksAreTaken ==
  ASSUME NEW n \in Nat, NEW R, StrictOrder(n, R)
  PROVE  \A r \in 1 .. n : \E i \in 1 .. n : RankOf(n, R, i) = r - 1
<1> DEFINE rank == [i \in 1 .. n |-> RankOf(n, R, i)]
<1>1. /\ \A i \in 1 .. n : RankOf(n, R, i) \in 0 .. n - 1
      /\ \A i, k \in 1 .. n : <<i, k>> \in R => RankOf(n, R, i) < RankOf(n, R, k)
  BY ONLY n \in Nat, StrictOrder(n, R), RankGrows
<1>2. rank \in [1 .. n -> 0 .. n - 1] /\ \A i \in 1 .. n : rank[i] = RankOf(n, R, i)
  BY ONLY <1>1
<1> HIDE DEF rank
<1>3. \A i, k \in 1 .. n : rank[i] = rank[k] => i = k
  <2> SUFFICES ASSUME NEW i \in 1 .. n, NEW k \in 1 .. n, rank[i] = rank[k], i # k PROVE FALSE
    OBVIOUS
  <2>1. <<i, k>> \in R \/ <<k, i>> \in R
    BY ONLY StrictOrder(n, R), i \in 1 .. n, k \in 1 .. n, i # k DEF StrictOrder
  <2>2. rank[i] < rank[k] \/ rank[k] < rank[i]
    BY ONLY <1>1, <1>2, <2>1, i \in 1 .. n, k \in 1 .. n
  <2>3. rank[i] \in 0 .. n - 1 /\ rank[k] \in 0 .. n - 1
    BY ONLY <1>2, i \in 1 .. n, k \in 1 .. n
  <2> QED  BY ONLY <2>2, <2>3, rank[i] = rank[k]
<1>4. rank \in Injection(1 .. n, 0 .. n - 1)
  BY ONLY <1>2, <1>3 DEF Injection, IsInjective
<1>5. /\ Cardinality(1 .. n) = n /\ IsFiniteSet(0 .. n - 1) /\ Cardinality(0 .. n - 1) = n
  <2>1. Cardinality(1 .. n) = IF 1 > n THEN 0 ELSE n - 1 + 1
    BY ONLY n \in Nat, FS_Interval
  <2>2. n - 1 \in Int /\ 0 \in Int
    BY ONLY n \in Nat
  <2>3. /\ IsFiniteSet(0 .. n - 1)
        /\ Cardinality(0 .. n - 1) = IF 0 > n - 1 THEN 0 ELSE (n - 1) - 0 + 1
    BY ONLY <2>2, FS_Interval
  <2> QED  BY ONLY <2>1, <2>3, n \in Nat
<1>6. rank \in Surjection(1 .. n, 0 .. n - 1)
  BY ONLY <1>4, <1>5, FS_Injection
<1>7. \A t \in 0 .. n - 1 : \E i \in 1 .. n : rank[i] = t
  BY ONLY <1>6 DEF Surjection
<1>8. \A r \in 1 .. n : r - 1 \in 0 .. n - 1
  BY ONLY n \in Nat
<1> QED  BY ONLY <1>2, <1>7, <1>8

\* What is put in the places of the ranks is sorted.
LEMMA SortedByRank ==
  ASSUME NEW n \in Nat, NEW R, StrictOrder(n, R), NEW at,
         \A r \in 1 .. n : (\E i \in 1 .. n : RankOf(n, R, i) = r - 1)
                             => at[r] \in 1 .. n /\ RankOf(n, R, at[r]) = r - 1
  PROVE  SortedBy(n, R, at)
<1>1. \A r \in 1 .. n : at[r] \in 1 .. n /\ RankOf(n, R, at[r]) = r - 1
  BY ONLY n \in Nat, StrictOrder(n, R), RanksAreTaken,
     \A r \in 1 .. n : (\E i \in 1 .. n : RankOf(n, R, i) = r - 1)
                         => at[r] \in 1 .. n /\ RankOf(n, R, at[r]) = r - 1
<1>2. /\ \A i \in 1 .. n : RankOf(n, R, i) \in 0 .. n - 1
      /\ \A i, k \in 1 .. n : <<i, k>> \in R => RankOf(n, R, i) < RankOf(n, R, k)
  BY ONLY n \in Nat, StrictOrder(n, R), RankGrows
<1>3. \A i, k \in 1 .. n : RankOf(n, R, i) = RankOf(n, R, k) => i = k
  <2> SUFFICES ASSUME NEW i \in 1 .. n, NEW k \in 1 .. n, RankOf(n, R, i) = RankOf(n, R, k), i # k
      PROVE  FALSE
    OBVIOUS
  <2>1. <<i, k>> \in R \/ <<k, i>> \in R
    BY ONLY StrictOrder(n, R), i \in 1 .. n, k \in 1 .. n, i # k DEF StrictOrder
  <2>2. RankOf(n, R, i) < RankOf(n, R, k) \/ RankOf(n, R, k) < RankOf(n, R, i)
    BY ONLY <1>2, <2>1
  <2>3. RankOf(n, R, i) \in 0 .. n - 1 /\ RankOf(n, R, k) \in 0 .. n - 1
    BY ONLY <1>2, i \in 1 .. n, k \in 1 .. n
  <2> QED  BY ONLY <2>2, <2>3, RankOf(n, R, i) = RankOf(n, R, k)
<1>4. ASSUME NEW i \in 1 .. n PROVE \E r \in 1 .. n : at[r] = i
  <2> DEFINE r == RankOf(n, R, i) + 1
  <2>1. r \in 1 .. n /\ r - 1 = RankOf(n, R, i)
    BY ONLY <1>2, n \in Nat
  <2> HIDE DEF r
  <2>2. at[r] = i
    BY ONLY <1>1, <1>3, <2>1
  <2> QED  BY ONLY <2>1, <2>2
<1>5. ASSUME NEW r \in 1 .. n, NEW q \in 1 .. n, r < q PROVE <<at[r], at[q]>> \in R
  <2>1. /\ at[r] \in 1 .. n /\ at[q] \in 1 .. n
        /\ RankOf(n, R, at[r]) = r - 1 /\ RankOf(n, R, at[q]) = q - 1
    BY ONLY <1>1
  <2>2. at[r] # at[q]
    BY ONLY <1>5, <2>1
  <2>3. <<at[r], at[q]>> \in R \/ <<at[q], at[r]>> \in R
    BY ONLY StrictOrder(n, R), <2>1, <2>2 DEF StrictOrder
  <2>4. <<at[q], at[r]>> \in R => q - 1 < r - 1
    BY ONLY <1>2, <2>1
  <2> QED  BY ONLY <1>5, <2>3, <2>4
<1> QED  BY ONLY <1>1, <1>4, <1>5 DEF SortedBy

-----------------------------------------------------------------------------
(* Filters of units: At *)

LEMMA InToSet ==
  ASSUME NEW W, NEW s, s \in Seq(W)
  PROVE  \A x : x \in ToSet(s) <=> ElementOf(x, s)
<1>1. DOMAIN s = 1 .. Len(s)
  BY ONLY s \in Seq(W), LenProperties
<1> QED  BY ONLY <1>1 DEF ElementOf, ToSet

\* What the filters read of the units.
UnitsOf(U) == \A u \in U : u.place \in Nat /\ u.faults \subseteq FormFilter
Ascending(s) == \A i, j \in 1 .. Len(s) : i < j => s[i].place < s[j].place

ChooseAdd(units, places, out, i) == IF i \in places THEN Append(out, units[i]) ELSE out
ChooseSteps(units, places, h) ==
  h[0] = <<>> /\ \A i \in 1 .. Len(units) : h[i] = ChooseAdd(units, places, h[i - 1], i)
ChosenAfter(U, units, places, last) ==
  \E h \in [0 .. Len(units) -> Seq(U)] : ChooseSteps(units, places, h) /\ last = h[Len(units)]

LEMMA ChooseAddType ==
  ASSUME NEW U, NEW units, NEW places, NEW i, units[i] \in U, NEW out, out \in Seq(U)
  PROVE  ChooseAdd(units, places, out, i) \in Seq(U)
<1>1. Append(out, units[i]) \in Seq(U)
  BY ONLY units[i] \in U, out \in Seq(U), AppendIs
<1> QED  BY ONLY <1>1, out \in Seq(U) DEF ChooseAdd

\* The loop over the units.
LEMMA AtSteps ==
  ASSUME NEW U, NEW units, units \in Seq(U), NEW places
  PROVE  ChosenAfter(U, units, places, At(units, places))
<1> DEFINE n == Len(units)
           V == Seq(U)
           v == <<>>
           s == [i \in DOMAIN units |-> i]
           step(out, i) == ChooseAdd(units, places, out, i)
           F == [i \in 1 .. n |-> [out \in V |-> step(out, i)]]
           Is(f) == f = [S \in SUBSET DOMAIN s |->
                           IF S = {} THEN v ELSE step(f[S \ {Max(S)}], s[Max(S)])]
           iter == CHOOSE f : Is(f)
<1>1. n \in Nat /\ v \in V
  BY ONLY units \in Seq(U), LenProperties, EmptySeq
<1>2. \A i \in 1 .. n : \A out \in V : step(out, i) \in V
  <2> TAKE i \in 1 .. n
  <2> TAKE out \in V
  <2>1. units[i] \in U
    BY ONLY units \in Seq(U), ElementOfSeq, i \in 1 .. n
  <2> QED  BY ONLY <2>1, out \in V, ChooseAddType
<1>3. F \in [1 .. n -> [V -> V]]
  <2> HIDE DEF step, V, n
  <2> QED  BY ONLY <1>2
<1>4. \A S \in SUBSET (1 .. n) : S # {} => Max(S) \in 1 .. n /\ S \ {Max(S)} \in SUBSET (1 .. n)
  <2> HIDE DEF n
  <2> QED  BY ONLY <1>1, MaxIn
<1>5. PICK g \in [SUBSET (1 .. n) -> V] :
        \A S \in SUBSET (1 .. n) : g[S] = IF S = {} THEN v ELSE F[Max(S)][g[S \ {Max(S)}]]
  <2> HIDE DEF F, V, n, v
  <2>1. Folded(V, n, v, F)
    BY ONLY <1>1, <1>3, FoldExists
  <2> QED  BY ONLY <2>1 DEF Folded, Folds
<1>6. DOMAIN s = 1 .. n
  <2>1. DOMAIN units = 1 .. n
    BY ONLY units \in Seq(U), LenProperties
  <2> QED  BY ONLY <2>1
<1>7. \A i \in 1 .. n : s[i] = i
  BY ONLY <1>6
<1>8. Is(g)
  <2> HIDE DEF step, V, n, v
  <2>1. ASSUME NEW S \in SUBSET (1 .. n)
        PROVE  g[S] = IF S = {} THEN v ELSE step(g[S \ {Max(S)}], Max(S))
    <3>1. CASE S = {}
      BY ONLY <1>5, <3>1, S \in SUBSET (1 .. n)
    <3>2. CASE S # {}
      BY ONLY <1>4, <1>5, <3>2, S \in SUBSET (1 .. n)
    <3> QED  BY ONLY <3>1, <3>2
  <2> HIDE DEF s
  <2>2. \A S \in SUBSET (1 .. n) : S # {} => s[Max(S)] = Max(S)
    BY ONLY <1>4, <1>7
  <2> QED  BY ONLY <1>5, <1>6, <2>1, <2>2
<1>9. Is(iter)
  <2> HIDE DEF Is
  <2> QED  BY <1>8
<1>10. At(units, places) = iter[1 .. n]
  BY <1>6 DEF At, FoldLeft, MapThenFoldSet, ChooseAdd
<1>11. /\ iter[{}] = v
       /\ \A S \in SUBSET (1 .. n) :
            S # {} /\ iter[S \ {Max(S)}] \in V => iter[S] = F[Max(S)][iter[S \ {Max(S)}]]
  <2> HIDE DEF step, V, iter, n, v
  <2>1. \A S \in SUBSET (1 .. n) :
          iter[S] = IF S = {} THEN v ELSE step(iter[S \ {Max(S)}], s[Max(S)])
    BY ONLY <1>6, <1>9
  <2> HIDE DEF s
  <2> QED  BY ONLY <1>4, <1>7, <2>1
<1>12. PICK h \in [0 .. n -> V] :
         /\ h[0] = v /\ \A i \in 1 .. n : h[i] = F[i][h[i - 1]]
         /\ iter[1 .. n] = h[n]
  <2> HIDE DEF F, V, iter, n, v
  <2>1. FoldsIn(V, n, v, F, iter)
    BY ONLY <1>11 DEF FoldsIn
  <2>2. IteratedTo(V, n, v, F, iter[1 .. n])
    BY ONLY <1>1, <1>3, <2>1, FoldGoesOn
  <2> QED  BY ONLY <2>2 DEF IteratedTo, Iterates
<1>13. \A i \in 1 .. n : h[i] = step(h[i - 1], i)
  <2> HIDE DEF step, V
  <2> TAKE i \in 1 .. n
  <2> HIDE DEF n
  <2>1. h[i - 1] \in V
    <3>1. i - 1 \in 0 .. n
      BY ONLY <1>1, i \in 1 .. n
    <3> QED  BY ONLY <1>12, <3>1
  <2> QED  BY ONLY <1>12, <2>1, i \in 1 .. n
<1>14. ChooseSteps(units, places, h)
  BY ONLY <1>12, <1>13 DEF ChooseSteps
<1> HIDE DEF iter
<1> QED  BY ONLY <1>10, <1>12, <1>14 DEF ChosenAfter

\* RankedAt gives the units at the places, in their order.
ChosenOf(units, places, i, x) == \E j \in 1 .. i : j \in places /\ x = units[j]
Chosen(U, units, places, i, out) ==
  /\ out \in Seq(U) /\ Ascending(out)
  /\ \A x : ElementOf(x, out) <=> ChosenOf(units, places, i, x)

LEMMA ChooseAddKeeps ==
  ASSUME NEW U, UnitsOf(U), NEW units, units \in Seq(U), Ascending(units), NEW places,
         NEW i \in 1 .. Len(units), NEW out, Chosen(U, units, places, i - 1, out)
  PROVE  Chosen(U, units, places, i, ChooseAdd(units, places, out, i))
<1> DEFINE u == units[i]
<1>1. /\ out \in Seq(U) /\ Ascending(out)
      /\ \A x : ElementOf(x, out) <=> ChosenOf(units, places, i - 1, x)
  BY ONLY Chosen(U, units, places, i - 1, out) DEF Chosen
<1>2. u \in U /\ Len(units) \in Nat /\ i \in Nat
  BY ONLY units \in Seq(U), LenProperties, ElementOfSeq, i \in 1 .. Len(units)
<1>3. /\ \A j \in 1 .. i : j \in 1 .. i - 1 \/ j = i
      /\ \A j \in 1 .. i - 1 : j \in 1 .. i /\ j \in 1 .. Len(units) /\ j < i
      /\ i \in 1 .. i
  BY ONLY <1>2, i \in 1 .. Len(units)
<1>4. CASE i \in places
  <2> DEFINE l == Append(out, u)
  <2>1. l \in Seq(U) /\ Appended(out, u, l)
    BY ONLY <1>1, <1>2, AppendIs
  <2>2. \A x : ElementOf(x, l) <=> ElementOf(x, out) \/ x = u
    BY ONLY <1>1, <1>2, ElementOfAppend
  <2>3. \A x : ChosenOf(units, places, i, x) <=> ChosenOf(units, places, i - 1, x) \/ x = u
    BY ONLY <1>3, <1>4 DEF ChosenOf
  <2>4. \A k \in 1 .. Len(out) : out[k].place < u.place
    <3> TAKE k \in 1 .. Len(out)
    <3>1. ElementOf(out[k], out)
      BY ONLY k \in 1 .. Len(out) DEF ElementOf
    <3>2. PICK j \in 1 .. i - 1 : out[k] = units[j]
      BY ONLY <1>1, <3>1 DEF ChosenOf
    <3> QED  BY ONLY <1>3, <3>2, i \in 1 .. Len(units), Ascending(units) DEF Ascending
  <2> HIDE DEF l, u
  <2>5. Ascending(l)
    <3>1. Len(out) \in Nat /\ Len(l) = Len(out) + 1
      BY ONLY <2>1 DEF Appended
    <3>2. \A k \in 1 .. Len(l) : k \in 1 .. Len(out) \/ k = Len(out) + 1
      BY ONLY <3>1
    <3>3. \A j \in 1 .. Len(l) : \A k \in 1 .. Len(l) : j < k => j \in 1 .. Len(out)
      BY ONLY <3>1
    <3>4. l[Len(out) + 1] = u /\ \A k \in 1 .. Len(out) : l[k] = out[k]
      BY ONLY <2>1 DEF Appended
    <3>5. ASSUME NEW j \in 1 .. Len(l), NEW k \in 1 .. Len(l), j < k
          PROVE  l[j].place < l[k].place
      <4>1. j \in 1 .. Len(out)
        BY ONLY <3>3, <3>5
      <4>2. CASE k = Len(out) + 1
        BY ONLY <2>4, <3>4, <4>1, <4>2
      <4>3. CASE k \in 1 .. Len(out)
        <5>1. out[j].place < out[k].place
          BY ONLY <1>1, <3>5, <4>1, <4>3 DEF Ascending
        <5> QED  BY ONLY <3>4, <4>1, <4>3, <5>1
      <4> QED  BY ONLY <3>2, <4>2, <4>3, k \in 1 .. Len(l)
    <3> QED  BY ONLY <3>5 DEF Ascending
  <2>6. \A x : ElementOf(x, l) <=> ChosenOf(units, places, i, x)
    BY ONLY <1>1, <2>2, <2>3, Zenon
  <2>7. ChooseAdd(units, places, out, i) = l
    BY ONLY <1>4 DEF ChooseAdd, l, u
  <2> QED  BY ONLY <2>1, <2>5, <2>6, <2>7, Zenon DEF Chosen
<1>5. CASE i \notin places
  <2>1. ChooseAdd(units, places, out, i) = out
    BY ONLY <1>5 DEF ChooseAdd
  <2>2. \A x : ChosenOf(units, places, i, x) <=> ChosenOf(units, places, i - 1, x)
    BY ONLY <1>3, <1>5 DEF ChosenOf
  <2> QED  BY ONLY <1>1, <2>1, <2>2 DEF Chosen
<1> QED  BY ONLY <1>4, <1>5

LEMMA AtIs ==
  ASSUME NEW U, UnitsOf(U), NEW units, units \in Seq(U), Ascending(units), NEW places
  PROVE  Chosen(U, units, places, Len(units), At(units, places))
<1> DEFINE n == Len(units)
<1>1. n \in Nat
  BY ONLY units \in Seq(U), LenProperties
<1>2. PICK h \in [0 .. n -> Seq(U)] :
        ChooseSteps(units, places, h) /\ At(units, places) = h[n]
  <2>1. ChosenAfter(U, units, places, At(units, places))
    BY ONLY units \in Seq(U), AtSteps
  <2> QED  BY ONLY <2>1 DEF ChosenAfter
<1>3. h[0] = <<>> /\ \A i \in 1 .. n : h[i] = ChooseAdd(units, places, h[i - 1], i)
  BY ONLY <1>2 DEF ChooseSteps
<1> DEFINE Ok(i) == Chosen(U, units, places, i, h[i])
           S == {i \in 0 .. n : Ok(i)}
<1>4. Ok(0)
  <2>1. <<>> \in Seq(U) /\ Len(<<>>) = 0
    BY EmptySeq
  <2>2. \A j \in 1 .. 0 : FALSE
    OBVIOUS
  <2>3. Ascending(<<>>) /\ \A x : ~ElementOf(x, <<>>) /\ ~ChosenOf(units, places, 0, x)
    BY ONLY <2>1, <2>2 DEF Ascending, ElementOf, ChosenOf
  <2> QED  BY ONLY <1>3, <2>1, <2>3 DEF Chosen
<1>5. ASSUME NEW i \in 1 .. n, Ok(i - 1) PROVE Ok(i)
  <2>1. Chosen(U, units, places, i, ChooseAdd(units, places, h[i - 1], i))
    BY ONLY <1>5, UnitsOf(U), units \in Seq(U), Ascending(units), ChooseAddKeeps
  <2> QED  BY ONLY <1>3, <2>1, i \in 1 .. n
<1>6. Ok(n)
  <2> HIDE DEF Ok, n
  <2>1. 0 \in S
    BY ONLY <1>1, <1>4
  <2>2. \A k \in 0 .. n - 1 : k \in S => k + 1 \in S
    <3> TAKE k \in 0 .. n - 1
    <3>1. k + 1 \in 1 .. n /\ (k + 1) - 1 = k /\ k + 1 \in 0 .. n
      BY ONLY <1>1, k \in 0 .. n - 1
    <3> QED  BY ONLY <1>5, <3>1
  <2>3. \A k \in 0 .. n : k \in S
    <3> HIDE DEF S
    <3> QED  BY ONLY <1>1, <2>1, <2>2, Upwards
  <2> QED  BY ONLY <1>1, <2>3
<1> QED  BY ONLY <1>2, <1>6

-----------------------------------------------------------------------------
(* Filters of units: their names *)

LEMMA FewInSeq ==
  ASSUME NEW W, NEW a, NEW b, NEW c, NEW d, NEW e, a \in W, b \in W, c \in W, d \in W, e \in W
  PROVE  /\ <<a>> \in Seq(W) /\ <<a, b>> \in Seq(W) /\ <<a, b, c>> \in Seq(W)
         /\ <<a, b, c, d>> \in Seq(W) /\ <<a, b, c, d, e>> \in Seq(W)
OBVIOUS

LEMMA ResolveType ==
  ASSUME NEW N, NEW names, names \in Seq(N)
  PROVE  Resolve(names) \in Seq(Registry)
<1> DEFINE expanded(name) == IF name \in DOMAIN Bundles THEN Bundles[name] ELSE <<name>>
           lists == [i \in DOMAIN names |-> expanded(names[i])]
           all == FlattenSeq(lists)
           n == Len(all)
           V == Seq(Registry)
           v == <<>>
           step(resolved, name) ==
             IF name \in Registry /\ ~Contains(resolved, name)
             THEN Append(resolved, name) ELSE resolved
           F == [i \in 1 .. n |-> [r \in V |-> step(r, all[i])]]
           Is(f) == f = [S \in SUBSET DOMAIN all |->
                           IF S = {} THEN v
                           ELSE step(f[S \ {Max(S)}], all[Max(S)])]
           iter == CHOOSE f : Is(f)
           T == N \cup Registry
<1>0. all \in Seq(T)
  <2>1. ASSUME NEW name, name \in T PROVE expanded(name) \in Seq(T)
    <3>1. CASE name \in DOMAIN Bundles
      <4>1. name = "basic" \/ name = "web"
        BY ONLY <3>1 DEF Bundles
      <4>2. /\ Bundles["basic"] = <<"dedup", "min_length", "bullet_lines">>
            /\ Bundles["web"] =
                 <<"dedup", "min_length", "bullet_lines", "link_density", "symbol_ratio">>
        BY ONLY DEF Bundles
      <4>3. /\ <<"dedup", "min_length", "bullet_lines">> \in Seq(T)
            /\ <<"dedup", "min_length", "bullet_lines", "link_density", "symbol_ratio">> \in Seq(T)
        <5>1. /\ "dedup" \in T /\ "min_length" \in T /\ "bullet_lines" \in T
              /\ "link_density" \in T /\ "symbol_ratio" \in T
          BY ONLY DEF Registry, FormFilter
        <5> HIDE DEF T
        <5> QED  BY ONLY <5>1, FewInSeq
      <4>4. Bundles[name] \in Seq(T)
        BY ONLY <4>1, <4>2, <4>3, Zenon
      <4> QED  BY ONLY <3>1, <4>4
    <3>2. CASE name \notin DOMAIN Bundles
      BY ONLY <3>2, name \in T
    <3> QED  BY ONLY <3>1, <3>2
  <2>2. DOMAIN names = 1 .. Len(names) /\ Len(names) \in Nat
        /\ \A i \in 1 .. Len(names) : names[i] \in T
    BY ONLY names \in Seq(N), LenProperties, ElementOfSeq
  <2> HIDE DEF expanded
  <2>3. lists \in Seq(Seq(T))
    <3> DEFINE m == Len(names)
    <3>1. \A i \in 1 .. m : expanded(names[i]) \in Seq(T)
      BY ONLY <2>1, <2>2
    <3>2. lists = [i \in 1 .. m |-> expanded(names[i])] /\ m \in Nat
      BY ONLY <2>2
    <3> DEFINE Q == Seq(T)
    <3>3. \A i \in 1 .. m : expanded(names[i]) \in Q
      BY ONLY <3>1
    <3> HIDE DEF Q, T, m, lists
    <3>4. lists \in Seq(Q)
      BY ONLY <3>2, <3>3
    <3> QED  BY ONLY <3>4 DEF Q
  <2> HIDE DEF lists
  <2>4. FlattenSeq(lists) \in Seq(T)
    BY ONLY <2>3, FlattenType
  <2> QED  BY ONLY <2>4
<1>9a. Resolve(names) = FoldLeft(step, <<>>, all)
  BY DEF Resolve
<1> HIDE DEF lists, all
<1>1. n \in Nat /\ v \in V
  BY ONLY <1>0, LenProperties, EmptySeq
<1>2. \A i \in 1 .. n : \A r \in V : step(r, all[i]) \in V
  <2> TAKE i \in 1 .. n
  <2> TAKE r \in V
  <2>1. all[i] \in Registry => Append(r, all[i]) \in Seq(Registry)
    BY ONLY r \in V, AppendIs
  <2> QED  BY ONLY <2>1, r \in V
<1>3. F \in [1 .. n -> [V -> V]]
  <2> HIDE DEF step, V, n
  <2> QED  BY ONLY <1>2
<1>4. \A S \in SUBSET (1 .. n) : S # {} => Max(S) \in 1 .. n /\ S \ {Max(S)} \in SUBSET (1 .. n)
  <2> HIDE DEF n
  <2> QED  BY ONLY <1>1, MaxIn
<1>5. PICK g \in [SUBSET (1 .. n) -> V] :
        \A S \in SUBSET (1 .. n) : g[S] = IF S = {} THEN v ELSE F[Max(S)][g[S \ {Max(S)}]]
  <2> HIDE DEF F, V, n, v
  <2>1. Folded(V, n, v, F)
    BY ONLY <1>1, <1>3, FoldExists
  <2> QED  BY ONLY <2>1 DEF Folded, Folds
<1>6. DOMAIN all = 1 .. n
  <2>1. DOMAIN all = 1 .. n
    BY ONLY <1>0, LenProperties
  <2> QED  BY ONLY <2>1
<1>7. Is(g)
  <2> HIDE DEF step, V, n, v
  <2>1. ASSUME NEW S \in SUBSET (1 .. n)
        PROVE  g[S] = IF S = {} THEN v ELSE step(g[S \ {Max(S)}], all[Max(S)])
    <3>1. CASE S = {}
      BY ONLY <1>5, <3>1, S \in SUBSET (1 .. n)
    <3>2. CASE S # {}
      BY ONLY <1>4, <1>5, <3>2, S \in SUBSET (1 .. n)
    <3> QED  BY ONLY <3>1, <3>2
  <2> QED  BY ONLY <1>5, <1>6, <2>1
<1>8. Is(iter)
  <2> HIDE DEF Is
  <2> QED  BY <1>7
<1>9. Resolve(names) = iter[1 .. n]
  BY <1>6, <1>9a DEF FoldLeft, MapThenFoldSet
<1>10. /\ iter[{}] = v
       /\ \A S \in SUBSET (1 .. n) :
            S # {} /\ iter[S \ {Max(S)}] \in V => iter[S] = F[Max(S)][iter[S \ {Max(S)}]]
  <2> HIDE DEF step, V, iter, n, v
  <2>1. \A S \in SUBSET (1 .. n) :
          iter[S] = IF S = {} THEN v ELSE step(iter[S \ {Max(S)}], all[Max(S)])
    BY ONLY <1>6, <1>8
  <2> QED  BY ONLY <1>4, <2>1
<1>11. PICK h \in [0 .. n -> V] :
         /\ h[0] = v /\ \A i \in 1 .. n : h[i] = F[i][h[i - 1]]
         /\ iter[1 .. n] = h[n]
  <2> HIDE DEF F, V, iter, n, v
  <2>1. FoldsIn(V, n, v, F, iter)
    BY ONLY <1>10 DEF FoldsIn
  <2>2. IteratedTo(V, n, v, F, iter[1 .. n])
    BY ONLY <1>1, <1>3, <2>1, FoldGoesOn
  <2> QED  BY ONLY <2>2 DEF IteratedTo, Iterates
<1> HIDE DEF iter, V
<1>12. h[n] \in V
  <2> HIDE DEF n
  <2> QED  BY ONLY <1>1, <1>11
<1> QED  BY ONLY <1>9, <1>11, <1>12 DEF V

-----------------------------------------------------------------------------
(* Filters of units: one after the other *)

FilterStep(left, filter, replies) ==
  OrInput(Apply(filter, left, replies), left)
FilterSteps(units, filters, replies, h) ==
  /\ h[0] = units
  /\ \A i \in 1 .. Len(filters) : h[i] = FilterStep(h[i - 1], filters[i], replies)
FilteredAfter(U, units, filters, replies, last) ==
  \E h \in [0 .. Len(filters) -> Seq(U)] :
    FilterSteps(units, filters, replies, h) /\ last = h[Len(filters)]

\* What is left is some of what there was, in its order; never nothing.
Part(U, out, left) ==
  /\ out \in Seq(U) /\ out # <<>> /\ Ascending(out)
  /\ \A x : ElementOf(x, out) => ElementOf(x, left)

LEMMA AtType ==
  ASSUME NEW U, NEW units, units \in Seq(U), NEW places
  PROVE  At(units, places) \in Seq(U)
<1>1. ChosenAfter(U, units, places, At(units, places))
  BY ONLY units \in Seq(U), AtSteps
<1>2. PICK h \in [0 .. Len(units) -> Seq(U)] : At(units, places) = h[Len(units)]
  BY ONLY <1>1 DEF ChosenAfter
<1>3. Len(units) \in Nat
  BY ONLY units \in Seq(U), LenProperties
<1>4. Len(units) \in 0 .. Len(units)
  BY ONLY <1>3
<1> QED  BY ONLY <1>2, <1>4

LEMMA FilterStepType ==
  ASSUME NEW U, NEW left, left \in Seq(U), NEW filter, filter \in Registry, NEW replies
  PROVE  FilterStep(left, filter, replies) \in Seq(U)
<1>1. \A P : At(left, P) \in Seq(U)
  BY ONLY left \in Seq(U), AtType
<1>2. Heuristic(left) \in Seq(U)
  BY ONLY <1>1, left \in Seq(U) DEF Heuristic
<1>3. LlmRelevance(left, replies) \in Seq(U)
  BY ONLY <1>1, left \in Seq(U) DEF LlmRelevance, Judged
<1>4. Apply(filter, left, replies) \in Seq(U)
  BY ONLY <1>1, <1>2, <1>3 DEF Apply
<1> QED  BY ONLY <1>4, left \in Seq(U) DEF FilterStep, OrInput

LEMMA FilteredSteps ==
  ASSUME NEW U, NEW units, units \in Seq(U), NEW names, NEW replies,
         NEW filters, filters = Resolve(names), filters \in Seq(Registry)
  PROVE  FilteredAfter(U, units, filters, replies, Filtered(names, units, replies))
<1> DEFINE n == Len(filters)
           V == Seq(U)
           v == units
           step(left, filter) == FilterStep(left, filter, replies)
           F == [i \in 1 .. n |-> [left \in V |-> step(left, filters[i])]]
           Is(f) == f = [S \in SUBSET DOMAIN filters |->
                           IF S = {} THEN v
                           ELSE step(f[S \ {Max(S)}], filters[Max(S)])]
           iter == CHOOSE f : Is(f)
<1>1. n \in Nat /\ v \in V
  BY ONLY filters \in Seq(Registry), units \in Seq(U), LenProperties
<1>2. \A i \in 1 .. n : \A left \in V : step(left, filters[i]) \in V
  <2> TAKE i \in 1 .. n
  <2> TAKE left \in V
  <2>1. filters[i] \in Registry
    BY ONLY filters \in Seq(Registry), ElementOfSeq, i \in 1 .. n
  <2> QED  BY ONLY <2>1, left \in V, FilterStepType
<1>3. F \in [1 .. n -> [V -> V]]
  <2> HIDE DEF step, V, n
  <2> QED  BY ONLY <1>2
<1>4. \A S \in SUBSET (1 .. n) : S # {} => Max(S) \in 1 .. n /\ S \ {Max(S)} \in SUBSET (1 .. n)
  <2> HIDE DEF n
  <2> QED  BY ONLY <1>1, MaxIn
<1>5. PICK g \in [SUBSET (1 .. n) -> V] :
        \A S \in SUBSET (1 .. n) : g[S] = IF S = {} THEN v ELSE F[Max(S)][g[S \ {Max(S)}]]
  <2> HIDE DEF F, V, n, v
  <2>1. Folded(V, n, v, F)
    BY ONLY <1>1, <1>3, FoldExists
  <2> QED  BY ONLY <2>1 DEF Folded, Folds
<1>6. DOMAIN filters = 1 .. n
  <2>1. DOMAIN filters = 1 .. n
    BY ONLY filters \in Seq(Registry), LenProperties
  <2> QED  BY ONLY <2>1
<1>7. Is(g)
  <2> HIDE DEF step, V, n, v
  <2>1. ASSUME NEW S \in SUBSET (1 .. n)
        PROVE  g[S] = IF S = {} THEN v ELSE step(g[S \ {Max(S)}], filters[Max(S)])
    <3>1. CASE S = {}
      BY ONLY <1>5, <3>1, S \in SUBSET (1 .. n)
    <3>2. CASE S # {}
      BY ONLY <1>4, <1>5, <3>2, S \in SUBSET (1 .. n)
    <3> QED  BY ONLY <3>1, <3>2
  <2> QED  BY ONLY <1>5, <1>6, <2>1
<1>8. Is(iter)
  <2> HIDE DEF Is
  <2> QED  BY <1>7
<1>9. Filtered(names, units, replies) = iter[1 .. n]
  BY <1>6 DEF Filtered, FoldLeft, MapThenFoldSet, FilterStep
<1>10. /\ iter[{}] = v
       /\ \A S \in SUBSET (1 .. n) :
            S # {} /\ iter[S \ {Max(S)}] \in V => iter[S] = F[Max(S)][iter[S \ {Max(S)}]]
  <2> HIDE DEF step, V, iter, n, v
  <2>1. \A S \in SUBSET (1 .. n) :
          iter[S] = IF S = {} THEN v ELSE step(iter[S \ {Max(S)}], filters[Max(S)])
    BY ONLY <1>6, <1>8
  <2> QED  BY ONLY <1>4, <2>1
<1>11. PICK h \in [0 .. n -> V] :
         /\ h[0] = v /\ \A i \in 1 .. n : h[i] = F[i][h[i - 1]]
         /\ iter[1 .. n] = h[n]
  <2> HIDE DEF F, V, iter, n, v
  <2>1. FoldsIn(V, n, v, F, iter)
    BY ONLY <1>10 DEF FoldsIn
  <2>2. IteratedTo(V, n, v, F, iter[1 .. n])
    BY ONLY <1>1, <1>3, <2>1, FoldGoesOn
  <2> QED  BY ONLY <2>2 DEF IteratedTo, Iterates
<1>12. \A i \in 1 .. n : h[i] = step(h[i - 1], filters[i])
  <2> HIDE DEF step, V
  <2> TAKE i \in 1 .. n
  <2> HIDE DEF n
  <2>1. h[i - 1] \in V
    <3>1. i - 1 \in 0 .. n
      BY ONLY <1>1, i \in 1 .. n
    <3> QED  BY ONLY <1>11, <3>1
  <2> QED  BY ONLY <1>11, <2>1, i \in 1 .. n
<1>13. FilterSteps(units, filters, replies, h)
  BY ONLY <1>11, <1>12 DEF FilterSteps
<1> HIDE DEF iter
<1> QED  BY ONLY <1>9, <1>11, <1>13 DEF FilteredAfter

\* The units at some places, or all if there is none there.
OrChosen(U, left, P, out) ==
  /\ Part(U, out, left)
  /\ \A j \in 1 .. Len(left) : j \in P => ElementOf(left[j], out)
  /\ \/ out = left /\ \A j \in 1 .. Len(left) : j \notin P
     \/ \A x : ElementOf(x, out) => ChosenOf(left, P, Len(left), x)

LEMMA AllIsPart ==
  ASSUME NEW U, NEW left, left \in Seq(U), left # <<>>, Ascending(left)
  PROVE  Part(U, left, left)
BY ONLY left \in Seq(U), left # <<>>, Ascending(left) DEF Part

LEMMA OrInputIs ==
  ASSUME NEW U, UnitsOf(U), NEW left, left \in Seq(U), left # <<>>, Ascending(left), NEW P
  PROVE  OrChosen(U, left, P, OrInput(At(left, P), left))
<1> DEFINE a == At(left, P)
           n == Len(left)
           out == OrInput(a, left)
<1>1. Chosen(U, left, P, n, a)
  BY ONLY UnitsOf(U), left \in Seq(U), Ascending(left), AtIs
<1>2. /\ a \in Seq(U) /\ Ascending(a)
      /\ \A x : ElementOf(x, a) <=> ChosenOf(left, P, n, x)
  BY ONLY <1>1 DEF Chosen
<1>3. Part(U, left, left)
  BY ONLY left \in Seq(U), left # <<>>, Ascending(left), AllIsPart
<1>4. \A j \in 1 .. n : ElementOf(left[j], left) /\ (j \in P => ElementOf(left[j], a))
  <2> TAKE j \in 1 .. n
  <2>1. ElementOf(left[j], left)
    BY ONLY j \in 1 .. n DEF ElementOf
  <2>2. j \in P => ChosenOf(left, P, n, left[j])
    BY ONLY j \in 1 .. n DEF ChosenOf
  <2> HIDE DEF a
  <2> QED  BY ONLY <1>2, <2>1, <2>2
<1>5. \A x : ElementOf(x, a) => ElementOf(x, left)
  <2> HIDE DEF a
  <2>1. \A x : ChosenOf(left, P, n, x) => ElementOf(x, left)
    BY ONLY DEF ChosenOf, ElementOf
  <2> QED  BY ONLY <1>2, <2>1
<1> HIDE DEF a
<1>6. CASE a = <<>>
  <2>1. out = left
    BY ONLY <1>6 DEF OrInput
  <2>2. \A x : ~ElementOf(x, a)
    <3>1. Len(<<>>) = 0 /\ \A k \in 1 .. 0 : FALSE
      BY EmptySeq
    <3> QED  BY ONLY <1>6, <3>1 DEF ElementOf
  <2>3. \A j \in 1 .. n : j \notin P
    BY ONLY <1>4, <2>2
  <2> QED  BY ONLY <1>3, <2>1, <2>3 DEF OrChosen, a
<1>7. CASE a # <<>>
  <2>1. out = a
    BY ONLY <1>7 DEF OrInput
  <2>2. Part(U, a, left)
    BY ONLY <1>2, <1>5, <1>7 DEF Part
  <2>3. \A x : ElementOf(x, a) => ChosenOf(left, P, n, x)
    BY ONLY <1>2
  <2>4. OrChosen(U, left, P, a)
    BY ONLY <1>4, <2>2, <2>3 DEF OrChosen
  <2> QED  BY ONLY <2>1, <2>4 DEF a
<1> QED  BY ONLY <1>6, <1>7

\* A filter of the form leaves what it finds no fault with, and all or nothing else.
FormStep(U, left, f, out) ==
  /\ \A u : ElementOf(u, left) /\ f \notin u.faults => ElementOf(u, out)
  /\ \A u, v : ElementOf(u, out) /\ ElementOf(v, out) /\ f \in u.faults => f \in v.faults

LEMMA FormChosen ==
  ASSUME NEW U, NEW left, left \in Seq(U), NEW f, NEW out,
         OrChosen(U, left, InForm(left, f), out)
  PROVE  FormStep(U, left, f, out)
<1> DEFINE P == InForm(left, f)
           n == Len(left)
<1>1. \A j \in 1 .. n : j \in P <=> f \notin left[j].faults
  <2>1. DOMAIN left = 1 .. n
    BY ONLY left \in Seq(U), LenProperties
  <2> QED  BY ONLY <2>1 DEF InForm
<1>2. /\ \A x : ElementOf(x, out) => ElementOf(x, left)
      /\ \A j \in 1 .. n : j \in P => ElementOf(left[j], out)
      /\ \/ out = left /\ \A j \in 1 .. n : j \notin P
         \/ \A x : ElementOf(x, out) => ChosenOf(left, P, n, x)
  BY ONLY OrChosen(U, left, P, out) DEF OrChosen, Part
<1> HIDE DEF P
<1>3. \A u : ElementOf(u, left) /\ f \notin u.faults => ElementOf(u, out)
  BY ONLY <1>1, <1>2 DEF ElementOf
<1>4. ASSUME NEW u, NEW v, ElementOf(u, out), ElementOf(v, out), f \in u.faults
      PROVE  f \in v.faults
  <2>1. CASE \A j \in 1 .. n : j \notin P
    <3>1. PICK j \in 1 .. n : v = left[j]
      BY ONLY <1>2, <1>4 DEF ElementOf
    <3> QED  BY ONLY <1>1, <2>1, <3>1
  <2>2. CASE \A x : ElementOf(x, out) => ChosenOf(left, P, n, x)
    <3>1. PICK j \in 1 .. n : j \in P /\ u = left[j]
      BY ONLY <1>4, <2>2 DEF ChosenOf
    <3> QED  BY ONLY <1>1, <1>4, <3>1
  <2> QED  BY ONLY <1>2, <2>1, <2>2
<1> QED  BY ONLY <1>3, <1>4, Zenon DEF FormStep

LEMMA FormWhole ==
  ASSUME NEW U, NEW left, left \in Seq(U), NEW f,
         \/ Len(left) < 2
         \/ InForm(left, f) = {}
  PROVE  FormStep(U, left, f, left)
<1>1. DOMAIN left = 1 .. Len(left) /\ Len(left) \in Nat
  BY ONLY left \in Seq(U), LenProperties
<1>2. ASSUME NEW u, NEW v, ElementOf(u, left), ElementOf(v, left), f \in u.faults
      PROVE  f \in v.faults
  <2>1. PICK i \in 1 .. Len(left) : u = left[i]
    BY ONLY <1>2 DEF ElementOf
  <2>2. PICK j \in 1 .. Len(left) : v = left[j]
    BY ONLY <1>2 DEF ElementOf
  <2>3. CASE Len(left) < 2
    <3>1. i = j
      BY ONLY <1>1, <2>3, i \in 1 .. Len(left), j \in 1 .. Len(left)
    <3> QED  BY ONLY <1>2, <2>1, <2>2, <3>1
  <2>4. CASE InForm(left, f) = {}
    BY ONLY <1>1, <2>2, <2>4 DEF InForm
  <2> QED  BY ONLY <2>3, <2>4,
                   \/ Len(left) < 2
                   \/ InForm(left, f) = {}
<1> QED  BY ONLY <1>2, Zenon DEF FormStep

\* What one filter does.
StepOf(U, left, f, out) ==
  /\ Part(U, out, left)
  /\ f \in FormFilter => FormStep(U, left, f, out)
  /\ f = "dedup" =>
       /\ \A k \in 1 .. Len(left) : k \in FirstOnes(left) => ElementOf(left[k], out)
       /\ \A u, v : ElementOf(u, out) /\ ElementOf(v, out) /\ u.text = v.text => u = v

LEMMA DedupIs ==
  ASSUME NEW U, NEW left, left \in Seq(U), left # <<>>, NEW out,
         OrChosen(U, left, FirstOnes(left), out)
  PROVE  StepOf(U, left, "dedup", out)
<1> DEFINE P == FirstOnes(left)
           n == Len(left)
<1>1. DOMAIN left = 1 .. n /\ n \in Nat \ {0}
  BY ONLY left \in Seq(U), left # <<>>, LenProperties, EmptySeq
<1>2. \A k \in 1 .. n : k \in P <=> \A j \in 1 .. k - 1 : left[j].text # left[k].text
  BY ONLY <1>1 DEF FirstOnes
<1>3. 1 \in 1 .. n /\ 1 \in P
  <2>1. 1 \in 1 .. n /\ \A j \in 1 .. 1 - 1 : FALSE
    BY ONLY <1>1
  <2> QED  BY ONLY <1>2, <2>1
<1> HIDE DEF P
<1>4. /\ Part(U, out, left)
      /\ \A j \in 1 .. n : j \in P => ElementOf(left[j], out)
      /\ \A x : ElementOf(x, out) => ChosenOf(left, P, n, x)
  BY ONLY <1>3, OrChosen(U, left, FirstOnes(left), out) DEF OrChosen, P
<1>5. ASSUME NEW u, NEW v, ElementOf(u, out), ElementOf(v, out), u.text = v.text
      PROVE  u = v
  <2>1. PICK i \in 1 .. n : i \in P /\ u = left[i]
    BY ONLY <1>4, <1>5 DEF ChosenOf
  <2>2. PICK j \in 1 .. n : j \in P /\ v = left[j]
    BY ONLY <1>4, <1>5 DEF ChosenOf
  <2>3. i \in 1 .. j - 1 \/ j \in 1 .. i - 1 \/ i = j
    BY ONLY <1>1, i \in 1 .. n, j \in 1 .. n
  <2>4. i = j
    BY ONLY <1>2, <1>5, <2>1, <2>2, <2>3
  <2> QED  BY ONLY <2>1, <2>2, <2>4
<1>6. "dedup" \notin FormFilter
  BY DEF FormFilter
<1> QED  BY ONLY <1>4, <1>5, <1>6 DEF StepOf, P

LEMMA FilterStepIs ==
  ASSUME NEW U, UnitsOf(U), NEW left, left \in Seq(U), left # <<>>, Ascending(left),
         NEW f, f \in Registry, NEW replies
  PROVE  StepOf(U, left, f, FilterStep(left, f, replies))
<1> DEFINE out == FilterStep(left, f, replies)
<1>1. Part(U, left, left)
  BY ONLY left \in Seq(U), left # <<>>, Ascending(left), AllIsPart
<1>2. \A P : OrChosen(U, left, P, OrInput(At(left, P), left))
  BY ONLY UnitsOf(U), left \in Seq(U), left # <<>>, Ascending(left), OrInputIs
<1>3. OrInput(left, left) = left
  BY ONLY DEF OrInput
<1>4. \A P : \A x : OrChosen(U, left, P, x) => Part(U, x, left)
  BY ONLY DEF OrChosen
<1>5. CASE f = "dedup"
  <2>1. out = OrInput(At(left, FirstOnes(left)), left)
    BY ONLY <1>5 DEF FilterStep, Apply
  <2>2. OrChosen(U, left, FirstOnes(left), out)
    BY ONLY <1>2, <2>1
  <2>3. StepOf(U, left, "dedup", out)
    BY ONLY <2>2, left \in Seq(U), left # <<>>, DedupIs
  <2> QED  BY ONLY <1>5, <2>3
<1>6. CASE f = "relevance_llm"
  <2>1. out = OrInput(LlmRelevance(left, replies), left)
    BY ONLY <1>6 DEF FilterStep, Apply
  <2>2. Part(U, out, left)
    <3> DEFINE accepted == Accepted(Len(left), replies)
    <3>1. \/ out = left
          \/ out = OrInput(At(left, accepted), left)
      BY ONLY <1>3, <2>1 DEF LlmRelevance, Judged
    <3> HIDE DEF accepted, out
    <3> QED  BY ONLY <1>1, <1>2, <1>4, <3>1
  <2>3. f \notin FormFilter /\ f # "dedup"
    BY ONLY <1>6 DEF FormFilter
  <2> QED  BY ONLY <2>2, <2>3 DEF StepOf
<1>7. CASE f = "relevance"
  <2> DEFINE keep == InForm(left, "relevance")
  <2>1. out = OrInput(Heuristic(left), left)
    BY ONLY <1>7 DEF FilterStep, Apply
  <2>2. f # "dedup"
    BY ONLY <1>7
  <2>3. CASE Len(left) < 2 \/ keep = {}
    <3>1. out = left
      BY ONLY <1>3, <2>1, <2>3 DEF Heuristic
    <3>2. FormStep(U, left, f, left)
      <4>1. \/ Len(left) < 2
            \/ InForm(left, f) = {}
        BY ONLY <1>7, <2>3
      <4> QED  BY ONLY <4>1, left \in Seq(U), FormWhole
    <3> HIDE DEF out
    <3>3. StepOf(U, left, f, out)
      BY ONLY <1>1, <2>2, <3>1, <3>2 DEF StepOf
    <3> QED  BY ONLY <3>3 DEF out
  <2>4. CASE ~(Len(left) < 2 \/ keep = {})
    <3>1. out = OrInput(At(left, keep), left)
      BY ONLY <2>1, <2>4 DEF Heuristic
    <3> HIDE DEF out
    <3>2. OrChosen(U, left, InForm(left, f), out)
      BY ONLY <1>2, <1>7, <3>1
    <3>3. FormStep(U, left, f, out) /\ Part(U, out, left)
      BY ONLY <1>4, <3>2, left \in Seq(U), FormChosen
    <3>4. StepOf(U, left, f, out)
      BY ONLY <2>2, <3>3 DEF StepOf
    <3> QED  BY ONLY <3>4 DEF out
  <2> QED  BY ONLY <2>3, <2>4
<1>8. CASE f # "dedup" /\ f # "relevance" /\ f # "relevance_llm"
  <2>1. out = OrInput(At(left, InForm(left, f)), left)
    BY ONLY <1>8 DEF FilterStep, Apply
  <2> HIDE DEF out
  <2>2. OrChosen(U, left, InForm(left, f), out)
    BY ONLY <1>2, <2>1
  <2>3. FormStep(U, left, f, out) /\ Part(U, out, left)
    BY ONLY <1>4, <2>2, left \in Seq(U), FormChosen
  <2>4. StepOf(U, left, f, out)
    BY ONLY <1>8, <2>3 DEF StepOf
  <2> QED  BY ONLY <2>4 DEF out
<1> QED  BY ONLY <1>5, <1>6, <1>7, <1>8

\* What the filters keep: FiltersFailOpen for those that are done.
FilterKeeps(U, units, left, done) ==
  /\ Part(U, left, units)
  /\ "relevance_llm" \notin done =>
       \A i \in 1 .. Len(units) : units[i].faults \cap done = {} =>
         \/ ElementOf(units[i], left)
         \/ "dedup" \in done /\ i \notin FirstOnes(units)
  /\ \A u, v : ElementOf(u, left) /\ ElementOf(v, left) =>
       \A fault \in u.faults \cap done : fault \in v.faults
  /\ "dedup" \in done =>
       \A u, v : ElementOf(u, left) /\ ElementOf(v, left) /\ u.text = v.text => u = v

LEMMA FilterStepKeeps ==
  ASSUME NEW U, UnitsOf(U), NEW units, units \in Seq(U), Ascending(units),
         NEW left, NEW done, FilterKeeps(U, units, left, done),
         NEW f, f \in Registry, NEW out, StepOf(U, left, f, out)
  PROVE  FilterKeeps(U, units, out, done \cup {f})
<1>1. /\ left \in Seq(U) /\ left # <<>> /\ Ascending(left)
      /\ \A x : ElementOf(x, left) => ElementOf(x, units)
  BY ONLY FilterKeeps(U, units, left, done) DEF FilterKeeps, Part
<1>2. /\ out \in Seq(U) /\ out # <<>> /\ Ascending(out)
      /\ \A x : ElementOf(x, out) => ElementOf(x, left)
  BY ONLY StepOf(U, left, f, out) DEF StepOf, Part
<1>3. Part(U, out, units)
  BY ONLY <1>1, <1>2 DEF Part
<1>4. f \in FormFilter \/ f = "dedup" \/ f = "relevance_llm"
  BY ONLY f \in Registry DEF Registry
<1>5. "dedup" \notin FormFilter /\ "relevance_llm" \notin FormFilter
  BY ONLY DEF FormFilter
<1>6. \A x : ElementOf(x, units) => x.place \in Nat /\ x.faults \subseteq FormFilter
  <2>1. \A k \in 1 .. Len(units) : units[k] \in U
    BY ONLY units \in Seq(U), ElementOfSeq
  <2> QED  BY ONLY <2>1, UnitsOf(U) DEF ElementOf, UnitsOf
<1>7. ASSUME "relevance_llm" \notin done \cup {f}, NEW i \in 1 .. Len(units),
             units[i].faults \cap (done \cup {f}) = {}
      PROVE  \/ ElementOf(units[i], out)
             \/ "dedup" \in done \cup {f} /\ i \notin FirstOnes(units)
  <2> DEFINE u == units[i]
  <2>1. \/ ElementOf(u, left)
        \/ "dedup" \in done /\ i \notin FirstOnes(units)
    <3>1. "relevance_llm" \notin done /\ u.faults \cap done = {}
      BY ONLY <1>7
    <3> QED  BY ONLY <3>1, FilterKeeps(U, units, left, done), i \in 1 .. Len(units) DEF FilterKeeps
  <2>2. CASE ElementOf(u, left) /\ f \in FormFilter
    <3>1. f \notin u.faults
      BY ONLY <1>7
    <3>2. FormStep(U, left, f, out)
      BY ONLY <2>2, StepOf(U, left, f, out) DEF StepOf
    <3> HIDE DEF u
    <3>3. ElementOf(u, out)
      BY ONLY <2>2, <3>1, <3>2 DEF FormStep
    <3> QED  BY ONLY <3>3 DEF u
  <2>3. CASE ElementOf(u, left) /\ f = "dedup"
    <3>1. PICK k \in 1 .. Len(left) : u = left[k]
      BY ONLY <2>3 DEF ElementOf
    <3>2. CASE k \in FirstOnes(left)
      <4>1. ElementOf(left[k], out)
        BY ONLY <2>3, <3>2, k \in 1 .. Len(left), StepOf(U, left, f, out) DEF StepOf
      <4> QED  BY ONLY <3>1, <4>1
    <3>3. CASE k \notin FirstOnes(left)
      <4>1. DOMAIN left = 1 .. Len(left) /\ Len(left) \in Nat
            /\ DOMAIN units = 1 .. Len(units) /\ Len(units) \in Nat
        BY ONLY <1>1, units \in Seq(U), LenProperties
      <4>2. PICK j \in 1 .. k - 1 : left[j].text = left[k].text
        BY ONLY <3>3, <4>1, k \in 1 .. Len(left) DEF FirstOnes
      <4>3. j \in 1 .. Len(left) /\ j < k
        BY ONLY <4>1, k \in 1 .. Len(left), j \in 1 .. k - 1
      <4>4. left[j].place < u.place
        BY ONLY <1>1, <3>1, <4>3, k \in 1 .. Len(left) DEF Ascending
      <4>5. ElementOf(left[j], left)
        BY ONLY <4>3 DEF ElementOf
      <4>6. PICK m \in 1 .. Len(units) : left[j] = units[m]
        BY ONLY <1>1, <4>5 DEF ElementOf
      <4>7. units[m].place < units[i].place /\ units[m].text = units[i].text
        BY ONLY <3>1, <4>2, <4>4, <4>6
      <4>8. ElementOf(units[m], units) /\ ElementOf(units[i], units)
        BY ONLY i \in 1 .. Len(units), m \in 1 .. Len(units) DEF ElementOf
      <4> DEFINE a == units[m].place
                 b == units[i].place
      <4>9. a \in Nat /\ b \in Nat
        BY ONLY <1>6, <4>8
      <4>10. i < m => b < a
        BY ONLY i \in 1 .. Len(units), m \in 1 .. Len(units), Ascending(units) DEF Ascending
      <4>11. i = m => a = b
        OBVIOUS
      <4>12. a < b
        BY ONLY <4>7
      <4> HIDE DEF a, b
      <4>13. m \in 1 .. i - 1
        BY ONLY <4>1, <4>9, <4>10, <4>11, <4>12, i \in 1 .. Len(units), m \in 1 .. Len(units)
      <4>14. i \notin FirstOnes(units)
        BY ONLY <4>7, <4>13 DEF FirstOnes
      <4> QED  BY ONLY <2>3, <4>14
    <3> QED  BY ONLY <3>2, <3>3
  <2>4. f # "relevance_llm"
    BY ONLY <1>7
  <2> QED  BY ONLY <1>4, <2>1, <2>2, <2>3, <2>4
<1>8. ASSUME NEW u, NEW v, ElementOf(u, out), ElementOf(v, out),
             NEW fault \in u.faults \cap (done \cup {f})
      PROVE  fault \in v.faults
  <2>1. ElementOf(u, left) /\ ElementOf(v, left)
    BY ONLY <1>2, <1>8
  <2>2. CASE fault \in done
    BY ONLY <2>1, <2>2, fault \in u.faults \cap (done \cup {f}),
            FilterKeeps(U, units, left, done) DEF FilterKeeps
  <2>3. CASE fault = f
    <3>1. u.faults \subseteq FormFilter
      BY ONLY <1>1, <1>6, <2>1
    <3>2. f \in FormFilter
      BY ONLY <2>3, <3>1, fault \in u.faults \cap (done \cup {f})
    <3>3. FormStep(U, left, f, out)
      BY ONLY <3>2, StepOf(U, left, f, out) DEF StepOf
    <3> QED  BY ONLY <1>8, <2>3, <3>3 DEF FormStep
  <2> QED  BY ONLY <2>2, <2>3, fault \in u.faults \cap (done \cup {f})
<1>9. ASSUME "dedup" \in done \cup {f}, NEW u, NEW v, ElementOf(u, out), ElementOf(v, out),
             u.text = v.text
      PROVE  u = v
  <2>1. CASE f = "dedup"
    BY ONLY <1>9, <2>1, StepOf(U, left, f, out) DEF StepOf
  <2>2. CASE f # "dedup"
    <3>1. ElementOf(u, left) /\ ElementOf(v, left) /\ "dedup" \in done
      BY ONLY <1>2, <1>9, <2>2
    <3> QED  BY ONLY <1>9, <3>1, FilterKeeps(U, units, left, done) DEF FilterKeeps
  <2> QED  BY ONLY <2>1, <2>2
<1> QED  BY ONLY <1>3, <1>7, <1>8, <1>9 DEF FilterKeeps

LEMMA FiltersKeep ==
  ASSUME NEW U, UnitsOf(U), NEW units, units \in Seq(U), units # <<>>, Ascending(units),
         NEW N, NEW names, names \in Seq(N), NEW replies
  PROVE  FilterKeeps(U, units, Filtered(names, units, replies),
                     ToSet(Resolve(names)))
<1> DEFINE r == Resolve(names)
           n == Len(r)
           done(k) == {r[j] : j \in 1 .. k}
<1>1. r \in Seq(Registry)
  BY ONLY names \in Seq(N), ResolveType
<1> HIDE DEF r
<1>2. n \in Nat /\ DOMAIN r = 1 .. n /\ \A i \in 1 .. n : r[i] \in Registry
  BY ONLY <1>1, LenProperties, ElementOfSeq
<1>3. PICK h \in [0 .. n -> Seq(U)] :
        FilterSteps(units, r, replies, h) /\ Filtered(names, units, replies) = h[n]
  <2>1. FilteredAfter(U, units, r, replies, Filtered(names, units, replies))
    <3>1. r = Resolve(names)
      BY DEF r
    <3> QED  BY ONLY <1>1, <3>1, units \in Seq(U), FilteredSteps
  <2> QED  BY ONLY <2>1 DEF FilteredAfter
<1>4. h[0] = units /\ \A i \in 1 .. n : h[i] = FilterStep(h[i - 1], r[i], replies)
  BY ONLY <1>3 DEF FilterSteps
<1> HIDE DEF n
<1> DEFINE Ok(i) == FilterKeeps(U, units, h[i], done(i))
           S == {i \in 0 .. n : Ok(i)}
<1>5. Ok(0)
  <2>1. done(0) = {}
    <3>1. \A j \in 1 .. 0 : FALSE
      OBVIOUS
    <3> QED  BY ONLY <3>1
  <2> HIDE DEF done
  <2>2. Part(U, units, units)
    BY ONLY units \in Seq(U), units # <<>>, Ascending(units), AllIsPart
  <2>3. \A i \in 1 .. Len(units) : ElementOf(units[i], units)
    BY ONLY DEF ElementOf
  <2>4. FilterKeeps(U, units, units, {})
    BY ONLY <2>2, <2>3 DEF FilterKeeps
  <2> QED  BY ONLY <1>4, <2>1, <2>4
<1>6. ASSUME NEW i \in 1 .. n, Ok(i - 1) PROVE Ok(i)
  <2>1. done(i) = done(i - 1) \cup {r[i]}
    <3>1. \A j \in 1 .. i : j \in 1 .. i - 1 \/ j = i
      BY ONLY <1>2, i \in 1 .. n
    <3>2. \A j \in 1 .. i - 1 : j \in 1 .. i
      BY ONLY <1>2, i \in 1 .. n
    <3>3. i \in 1 .. i
      BY ONLY <1>2, i \in 1 .. n
    <3> QED  BY ONLY <3>1, <3>2, <3>3
  <2> HIDE DEF done
  <2> DEFINE left == h[i - 1]
             f == r[i]
             d == done(i - 1)
  <2>2. FilterKeeps(U, units, left, d)
    BY ONLY <1>6
  <2>3. f \in Registry
    BY ONLY <1>2, i \in 1 .. n
  <2>4. h[i] = FilterStep(left, f, replies)
    BY ONLY <1>4, i \in 1 .. n
  <2> HIDE DEF left, f, d
  <2>5. left \in Seq(U) /\ left # <<>> /\ Ascending(left)
    BY ONLY <2>2 DEF FilterKeeps, Part
  <2>6. StepOf(U, left, f, FilterStep(left, f, replies))
    BY ONLY <2>3, <2>5, UnitsOf(U), FilterStepIs
  <2>7. FilterKeeps(U, units, FilterStep(left, f, replies), d \cup {f})
    BY ONLY <2>2, <2>3, <2>6, UnitsOf(U), units \in Seq(U), Ascending(units), FilterStepKeeps
  <2> QED  BY ONLY <2>1, <2>4, <2>7 DEF d, f
<1>7. Ok(n)
  <2> HIDE DEF Ok
  <2>1. 0 \in S
    BY ONLY <1>2, <1>5
  <2>2. \A k \in 0 .. n - 1 : k \in S => k + 1 \in S
    <3> TAKE k \in 0 .. n - 1
    <3>1. k + 1 \in 1 .. n /\ (k + 1) - 1 = k /\ k + 1 \in 0 .. n
      BY ONLY <1>2, k \in 0 .. n - 1
    <3> QED  BY ONLY <1>6, <3>1
  <2>3. \A k \in 0 .. n : k \in S
    <3> HIDE DEF S
    <3> QED  BY ONLY <1>2, <2>1, <2>2, Upwards
  <2> QED  BY ONLY <1>2, <2>3
<1>8. done(n) = ToSet(r)
  BY ONLY <1>2 DEF ToSet
<1> HIDE DEF done
<1> QED  BY ONLY <1>3, <1>7, <1>8 DEF r

\* Whatever filters are named and whatever the model replies, the filters leave
\* something, in its order, and drop only what they find fault with (UnitFilters).
THEOREM FailOpen ==
  ASSUME NEW U, UnitsOf(U), NEW units, units \in Seq(U), Ascending(units),
         NEW N, NEW names, names \in Seq(N), NEW replies
  PROVE  FiltersFailOpen(names, units, replies)
<1> DEFINE filtered == Filtered(names, units, replies)
           named == ToSet(Resolve(names))
<1> SUFFICES ASSUME units # <<>>
    PROVE  /\ filtered # <<>> /\ InOrder(filtered, units)
           /\ "relevance_llm" \notin named =>
                \A i \in DOMAIN units : units[i].faults \cap named = {} =>
                  \/ units[i] \in ToSet(filtered)
                  \/ "dedup" \in named /\ i \notin FirstOnes(units)
           /\ \A u \in ToSet(filtered) : \A fault \in u.faults \cap named :
                \A v \in ToSet(filtered) : fault \in v.faults
           /\ "dedup" \in named =>
                \A u, v \in ToSet(filtered) : u.text = v.text => u = v
  BY DEF FiltersFailOpen
<1>1. FilterKeeps(U, units, filtered, named)
  BY ONLY UnitsOf(U), units \in Seq(U), units # <<>>, Ascending(units), names \in Seq(N), FiltersKeep
<1> HIDE DEF filtered, named
<1>2. /\ filtered \in Seq(U) /\ filtered # <<>> /\ Ascending(filtered)
      /\ \A x : ElementOf(x, filtered) => ElementOf(x, units)
  BY ONLY <1>1 DEF FilterKeeps, Part
<1>3. /\ \A x : x \in ToSet(filtered) <=> ElementOf(x, filtered)
      /\ \A x : x \in ToSet(units) <=> ElementOf(x, units)
  BY ONLY <1>2, units \in Seq(U), InToSet
<1>4. DOMAIN units = 1 .. Len(units) /\ DOMAIN filtered = 1 .. Len(filtered)
  BY ONLY <1>2, units \in Seq(U), LenProperties
<1>5. InOrder(filtered, units)
  <2>1. \A i, j \in DOMAIN filtered : i < j => filtered[i].place < filtered[j].place
    BY ONLY <1>2, <1>4 DEF Ascending
  <2>2. ToSet(filtered) \subseteq ToSet(units)
    BY ONLY <1>2, <1>3
  <2> QED  BY ONLY <2>1, <2>2 DEF InOrder
<1>6. "relevance_llm" \notin named =>
        \A i \in DOMAIN units : units[i].faults \cap named = {} =>
          \/ units[i] \in ToSet(filtered)
          \/ "dedup" \in named /\ i \notin FirstOnes(units)
  BY ONLY <1>1, <1>3, <1>4 DEF FilterKeeps
<1>7. \A u \in ToSet(filtered) : \A fault \in u.faults \cap named :
        \A v \in ToSet(filtered) : fault \in v.faults
  BY ONLY <1>1, <1>3 DEF FilterKeeps
<1>8. "dedup" \in named =>
        \A u, v \in ToSet(filtered) : u.text = v.text => u = v
  BY ONLY <1>1, <1>3 DEF FilterKeeps
<1> QED  BY ONLY <1>2, <1>5, <1>6, <1>7, <1>8

\* A model that is asked for the relevant units drops only what it was shown and
\* did not name, and never all (select_relevant_units of services/relevance.py).
THEOREM OnlyWhatItSaw ==
  ASSUME NEW U, UnitsOf(U), NEW units, units \in Seq(U), Ascending(units), NEW replies
  PROVE  ModelDropsOnlyWhatItSaw(units, replies)
<1> DEFINE keep == InForm(units, "relevance")
           headed == At(units, keep)
           selected == SelectRelevant(units, replies)
           m == Len(headed)
           accepted == Accepted(m, replies)
           Answer(i) == replies[(i - 1) \div BatchSize + 1]
<1> SUFFICES ASSUME Len(units) >= 2, headed # <<>>
    PROVE  /\ selected # <<>> /\ InOrder(selected, headed)
           /\ \A i \in DOMAIN headed :
                headed[i] \in ToSet(headed) \ ToSet(selected) =>
                  Answer(i).usable /\ i \notin Answer(i).keep
  BY DEF ModelDropsOnlyWhatItSaw
<1>1. Chosen(U, units, keep, Len(units), headed)
  BY ONLY UnitsOf(U), units \in Seq(U), Ascending(units), AtIs
<1>2. headed \in Seq(U) /\ Ascending(headed)
  BY ONLY <1>1 DEF Chosen
<1>3. m \in Nat \ {0} /\ DOMAIN headed = 1 .. m
  BY ONLY <1>2, headed # <<>>, LenProperties, EmptySeq
<1>4. keep # {}
  <2>1. 1 \in 1 .. m
    BY ONLY <1>3
  <2> HIDE DEF headed
  <2>2. ElementOf(headed[1], headed)
    BY ONLY <2>1 DEF ElementOf
  <2>3. ChosenOf(units, keep, Len(units), headed[1])
    BY ONLY <1>1, <2>2 DEF Chosen
  <2> HIDE DEF keep
  <2> QED  BY ONLY <2>3 DEF ChosenOf
<1>5. selected = IF accepted = {} THEN headed ELSE At(headed, accepted)
  <2>1. Len(units) \in Nat
    BY ONLY units \in Seq(U), LenProperties
  <2>2. ~(Len(units) < 2 \/ keep = {})
    BY ONLY <1>4, <2>1, Len(units) >= 2
  <2> QED  BY ONLY <2>2 DEF SelectRelevant, Judged
<1>6. \A i \in 1 .. m : i \notin accepted => Answer(i).usable /\ i \notin Answer(i).keep
  BY ONLY DEF Accepted
<1>7. accepted \subseteq 1 .. m
  BY ONLY DEF Accepted
<1> HIDE DEF Answer, accepted, selected, headed
<1>8. Part(U, selected, headed)
      /\ \A i \in 1 .. m : i \in accepted => ElementOf(headed[i], selected)
  <2>1. CASE accepted = {}
    <3>1. Part(U, headed, headed)
      BY ONLY <1>2, headed # <<>>, AllIsPart
    <3> QED  BY ONLY <1>5, <2>1, <3>1
  <2>2. CASE accepted # {}
    <3>1. Chosen(U, headed, accepted, m, selected)
      <4>1. selected = At(headed, accepted)
        BY ONLY <1>5, <2>2
      <4> QED  BY ONLY <1>2, <4>1, UnitsOf(U), AtIs
    <3> HIDE DEF m
    <3>2. /\ selected \in Seq(U) /\ Ascending(selected)
          /\ \A x : ElementOf(x, selected) <=> ChosenOf(headed, accepted, m, x)
      BY ONLY <3>1 DEF Chosen
    <3>3. \A i \in 1 .. m : i \in accepted => ElementOf(headed[i], selected)
      BY ONLY <3>2 DEF ChosenOf
    <3>4. \A x : ElementOf(x, selected) => ElementOf(x, headed)
      BY ONLY <3>2 DEF ChosenOf, ElementOf, m
    <3>5. selected # <<>>
      <4>1. PICK i \in 1 .. m : i \in accepted
        BY ONLY <1>7, <2>2
      <4>2. ElementOf(headed[i], selected)
        BY ONLY <3>3, <4>1
      <4>3. Len(<<>>) = 0 /\ \A k \in 1 .. 0 : FALSE
        BY EmptySeq
      <4> QED  BY ONLY <4>2, <4>3 DEF ElementOf
    <3> QED  BY ONLY <3>2, <3>3, <3>4, <3>5 DEF Part
  <2> QED  BY ONLY <2>1, <2>2
<1>9. /\ selected \in Seq(U) /\ selected # <<>> /\ Ascending(selected)
      /\ \A x : ElementOf(x, selected) => ElementOf(x, headed)
  BY ONLY <1>8 DEF Part
<1>10. /\ \A x : x \in ToSet(selected) <=> ElementOf(x, selected)
       /\ \A x : x \in ToSet(headed) <=> ElementOf(x, headed)
  BY ONLY <1>2, <1>9, InToSet
<1>11. DOMAIN selected = 1 .. Len(selected)
  BY ONLY <1>9, LenProperties
<1>12. InOrder(selected, headed)
  <2>1. \A i, j \in DOMAIN selected : i < j => selected[i].place < selected[j].place
    BY ONLY <1>9, <1>11 DEF Ascending
  <2>2. ToSet(selected) \subseteq ToSet(headed)
    BY ONLY <1>9, <1>10
  <2> QED  BY ONLY <2>1, <2>2 DEF InOrder
<1>13. \A i \in DOMAIN headed :
         headed[i] \in ToSet(headed) \ ToSet(selected) =>
           Answer(i).usable /\ i \notin Answer(i).keep
  BY ONLY <1>3, <1>6, <1>8, <1>10
<1> QED  BY ONLY <1>9, <1>12, <1>13

-----------------------------------------------------------------------------
(* The dates of a document *)

\* In the order of two numbers, then of their places.
KeysBefore(a, b, i, k) ==
  a[i] < a[k] \/ (a[i] = a[k] /\ (b[i] < b[k] \/ (b[i] = b[k] /\ i < k)))
ByKeys(n, a, b) == {p \in (1 .. n) \X (1 .. n) : KeysBefore(a, b, p[1], p[2])}

LEMMA KeysInOrder ==
  ASSUME NEW i \in Nat, NEW j \in Nat, NEW k \in Nat, NEW ai \in Nat, NEW aj \in Nat, NEW ak \in Nat,
         NEW bi \in Nat, NEW bj \in Nat, NEW bk \in Nat,
         ai < aj \/ (ai = aj /\ (bi < bj \/ (bi = bj /\ i < j))),
         aj < ak \/ (aj = ak /\ (bj < bk \/ (bj = bk /\ j < k)))
  PROVE  ai < ak \/ (ai = ak /\ (bi < bk \/ (bi = bk /\ i < k)))
  OBVIOUS

LEMMA ByKeysIs ==
  ASSUME NEW n, n \in Nat, NEW a, \A i \in 1 .. n : a[i] \in Nat, NEW b, \A i \in 1 .. n : b[i] \in Nat
  PROVE  /\ StrictOrder(n, ByKeys(n, a, b))
         /\ \A i, k \in 1 .. n : <<i, k>> \in ByKeys(n, a, b) <=> KeysBefore(a, b, i, k)
<1> DEFINE R == ByKeys(n, a, b)
<1>1. \A i, k \in 1 .. n : <<i, k>> \in R <=> KeysBefore(a, b, i, k)
  BY DEF ByKeys
<1> HIDE DEF R
<1>2. \A i \in 1 .. n : i \in Nat /\ a[i] \in Nat /\ b[i] \in Nat
  BY ONLY \A i \in 1 .. n : a[i] \in Nat, \A i \in 1 .. n : b[i] \in Nat
<1>3. \A i \in 1 .. n : ~(<<i, i>> \in R)
  BY ONLY <1>1, <1>2 DEF KeysBefore
<1>4. \A i, k \in 1 .. n : i # k => <<i, k>> \in R \/ <<k, i>> \in R
  <2> TAKE i, k \in 1 .. n
  <2>1. /\ i \in Nat /\ k \in Nat /\ a[i] \in Nat /\ a[k] \in Nat /\ b[i] \in Nat /\ b[k] \in Nat
    BY ONLY <1>2, i \in 1 .. n, k \in 1 .. n
  <2>2. i # k => KeysBefore(a, b, i, k) \/ KeysBefore(a, b, k, i)
    BY ONLY <2>1 DEF KeysBefore
  <2> QED  BY ONLY <1>1, <2>2, i \in 1 .. n, k \in 1 .. n
<1>5. \A i, j, k \in 1 .. n : <<i, j>> \in R /\ <<j, k>> \in R => <<i, k>> \in R
  <2> SUFFICES ASSUME NEW i \in 1 .. n, NEW j \in 1 .. n, NEW k \in 1 .. n,
                      <<i, j>> \in R, <<j, k>> \in R
      PROVE  <<i, k>> \in R
    OBVIOUS
  <2>1. /\ i \in Nat /\ j \in Nat /\ k \in Nat /\ a[i] \in Nat /\ a[j] \in Nat /\ a[k] \in Nat
        /\ b[i] \in Nat /\ b[j] \in Nat /\ b[k] \in Nat
    BY ONLY <1>2, i \in 1 .. n, j \in 1 .. n, k \in 1 .. n
  <2>2. KeysBefore(a, b, i, j) /\ KeysBefore(a, b, j, k)
    BY ONLY <1>1, <<i, j>> \in R, <<j, k>> \in R, i \in 1 .. n, j \in 1 .. n, k \in 1 .. n
  <2>3. KeysBefore(a, b, i, k)
    BY ONLY <2>1, <2>2, KeysInOrder DEF KeysBefore
  <2> QED  BY ONLY <1>1, <2>3, i \in 1 .. n, k \in 1 .. n
<1>6. StrictOrder(n, R)
  BY ONLY <1>3, <1>4, <1>5 DEF StrictOrder
<1> QED  BY ONLY <1>1, <1>6 DEF R

LEMMA RankIsNat ==
  ASSUME NEW n, n \in Nat, NEW R, NEW i
  PROVE  RankOf(n, R, i) \in Nat
<1> DEFINE I == 1 .. n
<1>1. IsFiniteSet(I)
  BY ONLY n \in Nat, FS_Interval
<1>2. Below(n, R, i) \in SUBSET I
  BY DEF Below
<1> HIDE DEF I
<1>3. IsFiniteSet(Below(n, R, i))
  BY ONLY <1>1, <1>2, FS_Subset
<1> QED  BY ONLY <1>3, FS_CardinalityType DEF RankOf

\* The entries are sorted by two numbers.
Dated(E) == \A e \in E : e.offset \in Nat /\ Len(e.raw) \in Nat
ArrangedAt(es, a, b, out, at) ==
  /\ SortedBy(Len(es), ByKeys(Len(es), a, b), at)
  /\ \A r \in 1 .. Len(es) : out[r] = es[at[r]]
Arranged(E, es, a, b, out) ==
  out \in Seq(E) /\ Len(out) = Len(es) /\ \E at : ArrangedAt(es, a, b, out, at)

OffsetKey(es) == [i \in 1 .. Len(es) |-> es[i].offset]
LengthKey(es) == [i \in 1 .. Len(es) |-> Len(es[i].raw)]
RankKey(es) == [i \in 1 .. Len(es) |-> Rank(es[i].date)]

LEMMA RankIsNumber == \A date : Rank(date) \in Nat
  BY DEF Rank

Earlier(e, k) ==
  e.offset < k.offset \/ (e.offset = k.offset /\ Len(e.raw) < Len(k.raw))
InDocument(es) ==
  [n \in DOMAIN es |-> es[CHOOSE i \in DOMAIN es :
     n = 1 + Cardinality({j \in DOMAIN es :
           Earlier(es[j], es[i]) \/ (~Earlier(es[i], es[j]) /\ j < i)})]]

LEMMA EarlierSorted ==
  ASSUME NEW E, Dated(E), NEW es, es \in Seq(E)
  PROVE  Arranged(E, es, OffsetKey(es), LengthKey(es), InDocument(es))
<1> DEFINE n == Len(es)
           a == OffsetKey(es)
           b == LengthKey(es)
           R == ByKeys(n, a, b)
           Bef(i) == {j \in DOMAIN es : Earlier(es[j], es[i]) \/ (~Earlier(es[i], es[j]) /\ j < i)}
           RankedAt(r) == CHOOSE i \in DOMAIN es : r = 1 + Cardinality(Bef(i))
           at == [r \in 1 .. n |-> RankedAt(r)]
           out == InDocument(es)
<1>1. n \in Nat /\ DOMAIN es = 1 .. n
  BY ONLY es \in Seq(E), LenProperties
<1>2. \A i \in 1 .. n : es[i] \in E
  BY ONLY es \in Seq(E), ElementOfSeq
<1>3. \A i \in 1 .. n : a[i] = es[i].offset /\ b[i] = Len(es[i].raw)
  BY ONLY <1>1 DEF OffsetKey, LengthKey
<1>4. \A i \in 1 .. n : a[i] \in Nat /\ b[i] \in Nat
  BY ONLY <1>2, <1>3, Dated(E) DEF Dated
<1>5. StrictOrder(n, R) /\ \A i, k \in 1 .. n : <<i, k>> \in R <=> KeysBefore(a, b, i, k)
  <2> HIDE DEF a, b, n
  <2> QED  BY ONLY <1>1, <1>4, ByKeysIs
<1>6. out = [r \in 1 .. n |-> es[at[r]]]
  BY ONLY <1>1 DEF InDocument
<1> HIDE DEF a, b, R, out
<1>7. \A i \in 1 .. n : Bef(i) = Below(n, R, i)
  <2> TAKE i \in 1 .. n
  <2>1. ASSUME NEW j \in 1 .. n
        PROVE  (Earlier(es[j], es[i]) \/ (~Earlier(es[i], es[j]) /\ j < i)) <=> <<j, i>> \in R
    <3>1. Earlier(es[j], es[i]) <=> a[j] < a[i] \/ (a[j] = a[i] /\ b[j] < b[i])
      BY ONLY <1>3, i \in 1 .. n, j \in 1 .. n DEF Earlier
    <3>2. Earlier(es[i], es[j]) <=> a[i] < a[j] \/ (a[i] = a[j] /\ b[i] < b[j])
      BY ONLY <1>3, i \in 1 .. n, j \in 1 .. n DEF Earlier
    <3>3. a[i] \in Nat /\ a[j] \in Nat /\ b[i] \in Nat /\ b[j] \in Nat
      BY ONLY <1>4, i \in 1 .. n, j \in 1 .. n
    <3>4. (Earlier(es[j], es[i]) \/ (~Earlier(es[i], es[j]) /\ j < i)) <=> KeysBefore(a, b, j, i)
      BY ONLY <3>1, <3>2, <3>3 DEF KeysBefore
    <3> QED  BY ONLY <1>5, <3>4, i \in 1 .. n, j \in 1 .. n
  <2>2. Bef(i) = {j \in 1 .. n : Earlier(es[j], es[i]) \/ (~Earlier(es[i], es[j]) /\ j < i)}
    BY ONLY <1>1
  <2> QED  BY ONLY <2>1, <2>2 DEF Below
<1>8. \A i \in 1 .. n : Cardinality(Bef(i)) = RankOf(n, R, i) /\ RankOf(n, R, i) \in Nat
  <2> TAKE i \in 1 .. n
  <2>1. Cardinality(Bef(i)) = RankOf(n, R, i)
    BY ONLY <1>7, i \in 1 .. n DEF RankOf
  <2>2. RankOf(n, R, i) \in Nat
    BY ONLY <1>1, RankIsNat
  <2> QED  BY ONLY <2>1, <2>2
<1>9. \A r \in 1 .. n : (\E i \in 1 .. n : RankOf(n, R, i) = r - 1)
                          => at[r] \in 1 .. n /\ RankOf(n, R, at[r]) = r - 1
  <2> SUFFICES ASSUME NEW r \in 1 .. n, NEW i \in 1 .. n, RankOf(n, R, i) = r - 1
      PROVE  at[r] \in 1 .. n /\ RankOf(n, R, at[r]) = r - 1
    OBVIOUS
  <2> DEFINE Q(x) == r = 1 + Cardinality(Bef(x))
             c == CHOOSE x \in DOMAIN es : Q(x)
  <2>1. at[r] = c
    OBVIOUS
  <2>2. \A x \in 1 .. n : Q(x) <=> RankOf(n, R, x) = r - 1
    <3> HIDE DEF Bef
    <3>1. r \in Nat
      BY ONLY <1>1, r \in 1 .. n
    <3> QED  BY ONLY <1>8, <3>1
  <2> HIDE DEF Q
  <2>3. c \in 1 .. n /\ Q(c)
    BY ONLY <1>1, <2>2, RankOf(n, R, i) = r - 1, i \in 1 .. n
  <2> HIDE DEF c
  <2> QED  BY ONLY <2>1, <2>2, <2>3
<1> HIDE DEF at
<1>10. SortedBy(n, R, at)
  BY ONLY <1>1, <1>5, <1>9, SortedByRank
<1>11. out \in Seq(E) /\ Len(out) = n
  <2>1. \A r \in 1 .. n : es[at[r]] \in E
    BY ONLY <1>2, <1>10 DEF SortedBy
  <2> HIDE DEF n
  <2> QED  BY ONLY <1>1, <1>6, <2>1
<1>12. ArrangedAt(es, a, b, out, at)
  <2>1. \A r \in 1 .. n : out[r] = es[at[r]]
    BY ONLY <1>6
  <2> QED  BY ONLY <1>10, <2>1 DEF ArrangedAt, n, R
<1> QED  BY ONLY <1>11, <1>12 DEF Arranged, n, a, b, out

SoonerDate(e, k) ==
  Rank(e.date) < Rank(k.date)
    \/ (Rank(e.date) = Rank(k.date) /\ e.offset < k.offset)
InTime(es) ==
  [n \in DOMAIN es |-> es[CHOOSE i \in DOMAIN es :
     n = 1 + Cardinality({j \in DOMAIN es :
           SoonerDate(es[j], es[i]) \/ (~SoonerDate(es[i], es[j]) /\ j < i)})]]

LEMMA SoonerSorted ==
  ASSUME NEW E, Dated(E), NEW es, es \in Seq(E)
  PROVE  Arranged(E, es, RankKey(es), OffsetKey(es), InTime(es))
<1> DEFINE n == Len(es)
           a == RankKey(es)
           b == OffsetKey(es)
           R == ByKeys(n, a, b)
           Bef(i) == {j \in DOMAIN es : SoonerDate(es[j], es[i]) \/ (~SoonerDate(es[i], es[j]) /\ j < i)}
           RankedAt(r) == CHOOSE i \in DOMAIN es : r = 1 + Cardinality(Bef(i))
           at == [r \in 1 .. n |-> RankedAt(r)]
           out == InTime(es)
<1>1. n \in Nat /\ DOMAIN es = 1 .. n
  BY ONLY es \in Seq(E), LenProperties
<1>2. \A i \in 1 .. n : es[i] \in E
  BY ONLY es \in Seq(E), ElementOfSeq
<1>3. \A i \in 1 .. n : a[i] = Rank(es[i].date) /\ b[i] = es[i].offset
  BY ONLY <1>1 DEF RankKey, OffsetKey
<1>4. \A i \in 1 .. n : a[i] \in Nat /\ b[i] \in Nat
  BY ONLY <1>2, <1>3, Dated(E), RankIsNumber DEF Dated
<1>5. StrictOrder(n, R) /\ \A i, k \in 1 .. n : <<i, k>> \in R <=> KeysBefore(a, b, i, k)
  <2> HIDE DEF a, b, n
  <2> QED  BY ONLY <1>1, <1>4, ByKeysIs
<1>6. out = [r \in 1 .. n |-> es[at[r]]]
  BY ONLY <1>1 DEF InTime
<1> HIDE DEF a, b, R, out
<1>7. \A i \in 1 .. n : Bef(i) = Below(n, R, i)
  <2> TAKE i \in 1 .. n
  <2>1. ASSUME NEW j \in 1 .. n
        PROVE  (SoonerDate(es[j], es[i]) \/ (~SoonerDate(es[i], es[j]) /\ j < i)) <=> <<j, i>> \in R
    <3>1. SoonerDate(es[j], es[i]) <=> a[j] < a[i] \/ (a[j] = a[i] /\ b[j] < b[i])
      BY ONLY <1>3, i \in 1 .. n, j \in 1 .. n DEF SoonerDate
    <3>2. SoonerDate(es[i], es[j]) <=> a[i] < a[j] \/ (a[i] = a[j] /\ b[i] < b[j])
      BY ONLY <1>3, i \in 1 .. n, j \in 1 .. n DEF SoonerDate
    <3>3. a[i] \in Nat /\ a[j] \in Nat /\ b[i] \in Nat /\ b[j] \in Nat
      BY ONLY <1>4, i \in 1 .. n, j \in 1 .. n
    <3>4. (SoonerDate(es[j], es[i]) \/ (~SoonerDate(es[i], es[j]) /\ j < i)) <=> KeysBefore(a, b, j, i)
      BY ONLY <3>1, <3>2, <3>3 DEF KeysBefore
    <3> QED  BY ONLY <1>5, <3>4, i \in 1 .. n, j \in 1 .. n
  <2>2. Bef(i) = {j \in 1 .. n : SoonerDate(es[j], es[i]) \/ (~SoonerDate(es[i], es[j]) /\ j < i)}
    BY ONLY <1>1
  <2> QED  BY ONLY <2>1, <2>2 DEF Below
<1>8. \A i \in 1 .. n : Cardinality(Bef(i)) = RankOf(n, R, i) /\ RankOf(n, R, i) \in Nat
  <2> TAKE i \in 1 .. n
  <2>1. Cardinality(Bef(i)) = RankOf(n, R, i)
    BY ONLY <1>7, i \in 1 .. n DEF RankOf
  <2>2. RankOf(n, R, i) \in Nat
    BY ONLY <1>1, RankIsNat
  <2> QED  BY ONLY <2>1, <2>2
<1>9. \A r \in 1 .. n : (\E i \in 1 .. n : RankOf(n, R, i) = r - 1)
                          => at[r] \in 1 .. n /\ RankOf(n, R, at[r]) = r - 1
  <2> SUFFICES ASSUME NEW r \in 1 .. n, NEW i \in 1 .. n, RankOf(n, R, i) = r - 1
      PROVE  at[r] \in 1 .. n /\ RankOf(n, R, at[r]) = r - 1
    OBVIOUS
  <2> DEFINE Q(x) == r = 1 + Cardinality(Bef(x))
             c == CHOOSE x \in DOMAIN es : Q(x)
  <2>1. at[r] = c
    OBVIOUS
  <2>2. \A x \in 1 .. n : Q(x) <=> RankOf(n, R, x) = r - 1
    <3> HIDE DEF Bef
    <3>1. r \in Nat
      BY ONLY <1>1, r \in 1 .. n
    <3> QED  BY ONLY <1>8, <3>1
  <2> HIDE DEF Q
  <2>3. c \in 1 .. n /\ Q(c)
    BY ONLY <1>1, <2>2, RankOf(n, R, i) = r - 1, i \in 1 .. n
  <2> HIDE DEF c
  <2> QED  BY ONLY <2>1, <2>2, <2>3
<1> HIDE DEF at
<1>10. SortedBy(n, R, at)
  BY ONLY <1>1, <1>5, <1>9, SortedByRank
<1>11. out \in Seq(E) /\ Len(out) = n
  <2>1. \A r \in 1 .. n : es[at[r]] \in E
    BY ONLY <1>2, <1>10 DEF SortedBy
  <2> HIDE DEF n
  <2> QED  BY ONLY <1>1, <1>6, <2>1
<1>12. ArrangedAt(es, a, b, out, at)
  <2>1. \A r \in 1 .. n : out[r] = es[at[r]]
    BY ONLY <1>6
  <2> QED  BY ONLY <1>10, <2>1 DEF ArrangedAt, n, R
<1> QED  BY ONLY <1>11, <1>12 DEF Arranged, n, a, b, out

KeepDate(kept, e) ==
  IF \E i \in DOMAIN kept : Duplicate(e, kept[i]) THEN kept ELSE Append(kept, e)
KeptDates(es) ==
  LET keep(kept, e) == IF \E i \in DOMAIN kept : Duplicate(e, kept[i]) THEN kept
                       ELSE Append(kept, e)
  IN  FoldLeft(keep, <<>>, es)
KeepSteps(es, h) ==
  h[0] = <<>> /\ \A i \in 1 .. Len(es) : h[i] = KeepDate(h[i - 1], es[i])
KeptAfter(E, es, last) ==
  \E h \in [0 .. Len(es) -> Seq(E)] : KeepSteps(es, h) /\ last = h[Len(es)]

LEMMA KeepDateType ==
  ASSUME NEW E, NEW e, e \in E, NEW out, out \in Seq(E)
  PROVE  KeepDate(out, e) \in Seq(E)
<1>1. Append(out, e) \in Seq(E)
  BY ONLY e \in E, out \in Seq(E), AppendIs
<1> QED  BY ONLY <1>1, out \in Seq(E) DEF KeepDate

\* The loop over the entries in the order of the document.
LEMMA KeptFold ==
  ASSUME NEW E, NEW es, es \in Seq(E)
  PROVE  KeptAfter(E, es, KeptDates(es))
<1> DEFINE n == Len(es)
           V == Seq(E)
           v == <<>>
           step(out, e) == KeepDate(out, e)
           F == [i \in 1 .. n |-> [out \in V |-> step(out, es[i])]]
           Is(f) == f = [S \in SUBSET DOMAIN es |->
                           IF S = {} THEN v ELSE step(f[S \ {Max(S)}], es[Max(S)])]
           iter == CHOOSE f : Is(f)
<1>1. n \in Nat /\ v \in V
  BY ONLY es \in Seq(E), LenProperties, EmptySeq
<1>2. \A i \in 1 .. n : \A out \in V : step(out, es[i]) \in V
  <2> TAKE i \in 1 .. n
  <2> TAKE out \in V
  <2>1. es[i] \in E
    BY ONLY es \in Seq(E), ElementOfSeq, i \in 1 .. n
  <2> QED  BY ONLY <2>1, out \in V, KeepDateType
<1>3. F \in [1 .. n -> [V -> V]]
  <2> HIDE DEF step, V, n
  <2> QED  BY ONLY <1>2
<1>4. \A S \in SUBSET (1 .. n) : S # {} => Max(S) \in 1 .. n /\ S \ {Max(S)} \in SUBSET (1 .. n)
  <2> HIDE DEF n
  <2> QED  BY ONLY <1>1, MaxIn
<1>5. PICK g \in [SUBSET (1 .. n) -> V] :
        \A S \in SUBSET (1 .. n) : g[S] = IF S = {} THEN v ELSE F[Max(S)][g[S \ {Max(S)}]]
  <2> HIDE DEF F, V, n, v
  <2>1. Folded(V, n, v, F)
    BY ONLY <1>1, <1>3, FoldExists
  <2> QED  BY ONLY <2>1 DEF Folded, Folds
<1>6. DOMAIN es = 1 .. n
  <2>1. DOMAIN es = 1 .. n
    BY ONLY es \in Seq(E), LenProperties
  <2> QED  BY ONLY <2>1
<1>7. Is(g)
  <2> HIDE DEF step, V, n, v
  <2>1. ASSUME NEW S \in SUBSET (1 .. n)
        PROVE  g[S] = IF S = {} THEN v ELSE step(g[S \ {Max(S)}], es[Max(S)])
    <3>1. CASE S = {}
      BY ONLY <1>5, <3>1, S \in SUBSET (1 .. n)
    <3>2. CASE S # {}
      BY ONLY <1>4, <1>5, <3>2, S \in SUBSET (1 .. n)
    <3> QED  BY ONLY <3>1, <3>2
  <2> QED  BY ONLY <1>5, <1>6, <2>1
<1>8. Is(iter)
  <2> HIDE DEF Is
  <2> QED  BY <1>7
<1>9. KeptDates(es) = iter[1 .. n]
  BY <1>6 DEF KeptDates, FoldLeft, MapThenFoldSet, KeepDate
<1>10. /\ iter[{}] = v
       /\ \A S \in SUBSET (1 .. n) :
            S # {} /\ iter[S \ {Max(S)}] \in V => iter[S] = F[Max(S)][iter[S \ {Max(S)}]]
  <2> HIDE DEF step, V, iter, n, v
  <2>1. \A S \in SUBSET (1 .. n) :
          iter[S] = IF S = {} THEN v ELSE step(iter[S \ {Max(S)}], es[Max(S)])
    BY ONLY <1>6, <1>8
  <2> QED  BY ONLY <1>4, <2>1
<1>11. PICK h \in [0 .. n -> V] :
         /\ h[0] = v /\ \A i \in 1 .. n : h[i] = F[i][h[i - 1]]
         /\ iter[1 .. n] = h[n]
  <2> HIDE DEF F, V, iter, n, v
  <2>1. FoldsIn(V, n, v, F, iter)
    BY ONLY <1>10 DEF FoldsIn
  <2>2. IteratedTo(V, n, v, F, iter[1 .. n])
    BY ONLY <1>1, <1>3, <2>1, FoldGoesOn
  <2> QED  BY ONLY <2>2 DEF IteratedTo, Iterates
<1>12. \A i \in 1 .. n : h[i] = step(h[i - 1], es[i])
  <2> HIDE DEF step, V
  <2> TAKE i \in 1 .. n
  <2> HIDE DEF n
  <2>1. h[i - 1] \in V
    <3>1. i - 1 \in 0 .. n
      BY ONLY <1>1, i \in 1 .. n
    <3> QED  BY ONLY <1>11, <3>1
  <2> QED  BY ONLY <1>11, <2>1, i \in 1 .. n
<1>13. KeepSteps(es, h)
  BY ONLY <1>11, <1>12 DEF KeepSteps
<1> HIDE DEF iter
<1> QED  BY ONLY <1>9, <1>11, <1>13 DEF KeptAfter

LEMMA DuplicateIs ==
  ASSUME NEW e, NEW k
  PROVE  /\ Duplicate(e, k) => Duplicate(k, e)
         /\ SameSpan(e, e)
         /\ Duplicate(e, k) /\ e.date = NoDate => SameSpan(e, k)
  BY DEF Duplicate, SameSpan, SameDate, SpansOverlap

\* What is kept of the entries up to the i-th: none is a duplicate of another, and
\* one that is left out has a duplicate that came before.
KeptFor(es, j, out, x) ==
  /\ \E p \in 1 .. j : out[x] = es[p]
  /\ out[x] = es[j] \/ Duplicate(es[j], out[x])
DatesIn(E, es, i, out) ==
  /\ out \in Seq(E)
  /\ \A x \in 1 .. Len(out) : \E j \in 1 .. i : out[x] = es[j]
  /\ \A j \in 1 .. i : \E x \in 1 .. Len(out) : KeptFor(es, j, out, x)
  /\ \A x, y \in 1 .. Len(out) : x < y => ~Duplicate(out[y], out[x])

LEMMA KeepDateKeeps ==
  ASSUME NEW E, NEW es, es \in Seq(E), NEW i \in 1 .. Len(es),
         NEW out, DatesIn(E, es, i - 1, out)
  PROVE  DatesIn(E, es, i, KeepDate(out, es[i]))
<1> DEFINE e == es[i]
           m == Len(out)
<1>1. out \in Seq(E) /\ \A x, y \in 1 .. m : x < y => ~Duplicate(out[y], out[x])
  BY ONLY DatesIn(E, es, i - 1, out) DEF DatesIn
<1>2. \A x \in 1 .. m : \E j \in 1 .. i - 1 : out[x] = es[j]
  BY ONLY DatesIn(E, es, i - 1, out) DEF DatesIn
<1>3. \A j \in 1 .. i - 1 : \E x \in 1 .. m : KeptFor(es, j, out, x)
  BY ONLY DatesIn(E, es, i - 1, out) DEF DatesIn
<1>4. /\ e \in E /\ Len(es) \in Nat /\ i \in Nat \ {0} /\ m \in Nat /\ DOMAIN out = 1 .. m
  BY ONLY <1>1, es \in Seq(E), LenProperties, ElementOfSeq, i \in 1 .. Len(es)
<1>5. /\ \A j \in 1 .. i : j \in 1 .. i - 1 \/ j = i
      /\ \A j \in 1 .. i - 1 : j \in 1 .. i
      /\ i \in 1 .. i
  BY ONLY <1>4
<1>6. CASE \E x \in 1 .. m : Duplicate(e, out[x])
  <2>1. KeepDate(out, e) = out
    BY ONLY <1>4, <1>6 DEF KeepDate
  <2>2. PICK x \in 1 .. m : Duplicate(e, out[x])
    BY ONLY <1>6
  <2>3. KeptFor(es, i, out, x)
    <3>1. PICK j \in 1 .. i - 1 : out[x] = es[j]
      BY ONLY <1>2, x \in 1 .. m
    <3> QED  BY ONLY <1>5, <2>2, <3>1 DEF KeptFor
  <2>4. \A j \in 1 .. i : \E y \in 1 .. m : KeptFor(es, j, out, y)
    BY ONLY <1>3, <1>5, <2>3, x \in 1 .. m
  <2>5. \A y \in 1 .. m : \E j \in 1 .. i : out[y] = es[j]
    BY ONLY <1>2, <1>5
  <2> QED  BY ONLY <1>1, <2>1, <2>4, <2>5 DEF DatesIn
<1>7. CASE ~\E x \in 1 .. m : Duplicate(e, out[x])
  <2> DEFINE l == Append(out, e)
  <2>1. KeepDate(out, e) = l
    BY ONLY <1>4, <1>7 DEF KeepDate
  <2>2. l \in Seq(E) /\ Appended(out, e, l)
    BY ONLY <1>1, <1>4, AppendIs
  <2>3. Len(l) = m + 1 /\ l[m + 1] = e /\ \A x \in 1 .. m : l[x] = out[x]
    BY ONLY <2>2 DEF Appended
  <2> HIDE DEF l
  <2>4. /\ \A x \in 1 .. m + 1 : x \in 1 .. m \/ x = m + 1
        /\ \A x \in 1 .. m : x \in 1 .. m + 1
        /\ m + 1 \in 1 .. m + 1
        /\ \A x, y \in 1 .. m + 1 : x < y => x \in 1 .. m
    BY ONLY <1>4
  <2>5. \A x \in 1 .. m + 1 : \E j \in 1 .. i : l[x] = es[j]
    BY ONLY <1>2, <1>5, <2>3, <2>4
  <2>6. \A j \in 1 .. i : \E x \in 1 .. m + 1 : KeptFor(es, j, l, x)
    <3> TAKE j \in 1 .. i
    <3>1. CASE j = i
      <4>1. KeptFor(es, i, l, m + 1)
        BY ONLY <1>5, <2>3 DEF KeptFor
      <4> QED  BY ONLY <2>4, <3>1, <4>1
    <3>2. CASE j \in 1 .. i - 1
      <4>1. PICK x \in 1 .. m : KeptFor(es, j, out, x)
        BY ONLY <1>3, <3>2
      <4>2. l[x] = out[x]
        BY ONLY <2>3, x \in 1 .. m
      <4>3. KeptFor(es, j, l, x)
        BY ONLY <4>1, <4>2 DEF KeptFor
      <4> QED  BY ONLY <2>4, <4>3, x \in 1 .. m
    <3> QED  BY ONLY <1>5, <3>1, <3>2
  <2>7. \A x, y \in 1 .. m + 1 : x < y => ~Duplicate(l[y], l[x])
    <3> SUFFICES ASSUME NEW x \in 1 .. m + 1, NEW y \in 1 .. m + 1, x < y
        PROVE  ~Duplicate(l[y], l[x])
      OBVIOUS
    <3>1. x \in 1 .. m /\ l[x] = out[x]
      BY ONLY <2>3, <2>4, x < y, x \in 1 .. m + 1, y \in 1 .. m + 1
    <3>2. CASE y \in 1 .. m
      BY ONLY <1>1, <2>3, <3>1, <3>2, x < y
    <3>3. CASE y = m + 1
      BY ONLY <1>7, <2>3, <3>1, <3>3
    <3> QED  BY ONLY <2>4, <3>2, <3>3, y \in 1 .. m + 1
  <2> QED  BY ONLY <2>1, <2>2, <2>3, <2>5, <2>6, <2>7 DEF DatesIn
<1> QED  BY ONLY <1>6, <1>7

LEMMA DatesAre ==
  ASSUME NEW E, NEW es, es \in Seq(E)
  PROVE  DatesIn(E, es, Len(es), KeptDates(es))
<1> DEFINE n == Len(es)
<1>1. n \in Nat
  BY ONLY es \in Seq(E), LenProperties
<1>2. KeptAfter(E, es, KeptDates(es))
  BY ONLY es \in Seq(E), KeptFold
<1>3. PICK h \in [0 .. n -> Seq(E)] : KeepSteps(es, h) /\ KeptDates(es) = h[n]
  BY ONLY <1>2 DEF KeptAfter
<1>4. h[0] = <<>> /\ \A i \in 1 .. n : h[i] = KeepDate(h[i - 1], es[i])
  BY ONLY <1>3 DEF KeepSteps
<1> HIDE DEF n
<1> DEFINE S == {i \in 0 .. n : DatesIn(E, es, i, h[i])}
<1>5. 0 \in S
  <2>1. <<>> \in Seq(E) /\ Len(<<>>) = 0 /\ \A a \in 1 .. 0 : FALSE
    BY EmptySeq
  <2>2. DatesIn(E, es, 0, <<>>)
    BY ONLY <2>1 DEF DatesIn
  <2> QED  BY ONLY <1>1, <1>4, <2>2
<1>6. \A k \in 0 .. n - 1 : k \in S => k + 1 \in S
  <2> SUFFICES ASSUME NEW k \in 0 .. n - 1, k \in S PROVE k + 1 \in S
    OBVIOUS
  <2>1. k + 1 \in 1 .. n /\ (k + 1) - 1 = k /\ k + 1 \in 0 .. n
    BY ONLY <1>1, k \in 0 .. n - 1
  <2>2. h[k + 1] = KeepDate(h[k], es[k + 1])
    BY ONLY <1>4, <2>1
  <2>3. DatesIn(E, es, (k + 1) - 1, h[k])
    BY ONLY <2>1, k \in S
  <2>4. DatesIn(E, es, k + 1, h[k + 1])
    BY ONLY <2>1, <2>2, <2>3, es \in Seq(E), KeepDateKeeps DEF n
  <2> QED  BY ONLY <2>1, <2>4
<1>7. \A k \in 0 .. n : k \in S
  <2> HIDE DEF S
  <2> QED  BY ONLY <1>1, <1>5, <1>6, Upwards
<1>8. n \in 0 .. n
  BY ONLY <1>1
<1> QED  BY ONLY <1>3, <1>7, <1>8 DEF n

\* Sorting keeps every entry, and two of the sorted list are two of the unsorted one.
Sorted(es, a, b, out) ==
  /\ \A r \in 1 .. Len(es) : \E i \in 1 .. Len(es) : out[r] = es[i]
  /\ \A i \in 1 .. Len(es) : \E r \in 1 .. Len(es) : out[r] = es[i]
  /\ \A r, q \in 1 .. Len(es) : r < q =>
       \E i, j \in 1 .. Len(es) :
         /\ i # j /\ out[r] = es[i] /\ out[q] = es[j]
         /\ a[i] < a[j] \/ (a[i] = a[j] /\ b[i] <= b[j])

LEMMA ArrangedIs ==
  ASSUME NEW E, NEW es, Len(es) \in Nat, NEW a, \A i \in 1 .. Len(es) : a[i] \in Nat,
         NEW b, \A i \in 1 .. Len(es) : b[i] \in Nat, NEW out, Arranged(E, es, a, b, out)
  PROVE  Sorted(es, a, b, out)
<1> DEFINE n == Len(es)
           R == ByKeys(n, a, b)
<1>1. PICK at : ArrangedAt(es, a, b, out, at)
  BY ONLY Arranged(E, es, a, b, out) DEF Arranged
<1>2. SortedBy(n, R, at) /\ \A r \in 1 .. n : out[r] = es[at[r]]
  BY ONLY <1>1 DEF ArrangedAt
<1>3. StrictOrder(n, R) /\ \A i, k \in 1 .. n : <<i, k>> \in R <=> KeysBefore(a, b, i, k)
  BY ONLY Len(es) \in Nat, \A i \in 1 .. Len(es) : a[i] \in Nat,
          \A i \in 1 .. Len(es) : b[i] \in Nat, ByKeysIs
<1> HIDE DEF R
<1>4. \A r \in 1 .. n : at[r] \in 1 .. n
  BY ONLY <1>2 DEF SortedBy
<1>5. \A i \in 1 .. n : \E r \in 1 .. n : out[r] = es[i]
  <2> TAKE i \in 1 .. n
  <2>1. PICK r \in 1 .. n : at[r] = i
    BY ONLY <1>2 DEF SortedBy
  <2> QED  BY ONLY <1>2, <2>1
<1>6. ASSUME NEW r \in 1 .. n, NEW q \in 1 .. n, r < q
      PROVE  \E i, j \in 1 .. n : /\ i # j /\ out[r] = es[i] /\ out[q] = es[j]
                                  /\ a[i] < a[j] \/ (a[i] = a[j] /\ b[i] <= b[j])
  <2>1. /\ at[r] \in 1 .. n /\ at[q] \in 1 .. n
        /\ out[r] = es[at[r]] /\ out[q] = es[at[q]]
    BY ONLY <1>2, <1>4, r \in 1 .. n, q \in 1 .. n
  <2>2. <<at[r], at[q]>> \in R
    BY ONLY <1>2, <1>6 DEF SortedBy
  <2>3. at[r] # at[q] /\ KeysBefore(a, b, at[r], at[q])
    BY ONLY <1>3, <2>1, <2>2 DEF StrictOrder
  <2>4. b[at[r]] \in Nat /\ b[at[q]] \in Nat
    BY ONLY <2>1, \A i \in 1 .. Len(es) : b[i] \in Nat
  <2>5. a[at[r]] < a[at[q]] \/ (a[at[r]] = a[at[q]] /\ b[at[r]] <= b[at[q]])
    BY ONLY <2>3, <2>4 DEF KeysBefore
  <2> HIDE DEF n
  <2> QED  BY ONLY <2>1, <2>3, <2>5
<1>7. \A r \in 1 .. n : \E i \in 1 .. n : out[r] = es[i]
  BY ONLY <1>2, <1>4
<1> QED  BY ONLY <1>5, <1>6, <1>7 DEF Sorted

LEMMA DocumentOrder ==
  ASSUME NEW E, Dated(E), NEW all, all \in Seq(E), NEW first, first = InDocument(all)
  PROVE  /\ first \in Seq(E) /\ Len(first) = Len(all)
         /\ \A r \in 1 .. Len(first) : \E i \in 1 .. Len(all) : first[r] = all[i]
         /\ \A i \in 1 .. Len(all) : \E r \in 1 .. Len(first) : first[r] = all[i]
         /\ \A r \in 1 .. Len(first) : \A q \in 1 .. r : first[q].offset <= first[r].offset
<1> DEFINE n == Len(all)
           a == OffsetKey(all)
           b == LengthKey(all)
<1>1. n \in Nat /\ \A i \in 1 .. n : all[i] \in E
  BY ONLY all \in Seq(E), LenProperties, ElementOfSeq
<1>2. \A i \in 1 .. n : a[i] = all[i].offset /\ a[i] \in Nat /\ b[i] \in Nat
  BY ONLY <1>1, Dated(E) DEF Dated, OffsetKey, LengthKey
<1> HIDE DEF a, b
<1>3. Arranged(E, all, a, b, first)
  BY ONLY all \in Seq(E), Dated(E), first = InDocument(all), EarlierSorted DEF a, b
<1>4. first \in Seq(E) /\ Len(first) = n
  BY ONLY <1>3 DEF Arranged
<1>5. Sorted(all, a, b, first)
  BY ONLY <1>1, <1>2, <1>3, ArrangedIs
<1> HIDE DEF n
<1>6. /\ \A r \in 1 .. n : \E i \in 1 .. n : first[r] = all[i]
      /\ \A i \in 1 .. n : \E r \in 1 .. n : first[r] = all[i]
  BY ONLY <1>5 DEF Sorted, n
<1>7. \A r, q \in 1 .. n : r < q =>
        \E i, j \in 1 .. n : /\ i # j /\ first[r] = all[i] /\ first[q] = all[j]
                             /\ a[i] < a[j] \/ (a[i] = a[j] /\ b[i] <= b[j])
  BY ONLY <1>5 DEF Sorted, n
<1>8. ASSUME NEW r \in 1 .. n, NEW q \in 1 .. r
      PROVE  first[q].offset <= first[r].offset
  <2>1. \A i \in 1 .. n : all[i].offset \in Nat
    BY ONLY <1>2
  <2>2. CASE q = r
    BY ONLY <1>6, <2>1, <2>2, r \in 1 .. n
  <2>3. CASE q # r
    <3>1. q < r /\ q \in 1 .. n
      BY ONLY <1>1, <2>3, r \in 1 .. n, q \in 1 .. r
    <3>2. PICK i, j \in 1 .. n : /\ first[q] = all[i] /\ first[r] = all[j]
                                 /\ a[i] < a[j] \/ (a[i] = a[j] /\ b[i] <= b[j])
      BY ONLY <1>7, <3>1, r \in 1 .. n
    <3>3. a[i] = all[i].offset /\ a[j] = all[j].offset /\ a[i] \in Nat /\ a[j] \in Nat
      BY ONLY <1>2, i \in 1 .. n, j \in 1 .. n
    <3> QED  BY ONLY <3>2, <3>3
  <2> QED  BY ONLY <2>2, <2>3
<1> QED  BY ONLY <1>4, <1>6, <1>8 DEF n

LEMMA TimeOrder ==
  ASSUME NEW E, Dated(E), NEW kept, kept \in Seq(E), NEW last, last = InTime(kept)
  PROVE  /\ last \in Seq(E) /\ Len(last) = Len(kept)
         /\ \A r \in 1 .. Len(last) : \E i \in 1 .. Len(kept) : last[r] = kept[i]
         /\ \A i \in 1 .. Len(kept) : \E r \in 1 .. Len(last) : last[r] = kept[i]
         /\ \A r, q \in 1 .. Len(last) : r < q =>
              /\ \E i, j \in 1 .. Len(kept) : i # j /\ last[r] = kept[i] /\ last[q] = kept[j]
              /\ Rank(last[r].date) <= Rank(last[q].date)
              /\ Rank(last[r].date) = Rank(last[q].date) => last[r].offset <= last[q].offset
<1> DEFINE n == Len(kept)
           a == RankKey(kept)
           b == OffsetKey(kept)
<1>1. n \in Nat /\ \A i \in 1 .. n : kept[i] \in E
  BY ONLY kept \in Seq(E), LenProperties, ElementOfSeq
<1>2. \A i \in 1 .. n : /\ a[i] = Rank(kept[i].date) /\ a[i] \in Nat
                        /\ b[i] = kept[i].offset /\ b[i] \in Nat
  BY ONLY <1>1, Dated(E), RankIsNumber DEF Dated, OffsetKey, RankKey
<1> HIDE DEF a, b
<1>3. Arranged(E, kept, a, b, last)
  BY ONLY kept \in Seq(E), Dated(E), last = InTime(kept), SoonerSorted DEF a, b
<1>4. last \in Seq(E) /\ Len(last) = n
  BY ONLY <1>3 DEF Arranged
<1>5. Sorted(kept, a, b, last)
  BY ONLY <1>1, <1>2, <1>3, ArrangedIs
<1> HIDE DEF n
<1>6. /\ \A r \in 1 .. n : \E i \in 1 .. n : last[r] = kept[i]
      /\ \A i \in 1 .. n : \E r \in 1 .. n : last[r] = kept[i]
  BY ONLY <1>5 DEF Sorted, n
<1>7. \A r, q \in 1 .. n : r < q =>
        \E i, j \in 1 .. n : /\ i # j /\ last[r] = kept[i] /\ last[q] = kept[j]
                             /\ a[i] < a[j] \/ (a[i] = a[j] /\ b[i] <= b[j])
  BY ONLY <1>5 DEF Sorted, n
<1>8. ASSUME NEW r \in 1 .. n, NEW q \in 1 .. n, r < q
      PROVE  /\ \E i, j \in 1 .. n : i # j /\ last[r] = kept[i] /\ last[q] = kept[j]
             /\ Rank(last[r].date) <= Rank(last[q].date)
             /\ Rank(last[r].date) = Rank(last[q].date) => last[r].offset <= last[q].offset
  <2>1. PICK i, j \in 1 .. n : /\ i # j /\ last[r] = kept[i] /\ last[q] = kept[j]
                               /\ a[i] < a[j] \/ (a[i] = a[j] /\ b[i] <= b[j])
    BY ONLY <1>8, <1>7
  <2>2. /\ a[i] = Rank(kept[i].date) /\ a[i] \in Nat /\ b[i] = kept[i].offset
        /\ a[j] = Rank(kept[j].date) /\ a[j] \in Nat /\ b[j] = kept[j].offset
    BY ONLY <1>2, i \in 1 .. n, j \in 1 .. n
  <2>3. /\ Rank(last[r].date) = a[i] /\ last[r].offset = b[i]
        /\ Rank(last[q].date) = a[j] /\ last[q].offset = b[j]
    BY ONLY <2>1, <2>2
  <2>4. a[i] <= a[j] /\ (a[i] = a[j] => b[i] <= b[j])
    BY ONLY <2>1, <2>2
  <2> QED  BY ONLY <2>1, <2>3, <2>4
<1> QED  BY ONLY <1>4, <1>6, <1>8 DEF n

\* The list of dates of a document (_dedupe_and_sort of tasks/dates): an entry left out
\* has a duplicate that is left, no later in the document; no two that are left are
\* duplicates; an undated mention is never taken for another one; the dates come in
\* order, and undated entries last.
THEOREM DatesAreDistinct ==
  ASSUME NEW E, Dated(E), NEW all, all \in Seq(E), NEW text, NEW whole \in BOOLEAN,
         whole => \A i \in DOMAIN all : IsIn(text, all[i])
  PROVE  Merged(DedupeAndSort(all), all, text, whole)
<1> DEFINE first == InDocument(all)
           kept == KeptDates(first)
           last == InTime(kept)
<1>1. DedupeAndSort(all) = last
  BY DEF DedupeAndSort, InTime, InDocument, KeptDates, Earlier, SoonerDate
<1> HIDE DEF first
<1>2. /\ first \in Seq(E) /\ Len(first) = Len(all)
      /\ \A r \in 1 .. Len(first) : \E i \in 1 .. Len(all) : first[r] = all[i]
      /\ \A i \in 1 .. Len(all) : \E r \in 1 .. Len(first) : first[r] = all[i]
      /\ \A r \in 1 .. Len(first) : \A q \in 1 .. r : first[q].offset <= first[r].offset
  BY ONLY all \in Seq(E), Dated(E), DocumentOrder DEF first
<1> HIDE DEF kept
<1>3. DatesIn(E, first, Len(first), kept)
  BY ONLY <1>2, DatesAre DEF kept
<1>4. /\ kept \in Seq(E)
      /\ \A x \in 1 .. Len(kept) : \E j \in 1 .. Len(first) : kept[x] = first[j]
      /\ \A j \in 1 .. Len(first) : \E x \in 1 .. Len(kept) : KeptFor(first, j, kept, x)
      /\ \A x, y \in 1 .. Len(kept) : x < y => ~Duplicate(kept[y], kept[x])
  BY ONLY <1>3 DEF DatesIn
<1> HIDE DEF last
<1>5. /\ last \in Seq(E) /\ Len(last) = Len(kept)
      /\ \A r \in 1 .. Len(last) : \E i \in 1 .. Len(kept) : last[r] = kept[i]
      /\ \A i \in 1 .. Len(kept) : \E r \in 1 .. Len(last) : last[r] = kept[i]
      /\ \A r, q \in 1 .. Len(last) : r < q =>
           /\ \E i, j \in 1 .. Len(kept) : i # j /\ last[r] = kept[i] /\ last[q] = kept[j]
           /\ Rank(last[r].date) <= Rank(last[q].date)
           /\ Rank(last[r].date) = Rank(last[q].date) => last[r].offset <= last[q].offset
  BY ONLY <1>4, Dated(E), TimeOrder DEF last
<1>6. /\ DOMAIN all = 1 .. Len(all) /\ DOMAIN last = 1 .. Len(last)
      /\ Len(kept) \in Nat
  BY ONLY <1>4, <1>5, all \in Seq(E), LenProperties
<1>7. \A k \in 1 .. Len(last) : \E i \in 1 .. Len(all) : last[k] = all[i]
  <2> TAKE k \in 1 .. Len(last)
  <2>1. PICK x \in 1 .. Len(kept) : last[k] = kept[x]
    BY ONLY <1>5
  <2>2. PICK j \in 1 .. Len(first) : kept[x] = first[j]
    BY ONLY <1>4
  <2> QED  BY ONLY <1>2, <2>1, <2>2
<1>8. ToSet(last) \subseteq ToSet(all)
  BY ONLY <1>6, <1>7 DEF ToSet
<1>9. ASSUME NEW i \in 1 .. Len(all)
      PROVE  \E k \in 1 .. Len(last) : /\ last[k] = all[i] \/ Duplicate(all[i], last[k])
                                       /\ last[k].offset <= all[i].offset
  <2>1. PICK r \in 1 .. Len(first) : first[r] = all[i]
    BY ONLY <1>2
  <2>2. PICK x \in 1 .. Len(kept) : KeptFor(first, r, kept, x)
    BY ONLY <1>4
  <2>3. PICK k \in 1 .. Len(last) : last[k] = kept[x]
    BY ONLY <1>5
  <2>4. PICK p \in 1 .. r : kept[x] = first[p]
    BY ONLY <2>2 DEF KeptFor
  <2>5. kept[x].offset <= first[r].offset
    BY ONLY <1>2, <2>4, r \in 1 .. Len(first)
  <2> QED  BY ONLY <2>1, <2>2, <2>3, <2>5 DEF KeptFor
<1>10. ASSUME NEW r \in 1 .. Len(last), NEW q \in 1 .. Len(last), r < q
       PROVE  ~Duplicate(last[r], last[q])
  <2>1. PICK i, j \in 1 .. Len(kept) : i # j /\ last[r] = kept[i] /\ last[q] = kept[j]
    BY ONLY <1>5, <1>10
  <2>2. i < j \/ j < i
    BY ONLY <1>6, <2>1
  <2>3. ~Duplicate(kept[i], kept[j])
    <3>1. CASE i < j
      BY ONLY <1>4, <3>1, i \in 1 .. Len(kept), j \in 1 .. Len(kept), DuplicateIs
    <3>2. CASE j < i
      BY ONLY <1>4, <3>2, i \in 1 .. Len(kept), j \in 1 .. Len(kept)
    <3> QED  BY ONLY <2>2, <3>1, <3>2
  <2> QED  BY ONLY <2>1, <2>3
<1>11. ASSUME NEW i \in 1 .. Len(all), all[i].date = NoDate
       PROVE  \E k \in 1 .. Len(last) : SameSpan(all[i], last[k])
  <2>1. PICK k \in 1 .. Len(last) : last[k] = all[i] \/ Duplicate(all[i], last[k])
    BY ONLY <1>9
  <2> QED  BY ONLY <1>11, <2>1, DuplicateIs
<1>12. whole => \A k \in 1 .. Len(last) : IsIn(text, last[k])
  BY ONLY <1>6, <1>7, whole => \A i \in DOMAIN all : IsIn(text, all[i])
<1>13. Merged(last, all, text, whole)
  <2>1. \A i, k \in DOMAIN last : i < k =>
          /\ ~Duplicate(last[i], last[k])
          /\ Rank(last[i].date) <= Rank(last[k].date)
          /\ Rank(last[i].date) = Rank(last[k].date) => last[i].offset <= last[k].offset
    BY ONLY <1>5, <1>6, <1>10
  <2> QED  BY ONLY <1>6, <1>8, <1>9, <1>11, <1>12, <2>1 DEF Merged
<1> QED  BY ONLY <1>1, <1>13

-----------------------------------------------------------------------------
(* Where the expressions of one chunk are (Dates!Find, Locate) *)

LEMMA LeastDate ==
  ASSUME NEW T, T \subseteq Nat, T # {}
  PROVE  Min(T) \in T /\ \A y \in T : Min(T) <= y
<1>1. \E x \in T : \A y \in T : x <= y
  BY ONLY T \subseteq Nat, T # {}, LeastNumber
<1> QED  BY ONLY <1>1 DEF Min

\* `sought` is written in `text` from a place on.
WrittenAt(text, sought, p) == \A q \in 1 .. Len(sought) : text[p + q - 1] = sought[q]
PlacesFrom(text, sought, start) ==
  {p \in start .. Len(text) + 1 - Len(sought) : WrittenAt(text, sought, p)}
FoundFrom(text, sought, start, found) ==
  \/ found = 0 /\ PlacesFrom(text, sought, start) = {}
  \/ /\ found \in PlacesFrom(text, sought, start)
     /\ \A p \in PlacesFrom(text, sought, start) : found <= p

LEMMA WrittenIs ==
  ASSUME NEW V, NEW text, text \in Seq(V), NEW sought, sought \in Seq(V), NEW p, p \in Nat \ {0},
         p <= Len(text) + 1 - Len(sought)
  PROVE  SubSeq(text, p, p + Len(sought) - 1) = sought <=> WrittenAt(text, sought, p)
<1> DEFINE m == Len(sought)
           e == p + m - 1
           sub == SubSeq(text, p, e)
<1>1. Len(text) \in Nat /\ m \in Nat
  BY ONLY text \in Seq(V), sought \in Seq(V), LenProperties
<1>2. p \in Int /\ e \in Int /\ e - p + 1 = m /\ \A i \in p .. e : i \in 1 .. Len(text)
  BY ONLY <1>1, p \in Nat \ {0}, p <= Len(text) + 1 - Len(sought)
<1>3. \A i \in p .. e : text[i] \in V
  BY ONLY <1>2, text \in Seq(V), ElementOfSeq
<1>4. /\ sub \in Seq(V) /\ Len(sub) = IF p <= e THEN e - p + 1 ELSE 0
      /\ \A i \in 1 .. e - p + 1 : sub[i] = text[p + i - 1]
  BY ONLY <1>2, <1>3, SubSeqProperties
<1>5. Len(sub) = m
  BY ONLY <1>1, <1>4, p \in Nat \ {0}
<1>6. \A i \in 1 .. m : sub[i] = text[p + i - 1]
  BY ONLY <1>2, <1>4
<1> HIDE DEF sub, m
<1>7. sub = sought => WrittenAt(text, sought, p)
  BY ONLY <1>6 DEF WrittenAt, m
<1>8. ASSUME WrittenAt(text, sought, p)
      PROVE  sub = sought
  <2>1. \A i \in 1 .. m : sub[i] = sought[i]
    BY ONLY <1>6, <1>8 DEF WrittenAt, m
  <2> QED  BY ONLY <1>4, <1>5, <2>1, sought \in Seq(V), SeqEqual DEF m
<1> QED  BY ONLY <1>7, <1>8 DEF sub, m

LEMMA FindIs ==
  ASSUME NEW V, NEW text, text \in Seq(V), NEW sought, sought \in Seq(V),
         NEW start, start \in Nat \ {0}
  PROVE  FoundFrom(text, sought, start, Find(text, sought, start))
<1> DEFINE found == {i \in start .. Len(text) + 1 - Len(sought) :
                       SubSeq(text, i, i + Len(sought) - 1) = sought}
           S == PlacesFrom(text, sought, start)
<1>1. Len(text) \in Nat /\ Len(sought) \in Nat
  BY ONLY text \in Seq(V), sought \in Seq(V), LenProperties
<1>2. \A i \in start .. Len(text) + 1 - Len(sought) :
        i \in Nat \ {0} /\ i <= Len(text) + 1 - Len(sought)
  BY ONLY <1>1, start \in Nat \ {0}
<1>3. \A i \in start .. Len(text) + 1 - Len(sought) :
        SubSeq(text, i, i + Len(sought) - 1) = sought <=> WrittenAt(text, sought, i)
  BY ONLY <1>2, text \in Seq(V), sought \in Seq(V), WrittenIs
<1>4. found = S
  BY ONLY <1>3 DEF PlacesFrom
<1>5. Find(text, sought, start) = IF S = {} THEN 0 ELSE Min(S)
  BY ONLY <1>4 DEF Find
<1>6. S \subseteq Nat
  BY ONLY <1>2 DEF PlacesFrom
<1> HIDE DEF S
<1>7. S # {} => Min(S) \in S /\ \A y \in S : Min(S) <= y
  BY ONLY <1>6, LeastDate
<1> QED  BY ONLY <1>5, <1>7 DEF FoundFrom, S

\* Text in lower case.
LowerOf(W, text, low) ==
  /\ low \in Seq({w.means : w \in W}) /\ Len(low) = Len(text)
  /\ \A i \in 1 .. Len(text) : low[i] = text[i].means
LEMMA LowerIs ==
  ASSUME NEW W, NEW text, text \in Seq(W)
  PROVE  LowerOf(W, text, Lower(text))
<1> DEFINE M == {w.means : w \in W}
           low == Lower(text)
<1>1. Len(text) \in Nat /\ DOMAIN text = 1 .. Len(text)
  BY ONLY text \in Seq(W), LenProperties
<1>2. \A i \in 1 .. Len(text) : text[i].means \in M
  BY ONLY text \in Seq(W), ElementOfSeq
<1>3. low = [i \in 1 .. Len(text) |-> text[i].means]
  BY ONLY <1>1 DEF Lower
<1> HIDE DEF M, low
<1>4. low \in Seq(M) /\ Len(low) = Len(text)
  BY ONLY <1>1, <1>2, <1>3
<1>5. \A i \in 1 .. Len(text) : low[i] = text[i].means
  BY ONLY <1>3
<1> QED  BY ONLY <1>4, <1>5 DEF LowerOf, M, low

\* An expression occurs at a place, in whatever case.
Occurs(text, e, p) ==
  p \in PlacesFrom(Lower(text), Lower(e), 1)

LEMMA OccursInCase ==
  ASSUME NEW W, NEW text, text \in Seq(W), NEW e, e \in Seq(W), NEW s, s \in Nat \ {0},
         NEW p, p \in PlacesFrom(text, e, s) \/ p \in PlacesFrom(Lower(text), Lower(e), s)
  PROVE  Occurs(text, e, p)
<1> DEFINE low == Lower(text)
           el == Lower(e)
<1>1. LowerOf(W, text, low) /\ LowerOf(W, e, el)
  BY ONLY text \in Seq(W), e \in Seq(W), LowerIs
<1>2. /\ Len(low) = Len(text) /\ Len(el) = Len(e)
      /\ \A i \in 1 .. Len(text) : low[i] = text[i].means
      /\ \A i \in 1 .. Len(e) : el[i] = e[i].means
  BY ONLY <1>1 DEF LowerOf
<1>3. Len(text) \in Nat /\ Len(e) \in Nat
  BY ONLY text \in Seq(W), e \in Seq(W), LenProperties
<1> HIDE DEF low, el
<1>4. \A x \in s .. Len(text) + 1 - Len(e) : x \in 1 .. Len(text) + 1 - Len(e) /\ x \in Nat
  BY ONLY <1>3, s \in Nat \ {0}
<1>5. CASE p \in PlacesFrom(low, el, s)
  BY ONLY <1>2, <1>4, <1>5 DEF Occurs, PlacesFrom, low, el
<1>6. CASE p \in PlacesFrom(text, e, s)
  <2>1. p \in s .. Len(text) + 1 - Len(e) /\ WrittenAt(text, e, p)
    BY ONLY <1>6 DEF PlacesFrom
  <2>2. p \in Nat \ {0} /\ p <= Len(text) + 1 - Len(e)
    BY ONLY <1>3, <2>1, s \in Nat \ {0}
  <2>3. \A q \in 1 .. Len(e) : p + q - 1 \in 1 .. Len(text)
    BY ONLY <1>3, <2>2
  <2>4. WrittenAt(low, el, p)
    BY ONLY <1>2, <2>1, <2>3 DEF WrittenAt
  <2> QED  BY ONLY <1>2, <1>4, <2>1, <2>4 DEF Occurs, PlacesFrom, low, el
<1> QED  BY ONLY <1>5, <1>6, p \in PlacesFrom(text, e, s) \/ p \in PlacesFrom(low, el, s) DEF low, el

LEMMA OccursFound ==
  ASSUME NEW W, NEW text, text \in Seq(W), NEW e, e \in Seq(W), NEW p, Occurs(text, e, p)
  PROVE  p \in Nat \ {0} /\ Find(Lower(text), Lower(e), p) = p
<1> DEFINE low == Lower(text)
           el == Lower(e)
           M == {w.means : w \in W}
<1>1. low \in Seq(M) /\ el \in Seq(M)
  BY ONLY text \in Seq(W), e \in Seq(W), LowerIs DEF LowerOf
<1> HIDE DEF low, el, M
<1>2. Len(low) \in Nat /\ Len(el) \in Nat
  BY ONLY <1>1, LenProperties
<1>3. p \in 1 .. Len(low) + 1 - Len(el) /\ WrittenAt(low, el, p)
  BY ONLY Occurs(text, e, p) DEF Occurs, PlacesFrom, low, el
<1>4. p \in Nat \ {0} /\ p \in p .. Len(low) + 1 - Len(el)
      /\ \A x \in p .. Len(low) + 1 - Len(el) : x \in Nat /\ p <= x
  BY ONLY <1>2, <1>3
<1>5. FoundFrom(low, el, p, Find(low, el, p))
  BY ONLY <1>1, <1>4, FindIs
<1>6. p \in PlacesFrom(low, el, p) /\ \A x \in PlacesFrom(low, el, p) : x \in Nat /\ p <= x
  BY ONLY <1>3, <1>4 DEF PlacesFrom
<1> DEFINE f == Find(low, el, p)
<1>7. f \in PlacesFrom(low, el, p) /\ f <= p
  BY ONLY <1>5, <1>6 DEF FoundFrom
<1>8. f = p
  BY ONLY <1>4, <1>6, <1>7
<1> QED  BY ONLY <1>4, <1>8 DEF low, el

LEMMA LocateIs ==
  ASSUME NEW W, NEW text, text \in Seq(W), NEW e, e \in Seq(W), NEW cursor, cursor \in Nat \ {0},
         NEW place, place = Locate(text, e, cursor)
  PROVE  /\ place # 0 => Occurs(text, e, place)
         /\ Find(Lower(text), Lower(e), 1) # 0 => place # 0
<1> DEFINE low == Lower(text)
           el == Lower(e)
           M == {w.means : w \in W}
           a == Find(text, e, cursor)
           b == Find(low, el, cursor)
           c == Find(text, e, 1)
           d == Find(low, el, 1)
           tries == <<a, b, c, d>>
           found == {i \in DOMAIN tries : tries[i] # 0}
<1>1. low \in Seq(M) /\ el \in Seq(M)
  BY ONLY text \in Seq(W), e \in Seq(W), LowerIs DEF LowerOf
<1>2. place = IF found = {} THEN 0 ELSE tries[Min(found)]
  BY ONLY place = Locate(text, e, cursor) DEF Locate
<1> HIDE DEF M
<1>3. /\ FoundFrom(text, e, cursor, a) /\ FoundFrom(low, el, cursor, b)
      /\ FoundFrom(text, e, 1, c) /\ FoundFrom(low, el, 1, d)
  <2>1. 1 \in Nat \ {0}
    OBVIOUS
  <2> HIDE DEF low, el
  <2> QED  BY ONLY <1>1, <2>1, text \in Seq(W), e \in Seq(W), cursor \in Nat \ {0}, FindIs
<1> HIDE DEF a, b, c, d
<1>4. /\ a # 0 => Occurs(text, e, a)
      /\ b # 0 => Occurs(text, e, b)
      /\ c # 0 => Occurs(text, e, c)
      /\ d # 0 => Occurs(text, e, d)
  <2>1. /\ a # 0 => a \in PlacesFrom(text, e, cursor)
        /\ b # 0 => b \in PlacesFrom(low, el, cursor)
        /\ c # 0 => c \in PlacesFrom(text, e, 1)
        /\ d # 0 => d \in PlacesFrom(low, el, 1)
    BY ONLY <1>3 DEF FoundFrom
  <2>2. 1 \in Nat \ {0}
    OBVIOUS
  <2> QED  BY ONLY <2>1, <2>2, text \in Seq(W), e \in Seq(W), cursor \in Nat \ {0}, OccursInCase
<1>5. \A i \in 1 .. 4 : tries[i] # 0 => Occurs(text, e, tries[i])
  BY ONLY <1>4
<1>6. DOMAIN tries = 1 .. 4 /\ tries[4] = d
  OBVIOUS
<1> HIDE DEF tries
<1>7. found \subseteq Nat
  BY ONLY <1>6
<1>8. found # {} => Min(found) \in found
  <2> HIDE DEF found
  <2> QED  BY ONLY <1>7, LeastDate
<1>9. \A i \in found : i \in 1 .. 4 /\ tries[i] # 0
  BY ONLY <1>6
<1>10. d # 0 => 4 \in found
  BY ONLY <1>6
<1> HIDE DEF found
<1>11. place # 0 => Occurs(text, e, place)
  BY ONLY <1>2, <1>5, <1>8, <1>9
<1>12. d # 0 => place # 0
  BY ONLY <1>2, <1>8, <1>9, <1>10
<1> QED  BY ONLY <1>11, <1>12 DEF d, low, el

-----------------------------------------------------------------------------
(* The dates of one chunk *)

Asked(e) == e.resolver = "llm" \/ e.reason = "ambiguous"
Explained(e) == (e.date = NoDate) = (e.reason # NoReason)

\* What the loop of _extract_from_text does with an expression that is at `place`.
Skips(done, after) ==
  after.entries = done.entries /\ after.seen = done.seen /\ after.consumed = done.consumed
PassesOver(done, e, span, after) ==
  /\ Classify(e) = "none"
  /\ after.entries = done.entries /\ after.consumed = done.consumed
  /\ after.seen = done.seen \cup {span}
Counts(done, entry, after) ==
  \/ ~Asked(entry) /\ after.consumed = done.consumed
  \/ done.consumed < MaxFallbacks /\ after.consumed = done.consumed + 1
Puts(done, e, span, here, entry, after) ==
  /\ Classify(e) # "none"
  /\ after.entries = Append(done.entries, entry)
  /\ after.seen = done.seen \cup {span}
  /\ entry.raw = e /\ entry.offset = here /\ Explained(entry)
  /\ Counts(done, entry, after)

Moved(done, cursor) == [done EXCEPT !.cursor = cursor]
Noted(done, cursor, span) == [done EXCEPT !.cursor = cursor, !.seen = @ \cup {span}]
With(after, entry) == [after EXCEPT !.entries = Append(@, entry)]
Counted(put) == [put EXCEPT !.consumed = IF Asks(@) THEN @ + 1 ELSE @]
ExtractStep(text, anchored, offset, fallback, done, expression) ==
  LET place == Locate(text, expression, done.cursor)
      span  == <<place, Lower(expression)>>
      after == Noted(done, place + Len(expression), span)
      here  == offset + place
  IN  CASE place = 0 -> done
        [] span \in done.seen -> Moved(done, place + Len(expression))
        [] OTHER ->
             IF Classify(expression) = "none" THEN after
             ELSE IF Classify(expression) = "relative" /\ ~anchored
             THEN With(after, Entry(expression, here, NoDate, "missing_anchor", "unresolved"))
             ELSE IF Parsed(expression) # NoDate
             THEN With(after, Entry(expression, here, Parsed(expression), NoReason,
                                         "dateparser"))
             ELSE Counted(With(after, Unparsed(expression, here, done.consumed, fallback)))

\* The states of the loop, for entries of E.
LoopState(E, V) == [entries : Seq(E), seen : SUBSET V, cursor : Nat \ {0}, consumed : Nat]
EntryOf(W) ==
  [raw : Seq(W), offset : Nat, date : {w.means : w \in W} \cup {"none", "range", "asked"},
   reason : {"none", "ambiguous", "unparseable", "missing_anchor"},
   resolver : {"unresolved", "llm", "dateparser"}]
SpanOf(W) == (Nat \ {0}) \X Seq({w.means : w \in W})

LEMMA UnparsedIs ==
  ASSUME NEW W, NEW e, e \in Seq(W), NEW here, here \in Nat, NEW consumed, NEW fallback
  PROVE  LET entry == Unparsed(e, here, consumed, fallback)
         IN  /\ entry \in EntryOf(W) /\ entry.raw = e /\ entry.offset = here /\ Explained(entry)
             /\ Asks(consumed) \/ ~Asked(entry)
<1> DEFINE entry == Unparsed(e, here, consumed, fallback)
<1>1. CASE Asks(consumed)
  BY ONLY <1>1, e \in Seq(W), here \in Nat
     DEF Unparsed, Entry, EntryOf, Explained, NoDate, NoReason
<1>2. CASE ~Asks(consumed)
  BY ONLY <1>2, e \in Seq(W), here \in Nat
     DEF Unparsed, Entry, EntryOf, Explained, Asked, NoDate, NoReason
<1> QED  BY ONLY <1>1, <1>2

LEMMA OtherEntryIs ==
  ASSUME NEW W, NEW e, e \in Seq(W), NEW here, here \in Nat
  PROVE  /\ LET entry == Entry(e, here, NoDate, "missing_anchor", "unresolved")
            IN  /\ entry \in EntryOf(W) /\ entry.raw = e /\ entry.offset = here
                /\ Explained(entry) /\ ~Asked(entry)
         /\ \A date \in {w.means : w \in W} \cup {"range"} : date # NoDate =>
              LET entry == Entry(e, here, date, NoReason, "dateparser")
              IN  /\ entry \in EntryOf(W) /\ entry.raw = e /\ entry.offset = here
                  /\ Explained(entry) /\ ~Asked(entry)
  BY ONLY e \in Seq(W), here \in Nat
     DEF Entry, EntryOf, Explained, Asked, NoDate, NoReason

LEMMA ParsedIs ==
  ASSUME NEW W, NEW e, e \in Seq(W) \ {<<>>}
  PROVE  Parsed(e) # NoDate => Parsed(e) \in {w.means : w \in W} \cup {"range"}
<1>1. 1 \in 1 .. Len(e)
  BY ONLY e \in Seq(W) \ {<<>>}, EmptySeq
<1>2. e[1] \in W
  BY ONLY <1>1, e \in Seq(W) \ {<<>>}, ElementOfSeq
<1> QED  BY ONLY <1>2 DEF Parsed, NoDate

StepIs(W, offset, done, e, place, after) ==
  \/ place = 0 /\ after = done
  \/ place # 0 /\ <<place, Lower(e)>> \in done.seen /\ Skips(done, after)
  \/ /\ place # 0 /\ <<place, Lower(e)>> \notin done.seen
     /\ \/ PassesOver(done, e, <<place, Lower(e)>>, after)
        \/ \E entry \in EntryOf(W) :
             Puts(done, e, <<place, Lower(e)>>, offset + place, entry, after)

MovesAndNotes(E, V, done, cursor, span) ==
  /\ Moved(done, cursor) \in LoopState(E, V) /\ Skips(done, Moved(done, cursor))
  /\ Noted(done, cursor, span) \in LoopState(E, V)
  /\ Noted(done, cursor, span).entries = done.entries
  /\ Noted(done, cursor, span).consumed = done.consumed
  /\ Noted(done, cursor, span).seen = done.seen \cup {span}
TakesEntry(E, V, after, entry) ==
  /\ With(after, entry) \in LoopState(E, V)
  /\ With(after, entry).entries = Append(after.entries, entry)
  /\ With(after, entry).seen = after.seen /\ With(after, entry).consumed = after.consumed

LEMMA LoopFields ==
  ASSUME NEW E, NEW V, NEW done, done \in LoopState(E, V),
         NEW cursor, cursor \in Nat \ {0}, NEW span, span \in V
  PROVE  MovesAndNotes(E, V, done, cursor, span)
  BY ONLY done \in LoopState(E, V), cursor \in Nat \ {0}, span \in V
     DEF MovesAndNotes, LoopState, Skips, Moved, Noted

LEMMA LoopEntry ==
  ASSUME NEW E, NEW V, NEW after, after \in LoopState(E, V), NEW entry, entry \in E
  PROVE  TakesEntry(E, V, after, entry)
<1>1. after.entries \in Seq(E)
  BY ONLY after \in LoopState(E, V) DEF LoopState
<1>2. Append(after.entries, entry) \in Seq(E)
  BY ONLY <1>1, entry \in E, AppendIs
<1> QED  BY ONLY <1>2, after \in LoopState(E, V) DEF TakesEntry, LoopState, With

LEMMA LoopCount ==
  ASSUME NEW E, NEW V, NEW put, put \in LoopState(E, V)
  PROVE  /\ Counted(put) \in LoopState(E, V)
         /\ Counted(put).entries = put.entries /\ Counted(put).seen = put.seen
         /\ Counted(put).consumed = IF Asks(put.consumed) THEN put.consumed + 1 ELSE put.consumed
  BY ONLY put \in LoopState(E, V) DEF LoopState, Counted

LEMMA ExtractStepIs ==
  ASSUME NEW W, NEW text, text \in Seq(W), NEW anchored, NEW offset, offset \in Nat, NEW fallback,
         NEW done, done \in LoopState(EntryOf(W), SpanOf(W)), NEW e, e \in Seq(W) \ {<<>>}
  PROVE  /\ ExtractStep(text, anchored, offset, fallback, done, e)
              \in LoopState(EntryOf(W), SpanOf(W))
         /\ StepIs(W, offset, done, e, Locate(text, e, done.cursor),
                   ExtractStep(text, anchored, offset, fallback, done, e))
<1> DEFINE E == EntryOf(W)
           V == SpanOf(W)
           place == Locate(text, e, done.cursor)
           span == <<place, Lower(e)>>
           cursor == place + Len(e)
           here == offset + place
           after == Noted(done, cursor, span)
           put(entry) == With(after, entry)
           skip == Moved(done, cursor)
           missing == Entry(e, here, NoDate, "missing_anchor", "unresolved")
           parsed == Entry(e, here, Parsed(e), NoReason, "dateparser")
           fallen == Unparsed(e, here, done.consumed, fallback)
           counted == Counted(put(fallen))
           step == ExtractStep(text, anchored, offset, fallback, done, e)
<1>1. step = CASE place = 0 -> done
               [] span \in done.seen -> skip
               [] OTHER ->
                    IF Classify(e) = "none" THEN after
                    ELSE IF Classify(e) = "relative" /\ ~anchored THEN put(missing)
                    ELSE IF Parsed(e) # NoDate THEN put(parsed)
                    ELSE counted
  BY DEF ExtractStep
<1>2. /\ e \in Seq(W) /\ Len(e) \in Nat \ {0} /\ Lower(e) \in Seq({w.means : w \in W})
      /\ done.cursor \in Nat \ {0} /\ done.consumed \in Nat /\ done.entries \in Seq(E)
  BY ONLY e \in Seq(W) \ {<<>>}, done \in LoopState(EntryOf(W), SpanOf(W)), EmptySeq, LowerIs
     DEF LowerOf, LoopState
<1>3. place # 0 => place \in Nat \ {0}
  BY ONLY <1>2, text \in Seq(W), LocateIs, OccursFound
<1> HIDE DEF place
<1>4. CASE place = 0
  <2>1. span \notin done.seen
    BY ONLY <1>4, done \in LoopState(EntryOf(W), SpanOf(W)) DEF LoopState, SpanOf
  <2> HIDE DEF step, skip, after, put, missing, parsed, fallen, counted, span
  <2>2. step = done
    BY ONLY <1>1, <1>4, <2>1
  <2>3. StepIs(W, offset, done, e, place, step)
    BY ONLY <1>4, <2>2 DEF StepIs
  <2> QED  BY ONLY <2>2, <2>3, done \in LoopState(EntryOf(W), SpanOf(W)) DEF place, step
<1>5. CASE place # 0
  <2>1. cursor \in Nat \ {0} /\ here \in Nat /\ span \in V
    BY ONLY <1>2, <1>3, <1>5, offset \in Nat DEF SpanOf
  <2> HIDE DEF E, V, cursor, span, here
  <2>2. /\ skip \in LoopState(E, V) /\ Skips(done, skip)
        /\ after \in LoopState(E, V) /\ after.entries = done.entries
        /\ after.consumed = done.consumed /\ after.seen = done.seen \cup {span}
    <3>1. done \in LoopState(E, V)
      BY ONLY done \in LoopState(EntryOf(W), SpanOf(W)) DEF E, V
    <3>2. MovesAndNotes(E, V, done, cursor, span)
      BY ONLY <2>1, <3>1, LoopFields
    <3> QED  BY ONLY <3>2 DEF MovesAndNotes, skip, after
  <2> HIDE DEF skip, after
  <2>3. \A entry \in E : /\ put(entry) \in LoopState(E, V)
                         /\ put(entry).entries = Append(done.entries, entry)
                         /\ put(entry).seen = done.seen \cup {span}
                         /\ put(entry).consumed = done.consumed
    <3> SUFFICES ASSUME NEW entry \in E
                 PROVE  /\ put(entry) \in LoopState(E, V)
                        /\ put(entry).entries = Append(done.entries, entry)
                        /\ put(entry).seen = done.seen \cup {span}
                        /\ put(entry).consumed = done.consumed
      OBVIOUS
    <3>1. TakesEntry(E, V, after, entry)
      BY ONLY <2>2, entry \in E, LoopEntry
    <3> QED  BY ONLY <2>2, <3>1 DEF TakesEntry, put
  <2>4. /\ missing \in E /\ missing.raw = e /\ missing.offset = here
        /\ Explained(missing) /\ ~Asked(missing)
    BY ONLY <1>2, <2>1, OtherEntryIs DEF E
  <2>5. Parsed(e) # NoDate =>
          /\ parsed \in E /\ parsed.raw = e /\ parsed.offset = here
          /\ Explained(parsed) /\ ~Asked(parsed)
    <3>1. Parsed(e) # NoDate => Parsed(e) \in {w.means : w \in W} \cup {"range"}
      BY ONLY e \in Seq(W) \ {<<>>}, ParsedIs
    <3> QED  BY ONLY <1>2, <2>1, <3>1, OtherEntryIs DEF E
  <2>6. /\ fallen \in E /\ fallen.raw = e /\ fallen.offset = here /\ Explained(fallen)
        /\ Asks(done.consumed) \/ ~Asked(fallen)
    BY ONLY <1>2, <2>1, UnparsedIs DEF E
  <2> HIDE DEF missing, parsed, fallen, put
  <2>7. /\ counted \in LoopState(E, V) /\ counted.entries = Append(done.entries, fallen)
        /\ counted.seen = done.seen \cup {span}
        /\ counted.consumed = IF Asks(done.consumed) THEN done.consumed + 1 ELSE done.consumed
    BY ONLY <2>3, <2>6, LoopCount
  <2> HIDE DEF counted, step
  <2>8. CASE span \in done.seen
    <3>1. step = skip
      BY ONLY <1>1, <1>5, <2>8
    <3>2. StepIs(W, offset, done, e, place, step)
      BY ONLY <1>5, <2>2, <2>8, <3>1 DEF StepIs, span
    <3> QED  BY ONLY <2>2, <3>1, <3>2 DEF place, step, E, V
  <2>9. CASE span \notin done.seen
    <3>1. step = IF Classify(e) = "none" THEN after
                 ELSE IF Classify(e) = "relative" /\ ~anchored THEN put(missing)
                 ELSE IF Parsed(e) # NoDate THEN put(parsed)
                 ELSE counted
      BY ONLY <1>1, <1>5, <2>9
    <3>2. CASE Classify(e) = "none"
      <4>1. step = after
        BY ONLY <3>1, <3>2
      <4>2. PassesOver(done, e, span, step)
        BY ONLY <2>2, <3>2, <4>1 DEF PassesOver
      <4> QED  BY ONLY <1>5, <2>2, <2>9, <4>1, <4>2 DEF StepIs, span, place, step, E, V
    <3>3. CASE Classify(e) # "none"
      <4>1. \E entry \in E : Puts(done, e, span, here, entry, step)
        <5>1. CASE step = put(missing)
          BY ONLY <2>3, <2>4, <3>3, <5>1 DEF Puts, Counts
        <5>2. CASE step = put(parsed) /\ Parsed(e) # NoDate
          BY ONLY <2>3, <2>5, <3>3, <5>2 DEF Puts, Counts
        <5>3. CASE step = counted
          BY ONLY <2>6, <2>7, <3>3, <5>3 DEF Puts, Counts, Asks
        <5> QED  BY ONLY <3>1, <3>3, <5>1, <5>2, <5>3
      <4>2. step \in LoopState(E, V)
        BY ONLY <2>3, <2>4, <2>5, <2>7, <3>1, <3>3
      <4> QED  BY ONLY <1>5, <2>9, <4>1, <4>2 DEF StepIs, span, here, place, step, E, V
    <3> QED  BY ONLY <3>2, <3>3
  <2> QED  BY ONLY <2>8, <2>9
<1> QED  BY ONLY <1>4, <1>5

\* The state of the loop: every entry stands where it says and is in `seen`, no two
\* are of the same place, an expression that was seen and is a date has an entry,
\* and the model was asked once for each entry that it decided.
Stands(text, offset, seen, entry) ==
  /\ Explained(entry)
  /\ \E p \in Nat \ {0} : /\ entry.offset = offset + p /\ Occurs(text, entry.raw, p)
                          /\ <<p, Lower(entry.raw)>> \in seen
Once(entries) ==
  \A x, y \in 1 .. Len(entries) : x < y => ~SameSpan(entries[x], entries[y])
HasEntry(entries, low) == \E x \in 1 .. Len(entries) : Lower(entries[x].raw) = low
SeenHaveEntries(W, entries, seen) ==
  \A p \in Nat \ {0} : \A e \in Seq(W) \ {<<>>} :
    <<p, Lower(e)>> \in seen /\ Classify(e) # "none" => HasEntry(entries, Lower(e))
WithinBudget(entries, consumed) ==
  /\ Cardinality({x \in 1 .. Len(entries) : Asked(entries[x])}) <= consumed
  /\ consumed <= MaxFallbacks
LoopIn(W, text, offset, done) ==
  /\ done \in LoopState(EntryOf(W), SpanOf(W))
  /\ \A x \in 1 .. Len(done.entries) : Stands(text, offset, done.seen, done.entries[x])
  /\ Once(done.entries)
  /\ SeenHaveEntries(W, done.entries, done.seen)
  /\ WithinBudget(done.entries, done.consumed)

LEMMA ClassifyByLower ==
  ASSUME NEW W, NEW e, e \in Seq(W) \ {<<>>}, NEW k, k \in Seq(W) \ {<<>>},
         Lower(e) = Lower(k)
  PROVE  Classify(e) = Classify(k)
<1>1. e \in Seq(W) /\ k \in Seq(W) /\ 1 \in 1 .. Len(e) /\ 1 \in 1 .. Len(k)
  BY ONLY e \in Seq(W) \ {<<>>}, k \in Seq(W) \ {<<>>}, EmptySeq
<1>2. LowerOf(W, e, Lower(e)) /\ LowerOf(W, k, Lower(k))
  BY ONLY <1>1, LowerIs
<1>3. e[1].means = k[1].means
  BY ONLY <1>1, <1>2, Lower(e) = Lower(k) DEF LowerOf
<1> QED  BY ONLY <1>3 DEF Classify

\* One more entry of a place that was not seen before.
LEMMA OneMoreEntry ==
  ASSUME NEW W, NEW text, NEW offset, offset \in Nat, NEW entries, entries \in Seq(EntryOf(W)),
         NEW seen, \A x \in 1 .. Len(entries) : Stands(text, offset, seen, entries[x]),
         Once(entries),
         NEW entry, entry \in EntryOf(W), Explained(entry), NEW p, p \in Nat \ {0},
         entry.offset = offset + p, Occurs(text, entry.raw, p),
         <<p, Lower(entry.raw)>> \notin seen,
         NEW l, Appended(entries, entry, l)
  PROVE  /\ \A x \in 1 .. Len(l) :
              Stands(text, offset, seen \cup {<<p, Lower(entry.raw)>>}, l[x])
         /\ Once(l)
<1> DEFINE m == Len(entries)
           later == seen \cup {<<p, Lower(entry.raw)>>}
<1>1. m \in Nat /\ Len(l) = m + 1 /\ l[m + 1] = entry /\ \A x \in 1 .. m : l[x] = entries[x]
  BY ONLY Appended(entries, entry, l) DEF Appended
<1> HIDE DEF m
<1>2. /\ \A x \in 1 .. m + 1 : x \in 1 .. m \/ x = m + 1
      /\ \A x, y \in 1 .. m + 1 : x < y => x \in 1 .. m
  BY ONLY <1>1
<1>3. \A x \in 1 .. m : Stands(text, offset, seen, entries[x])
  BY ONLY \A x \in 1 .. Len(entries) : Stands(text, offset, seen, entries[x]) DEF m
<1>4. \A x \in 1 .. m : Stands(text, offset, later, entries[x])
  <2> TAKE x \in 1 .. m
  <2>1. Stands(text, offset, seen, entries[x])
    BY ONLY <1>3, x \in 1 .. m
  <2> QED  BY ONLY <2>1 DEF Stands
<1>5. Stands(text, offset, later, entry)
  BY ONLY Explained(entry), p \in Nat \ {0}, entry.offset = offset + p, Occurs(text, entry.raw, p)
     DEF Stands
<1> HIDE DEF later
<1>6. \A x \in 1 .. m + 1 : Stands(text, offset, later, l[x])
  BY ONLY <1>1, <1>2, <1>4, <1>5
<1>7. \A x \in 1 .. m : ~SameSpan(entries[x], entry)
  <2> SUFFICES ASSUME NEW x \in 1 .. m, SameSpan(entries[x], entry)
               PROVE  FALSE
    OBVIOUS
  <2>1. Stands(text, offset, seen, entries[x])
    BY ONLY <1>3, x \in 1 .. m
  <2>2. PICK q \in Nat \ {0} : /\ entries[x].offset = offset + q
                               /\ <<q, Lower(entries[x].raw)>> \in seen
    BY ONLY <2>1 DEF Stands
  <2>3. entry.offset = entries[x].offset /\ Lower(entry.raw) = Lower(entries[x].raw)
    BY ONLY SameSpan(entries[x], entry) DEF SameSpan
  <2>4. offset + q = offset + p
    BY ONLY <2>2, <2>3, entry.offset = offset + p
  <2>5. q = p
    BY ONLY <2>4, offset \in Nat, q \in Nat \ {0}, p \in Nat \ {0}
  <2> QED  BY ONLY <2>2, <2>3, <2>5, <<p, Lower(entry.raw)>> \notin seen
<1>8. \A x, y \in 1 .. m + 1 : x < y => ~SameSpan(l[x], l[y])
  <2> SUFFICES ASSUME NEW x \in 1 .. m + 1, NEW y \in 1 .. m + 1, x < y
               PROVE  ~SameSpan(l[x], l[y])
    OBVIOUS
  <2>1. x \in 1 .. m /\ l[x] = entries[x]
    BY ONLY <1>1, <1>2, x < y, x \in 1 .. m + 1, y \in 1 .. m + 1
  <2>2. CASE y \in 1 .. m
    <3>1. ~SameSpan(entries[x], entries[y])
      BY ONLY <2>1, <2>2, x < y, Once(entries) DEF Once, m
    <3> QED  BY ONLY <1>1, <2>1, <2>2, <3>1
  <2>3. CASE y = m + 1
    BY ONLY <1>1, <1>7, <2>1, <2>3
  <2> QED  BY ONLY <1>2, <2>2, <2>3, y \in 1 .. m + 1
<1> QED  BY ONLY <1>1, <1>6, <1>8 DEF Once, later

\* The budget.
LEMMA OneMoreAsked ==
  ASSUME NEW W, NEW entries, entries \in Seq(W), NEW consumed, consumed \in Nat,
         WithinBudget(entries, consumed), MaxFallbacks \in Nat,
         NEW entry, NEW l, Appended(entries, entry, l), NEW later,
         \/ ~Asked(entry) /\ later = consumed
         \/ consumed < MaxFallbacks /\ later = consumed + 1
  PROVE  WithinBudget(l, later)
<1> DEFINE m == Len(entries)
           S == {x \in 1 .. m : Asked(entries[x])}
           T == {x \in 1 .. m + 1 : Asked(l[x])}
<1>1. m \in Nat /\ Len(l) = m + 1 /\ l[m + 1] = entry /\ \A x \in 1 .. m : l[x] = entries[x]
  BY ONLY Appended(entries, entry, l) DEF Appended
<1>2. Cardinality(S) <= consumed /\ consumed <= MaxFallbacks
  BY ONLY WithinBudget(entries, consumed) DEF WithinBudget
<1> HIDE DEF m
<1>3. IsFiniteSet(1 .. m)
  BY ONLY <1>1, FS_Interval
<1>4. S \subseteq 1 .. m
  OBVIOUS
<1>5. \A x \in 1 .. m + 1 : x \in 1 .. m \/ x = m + 1
  BY ONLY <1>1
<1>6. T \subseteq S \cup {m + 1} /\ (~Asked(entry) => T \subseteq S)
  BY ONLY <1>1, <1>5
<1> HIDE DEF S, T
<1>7. IsFiniteSet(S)
  BY ONLY <1>3, <1>4, FS_Subset
<1>8. Cardinality(S) \in Nat
  BY ONLY <1>7, FS_CardinalityType
<1>9. /\ IsFiniteSet(S \cup {m + 1})
      /\ Cardinality(S \cup {m + 1}) = Cardinality(S) \/ Cardinality(S \cup {m + 1}) = Cardinality(S) + 1
  BY ONLY <1>7, FS_AddElement
<1>10. IsFiniteSet(T) /\ Cardinality(T) <= Cardinality(S \cup {m + 1})
  BY ONLY <1>6, <1>9, FS_Subset
<1>11. Cardinality(T) \in Nat
  BY ONLY <1>10, FS_CardinalityType
<1>12. CASE ~Asked(entry) /\ later = consumed
  <2>1. Cardinality(T) <= Cardinality(S)
    BY ONLY <1>6, <1>7, <1>12, FS_Subset
  <2>2. Cardinality(T) <= later /\ later <= MaxFallbacks
    BY ONLY <1>2, <1>8, <1>11, <1>12, <2>1, consumed \in Nat, MaxFallbacks \in Nat
  <2> QED  BY ONLY <1>1, <2>2 DEF WithinBudget, T
<1>13. CASE consumed < MaxFallbacks /\ later = consumed + 1
  <2>1. Cardinality(T) <= later /\ later <= MaxFallbacks
    BY ONLY <1>2, <1>8, <1>9, <1>10, <1>11, <1>13, consumed \in Nat, MaxFallbacks \in Nat
  <2> QED  BY ONLY <1>1, <2>1 DEF WithinBudget, T
<1> QED  BY ONLY <1>12, <1>13, \/ ~Asked(entry) /\ later = consumed
                               \/ consumed < MaxFallbacks /\ later = consumed + 1

LEMMA HasEntryStays ==
  ASSUME NEW W, NEW entries, NEW entry, NEW l, Appended(entries, entry, l), NEW low
  PROVE  /\ HasEntry(entries, low) => HasEntry(l, low)
         /\ Lower(entry.raw) = low => HasEntry(l, low)
<1> DEFINE m == Len(entries)
<1>1. m \in Nat /\ Len(l) = m + 1 /\ l[m + 1] = entry /\ \A x \in 1 .. m : l[x] = entries[x]
  BY ONLY Appended(entries, entry, l) DEF Appended
<1> HIDE DEF m
<1>2. m + 1 \in 1 .. m + 1 /\ \A x \in 1 .. m : x \in 1 .. m + 1
  BY ONLY <1>1
<1>3. HasEntry(entries, low) => HasEntry(l, low)
  <2> SUFFICES ASSUME HasEntry(entries, low) PROVE HasEntry(l, low)
    OBVIOUS
  <2>1. PICK x \in 1 .. m : Lower(entries[x].raw) = low
    BY ONLY HasEntry(entries, low) DEF HasEntry, m
  <2>2. x \in 1 .. Len(l) /\ l[x] = entries[x]
    BY ONLY <1>1, <1>2, x \in 1 .. m
  <2> QED  BY ONLY <2>1, <2>2 DEF HasEntry
<1>4. m + 1 \in 1 .. Len(l)
  BY ONLY <1>1, <1>2
<1> QED  BY ONLY <1>1, <1>3, <1>4 DEF HasEntry

\* A step that puts no entry.
LEMMA NothingPut ==
  ASSUME NEW W, NEW text, NEW offset, NEW done, LoopIn(W, text, offset, done),
         NEW after, after \in LoopState(EntryOf(W), SpanOf(W)),
         after.entries = done.entries, after.consumed = done.consumed,
         done.seen \subseteq after.seen,
         SeenHaveEntries(W, done.entries, after.seen)
  PROVE  LoopIn(W, text, offset, after)
<1>1. \A x \in 1 .. Len(done.entries) : Stands(text, offset, after.seen, done.entries[x])
  <2> TAKE x \in 1 .. Len(done.entries)
  <2>1. Stands(text, offset, done.seen, done.entries[x])
    BY ONLY LoopIn(W, text, offset, done), x \in 1 .. Len(done.entries) DEF LoopIn
  <2> QED  BY ONLY <2>1, done.seen \subseteq after.seen DEF Stands
<1>2. Once(done.entries) /\ WithinBudget(done.entries, done.consumed)
  BY ONLY LoopIn(W, text, offset, done) DEF LoopIn
<1> QED  BY ONLY <1>1, <1>2, after \in LoopState(EntryOf(W), SpanOf(W)), after.entries = done.entries,
            after.consumed = done.consumed, SeenHaveEntries(W, done.entries, after.seen) DEF LoopIn

\* A step that puts one.
LEMMA OnePut ==
  ASSUME NEW W, NEW text, NEW offset, offset \in Nat, MaxFallbacks \in Nat,
         NEW done, LoopIn(W, text, offset, done),
         NEW after, after \in LoopState(EntryOf(W), SpanOf(W)),
         NEW e, e \in Seq(W) \ {<<>>}, NEW place, place \in Nat \ {0}, Occurs(text, e, place),
         <<place, Lower(e)>> \notin done.seen,
         NEW entry, entry \in EntryOf(W),
         Puts(done, e, <<place, Lower(e)>>, offset + place, entry, after)
  PROVE  LoopIn(W, text, offset, after) /\ Appended(done.entries, entry, after.entries)
<1>1. /\ done \in LoopState(EntryOf(W), SpanOf(W)) /\ Once(done.entries)
      /\ \A x \in 1 .. Len(done.entries) : Stands(text, offset, done.seen, done.entries[x])
      /\ SeenHaveEntries(W, done.entries, done.seen) /\ WithinBudget(done.entries, done.consumed)
  BY ONLY LoopIn(W, text, offset, done) DEF LoopIn
<1>2. done.entries \in Seq(EntryOf(W)) /\ done.consumed \in Nat
  BY ONLY <1>1 DEF LoopState
<1>3. /\ Classify(e) # "none" /\ after.entries = Append(done.entries, entry)
      /\ after.seen = done.seen \cup {<<place, Lower(e)>>}
      /\ entry.raw = e /\ entry.offset = offset + place /\ Explained(entry)
      /\ Counts(done, entry, after)
  BY ONLY Puts(done, e, <<place, Lower(e)>>, offset + place, entry, after) DEF Puts
<1>4. Appended(done.entries, entry, after.entries)
  BY ONLY <1>2, <1>3, entry \in EntryOf(W), AppendIs
<1>5. /\ \A x \in 1 .. Len(after.entries) : Stands(text, offset, after.seen, after.entries[x])
      /\ Once(after.entries)
  <2>1. /\ entry.offset = offset + place /\ Occurs(text, entry.raw, place)
        /\ <<place, Lower(entry.raw)>> \notin done.seen /\ Explained(entry)
        /\ after.seen = done.seen \cup {<<place, Lower(entry.raw)>>}
    BY ONLY <1>3, Occurs(text, e, place), <<place, Lower(e)>> \notin done.seen
  <2>2. /\ \A x \in 1 .. Len(after.entries) :
             Stands(text, offset, done.seen \cup {<<place, Lower(entry.raw)>>}, after.entries[x])
        /\ Once(after.entries)
    BY ONLY <1>1, <1>2, <1>4, <2>1, offset \in Nat, place \in Nat \ {0}, entry \in EntryOf(W),
       OneMoreEntry
  <2> QED  BY ONLY <2>1, <2>2
<1>6. WithinBudget(after.entries, after.consumed)
  <2>1. \/ ~Asked(entry) /\ after.consumed = done.consumed
        \/ done.consumed < MaxFallbacks /\ after.consumed = done.consumed + 1
    BY ONLY <1>3 DEF Counts
  <2> QED  BY ONLY <1>1, <1>2, <1>4, <2>1, MaxFallbacks \in Nat, OneMoreAsked
<1>7. SeenHaveEntries(W, after.entries, after.seen)
  <2> SUFFICES ASSUME NEW p \in Nat \ {0}, NEW k \in Seq(W) \ {<<>>},
                      <<p, Lower(k)>> \in after.seen, Classify(k) # "none"
               PROVE  HasEntry(after.entries, Lower(k))
    BY DEF SeenHaveEntries
  <2>1. CASE <<p, Lower(k)>> \in done.seen
    <3>1. HasEntry(done.entries, Lower(k))
      BY ONLY <1>1, <2>1, p \in Nat \ {0}, k \in Seq(W) \ {<<>>}, Classify(k) # "none"
         DEF SeenHaveEntries
    <3> QED  BY ONLY <1>4, <3>1, HasEntryStays
  <2>2. CASE <<p, Lower(k)>> = <<place, Lower(e)>>
    <3>1. Lower(entry.raw) = Lower(k)
      BY ONLY <1>3, <2>2
    <3> QED  BY ONLY <1>4, <3>1, HasEntryStays
  <2> QED  BY ONLY <1>3, <2>1, <2>2, <<p, Lower(k)>> \in after.seen
<1> QED  BY ONLY <1>4, <1>5, <1>6, <1>7, after \in LoopState(EntryOf(W), SpanOf(W)) DEF LoopIn

\* An expression that is a date and was found has an entry after its step.
LoopGoesOn(W, text, offset, done, e, after) ==
  /\ LoopIn(W, text, offset, after)
  /\ \A low : HasEntry(done.entries, low) => HasEntry(after.entries, low)
  /\ Classify(e) # "none" /\ Find(Lower(text), Lower(e), 1) # 0 =>
       HasEntry(after.entries, Lower(e))
LEMMA LoopKeeps ==
  ASSUME NEW W, NEW text, text \in Seq(W), NEW anchored, NEW offset, offset \in Nat, NEW fallback,
         MaxFallbacks \in Nat, NEW done, LoopIn(W, text, offset, done), NEW e, e \in Seq(W) \ {<<>>},
         NEW after, after = ExtractStep(text, anchored, offset, fallback, done, e)
  PROVE  LoopGoesOn(W, text, offset, done, e, after)
<1> DEFINE place == Locate(text, e, done.cursor)
           span == <<place, Lower(e)>>
           found == Find(Lower(text), Lower(e), 1) # 0
<1>1. done \in LoopState(EntryOf(W), SpanOf(W)) /\ SeenHaveEntries(W, done.entries, done.seen)
  BY ONLY LoopIn(W, text, offset, done) DEF LoopIn
<1>2. /\ after \in LoopState(EntryOf(W), SpanOf(W))
      /\ StepIs(W, offset, done, e, place, after)
  BY ONLY <1>1, text \in Seq(W), offset \in Nat, e \in Seq(W) \ {<<>>}, ExtractStepIs,
     after = ExtractStep(text, anchored, offset, fallback, done, e)
<1>3. done.cursor \in Nat \ {0} /\ e \in Seq(W)
  BY ONLY <1>1, e \in Seq(W) \ {<<>>} DEF LoopState
<1>4. /\ place # 0 => Occurs(text, e, place)
      /\ found => place # 0
  BY ONLY <1>3, text \in Seq(W), LocateIs
<1> HIDE DEF place, found
<1>5. place # 0 => place \in Nat \ {0}
  BY ONLY <1>3, <1>4, text \in Seq(W), OccursFound
<1>6. CASE place = 0 /\ after = done
  BY ONLY <1>4, <1>6, LoopIn(W, text, offset, done) DEF LoopGoesOn, found
<1>7. CASE place # 0 /\ span \in done.seen /\ Skips(done, after)
  <2>1. after.entries = done.entries /\ after.consumed = done.consumed /\ after.seen = done.seen
    BY ONLY <1>7 DEF Skips
  <2>2. LoopIn(W, text, offset, after)
    BY ONLY <1>1, <1>2, <2>1, LoopIn(W, text, offset, done), NothingPut
  <2>3. Classify(e) # "none" => HasEntry(after.entries, Lower(e))
    BY ONLY <1>1, <1>5, <1>7, <2>1, e \in Seq(W) \ {<<>>} DEF SeenHaveEntries
  <2> QED  BY ONLY <2>1, <2>2, <2>3 DEF LoopGoesOn, found
<1>8. CASE place # 0 /\ span \notin done.seen /\ PassesOver(done, e, span, after)
  <2>1. /\ Classify(e) = "none"
        /\ after.entries = done.entries /\ after.consumed = done.consumed
        /\ after.seen = done.seen \cup {span}
    BY ONLY <1>8 DEF PassesOver
  <2>2. SeenHaveEntries(W, done.entries, after.seen)
    <3> SUFFICES ASSUME NEW p \in Nat \ {0}, NEW k \in Seq(W) \ {<<>>},
                        <<p, Lower(k)>> \in after.seen, Classify(k) # "none"
                 PROVE  HasEntry(done.entries, Lower(k))
      BY DEF SeenHaveEntries
    <3>1. <<p, Lower(k)>> # span
      <4>1. Lower(e) = Lower(k) => Classify(e) = Classify(k)
        BY ONLY e \in Seq(W) \ {<<>>}, k \in Seq(W) \ {<<>>}, ClassifyByLower
      <4> QED  BY ONLY <2>1, <4>1, Classify(k) # "none"
    <3>2. <<p, Lower(k)>> \in done.seen
      BY ONLY <2>1, <3>1, <<p, Lower(k)>> \in after.seen
    <3> QED  BY ONLY <1>1, <3>2, p \in Nat \ {0}, k \in Seq(W) \ {<<>>}, Classify(k) # "none"
             DEF SeenHaveEntries
  <2>3. LoopIn(W, text, offset, after)
    BY ONLY <1>2, <2>1, <2>2, LoopIn(W, text, offset, done), NothingPut
  <2> QED  BY ONLY <2>1, <2>3 DEF LoopGoesOn, found
<1>9. CASE place # 0 /\ span \notin done.seen
           /\ \E entry \in EntryOf(W) : Puts(done, e, span, offset + place, entry, after)
  <2>1. PICK entry \in EntryOf(W) : Puts(done, e, span, offset + place, entry, after)
    BY ONLY <1>9
  <2>2. LoopIn(W, text, offset, after) /\ Appended(done.entries, entry, after.entries)
    BY ONLY <1>2, <1>4, <1>5, <1>9, <2>1, offset \in Nat, MaxFallbacks \in Nat, e \in Seq(W) \ {<<>>},
       LoopIn(W, text, offset, done), entry \in EntryOf(W), OnePut
  <2>3. entry.raw = e
    BY ONLY <2>1 DEF Puts
  <2>4. HasEntry(after.entries, Lower(e))
    BY ONLY <2>2, <2>3, HasEntryStays
  <2>5. \A low : HasEntry(done.entries, low) => HasEntry(after.entries, low)
    BY ONLY <2>2, HasEntryStays
  <2> QED  BY ONLY <2>2, <2>4, <2>5 DEF LoopGoesOn, found
<1> HIDE DEF span
<1>10. \/ place = 0 /\ after = done
       \/ place # 0 /\ span \in done.seen /\ Skips(done, after)
       \/ place # 0 /\ span \notin done.seen /\ PassesOver(done, e, span, after)
       \/ /\ place # 0 /\ span \notin done.seen
          /\ \E entry \in EntryOf(W) : Puts(done, e, span, offset + place, entry, after)
  BY ONLY <1>2 DEF StepIs, span
<1> QED  BY ONLY <1>6, <1>7, <1>8, <1>9, <1>10

\* What the model detected, without repetitions.
AddNew(out, e) == IF Contains(out, e) THEN out ELSE Append(out, e)
Detected(said) ==
  FoldLeft(LAMBDA out, e : IF Contains(out, e) THEN out ELSE Append(out, e), <<>>, said)
DetectSteps(said, h) ==
  h[0] = <<>> /\ \A i \in 1 .. Len(said) : h[i] = AddNew(h[i - 1], said[i])
DetectedAfter(S, said, last) ==
  \E h \in [0 .. Len(said) -> Seq(S)] : DetectSteps(said, h) /\ last = h[Len(said)]

LEMMA AddNewType ==
  ASSUME NEW S, NEW e, e \in S, NEW out, out \in Seq(S)
  PROVE  AddNew(out, e) \in Seq(S)
<1>1. Append(out, e) \in Seq(S)
  BY ONLY e \in S, out \in Seq(S), AppendIs
<1> QED  BY ONLY <1>1, out \in Seq(S) DEF AddNew

LEMMA DetectedFold ==
  ASSUME NEW D, NEW said, said \in Seq(D)
  PROVE  DetectedAfter(D, said, Detected(said))
<1> DEFINE n == Len(said)
           V == Seq(D)
           v == <<>>
           step(out, e) == AddNew(out, e)
           F == [i \in 1 .. n |-> [out \in V |-> step(out, said[i])]]
           Is(f) == f = [S \in SUBSET DOMAIN said |->
                           IF S = {} THEN v ELSE step(f[S \ {Max(S)}], said[Max(S)])]
           iter == CHOOSE f : Is(f)
<1>1. n \in Nat /\ v \in V
  BY ONLY said \in Seq(D), LenProperties, EmptySeq
<1>2. \A i \in 1 .. n : \A out \in V : step(out, said[i]) \in V
  <2> TAKE i \in 1 .. n
  <2> TAKE out \in V
  <2>1. said[i] \in D
    BY ONLY said \in Seq(D), ElementOfSeq, i \in 1 .. n
  <2> QED  BY ONLY <2>1, out \in V, AddNewType
<1>3. F \in [1 .. n -> [V -> V]]
  <2> HIDE DEF step, V, n
  <2> QED  BY ONLY <1>2
<1>4. \A S \in SUBSET (1 .. n) : S # {} => Max(S) \in 1 .. n /\ S \ {Max(S)} \in SUBSET (1 .. n)
  <2> HIDE DEF n
  <2> QED  BY ONLY <1>1, MaxIn
<1>5. PICK g \in [SUBSET (1 .. n) -> V] :
        \A S \in SUBSET (1 .. n) : g[S] = IF S = {} THEN v ELSE F[Max(S)][g[S \ {Max(S)}]]
  <2> HIDE DEF F, V, n, v
  <2>1. Folded(V, n, v, F)
    BY ONLY <1>1, <1>3, FoldExists
  <2> QED  BY ONLY <2>1 DEF Folded, Folds
<1>6. DOMAIN said = 1 .. n
  <2>1. DOMAIN said = 1 .. n
    BY ONLY said \in Seq(D), LenProperties
  <2> QED  BY ONLY <2>1
<1>7. Is(g)
  <2> HIDE DEF step, V, n, v
  <2>1. ASSUME NEW S \in SUBSET (1 .. n)
        PROVE  g[S] = IF S = {} THEN v ELSE step(g[S \ {Max(S)}], said[Max(S)])
    <3>1. CASE S = {}
      BY ONLY <1>5, <3>1, S \in SUBSET (1 .. n)
    <3>2. CASE S # {}
      BY ONLY <1>4, <1>5, <3>2, S \in SUBSET (1 .. n)
    <3> QED  BY ONLY <3>1, <3>2
  <2> QED  BY ONLY <1>5, <1>6, <2>1
<1>8. Is(iter)
  <2> HIDE DEF Is
  <2> QED  BY <1>7
<1>9. Detected(said) = iter[1 .. n]
  BY <1>6 DEF Detected, FoldLeft, MapThenFoldSet, AddNew
<1>10. /\ iter[{}] = v
       /\ \A S \in SUBSET (1 .. n) :
            S # {} /\ iter[S \ {Max(S)}] \in V => iter[S] = F[Max(S)][iter[S \ {Max(S)}]]
  <2> HIDE DEF step, V, iter, n, v
  <2>1. \A S \in SUBSET (1 .. n) :
          iter[S] = IF S = {} THEN v ELSE step(iter[S \ {Max(S)}], said[Max(S)])
    BY ONLY <1>6, <1>8
  <2> QED  BY ONLY <1>4, <2>1
<1>11. PICK h \in [0 .. n -> V] :
         /\ h[0] = v /\ \A i \in 1 .. n : h[i] = F[i][h[i - 1]]
         /\ iter[1 .. n] = h[n]
  <2> HIDE DEF F, V, iter, n, v
  <2>1. FoldsIn(V, n, v, F, iter)
    BY ONLY <1>10 DEF FoldsIn
  <2>2. IteratedTo(V, n, v, F, iter[1 .. n])
    BY ONLY <1>1, <1>3, <2>1, FoldGoesOn
  <2> QED  BY ONLY <2>2 DEF IteratedTo, Iterates
<1>12. \A i \in 1 .. n : h[i] = step(h[i - 1], said[i])
  <2> HIDE DEF step, V
  <2> TAKE i \in 1 .. n
  <2> HIDE DEF n
  <2>1. h[i - 1] \in V
    <3>1. i - 1 \in 0 .. n
      BY ONLY <1>1, i \in 1 .. n
    <3> QED  BY ONLY <1>11, <3>1
  <2> QED  BY ONLY <1>11, <2>1, i \in 1 .. n
<1>13. DetectSteps(said, h)
  BY ONLY <1>11, <1>12 DEF DetectSteps
<1> HIDE DEF iter
<1> QED  BY ONLY <1>9, <1>11, <1>13 DEF DetectedAfter

DetectedIn(D, said, i, out) ==
  out \in Seq(D) /\ \A j \in 1 .. i : \E x \in 1 .. Len(out) : out[x] = said[j]

LEMMA DetectedAre ==
  ASSUME NEW D, NEW said, said \in Seq(D)
  PROVE  DetectedIn(D, said, Len(said), Detected(said))
<1> DEFINE n == Len(said)
<1>1. n \in Nat
  BY ONLY said \in Seq(D), LenProperties
<1>2. DetectedAfter(D, said, Detected(said))
  BY ONLY said \in Seq(D), DetectedFold
<1>3. PICK h \in [0 .. n -> Seq(D)] : DetectSteps(said, h) /\ Detected(said) = h[n]
  BY ONLY <1>2 DEF DetectedAfter
<1>4. h[0] = <<>> /\ \A i \in 1 .. n : h[i] = AddNew(h[i - 1], said[i])
  BY ONLY <1>3 DEF DetectSteps
<1> HIDE DEF n
<1> DEFINE T == {i \in 0 .. n : DetectedIn(D, said, i, h[i])}
<1>5. 0 \in T
  <2>1. h[0] \in Seq(D) /\ \A a \in 1 .. 0 : FALSE
    BY ONLY <1>1, <1>3
  <2> QED  BY ONLY <1>1, <2>1 DEF DetectedIn
<1>6. \A k \in 0 .. n - 1 : k \in T => k + 1 \in T
  <2> SUFFICES ASSUME NEW k \in 0 .. n - 1, k \in T PROVE k + 1 \in T
    OBVIOUS
  <2> DEFINE out == h[k]
             e == said[k + 1]
             l == h[k + 1]
  <2>1. /\ k + 1 \in 1 .. n /\ (k + 1) - 1 = k /\ k + 1 \in 0 .. n
        /\ \A j \in 1 .. k + 1 : j \in 1 .. k \/ j = k + 1
    BY ONLY <1>1, k \in 0 .. n - 1
  <2>2. l = AddNew(out, e)
    BY ONLY <1>4, <2>1
  <2>3. DetectedIn(D, said, k, out)
    BY ONLY k \in T
  <2>4. out \in Seq(D) /\ \A j \in 1 .. k : \E x \in 1 .. Len(out) : out[x] = said[j]
    BY ONLY <2>3 DEF DetectedIn
  <2>5. l \in Seq(D) /\ e \in D
    BY ONLY <1>3, <2>1, said \in Seq(D), ElementOfSeq DEF n
  <2> HIDE DEF out, e, l, T
  <2>6. CASE Contains(out, e)
    <3>1. l = out
      BY ONLY <2>2, <2>6 DEF AddNew
    <3>2. \E x \in 1 .. Len(out) : out[x] = e
      BY ONLY <2>6 DEF Contains
    <3>3. \A j \in 1 .. k + 1 : \E x \in 1 .. Len(l) : l[x] = said[j]
      BY ONLY <2>1, <2>4, <3>1, <3>2 DEF e
    <3> QED  BY ONLY <2>1, <2>5, <3>3 DEF DetectedIn, T, l
  <2>7. CASE ~Contains(out, e)
    <3>1. l = Append(out, e)
      BY ONLY <2>2, <2>7 DEF AddNew
    <3>2. Appended(out, e, l)
      BY ONLY <2>4, <2>5, <3>1, AppendIs
    <3>3. /\ Len(out) \in Nat /\ Len(l) = Len(out) + 1 /\ l[Len(out) + 1] = e
          /\ \A x \in 1 .. Len(out) : l[x] = out[x]
      BY ONLY <3>2 DEF Appended
    <3>4. Len(out) + 1 \in 1 .. Len(l) /\ \A x \in 1 .. Len(out) : x \in 1 .. Len(l)
      BY ONLY <3>3
    <3>5. \A j \in 1 .. k : \E x \in 1 .. Len(l) : l[x] = said[j]
      BY ONLY <2>4, <3>3, <3>4
    <3>6. \A j \in 1 .. k + 1 : \E x \in 1 .. Len(l) : l[x] = said[j]
      BY ONLY <2>1, <3>3, <3>4, <3>5 DEF e
    <3> QED  BY ONLY <2>1, <2>5, <3>6 DEF DetectedIn, T, l
  <2> QED  BY ONLY <2>6, <2>7
<1>7. \A k \in 0 .. n : k \in T
  <2> HIDE DEF T
  <2> QED  BY ONLY <1>1, <1>5, <1>6, Upwards
<1>8. n \in 0 .. n
  BY ONLY <1>1
<1> QED  BY ONLY <1>3, <1>7, <1>8 DEF n

\* The loop over them.
LoopStart == [entries |-> <<>>, seen |-> {}, cursor |-> 1, consumed |-> 0]
ExtractLoop(text, d, anchored, offset, fallback) ==
  LET add(done, e) == ExtractStep(text, anchored, offset, fallback, done, e)
  IN  FoldLeft(add, LoopStart, d)
ExtractSteps(text, d, anchored, offset, fallback, h) ==
  /\ h[0] = LoopStart
  /\ \A i \in 1 .. Len(d) : h[i] = ExtractStep(text, anchored, offset, fallback, h[i - 1], d[i])
ExtractedAfter(W, text, d, anchored, offset, fallback, last) ==
  \E h \in [0 .. Len(d) -> LoopState(EntryOf(W), SpanOf(W))] :
    ExtractSteps(text, d, anchored, offset, fallback, h) /\ last = h[Len(d)]

LEMMA LoopStartType ==
  ASSUME NEW W
  PROVE  LoopStart \in LoopState(EntryOf(W), SpanOf(W))
<1>1. <<>> \in Seq(EntryOf(W))
  BY ONLY EmptySeq
<1> QED  BY ONLY <1>1 DEF LoopStart, LoopState

LEMMA ExtractFold ==
  ASSUME NEW W, NEW text, text \in Seq(W), NEW anchored, NEW offset, offset \in Nat, NEW fallback,
         NEW d, d \in Seq(Seq(W) \ {<<>>})
  PROVE  ExtractedAfter(W, text, d, anchored, offset, fallback, ExtractLoop(text, d, anchored, offset, fallback))
<1> DEFINE n == Len(d)
           V == LoopState(EntryOf(W), SpanOf(W))
           v == LoopStart
           step(done, e) == ExtractStep(text, anchored, offset, fallback, done, e)
           F == [i \in 1 .. n |-> [done \in V |-> step(done, d[i])]]
           Is(f) == f = [S \in SUBSET DOMAIN d |->
                           IF S = {} THEN v ELSE step(f[S \ {Max(S)}], d[Max(S)])]
           iter == CHOOSE f : Is(f)
<1>1. n \in Nat /\ v \in V
  BY ONLY d \in Seq(Seq(W) \ {<<>>}), LenProperties, LoopStartType
<1>2. \A i \in 1 .. n : \A done \in V : step(done, d[i]) \in V
  <2> TAKE i \in 1 .. n
  <2> TAKE done \in V
  <2>1. d[i] \in Seq(W) \ {<<>>}
    BY ONLY d \in Seq(Seq(W) \ {<<>>}), ElementOfSeq, i \in 1 .. n
  <2> QED  BY ONLY <2>1, done \in V, text \in Seq(W), offset \in Nat, ExtractStepIs
<1>3. F \in [1 .. n -> [V -> V]]
  <2> HIDE DEF step, V, n
  <2> QED  BY ONLY <1>2
<1>4. \A S \in SUBSET (1 .. n) : S # {} => Max(S) \in 1 .. n /\ S \ {Max(S)} \in SUBSET (1 .. n)
  <2> HIDE DEF n
  <2> QED  BY ONLY <1>1, MaxIn
<1>5. PICK g \in [SUBSET (1 .. n) -> V] :
        \A S \in SUBSET (1 .. n) : g[S] = IF S = {} THEN v ELSE F[Max(S)][g[S \ {Max(S)}]]
  <2> HIDE DEF F, V, n, v
  <2>1. Folded(V, n, v, F)
    BY ONLY <1>1, <1>3, FoldExists
  <2> QED  BY ONLY <2>1 DEF Folded, Folds
<1>6. DOMAIN d = 1 .. n
  <2>1. DOMAIN d = 1 .. n
    BY ONLY d \in Seq(Seq(W) \ {<<>>}), LenProperties
  <2> QED  BY ONLY <2>1
<1>7. Is(g)
  <2> HIDE DEF step, V, n, v
  <2>1. ASSUME NEW S \in SUBSET (1 .. n)
        PROVE  g[S] = IF S = {} THEN v ELSE step(g[S \ {Max(S)}], d[Max(S)])
    <3>1. CASE S = {}
      BY ONLY <1>5, <3>1, S \in SUBSET (1 .. n)
    <3>2. CASE S # {}
      BY ONLY <1>4, <1>5, <3>2, S \in SUBSET (1 .. n)
    <3> QED  BY ONLY <3>1, <3>2
  <2> QED  BY ONLY <1>5, <1>6, <2>1
<1>8. Is(iter)
  <2> HIDE DEF Is
  <2> QED  BY <1>7
<1>9. ExtractLoop(text, d, anchored, offset, fallback) = iter[1 .. n]
  BY <1>6 DEF ExtractLoop, FoldLeft, MapThenFoldSet
<1>10. /\ iter[{}] = v
       /\ \A S \in SUBSET (1 .. n) :
            S # {} /\ iter[S \ {Max(S)}] \in V => iter[S] = F[Max(S)][iter[S \ {Max(S)}]]
  <2> HIDE DEF step, V, iter, n, v
  <2>1. \A S \in SUBSET (1 .. n) :
          iter[S] = IF S = {} THEN v ELSE step(iter[S \ {Max(S)}], d[Max(S)])
    BY ONLY <1>6, <1>8
  <2> QED  BY ONLY <1>4, <2>1
<1>11. PICK h \in [0 .. n -> V] :
         /\ h[0] = v /\ \A i \in 1 .. n : h[i] = F[i][h[i - 1]]
         /\ iter[1 .. n] = h[n]
  <2> HIDE DEF F, V, iter, n, v
  <2>1. FoldsIn(V, n, v, F, iter)
    BY ONLY <1>10 DEF FoldsIn
  <2>2. IteratedTo(V, n, v, F, iter[1 .. n])
    BY ONLY <1>1, <1>3, <2>1, FoldGoesOn
  <2> QED  BY ONLY <2>2 DEF IteratedTo, Iterates
<1>12. \A i \in 1 .. n : h[i] = step(h[i - 1], d[i])
  <2> HIDE DEF step, V
  <2> TAKE i \in 1 .. n
  <2> HIDE DEF n
  <2>1. h[i - 1] \in V
    <3>1. i - 1 \in 0 .. n
      BY ONLY <1>1, i \in 1 .. n
    <3> QED  BY ONLY <1>11, <3>1
  <2> QED  BY ONLY <1>11, <2>1, i \in 1 .. n
<1>13. ExtractSteps(text, d, anchored, offset, fallback, h)
  BY ONLY <1>11, <1>12 DEF ExtractSteps
<1> HIDE DEF iter
<1> QED  BY ONLY <1>9, <1>11, <1>13 DEF ExtractedAfter

LEMMA ExtractedIs ==
  ASSUME NEW text, NEW said, NEW anchored, NEW offset, NEW fallback
  PROVE  Extracted(text, said, anchored, offset, fallback)
           = ExtractLoop(text, Detected(said), anchored, offset, fallback)
  BY DEF Extracted, ExtractLoop, Detected, LoopStart, ExtractStep, Moved, Noted, With, Counted,
         FoldLeft, MapThenFoldSet

LEMMA LoopOnceIs ==
  ASSUME NEW entries, NEW i \in 1 .. Len(entries), NEW j \in 1 .. Len(entries),
         Len(entries) \in Nat, Once(entries), SameSpan(entries[i], entries[j])
  PROVE  i = j
<1>1. i < j \/ j < i \/ i = j
  BY ONLY Len(entries) \in Nat, i \in 1 .. Len(entries), j \in 1 .. Len(entries)
<1>2. SameSpan(entries[j], entries[i])
  BY ONLY SameSpan(entries[i], entries[j]) DEF SameSpan
<1> QED  BY ONLY <1>1, <1>2, i \in 1 .. Len(entries), j \in 1 .. Len(entries), Once(entries),
            SameSpan(entries[i], entries[j]) DEF Once

\* After the loop.
LEMMA ExtractedAre ==
  ASSUME NEW W, NEW text, text \in Seq(W), NEW anchored, NEW offset, offset \in Nat, NEW fallback,
         MaxFallbacks \in Nat, NEW d, d \in Seq(Seq(W) \ {<<>>}),
         NEW last, last = ExtractLoop(text, d, anchored, offset, fallback)
  PROVE  /\ LoopIn(W, text, offset, last)
         /\ \A j \in 1 .. Len(d) :
              Classify(d[j]) # "none" /\ Find(Lower(text), Lower(d[j]), 1) # 0 =>
                HasEntry(last.entries, Lower(d[j]))
<1> DEFINE n == Len(d)
           V == LoopState(EntryOf(W), SpanOf(W))
           found(j) == /\ Classify(d[j]) # "none"
                       /\ Find(Lower(text), Lower(d[j]), 1) # 0
           low(j) == Lower(d[j])
           good(k, done) == /\ LoopIn(W, text, offset, done)
                            /\ \A j \in 1 .. k : found(j) => HasEntry(done.entries, low(j))
<1>1. n \in Nat
  BY ONLY d \in Seq(Seq(W) \ {<<>>}), LenProperties
<1>2. ExtractedAfter(W, text, d, anchored, offset, fallback, last)
  BY ONLY text \in Seq(W), offset \in Nat, d \in Seq(Seq(W) \ {<<>>}),
     last = ExtractLoop(text, d, anchored, offset, fallback), ExtractFold
<1>3. PICK h \in [0 .. n -> V] : ExtractSteps(text, d, anchored, offset, fallback, h) /\ last = h[n]
  BY ONLY <1>2 DEF ExtractedAfter
<1>4. /\ h[0] = LoopStart
      /\ \A i \in 1 .. n : h[i] = ExtractStep(text, anchored, offset, fallback, h[i - 1], d[i])
  BY ONLY <1>3 DEF ExtractSteps
<1> HIDE DEF n
<1> DEFINE T == {i \in 0 .. n : good(i, h[i])}
<1>5. 0 \in T
  <2>1. LoopStart \in LoopState(EntryOf(W), SpanOf(W))
    BY ONLY LoopStartType
  <2>2. /\ LoopStart.entries = <<>> /\ LoopStart.seen = {} /\ LoopStart.consumed = 0
        /\ Len(<<>>) = 0 /\ \A a \in 1 .. 0 : FALSE
    BY EmptySeq DEF LoopStart
  <2>3. Once(LoopStart.entries) /\ SeenHaveEntries(W, LoopStart.entries, LoopStart.seen)
    BY ONLY <2>2 DEF Once, SeenHaveEntries
  <2>4. WithinBudget(LoopStart.entries, LoopStart.consumed)
    <3>1. {x \in 1 .. 0 : Asked(<<>>[x])} = {}
      BY ONLY <2>2
    <3>2. Cardinality({}) = 0
      BY ONLY FS_EmptySet
    <3> QED  BY ONLY <2>2, <3>1, <3>2, MaxFallbacks \in Nat DEF WithinBudget
  <2>5. \A x \in 1 .. Len(LoopStart.entries) :
          Stands(text, offset, LoopStart.seen, LoopStart.entries[x])
    BY ONLY <2>2
  <2>6. LoopIn(W, text, offset, LoopStart)
    BY ONLY <2>1, <2>3, <2>4, <2>5 DEF LoopIn
  <2> QED  BY ONLY <1>1, <1>4, <2>2, <2>6
<1>6. \A k \in 0 .. n - 1 : k \in T => k + 1 \in T
  <2> SUFFICES ASSUME NEW k \in 0 .. n - 1, k \in T PROVE k + 1 \in T
    OBVIOUS
  <2>1. /\ k + 1 \in 1 .. n /\ (k + 1) - 1 = k /\ k + 1 \in 0 .. n
        /\ \A j \in 1 .. k + 1 : j \in 1 .. k \/ j = k + 1
    BY ONLY <1>1, k \in 0 .. n - 1
  <2>2. h[k + 1] = ExtractStep(text, anchored, offset, fallback, h[k], d[k + 1])
    BY ONLY <1>4, <2>1
  <2>3. LoopIn(W, text, offset, h[k]) /\ \A j \in 1 .. k : found(j) => HasEntry(h[k].entries, low(j))
    BY ONLY k \in T
  <2>4. d[k + 1] \in Seq(W) \ {<<>>}
    BY ONLY <2>1, d \in Seq(Seq(W) \ {<<>>}), ElementOfSeq DEF n
  <2>5. /\ LoopIn(W, text, offset, h[k + 1])
        /\ \A l : HasEntry(h[k].entries, l) => HasEntry(h[k + 1].entries, l)
        /\ found(k + 1) => HasEntry(h[k + 1].entries, low(k + 1))
    <3>1. LoopGoesOn(W, text, offset, h[k], d[k + 1], h[k + 1])
      <4> DEFINE done == h[k]
                 e == d[k + 1]
                 after == h[k + 1]
      <4>1. LoopIn(W, text, offset, done) /\ e \in Seq(W) \ {<<>>}
        BY ONLY <2>3, <2>4
      <4>2. after = ExtractStep(text, anchored, offset, fallback, done, e)
        BY ONLY <2>2
      <4> HIDE DEF done, e, after
      <4>3. LoopGoesOn(W, text, offset, done, e, after)
        BY ONLY <4>1, <4>2, text \in Seq(W), offset \in Nat, MaxFallbacks \in Nat, LoopKeeps
      <4> QED  BY ONLY <4>3 DEF done, e, after
    <3> QED  BY ONLY <3>1 DEF LoopGoesOn
  <2> HIDE DEF found, low
  <2>6. \A j \in 1 .. k + 1 : found(j) => HasEntry(h[k + 1].entries, low(j))
    BY ONLY <2>1, <2>3, <2>5
  <2> QED  BY ONLY <2>1, <2>5, <2>6
<1>7. \A k \in 0 .. n : k \in T
  <2> HIDE DEF T
  <2> QED  BY ONLY <1>1, <1>5, <1>6, Upwards
<1>8. n \in T
  <2> HIDE DEF T
  <2>1. n \in 0 .. n
    BY ONLY <1>1
  <2> QED  BY ONLY <1>7, <2>1
<1>9. good(n, h[n])
  BY ONLY <1>8
<1> QED  BY ONLY <1>3, <1>9 DEF n

\* What the extraction of a chunk gives.
ExtractionIs(W, text, offset, said, done) ==
  /\ LoopIn(W, text, offset, done)
  /\ \A j \in 1 .. Len(said) :
       Classify(said[j]) # "none" /\ Find(Lower(text), Lower(said[j]), 1) # 0 =>
         HasEntry(done.entries, Lower(said[j]))

LEMMA ExtractedGives ==
  ASSUME NEW W, NEW text, text \in Seq(W), NEW anchored, NEW offset, offset \in Nat, NEW fallback,
         MaxFallbacks \in Nat, NEW said, said \in Seq(Seq(W) \ {<<>>})
  PROVE  ExtractionIs(W, text, offset, said, Extracted(text, said, anchored, offset, fallback))
<1> DEFINE X == Seq(W) \ {<<>>}
           d == Detected(said)
           done == Extracted(text, said, anchored, offset, fallback)
<1>1. DetectedIn(X, said, Len(said), d)
  BY ONLY said \in Seq(Seq(W) \ {<<>>}), DetectedAre
<1>2. d \in Seq(X) /\ \A j \in 1 .. Len(said) : \E x \in 1 .. Len(d) : d[x] = said[j]
  BY ONLY <1>1 DEF DetectedIn
<1>3. done = ExtractLoop(text, d, anchored, offset, fallback)
  BY ONLY ExtractedIs
<1> HIDE DEF d, done
<1>4. /\ LoopIn(W, text, offset, done)
      /\ \A j \in 1 .. Len(d) :
           Classify(d[j]) # "none" /\ Find(Lower(text), Lower(d[j]), 1) # 0 =>
             HasEntry(done.entries, Lower(d[j]))
  BY ONLY <1>2, <1>3, text \in Seq(W), offset \in Nat, MaxFallbacks \in Nat, ExtractedAre
<1>5. \A j \in 1 .. Len(said) :
        Classify(said[j]) # "none" /\ Find(Lower(text), Lower(said[j]), 1) # 0 =>
          HasEntry(done.entries, Lower(said[j]))
  <2> TAKE j \in 1 .. Len(said)
  <2>1. PICK x \in 1 .. Len(d) : d[x] = said[j]
    BY ONLY <1>2, j \in 1 .. Len(said)
  <2> QED  BY ONLY <1>4, <2>1, x \in 1 .. Len(d)
<1> QED  BY ONLY <1>4, <1>5 DEF ExtractionIs, done

\* The entries of a chunk are exact (Dates!ExtractionIsExact; _extract_from_text): each
\* stands in the text where its offset says, in whatever case the model copied it; no
\* place is listed twice; an entry has a date or a reason why not; an expression that is
\* a date and occurs in the text has an entry, wherever the cursor was; and the model is
\* not asked more often than chunk_max_llm_fallbacks.
THEOREM DatesAreExact ==
  ASSUME NEW W, NEW text, text \in Seq(W), NEW said, said \in Seq(Seq(W) \ {<<>>}),
         NEW anchored, NEW fallback, DatesAssumption
  PROVE  ExtractionIsExact(text, said, anchored, fallback)
<1> DEFINE done == Extracted(text, said, anchored, 0, fallback)
           all == done.entries
           m == Len(all)
<1>1. MaxFallbacks \in Nat /\ 0 \in Nat
  BY DEF DatesAssumption
<1>2. ExtractionIs(W, text, 0, said, done)
  BY ONLY <1>1, text \in Seq(W), said \in Seq(Seq(W) \ {<<>>}), ExtractedGives
<1> HIDE DEF done
<1>3. /\ LoopIn(W, text, 0, done)
      /\ \A j \in 1 .. Len(said) :
           Classify(said[j]) # "none" /\ Find(Lower(text), Lower(said[j]), 1) # 0 =>
             HasEntry(all, Lower(said[j]))
  BY ONLY <1>2 DEF ExtractionIs
<1>4. /\ all \in Seq(EntryOf(W)) /\ Once(all) /\ WithinBudget(all, done.consumed)
      /\ \A x \in 1 .. Len(all) : Stands(text, 0, done.seen, all[x])
  BY ONLY <1>3 DEF LoopIn, LoopState
<1>5. m \in Nat /\ DOMAIN all = 1 .. m /\ DOMAIN said = 1 .. Len(said)
  BY ONLY <1>4, said \in Seq(Seq(W) \ {<<>>}), LenProperties
<1> HIDE DEF all
<1>6. ASSUME NEW x \in 1 .. m
      PROVE  /\ IsIn(text, all[x])
             /\ (all[x].date = NoDate) = (all[x].reason # NoReason)
  <2>1. Stands(text, 0, done.seen, all[x]) /\ all[x] \in EntryOf(W)
    BY ONLY <1>4, x \in 1 .. m, ElementOfSeq
  <2>2. Explained(all[x]) /\ all[x].raw \in Seq(W)
    BY ONLY <2>1 DEF Stands, EntryOf
  <2>3. PICK p \in Nat \ {0} : all[x].offset = 0 + p /\ Occurs(text, all[x].raw, p)
    BY ONLY <2>1 DEF Stands
  <2>4. Find(Lower(text), Lower(all[x].raw), p) = p
    BY ONLY <2>2, <2>3, text \in Seq(W), OccursFound
  <2>5. all[x].offset = p
    BY ONLY <2>3, p \in Nat \ {0}
  <2>6. IsIn(text, all[x])
    BY ONLY <2>4, <2>5 DEF IsIn
  <2> QED  BY ONLY <2>2, <2>6 DEF Explained
<1>7. \A x, y \in 1 .. m : SameSpan(all[x], all[y]) => x = y
  BY ONLY <1>4, <1>5, LoopOnceIs
<1>8. \A i \in 1 .. Len(said) :
        Classify(said[i]) # "none" /\ Find(Lower(text), Lower(said[i]), 1) # 0 =>
          \E k \in 1 .. m : Lower(all[k].raw) = Lower(said[i])
  BY ONLY <1>3 DEF HasEntry, all
<1>9. /\ Cardinality({k \in DOMAIN all : all[k].resolver = "llm" \/ all[k].reason = "ambiguous"})
           <= done.consumed
      /\ done.consumed <= MaxFallbacks
  BY ONLY <1>4, <1>5 DEF WithinBudget, Asked
<1>10. Exact(all, done.consumed, text, said)
  BY ONLY <1>5, <1>6, <1>7, <1>8, <1>9 DEF Exact
<1> QED  BY ONLY <1>10 DEF ExtractionIsExact, all, done

-----------------------------------------------------------------------------
(* The dates of all chunks *)

OffsetState == [offsets : Seq(Nat), cursor : Nat \ {0}]
OffsetStart == [offsets |-> <<>>, cursor |-> 1]
PlaceOf(text, chunk, cursor) ==
  IF Find(text, Opening(chunk), cursor) = 0 THEN cursor ELSE Find(text, Opening(chunk), cursor)
OffsetStep(text, done, chunk) ==
  [offsets |-> Append(done.offsets, PlaceOf(text, chunk, done.cursor) - 1),
   cursor |-> PlaceOf(text, chunk, done.cursor) + Len(chunk)]
OffsetLoop(text, chunks) ==
  LET add(done, chunk) == OffsetStep(text, done, chunk)
  IN  FoldLeft(add, OffsetStart, chunks)
OffsetSteps(text, chunks, h) ==
  /\ h[0] = OffsetStart
  /\ \A i \in 1 .. Len(chunks) : h[i] = OffsetStep(text, h[i - 1], chunks[i])
OffsetsAfter(text, chunks, last) ==
  \E h \in [0 .. Len(chunks) -> OffsetState] : OffsetSteps(text, chunks, h) /\ last = h[Len(chunks)]

LEMMA OffsetsIs ==
  ASSUME NEW text, NEW chunks
  PROVE  Offsets(text, chunks) = OffsetLoop(text, chunks).offsets
  BY DEF Offsets, OffsetLoop, OffsetStart, OffsetStep, PlaceOf, FoldLeft, MapThenFoldSet

\* Where a chunk is written, its opening is.
LEMMA OpeningIs ==
  ASSUME NEW W, NEW text, text \in Seq(W), NEW chunk, chunk \in Seq(W), HeadLength \in Nat,
         NEW cursor, cursor \in Nat \ {0}
  PROVE  /\ Opening(chunk) \in Seq(W)
         /\ cursor \in PlacesFrom(text, chunk, cursor) =>
              cursor \in PlacesFrom(text, Opening(chunk), cursor)
<1> DEFINE head == Opening(chunk)
           t == Len(text)
           m == Len(chunk)
<1>1. t \in Nat /\ m \in Nat
  BY ONLY text \in Seq(W), chunk \in Seq(W), LenProperties
<1>2. /\ head \in Seq(W) /\ Len(head) \in Nat /\ Len(head) <= m
      /\ \A q \in 1 .. Len(head) : head[q] = chunk[q]
  <2>1. CASE m > HeadLength
    <3> DEFINE s == SubSeq(chunk, 1, HeadLength)
    <3>1. /\ 1 \in Int /\ HeadLength \in Int /\ HeadLength <= m /\ HeadLength - 1 + 1 = HeadLength
          /\ (IF 1 <= HeadLength THEN HeadLength - 1 + 1 ELSE 0) = HeadLength
          /\ \A i \in 1 .. HeadLength : i \in 1 .. m /\ 1 + i - 1 = i
      BY ONLY <1>1, <2>1, HeadLength \in Nat
    <3>2. \A i \in 1 .. HeadLength : chunk[i] \in W
      BY ONLY <3>1, chunk \in Seq(W), ElementOfSeq DEF m
    <3>3. /\ s \in Seq(W) /\ Len(s) = IF 1 <= HeadLength THEN HeadLength - 1 + 1 ELSE 0
          /\ \A i \in 1 .. HeadLength - 1 + 1 : s[i] = chunk[1 + i - 1]
      BY ONLY <3>1, <3>2, SubSeqProperties
    <3> HIDE DEF s, m
    <3>4. Len(s) = HeadLength /\ \A i \in 1 .. HeadLength : s[i] = chunk[i]
      BY ONLY <3>1, <3>3
    <3>5. head = s
      BY ONLY <2>1 DEF Opening, s, m
    <3> HIDE DEF head
    <3> QED  BY ONLY <3>1, <3>3, <3>4, <3>5, HeadLength \in Nat
  <2>2. CASE ~(m > HeadLength)
    <3>1. head = chunk
      BY ONLY <2>2 DEF Opening
    <3> HIDE DEF head
    <3> QED  BY ONLY <1>1, <3>1, chunk \in Seq(W)
  <2> QED  BY ONLY <2>1, <2>2
<1> HIDE DEF head, t, m
<1>3. ASSUME cursor \in PlacesFrom(text, chunk, cursor)
      PROVE  cursor \in PlacesFrom(text, head, cursor)
  <2>1. cursor \in cursor .. t + 1 - m /\ \A q \in 1 .. m : text[cursor + q - 1] = chunk[q]
    BY ONLY <1>3 DEF PlacesFrom, WrittenAt, t, m
  <2>2. cursor \in cursor .. t + 1 - Len(head) /\ \A q \in 1 .. Len(head) : q \in 1 .. m
    BY ONLY <1>1, <1>2, <2>1, cursor \in Nat \ {0}
  <2>3. \A q \in 1 .. Len(head) : text[cursor + q - 1] = head[q]
    BY ONLY <1>2, <2>1, <2>2
  <2> QED  BY ONLY <2>2, <2>3 DEF PlacesFrom, WrittenAt, t
<1> QED  BY ONLY <1>2, <1>3 DEF head

LEMMA PlaceOfIs ==
  ASSUME NEW W, NEW text, text \in Seq(W), NEW chunk, chunk \in Seq(W), HeadLength \in Nat,
         NEW cursor, cursor \in Nat \ {0}
  PROVE  /\ PlaceOf(text, chunk, cursor) \in Nat \ {0}
         /\ cursor \in PlacesFrom(text, chunk, cursor) => PlaceOf(text, chunk, cursor) = cursor
<1> DEFINE head == Opening(chunk)
           place == Find(text, head, cursor)
           m == Len(text) + 1 - Len(head)
<1>1. /\ head \in Seq(W)
      /\ cursor \in PlacesFrom(text, chunk, cursor) => cursor \in PlacesFrom(text, head, cursor)
  BY ONLY text \in Seq(W), chunk \in Seq(W), cursor \in Nat \ {0}, HeadLength \in Nat, OpeningIs
<1> HIDE DEF head
<1>2. FoundFrom(text, head, cursor, place) /\ m \in Int
  <2>1. FoundFrom(text, head, cursor, place)
    BY ONLY <1>1, text \in Seq(W), cursor \in Nat \ {0}, FindIs
  <2>2. m \in Int
    BY ONLY <1>1, text \in Seq(W), LenProperties
  <2> QED  BY ONLY <2>1, <2>2
<1> HIDE DEF place
<1>3. \A p \in PlacesFrom(text, head, cursor) : p \in Nat \ {0} /\ cursor <= p
  <2>1. \A p \in PlacesFrom(text, head, cursor) : p \in cursor .. m
    BY DEF PlacesFrom
  <2> HIDE DEF m
  <2> QED  BY ONLY <1>2, <2>1, cursor \in Nat \ {0}
<1>4. /\ place = 0 \/ place \in Nat \ {0}
      /\ cursor \in PlacesFrom(text, head, cursor) => place # 0 /\ place <= cursor /\ cursor <= place
  BY ONLY <1>2, <1>3 DEF FoundFrom
<1>5. cursor \in PlacesFrom(text, chunk, cursor) => place = cursor
  BY ONLY <1>1, <1>4, cursor \in Nat \ {0}
<1>6. PlaceOf(text, chunk, cursor) = IF place = 0 THEN cursor ELSE place
  BY ONLY DEF PlaceOf, place, head
<1> QED  BY ONLY <1>4, <1>5, <1>6, cursor \in Nat \ {0}

LEMMA OffsetStepType ==
  ASSUME NEW W, NEW text, text \in Seq(W), NEW chunk, chunk \in Seq(W), HeadLength \in Nat,
         NEW done, done \in OffsetState
  PROVE  /\ OffsetStep(text, done, chunk) \in OffsetState
         /\ Appended(done.offsets, PlaceOf(text, chunk, done.cursor) - 1,
                     OffsetStep(text, done, chunk).offsets)
         /\ OffsetStep(text, done, chunk).cursor = PlaceOf(text, chunk, done.cursor) + Len(chunk)
<1> DEFINE place == PlaceOf(text, chunk, done.cursor)
<1>1. done.offsets \in Seq(Nat) /\ done.cursor \in Nat \ {0}
  BY ONLY done \in OffsetState DEF OffsetState
<1>2. place \in Nat \ {0} /\ Len(chunk) \in Nat
  BY ONLY <1>1, text \in Seq(W), chunk \in Seq(W), HeadLength \in Nat, PlaceOfIs, LenProperties
<1> HIDE DEF place
<1>3. place - 1 \in Nat /\ place + Len(chunk) \in Nat \ {0}
  BY ONLY <1>2
<1>4. /\ Append(done.offsets, place - 1) \in Seq(Nat)
      /\ Appended(done.offsets, place - 1, Append(done.offsets, place - 1))
  BY ONLY <1>1, <1>3, AppendIs
<1> QED  BY ONLY <1>3, <1>4 DEF OffsetStep, OffsetState, place

LEMMA OffsetStartType == OffsetStart \in OffsetState
<1>1. <<>> \in Seq(Nat)
  BY ONLY EmptySeq
<1> QED  BY ONLY <1>1 DEF OffsetStart, OffsetState

LEMMA OffsetsFold ==
  ASSUME NEW W, NEW text, text \in Seq(W), NEW chunks, chunks \in Seq(Seq(W)), HeadLength \in Nat
  PROVE  OffsetsAfter(text, chunks, OffsetLoop(text, chunks))
<1> DEFINE n == Len(chunks)
           V == OffsetState
           v == OffsetStart
           step(done, e) == OffsetStep(text, done, e)
           F == [i \in 1 .. n |-> [done \in V |-> step(done, chunks[i])]]
           Is(f) == f = [S \in SUBSET DOMAIN chunks |->
                           IF S = {} THEN v ELSE step(f[S \ {Max(S)}], chunks[Max(S)])]
           iter == CHOOSE f : Is(f)
<1>1. n \in Nat /\ v \in V
  BY ONLY chunks \in Seq(Seq(W)), LenProperties, OffsetStartType
<1>2. \A i \in 1 .. n : \A done \in V : step(done, chunks[i]) \in V
  <2> TAKE i \in 1 .. n
  <2> TAKE done \in V
  <2>1. chunks[i] \in Seq(W)
    BY ONLY chunks \in Seq(Seq(W)), ElementOfSeq, i \in 1 .. n
  <2> QED  BY ONLY <2>1, done \in V, text \in Seq(W), HeadLength \in Nat, OffsetStepType
<1>3. F \in [1 .. n -> [V -> V]]
  <2> HIDE DEF step, V, n
  <2> QED  BY ONLY <1>2
<1>4. \A S \in SUBSET (1 .. n) : S # {} => Max(S) \in 1 .. n /\ S \ {Max(S)} \in SUBSET (1 .. n)
  <2> HIDE DEF n
  <2> QED  BY ONLY <1>1, MaxIn
<1>5. PICK g \in [SUBSET (1 .. n) -> V] :
        \A S \in SUBSET (1 .. n) : g[S] = IF S = {} THEN v ELSE F[Max(S)][g[S \ {Max(S)}]]
  <2> HIDE DEF F, V, n, v
  <2>1. Folded(V, n, v, F)
    BY ONLY <1>1, <1>3, FoldExists
  <2> QED  BY ONLY <2>1 DEF Folded, Folds
<1>6. DOMAIN chunks = 1 .. n
  <2>1. DOMAIN chunks = 1 .. n
    BY ONLY chunks \in Seq(Seq(W)), LenProperties
  <2> QED  BY ONLY <2>1
<1>7. Is(g)
  <2> HIDE DEF step, V, n, v
  <2>1. ASSUME NEW S \in SUBSET (1 .. n)
        PROVE  g[S] = IF S = {} THEN v ELSE step(g[S \ {Max(S)}], chunks[Max(S)])
    <3>1. CASE S = {}
      BY ONLY <1>5, <3>1, S \in SUBSET (1 .. n)
    <3>2. CASE S # {}
      BY ONLY <1>4, <1>5, <3>2, S \in SUBSET (1 .. n)
    <3> QED  BY ONLY <3>1, <3>2
  <2> QED  BY ONLY <1>5, <1>6, <2>1
<1>8. Is(iter)
  <2> HIDE DEF Is
  <2> QED  BY <1>7
<1>9. OffsetLoop(text, chunks) = iter[1 .. n]
  BY <1>6 DEF OffsetLoop, FoldLeft, MapThenFoldSet
<1>10. /\ iter[{}] = v
       /\ \A S \in SUBSET (1 .. n) :
            S # {} /\ iter[S \ {Max(S)}] \in V => iter[S] = F[Max(S)][iter[S \ {Max(S)}]]
  <2> HIDE DEF step, V, iter, n, v
  <2>1. \A S \in SUBSET (1 .. n) :
          iter[S] = IF S = {} THEN v ELSE step(iter[S \ {Max(S)}], chunks[Max(S)])
    BY ONLY <1>6, <1>8
  <2> QED  BY ONLY <1>4, <2>1
<1>11. PICK h \in [0 .. n -> V] :
         /\ h[0] = v /\ \A i \in 1 .. n : h[i] = F[i][h[i - 1]]
         /\ iter[1 .. n] = h[n]
  <2> HIDE DEF F, V, iter, n, v
  <2>1. FoldsIn(V, n, v, F, iter)
    BY ONLY <1>10 DEF FoldsIn
  <2>2. IteratedTo(V, n, v, F, iter[1 .. n])
    BY ONLY <1>1, <1>3, <2>1, FoldGoesOn
  <2> QED  BY ONLY <2>2 DEF IteratedTo, Iterates
<1>12. \A i \in 1 .. n : h[i] = step(h[i - 1], chunks[i])
  <2> HIDE DEF step, V
  <2> TAKE i \in 1 .. n
  <2> HIDE DEF n
  <2>1. h[i - 1] \in V
    <3>1. i - 1 \in 0 .. n
      BY ONLY <1>1, i \in 1 .. n
    <3> QED  BY ONLY <1>11, <3>1
  <2> QED  BY ONLY <1>11, <2>1, i \in 1 .. n
<1>13. OffsetSteps(text, chunks, h)
  BY ONLY <1>11, <1>12 DEF OffsetSteps
<1> HIDE DEF iter
<1> QED  BY ONLY <1>9, <1>11, <1>13 DEF OffsetsAfter

\* After the first i chunks: as many offsets; and, if the chunks are the whole text,
\* each lies where its offset says and the cursor is behind the last.
Lies(text, chunk, o) ==
  o + Len(chunk) <= Len(text) /\ \A q \in 1 .. Len(chunk) : text[o + q] = chunk[q]
OffsetsIn(text, chunks, i, done, whole) ==
  /\ done \in OffsetState /\ Len(done.offsets) = i
  /\ whole => \A k \in 1 .. i : Lies(text, chunks[k], done.offsets[k])

LEMMA PlacedLies ==
  ASSUME NEW W, NEW text, text \in Seq(W), NEW chunks, chunks \in Seq(Seq(W)),
         NEW off, OffsetsOf(chunks, off), PlacedTo(chunks, Len(chunks), text, off),
         NEW i \in 1 .. Len(chunks)
  PROVE  /\ Lies(text, chunks[i], off[i - 1]) /\ off[i - 1] \in Nat
         /\ off[i - 1] + 1 \in PlacesFrom(text, chunks[i], off[i - 1] + 1)
         /\ off[i] = off[i - 1] + Len(chunks[i])
<1> DEFINE n == Len(chunks)
           c == chunks[i]
           o == off[i - 1]
           m == Len(c)
           t == Len(text)
<1>1. n \in Nat /\ c \in Seq(W) /\ m \in Nat /\ t \in Nat
  BY ONLY text \in Seq(W), chunks \in Seq(Seq(W)), i \in 1 .. Len(chunks), LenProperties, ElementOfSeq
<1>2. i - 1 \in 0 .. n /\ i \in 0 .. n /\ n \in 0 .. n /\ i <= n
  BY ONLY <1>1, i \in 1 .. Len(chunks)
<1>3. /\ o \in Nat /\ off[i] \in Nat /\ off[n] \in Nat /\ off[i] <= off[n]
      /\ off[i] = o + m
  BY ONLY <1>2, OffsetsOf(chunks, off), i \in 1 .. Len(chunks) DEF OffsetsOf
<1>4. t = off[n] /\ \A q \in 1 .. m : text[o + q] = c[q]
  BY ONLY PlacedTo(chunks, Len(chunks), text, off), i \in 1 .. Len(chunks) DEF PlacedTo
<1> HIDE DEF n, c, o, m, t
<1>5. o + m <= t /\ o + 1 \in o + 1 .. t + 1 - m
  BY ONLY <1>1, <1>3, <1>4
<1>6. \A q \in 1 .. m : text[(o + 1) + q - 1] = c[q]
  <2>1. \A q \in 1 .. m : (o + 1) + q - 1 = o + q
    BY ONLY <1>1, <1>3
  <2> QED  BY ONLY <1>4, <2>1
<1>7. WrittenAt(text, c, o + 1)
  BY ONLY <1>6 DEF WrittenAt, m
<1>8. o + 1 \in PlacesFrom(text, c, o + 1)
  BY ONLY <1>5, <1>7 DEF PlacesFrom, m, t
<1>9. Lies(text, c, o)
  BY ONLY <1>4, <1>5 DEF Lies, m, t
<1> QED  BY ONLY <1>3, <1>8, <1>9 DEF c, o, m

LEMMA OffsetsAre ==
  ASSUME NEW W, NEW text, text \in Seq(W), NEW chunks, chunks \in Seq(Seq(W)),
         HeadLength \in Nat, NEW whole \in BOOLEAN, whole => Placed(chunks, text)
  PROVE  /\ Offsets(text, chunks) \in Seq(Nat)
         /\ Len(Offsets(text, chunks)) = Len(chunks)
         /\ whole => \A i \in 1 .. Len(chunks) : Lies(text, chunks[i], Offsets(text, chunks)[i])
<1> DEFINE n == Len(chunks)
           last == OffsetLoop(text, chunks)
<1>1. n \in Nat /\ \A i \in 1 .. n : chunks[i] \in Seq(W)
  BY ONLY chunks \in Seq(Seq(W)), LenProperties, ElementOfSeq
<1>2. OffsetsAfter(text, chunks, last)
  BY ONLY text \in Seq(W), chunks \in Seq(Seq(W)), HeadLength \in Nat, OffsetsFold
<1>3. PICK h \in [0 .. n -> OffsetState] : OffsetSteps(text, chunks, h) /\ last = h[n]
  BY ONLY <1>2 DEF OffsetsAfter
<1>4. h[0] = OffsetStart /\ \A i \in 1 .. n : h[i] = OffsetStep(text, h[i - 1], chunks[i])
  BY ONLY <1>3 DEF OffsetSteps
<1>5. PICK off : whole => OffsetsOf(chunks, off) /\ PlacedTo(chunks, Len(chunks), text, off)
  BY ONLY whole => Placed(chunks, text) DEF Placed
<1> HIDE DEF n, last
<1> DEFINE T == {i \in 0 .. n : /\ OffsetsIn(text, chunks, i, h[i], whole)
                                /\ whole => h[i].cursor = off[i] + 1}
<1>6. 0 \in T
  <2>1. /\ OffsetStart \in OffsetState /\ OffsetStart.offsets = <<>> /\ OffsetStart.cursor = 1
        /\ Len(<<>>) = 0 /\ \A a \in 1 .. 0 : FALSE
    BY EmptySeq, OffsetStartType DEF OffsetStart
  <2>2. OffsetsIn(text, chunks, 0, OffsetStart, whole)
    BY ONLY <2>1 DEF OffsetsIn
  <2>3. whole => off[0] = 0
    BY ONLY <1>5 DEF OffsetsOf
  <2> QED  BY ONLY <1>1, <1>4, <2>1, <2>2, <2>3
<1>7. \A k \in 0 .. n - 1 : k \in T => k + 1 \in T
  <2> SUFFICES ASSUME NEW k \in 0 .. n - 1, k \in T PROVE k + 1 \in T
    OBVIOUS
  <2> DEFINE done == h[k]
             after == h[k + 1]
             c == chunks[k + 1]
             place == PlaceOf(text, c, done.cursor)
  <2>1. /\ k \in Nat /\ k + 1 \in 1 .. n /\ (k + 1) - 1 = k /\ k + 1 \in 0 .. n
        /\ \A j \in 1 .. k + 1 : j \in 1 .. k \/ j = k + 1
    BY ONLY <1>1, k \in 0 .. n - 1
  <2>2. after = OffsetStep(text, done, c) /\ c \in Seq(W)
    BY ONLY <1>1, <1>4, <2>1
  <2>3. OffsetsIn(text, chunks, k, done, whole) /\ (whole => done.cursor = off[k] + 1)
    BY ONLY k \in T
  <2> HIDE DEF done, after, c, place, T
  <2>4. /\ done \in OffsetState /\ Len(done.offsets) = k
        /\ whole => \A j \in 1 .. k : Lies(text, chunks[j], done.offsets[j])
    BY ONLY <2>3 DEF OffsetsIn
  <2>5. /\ after \in OffsetState /\ Appended(done.offsets, place - 1, after.offsets)
        /\ after.cursor = place + Len(c)
    BY ONLY <2>2, <2>4, text \in Seq(W), HeadLength \in Nat, OffsetStepType DEF place
  <2>6. /\ Len(after.offsets) = k + 1 /\ after.offsets[k + 1] = place - 1
        /\ \A j \in 1 .. k : after.offsets[j] = done.offsets[j]
    BY ONLY <2>4, <2>5 DEF Appended
  <2>7. ASSUME whole
        PROVE  /\ Lies(text, c, place - 1) /\ after.cursor = off[k + 1] + 1
    <3>1. /\ Lies(text, chunks[k + 1], off[(k + 1) - 1]) /\ off[(k + 1) - 1] \in Nat
          /\ off[(k + 1) - 1] + 1 \in PlacesFrom(text, chunks[k + 1], off[(k + 1) - 1] + 1)
          /\ off[k + 1] = off[(k + 1) - 1] + Len(chunks[k + 1])
      <4> DEFINE i == k + 1
      <4>1. i \in 1 .. Len(chunks)
        BY ONLY <2>1 DEF n
      <4> HIDE DEF i
      <4>2. /\ Lies(text, chunks[i], off[i - 1]) /\ off[i - 1] \in Nat
            /\ off[i - 1] + 1 \in PlacesFrom(text, chunks[i], off[i - 1] + 1)
            /\ off[i] = off[i - 1] + Len(chunks[i])
        BY ONLY <1>5, <2>7, <4>1, text \in Seq(W), chunks \in Seq(Seq(W)), PlacedLies
      <4> QED  BY ONLY <4>2 DEF i
    <3>2. /\ Lies(text, c, off[k]) /\ off[k] \in Nat
          /\ off[k] + 1 \in PlacesFrom(text, c, off[k] + 1) /\ off[k + 1] = off[k] + Len(c)
      BY ONLY <2>1, <3>1 DEF c
    <3>3. done.cursor = off[k] + 1 /\ done.cursor \in Nat \ {0}
      BY ONLY <2>3, <2>4, <2>7 DEF OffsetState
    <3>4. done.cursor \in PlacesFrom(text, c, done.cursor)
      BY ONLY <3>2, <3>3
    <3>5. place = done.cursor
      BY ONLY <2>2, <3>3, <3>4, text \in Seq(W), HeadLength \in Nat, PlaceOfIs DEF place
    <3>6. Len(c) \in Nat
      BY ONLY <2>2, LenProperties
    <3>7. place - 1 = off[k] /\ place + Len(c) = off[k + 1] + 1
      BY ONLY <3>2, <3>3, <3>5, <3>6
    <3> QED  BY ONLY <2>5, <3>2, <3>7
  <2>8. whole => \A j \in 1 .. k + 1 : Lies(text, chunks[j], after.offsets[j])
    BY ONLY <2>1, <2>4, <2>6, <2>7 DEF c
  <2>9. OffsetsIn(text, chunks, k + 1, after, whole)
    BY ONLY <2>5, <2>6, <2>8 DEF OffsetsIn
  <2> QED  BY ONLY <2>1, <2>7, <2>9 DEF T, after
<1>8. \A k \in 0 .. n : k \in T
  <2> HIDE DEF T
  <2> QED  BY ONLY <1>1, <1>6, <1>7, Upwards
<1>9. n \in T
  <2> HIDE DEF T
  <2>1. n \in 0 .. n
    BY ONLY <1>1
  <2> QED  BY ONLY <1>8, <2>1
<1>10. OffsetsIn(text, chunks, n, last, whole)
  BY ONLY <1>3, <1>9
<1>11. last.offsets \in Seq(Nat)
  BY ONLY <1>10 DEF OffsetsIn, OffsetState
<1>12. Offsets(text, chunks) = last.offsets
  BY ONLY OffsetsIs DEF last
<1> QED  BY ONLY <1>10, <1>11, <1>12 DEF OffsetsIn, n

\* What occurs in a chunk occurs in the text, as far behind as the chunk.
LEMMA OccursHigher ==
  ASSUME NEW W, NEW text, text \in Seq(W), NEW chunk, chunk \in Seq(W), NEW o, o \in Nat,
         Lies(text, chunk, o), NEW e, e \in Seq(W), NEW p, p \in Nat \ {0}, Occurs(chunk, e, p)
  PROVE  Occurs(text, e, o + p)
<1> DEFINE t == Lower(text)
           c == Lower(chunk)
           x == Lower(e)
<1>1. LowerOf(W, text, t) /\ LowerOf(W, chunk, c) /\ LowerOf(W, e, x)
  BY ONLY text \in Seq(W), chunk \in Seq(W), e \in Seq(W), LowerIs
<1>2. Len(text) \in Nat /\ Len(chunk) \in Nat /\ Len(e) \in Nat
  BY ONLY text \in Seq(W), chunk \in Seq(W), e \in Seq(W), LenProperties
<1>3. p \in 1 .. Len(c) + 1 - Len(x) /\ WrittenAt(c, x, p)
  BY ONLY Occurs(chunk, e, p) DEF Occurs, PlacesFrom, c, x
<1> HIDE DEF t, c, x
<1>4. /\ Len(t) = Len(text) /\ Len(c) = Len(chunk) /\ Len(x) = Len(e)
      /\ \A i \in 1 .. Len(text) : t[i] = text[i].means
      /\ \A i \in 1 .. Len(chunk) : c[i] = chunk[i].means
  BY ONLY <1>1 DEF LowerOf
<1>5. o + Len(chunk) <= Len(text) /\ \A q \in 1 .. Len(chunk) : text[o + q] = chunk[q]
  BY ONLY Lies(text, chunk, o) DEF Lies
<1>6. o + p \in 1 .. Len(t) + 1 - Len(x)
  BY ONLY <1>2, <1>3, <1>4, <1>5, o \in Nat
<1>7. \A q \in 1 .. Len(x) :
        p + q - 1 \in 1 .. Len(chunk) /\ o + (p + q - 1) \in 1 .. Len(text)
        /\ (o + p) + q - 1 = o + (p + q - 1)
  BY ONLY <1>2, <1>3, <1>4, <1>5, o \in Nat, p \in Nat \ {0}
<1>8. \A q \in 1 .. Len(x) : t[(o + p) + q - 1] = x[q]
  <2> TAKE q \in 1 .. Len(x)
  <2> DEFINE k == p + q - 1
  <2>1. k \in 1 .. Len(chunk) /\ o + k \in 1 .. Len(text) /\ (o + p) + q - 1 = o + k
    BY ONLY <1>7, q \in 1 .. Len(x)
  <2>2. c[k] = x[q]
    BY ONLY <1>3, q \in 1 .. Len(x) DEF WrittenAt
  <2> HIDE DEF k
  <2>3. t[o + k] = text[o + k].means /\ c[k] = chunk[k].means /\ text[o + k] = chunk[k]
    BY ONLY <1>4, <1>5, <2>1
  <2>4. t[o + k] = x[q]
    BY ONLY <2>2, <2>3
  <2> QED  BY ONLY <2>1, <2>4
<1>9. WrittenAt(t, x, o + p)
  BY ONLY <1>8 DEF WrittenAt
<1> QED  BY ONLY <1>6, <1>9 DEF Occurs, PlacesFrom, t, x

\* The dates of a document are merged (Dates!MergedDatesAreDistinct; run, _chunk_offsets,
\* _reduce, _dedupe_and_sort): of all entries of all chunks, one that is left out has a
\* duplicate that is left, no later in the document; no two that are left are duplicates;
\* an undated mention is never taken for another one; dates come in order, undated entries
\* last; and, if the chunks are the whole text, each entry is where its offset says.
THEOREM DatesAreMerged ==
  ASSUME NEW W, NEW text, text \in Seq(W), NEW chunks, chunks \in Seq(Seq(W)),
         NEW said, said \in Seq(Seq(W) \ {<<>>}), NEW anchored, NEW fallback, DatesAssumption
  PROVE  MergedDatesAreDistinct(text, chunks, said, anchored, fallback)
<1> DEFINE E == EntryOf(W)
           n == Len(chunks)
           offsets == Offsets(text, chunks)
           done(i) == Extracted(chunks[i], said, anchored, offsets[i], fallback)
           parts == ChunkEntries(text, chunks, said, anchored, fallback)
           all == FlattenSeq(parts)
           whole == FlattenSeq(chunks) = text
<1>1. MaxFallbacks \in Nat /\ HeadLength \in Nat
  BY DEF DatesAssumption
<1>2. n \in Nat /\ DOMAIN chunks = 1 .. n /\ \A i \in 1 .. n : chunks[i] \in Seq(W)
  BY ONLY chunks \in Seq(Seq(W)), LenProperties, ElementOfSeq
<1>3. /\ offsets \in Seq(Nat) /\ Len(offsets) = n
      /\ whole => \A i \in 1 .. n : Lies(text, chunks[i], offsets[i])
  <2>1. whole => Placed(chunks, text)
    BY ONLY chunks \in Seq(Seq(W)), FlattenPlaces
  <2>2. whole \in BOOLEAN
    OBVIOUS
  <2> HIDE DEF whole
  <2> QED  BY ONLY <1>1, <2>1, <2>2, text \in Seq(W), chunks \in Seq(Seq(W)), OffsetsAre
<1>4. parts = [i \in 1 .. n |-> done(i).entries]
  BY ONLY <1>2 DEF ChunkEntries
<1> HIDE DEF n, offsets, whole
<1>5. ASSUME NEW i \in 1 .. n
      PROVE  /\ offsets[i] \in Nat /\ LoopIn(W, chunks[i], offsets[i], done(i))
             /\ done(i).entries \in Seq(E)
  <2> DEFINE c == chunks[i]
             o == offsets[i]
  <2>1. o \in Nat /\ c \in Seq(W)
    BY ONLY <1>2, <1>3, i \in 1 .. n, ElementOfSeq
  <2> HIDE DEF c, o
  <2>2. ExtractionIs(W, c, o, said, Extracted(c, said, anchored, o, fallback))
    BY ONLY <1>1, <2>1, said \in Seq(Seq(W) \ {<<>>}), ExtractedGives
  <2>3. LoopIn(W, c, o, Extracted(c, said, anchored, o, fallback))
    BY ONLY <2>2 DEF ExtractionIs
  <2>4. LoopIn(W, c, o, done(i))
    BY ONLY <2>3 DEF c, o
  <2> HIDE DEF done
  <2>5. done(i).entries \in Seq(E)
    BY ONLY <2>4 DEF LoopIn, LoopState
  <2> QED  BY ONLY <2>1, <2>4, <2>5 DEF c, o
<1> HIDE DEF done, E
<1>6. parts \in Seq(Seq(E)) /\ Len(parts) = n /\ \A i \in 1 .. n : parts[i] = done(i).entries
  BY ONLY <1>2, <1>4, <1>5
<1> HIDE DEF parts
<1>7. all \in Seq(E)
  BY ONLY <1>6, FlattenType
<1>8. whole => \A k \in 1 .. Len(all) : IsIn(text, all[k])
  <2> SUFFICES ASSUME whole, NEW k \in 1 .. Len(all) PROVE IsIn(text, all[k])
    OBVIOUS
  <2>1. PICK i \in 1 .. n : \E j \in 1 .. Len(parts[i]) : all[k] = parts[i][j]
    BY ONLY <1>6, k \in 1 .. Len(all), FlattenElement
  <2>2. PICK j \in 1 .. Len(parts[i]) : all[k] = parts[i][j]
    BY ONLY <2>1
  <2> DEFINE c == chunks[i]
             o == offsets[i]
             e == all[k]
  <2>3. /\ o \in Nat /\ LoopIn(W, c, o, done(i)) /\ parts[i] = done(i).entries
        /\ parts[i] \in Seq(E) /\ c \in Seq(W) /\ Lies(text, c, o)
    BY ONLY <1>2, <1>3, <1>5, <1>6, whole, i \in 1 .. n
  <2>4. Stands(c, o, done(i).seen, e) /\ e \in E
    <3>1. e = done(i).entries[j] /\ j \in 1 .. Len(done(i).entries)
      BY ONLY <2>2, <2>3, j \in 1 .. Len(parts[i])
    <3>2. \A x \in 1 .. Len(done(i).entries) : Stands(c, o, done(i).seen, done(i).entries[x])
      BY ONLY <2>3 DEF LoopIn
    <3>3. parts[i][j] \in E
      BY ONLY <2>3, j \in 1 .. Len(parts[i]), ElementOfSeq
    <3> QED  BY ONLY <2>2, <3>1, <3>2, <3>3
  <2> HIDE DEF c, o, e
  <2>5. PICK p \in Nat \ {0} : e.offset = o + p /\ Occurs(c, e.raw, p)
    BY ONLY <2>4 DEF Stands
  <2>6. e.raw \in Seq(W)
    BY ONLY <2>4 DEF E, EntryOf
  <2>7. Occurs(text, e.raw, o + p)
    BY ONLY <2>3, <2>5, <2>6, text \in Seq(W), p \in Nat \ {0}, OccursHigher
  <2>8. Find(Lower(text), Lower(e.raw), o + p) = o + p
    BY ONLY <2>6, <2>7, text \in Seq(W), OccursFound
  <2>9. IsIn(text, e)
    BY ONLY <2>5, <2>8 DEF IsIn
  <2> QED  BY ONLY <2>9 DEF e
<1>9. Dated(E)
  <2>1. \A e \in E : e.offset \in Nat /\ e.raw \in Seq(W)
    BY DEF E, EntryOf
  <2>2. \A e \in E : Len(e.raw) \in Nat
    BY ONLY <2>1, LenProperties
  <2> QED  BY ONLY <2>1, <2>2 DEF Dated
<1>10. DOMAIN all = 1 .. Len(all)
  BY ONLY <1>7, LenProperties
<1> HIDE DEF all
<1>11. whole \in BOOLEAN /\ (whole => \A k \in DOMAIN all : IsIn(text, all[k]))
  BY ONLY <1>8, <1>10 DEF whole
<1>12. Merged(DedupeAndSort(all), all, text, whole)
  BY ONLY <1>7, <1>9, <1>11, DatesAreDistinct
<1>13. FlattenSeq(parts) = all /\ (FlattenSeq(chunks) = text) = whole
  BY DEF all, whole
<1> QED  BY ONLY <1>12, <1>13 DEF MergedDatesAreDistinct, parts
=============================================================================
