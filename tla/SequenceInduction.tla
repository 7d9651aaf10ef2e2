--------------------------- MODULE SequenceInduction ---------------------------
(***************************************************************************)
(* Induction and recursion over the naturals with sets and functions in    *)
(* the place of operators, so that the provers can instantiate them, and   *)
(* what follows for the recursive operators on sequences that the          *)
(* specifications use.                                                     *)
(***************************************************************************)
EXTENDS Integers, SequencesExt, WellFoundedInduction, TLAPS

\* The order of the naturals as a relation.
Below == {p \in Nat \X Nat : p[1] < p[2]}

\* It is well founded.
LEMMA BelowWellFounded == IsWellFoundedOn(Below, Nat)
<1>1. OpToRel(<, Nat) = Below
  BY DEF OpToRel, Below
<1>2. QED BY <1>1, NatLessThanWellFounded

\* A set of naturals that is not empty has a least element.
LEMMA LeastNatural ==
  ASSUME NEW T \in SUBSET Nat, T # {}
  PROVE  \E x \in T : \A y \in T : x <= y
<1>1. T \subseteq Nat
  OBVIOUS
<1>2. PICK x \in T : \A y \in T : ~ (<<y, x>> \in Below)
  BY <1>1, BelowWellFounded, WFMin
<1>3. ASSUME NEW y \in T PROVE x <= y
  <2>1. ~(y < x)
    BY <1>1, <1>2 DEF Below
  <2>2. x \in Nat /\ y \in Nat
    BY <1>1
  <2>3. QED BY <2>1, <2>2
<1>4. QED BY <1>2, <1>3

\* A set of naturals that is bounded and not empty has a greatest element.
LEMMA GreatestNatural ==
  ASSUME NEW n \in Nat, NEW T \in SUBSET (0..n), T # {}
  PROVE  \E x \in T : \A y \in T : y <= x
<1> DEFINE U == {n - x : x \in T}
<1>1. U \in SUBSET Nat /\ U # {}
  <2>1. \A x \in T : n - x \in Nat
    OBVIOUS
  <2>2. PICK x : x \in T
    OBVIOUS
  <2>3. n - x \in U
    BY <2>2
  <2>4. QED BY <2>1, <2>3
<1>2. PICK u \in U : \A v \in U : u <= v
  <2> HIDE DEF U
  <2>1. QED BY <1>1, LeastNatural
<1>3. PICK x \in T : u = n - x
  OBVIOUS
<1>4. ASSUME NEW y \in T PROVE y <= x
  <2>1. n - y \in U /\ x \in Nat /\ y \in Nat
    OBVIOUS
  <2>2. n - x <= n - y
    BY <1>2, <1>3, <2>1
  <2>3. QED BY <2>1, <2>2
<1>5. QED BY <1>4

\* Induction: a set with 0 and the successor of each of its elements has all.
LEMMA SetInduction ==
  ASSUME NEW T \in SUBSET Nat, 0 \in T, \A n \in T : n + 1 \in T
  PROVE  T = Nat
<1>1. SUFFICES ASSUME Nat \ T # {} PROVE FALSE
  OBVIOUS
<1>2. PICK m \in Nat \ T : \A y \in Nat \ T : m <= y
  BY <1>1, LeastNatural
<1>3. m # 0 /\ m - 1 \in Nat
  BY <1>2
<1>4. m - 1 \in T
  BY <1>2, <1>3
<1>5. QED BY <1>2, <1>3, <1>4

\* Recursion: from a first value and a step, the values up to any n.
Unfolding(X, x0, step, n, g) ==
  g \in [0..n -> X] /\ g[0] = x0 /\ \A i \in 1..n : g[i] = step[i][g[i - 1]]

LEMMA SetRecursion ==
  ASSUME NEW X, NEW x0 \in X, NEW step \in [Nat -> [X -> X]], NEW n \in Nat
  PROVE  \E g : Unfolding(X, x0, step, n, g)
<1> DEFINE P(g, m) == g[0] = x0 /\ \A i \in 1..m : g[i] = step[i][g[i - 1]]
           T == {m \in Nat : \E g \in [0..m -> X] : P(g, m)}
<1>1. 0 \in T
  <2>1. [i \in 0..0 |-> x0] \in [0..0 -> X] /\ P([i \in 0..0 |-> x0], 0)
    OBVIOUS
  <2>2. QED BY <2>1
<1>2. ASSUME NEW m \in T PROVE m + 1 \in T
  <2>1. PICK g \in [0..m -> X] : P(g, m)
    BY <1>2
  <2>2. m \in Nat /\ m + 1 \in Nat
    BY <1>2
  <2> DEFINE y == step[m + 1][g[m]]
             h == [i \in 0..(m + 1) |-> IF i <= m THEN g[i] ELSE y]
  <2>3. g[m] \in X
    BY <2>1, <2>2
  <2>4. y \in X
    BY <2>2, <2>3
  <2>a. y = step[m + 1][g[m]]
    OBVIOUS
  <2> HIDE DEF y
  <2>5. h \in [0..(m + 1) -> X]
    BY <2>1, <2>2, <2>4
  <2>b. (\A i \in 0..m : h[i] = g[i]) /\ h[m + 1] = y
    BY <2>2
  <2> HIDE DEF h
  <2>6. P(h, m + 1)
    <3>1. h[0] = x0
      BY <2>1, <2>2, <2>b
    <3>2. ASSUME NEW i \in 1..(m + 1) PROVE h[i] = step[i][h[i - 1]]
      <4>1. CASE i <= m
        <5>1. i \in 1..m /\ i \in 0..m /\ i - 1 \in 0..m
          BY <2>2, <4>1
        <5>2. QED BY <2>1, <2>b, <5>1
      <4>2. CASE i = m + 1
        <5>1. i - 1 = m /\ m \in 0..m
          BY <2>2, <4>2
        <5>2. h[i - 1] = g[m]
          BY <2>b, <5>1
        <5>3. QED BY <2>a, <2>b, <4>2, <5>2
      <4>3. QED BY <2>2, <4>1, <4>2
    <3>3. QED BY <3>1, <3>2
  <2> HIDE DEF P
  <2>7. QED BY <2>2, <2>5, <2>6
<1> HIDE DEF P
<1>3. T \in SUBSET Nat
  OBVIOUS
<1>4. T = Nat
  BY <1>1, <1>2, <1>3, SetInduction
<1>5. QED BY <1>4 DEF P, Unfolding

-----------------------------------------------------------------------------
(* FlattenSeq.                                                             *)

\* Partial concatenations of the sequences of ss, the last one FlattenSeq(ss).
Flattening(ss, S, g) ==
  /\ g \in [0..Len(ss) -> Seq(S)]
  /\ g[0] = <<>>
  /\ \A i \in 1..Len(ss) : g[i] = g[i - 1] \o ss[i]
  /\ FlattenSeq(ss) = g[Len(ss)]

\* FlattenSeq concatenates one sequence after the other.
LEMMA FlattenSteps ==
  ASSUME NEW S, NEW ss \in Seq(Seq(S))
  PROVE  \E g : Flattening(ss, S, g)
<1> DEFINE n == Len(ss)
           X == Seq(S)
           Def(f) == [i \in 1..n |-> IF i = 1 THEN ss[i] ELSE f[i - 1] \o ss[i]]
           step == [i \in Nat |-> [s \in X |-> IF i \in 1..n THEN s \o ss[i] ELSE <<>>]]
<1>1. n \in Nat /\ \A i \in 1..n : ss[i] \in Seq(S)
  OBVIOUS
<1> HIDE DEF n
<1>2. step \in [Nat -> [X -> X]] /\ <<>> \in X
  BY <1>1
<1>3. \A s \in X, i \in 1..n : step[i][s] = s \o ss[i]
  BY SMTT(40), <1>1
<1> HIDE DEF step
<1>4. X = Seq(S)
  OBVIOUS
<1> HIDE DEF X
<1> DEFINE x0 == <<>>
<1>5. x0 \in X /\ x0 = <<>>
  BY <1>2
<1> HIDE DEF x0
<1>6. \E g \in [0..n -> X] : g[0] = x0 /\ \A i \in 1..n : g[i] = step[i][g[i - 1]]
  <2>1. \E g : Unfolding(X, x0, step, n, g)
    BY <1>5, <1>1, <1>2, SetRecursion
  <2>2. QED BY <2>1 DEF Unfolding
<1>7. PICK g \in [0..n -> X] : g[0] = x0 /\ \A i \in 1..n : g[i] = step[i][g[i - 1]]
  BY <1>6
<1>8. ASSUME NEW i \in 1..n
      PROVE  i - 1 \in 0..n /\ g[i - 1] \in Seq(S) /\ g[i] = g[i - 1] \o ss[i]
  <2>1. i - 1 \in 0..n
    BY <1>1
  <2>2. g[i - 1] \in X /\ g[i] = step[i][g[i - 1]]
    BY <1>7, <2>1
  <2>3. QED BY <1>3, <1>4, <2>1, <2>2
<1>9. CASE n = 0
  <2>1. ss = <<>> /\ FlattenSeq(ss) = <<>>
    BY <1>9 DEF n, FlattenSeq
  <2>2. QED BY <1>5, <1>1, <1>7, <1>8, <1>9, <1>4, <2>1 DEF Flattening, n
<1>10. CASE n # 0
  <2> DEFINE f == [i \in 1..n |-> g[i]]
             flatten == CHOOSE h : h = Def(h)
  <2>0. 1 \in 1..n /\ 1 - 1 = 0
    BY <1>1, <1>10
  <2>1. g[1] = ss[1]
    <3>1. g[1] = g[0] \o ss[1] /\ g[0] = <<>> /\ ss[1] \in Seq(S)
      BY <1>5, <1>1, <1>7, <1>8, <2>0
    <3> HIDE DEF Def
    <3>2. QED BY <3>1
  <2>2. \A i \in 1..n : i # 1 => i - 1 \in 1..n
    BY <1>1
  <2>3. f = Def(f)
    <3>1. ASSUME NEW i \in 1..n PROVE f[i] = IF i = 1 THEN ss[i] ELSE f[i - 1] \o ss[i]
      BY <1>8, <2>1, <2>2
    <3>2. QED BY <3>1
  <2>4. flatten = Def(flatten)
    BY <2>3
  <2> HIDE DEF flatten, f
  <2>5. \A i \in 1..n : flatten[i] = IF i = 1 THEN ss[i] ELSE flatten[i - 1] \o ss[i]
    <3>1. PICK h : h = flatten
      OBVIOUS
    <3>2. h = [i \in 1..n |-> IF i = 1 THEN ss[i] ELSE h[i - 1] \o ss[i]]
      BY <2>4, <3>1
    <3>3. QED BY <3>1, <3>2
  <2> HIDE DEF Def
  <2> DEFINE T == {i \in Nat : i + 1 \in 1..n => flatten[i + 1] = g[i + 1]}
  <2>6. 0 \in T
    BY <2>0, <2>1, <2>5
  <2>7. ASSUME NEW i \in T PROVE i + 1 \in T
    <3>1. i \in Nat
      BY <2>7
    <3>2. SUFFICES ASSUME i + 2 \in 1..n PROVE flatten[i + 2] = g[i + 2]
      BY <3>1
    <3>3. i + 1 \in 1..n /\ (i + 2) - 1 = i + 1 /\ i + 2 # 1
      BY <1>1, <3>1, <3>2
    <3>4. flatten[i + 1] = g[i + 1]
      BY <2>7, <3>3
    <3>5. flatten[i + 2] = flatten[i + 1] \o ss[i + 2] /\ g[i + 2] = g[i + 1] \o ss[i + 2]
      BY <1>8, <2>5, <3>2, <3>3
    <3>6. QED BY <3>4, <3>5
  <2>8. T = Nat
    <3>1. T \in SUBSET Nat
      OBVIOUS
    <3> HIDE DEF T
    <3>2. QED BY <2>6, <2>7, <3>1, SetInduction
  <2>9. flatten[n] = g[n]
    <3>1. n - 1 \in Nat /\ (n - 1) + 1 = n /\ n \in 1..n
      BY <1>1, <1>10
    <3>2. n - 1 \in T
      BY <2>8, <3>1
    <3>3. QED BY <3>1, <3>2
  <2>10. FlattenSeq(ss) = flatten[n]
    BY <1>10 DEF FlattenSeq, n, flatten, Def
  <2>11. QED BY <1>5, <1>7, <1>8, <1>4, <2>9, <2>10 DEF Flattening, n
<1>11. QED BY <1>9, <1>10

\* What concatenation preserves holds of the whole if it holds of the parts.
LEMMA FlattenClosed ==
  ASSUME NEW S, NEW W \in SUBSET Seq(S), <<>> \in W,
         \A s, t \in W : s \o t \in W,
         NEW ss \in Seq(W)
  PROVE  FlattenSeq(ss) \in W
<1>1. ss \in Seq(Seq(S)) /\ Len(ss) \in Nat /\ \A i \in 1..Len(ss) : ss[i] \in W
  OBVIOUS
<1>2. PICK g : Flattening(ss, S, g)
  BY <1>1, FlattenSteps
<1> DEFINE T == {i \in Nat : i <= Len(ss) => g[i] \in W}
<1>3. 0 \in T
  BY <1>2 DEF Flattening
<1>4. ASSUME NEW i \in T PROVE i + 1 \in T
  <2>1. i \in Nat /\ (i + 1) - 1 = i
    BY <1>4
  <2>2. CASE i + 1 <= Len(ss)
    <3>1. i + 1 \in 1..Len(ss) /\ i <= Len(ss)
      BY <1>1, <2>1, <2>2
    <3>2. g[i] \in W /\ ss[i + 1] \in W /\ g[i + 1] = g[i] \o ss[i + 1]
      BY <1>1, <1>2, <1>4, <2>1, <3>1 DEF Flattening
    <3>3. g[i + 1] \in W
      BY <3>2
    <3>4. QED BY <2>1, <3>3
  <2>3. QED BY <2>1, <2>2
<1>5. T \in SUBSET Nat
  OBVIOUS
<1> HIDE DEF T
<1>6. T = Nat
  BY <1>3, <1>4, <1>5, SetInduction
<1>7. g[Len(ss)] \in W
  BY <1>1, <1>6 DEF T
<1>8. QED BY <1>2, <1>7 DEF Flattening

\* Two functions that start alike and stay alike are alike.
LEMMA StepsAgree ==
  ASSUME NEW n \in Nat, NEW g, NEW h, g[0] = h[0],
         \A i \in 1..n : g[i - 1] = h[i - 1] => g[i] = h[i]
  PROVE  \A i \in 0..n : g[i] = h[i]
<1> DEFINE T == {i \in Nat : i <= n => g[i] = h[i]}
<1>1. 0 \in T
  OBVIOUS
<1>2. ASSUME NEW i \in T PROVE i + 1 \in T
  <2>1. i \in Nat /\ (i + 1) - 1 = i
    OBVIOUS
  <2>2. SUFFICES ASSUME i + 1 <= n PROVE g[i + 1] = h[i + 1]
    BY <2>1
  <2>3. i <= n /\ i + 1 \in 1..n
    BY <2>1, <2>2
  <2>4. QED BY <2>1, <2>3
<1>3. T \in SUBSET Nat
  OBVIOUS
<1> HIDE DEF T
<1>4. T = Nat
  BY <1>1, <1>2, <1>3, SetInduction
<1>5. ASSUME NEW i \in 0..n PROVE g[i] = h[i]
  <2>1. i \in T /\ i <= n
    BY <1>4
  <2>2. QED BY <2>1 DEF T
<1>6. QED BY <1>5

\* One more sequence is concatenated last.
LEMMA FlattenAppend ==
  ASSUME NEW S, NEW ss \in Seq(Seq(S)), NEW s \in Seq(S)
  PROVE  /\ FlattenSeq(ss) \in Seq(S)
         /\ FlattenSeq(Append(ss, s)) = FlattenSeq(ss) \o s
<1> DEFINE n == Len(ss)
           tt == Append(ss, s)
<1>1. /\ n \in Nat /\ tt \in Seq(Seq(S)) /\ Len(tt) = n + 1 /\ tt[n + 1] = s
      /\ \A i \in 1..n : tt[i] = ss[i]
  OBVIOUS
<1>2. PICK g : Flattening(ss, S, g)
  BY FlattenSteps
<1>3. PICK h : Flattening(tt, S, h)
  BY <1>1, FlattenSteps
<1> HIDE DEF tt
<1>4. g \in [0..n -> Seq(S)] /\ FlattenSeq(ss) = g[n] /\ n \in 0..n
  BY <1>1, <1>2 DEF Flattening
<1> HIDE DEF n
<1>5. g[0] = h[0]
  BY <1>2, <1>3 DEF Flattening
<1>6. ASSUME NEW i \in 1..n, g[i - 1] = h[i - 1] PROVE g[i] = h[i]
  <2>1. g[i] = g[i - 1] \o ss[i]
    BY <1>2 DEF Flattening, n
  <2>2. i \in 1..(n + 1)
    BY <1>1
  <2>3. h[i] = h[i - 1] \o tt[i]
    BY <1>1, <1>3, <2>2 DEF Flattening
  <2>4. QED BY <1>1, <1>6, <2>1, <2>3
<1>7. g[n] = h[n]
  <2>1. n \in Nat
    BY <1>1
  <2>2. \A i \in 0..n : g[i] = h[i]
    BY ZenonT(40), <1>5, <1>6, <2>1, StepsAgree
  <2>3. QED BY <1>4, <2>2
<1>8. h[n + 1] = h[n] \o s
  <2>1. n + 1 \in 1..(n + 1) /\ (n + 1) - 1 = n
    BY <1>1
  <2>2. h[n + 1] = h[(n + 1) - 1] \o tt[n + 1]
    BY <1>1, <1>3, <2>1 DEF Flattening
  <2>3. QED BY <1>1, <2>1, <2>2
<1>9. FlattenSeq(tt) = h[n + 1]
  BY <1>1, <1>3 DEF Flattening
<1>10. QED BY <1>4, <1>7, <1>8, <1>9 DEF tt

\* The whole is a sequence of what the parts are sequences of.
LEMMA FlattenType ==
  ASSUME NEW S, NEW ss \in Seq(Seq(S))
  PROVE  FlattenSeq(ss) \in Seq(S)
<1>1. <<>> \in Seq(S)
  OBVIOUS
<1>2. QED BY <1>1, FlattenAppend

\* The elements of two sequences are those of either.
LEMMA ConcatMembers ==
  ASSUME NEW S, NEW s \in Seq(S), NEW t \in Seq(S)
  PROVE  ToSet(s \o t) = ToSet(s) \cup ToSet(t)
<1> DEFINE u == s \o t
           n == Len(s)
           m == Len(t)
<1>1. /\ n \in Nat /\ m \in Nat
      /\ DOMAIN s = 1..n /\ DOMAIN t = 1..m /\ DOMAIN u = 1..(n + m)
  OBVIOUS
<1>2. /\ \A j \in 1..n : u[j] = s[j]
      /\ \A j \in 1..m : u[n + j] = t[j]
  OBVIOUS
<1> HIDE DEF u, n, m
<1>3. ASSUME NEW j \in 1..(n + m) PROVE u[j] \in ToSet(s) \cup ToSet(t)
  <2>1. CASE j \in 1..n
    BY <1>1, <1>2, <2>1 DEF ToSet
  <2>2. CASE j \notin 1..n
    <3>1. j - n \in 1..m /\ n + (j - n) = j
      BY <1>1, <2>2
    <3>2. QED BY <1>1, <1>2, <3>1 DEF ToSet
  <2>3. QED BY <2>1, <2>2
<1>4. ASSUME NEW j \in 1..n PROVE s[j] \in ToSet(u)
  <2>1. j \in 1..(n + m)
    BY <1>1
  <2>2. QED BY <1>1, <1>2, <2>1 DEF ToSet
<1>5. ASSUME NEW j \in 1..m PROVE t[j] \in ToSet(u)
  <2>1. n + j \in 1..(n + m)
    BY <1>1
  <2>2. QED BY <1>1, <1>2, <2>1 DEF ToSet
<1>6. ToSet(u) \subseteq ToSet(s) \cup ToSet(t)
  BY <1>1, <1>3 DEF ToSet
<1>7. ToSet(s) \subseteq ToSet(u) /\ ToSet(t) \subseteq ToSet(u)
  BY <1>1, <1>4, <1>5 DEF ToSet
<1>8. QED BY <1>6, <1>7 DEF u

\* The elements of the whole are those of the parts.
LEMMA FlattenMembers ==
  ASSUME NEW S, NEW ss \in Seq(Seq(S))
  PROVE  \A x : x \in ToSet(FlattenSeq(ss)) <=> \E j \in DOMAIN ss : x \in ToSet(ss[j])
<1> DEFINE n == Len(ss)
<1>1. n \in Nat /\ DOMAIN ss = 1..n /\ \A j \in 1..n : ss[j] \in Seq(S)
  OBVIOUS
<1>2. PICK g : Flattening(ss, S, g)
  BY FlattenSteps
<1>3. /\ g[0] = <<>> /\ FlattenSeq(ss) = g[n]
      /\ \A j \in 0..n : g[j] \in Seq(S)
      /\ \A j \in 1..n : g[j] = g[j - 1] \o ss[j]
  BY <1>2 DEF Flattening
<1> HIDE DEF n
<1> DEFINE Whole(j) == \A x : x \in ToSet(g[j]) <=> \E m \in 1..j : x \in ToSet(ss[m])
           T == {j \in Nat : j <= n => Whole(j)}
<1>4. Whole(0)
  <2>1. ToSet(g[0]) = {}
    BY <1>3 DEF ToSet
  <2>2. 1..0 = {}
    OBVIOUS
  <2>3. QED BY <2>1, <2>2
<1>5. ASSUME NEW j \in Nat, j + 1 <= n, Whole(j) PROVE Whole(j + 1)
  <2>1. /\ j + 1 \in 1..n /\ j \in 0..n /\ (j + 1) - 1 = j
        /\ \A m : m \in 1..(j + 1) <=> m \in 1..j \/ m = j + 1
    BY <1>1, <1>5
  <2>2. g[j + 1] = g[j] \o ss[j + 1] /\ g[j] \in Seq(S) /\ ss[j + 1] \in Seq(S)
    BY <1>1, <1>3, <2>1
  <2>3. ToSet(g[j + 1]) = ToSet(g[j]) \cup ToSet(ss[j + 1])
    BY <2>2, ConcatMembers
  <2>4. QED BY <1>5, <2>1, <2>3
<1> HIDE DEF Whole
<1>6. 0 \in T
  BY <1>4
<1>7. ASSUME NEW j \in T PROVE j + 1 \in T
  <2>1. j \in Nat /\ (j + 1 <= n => j <= n)
    BY <1>1
  <2>2. QED BY <1>5, <1>7, <2>1
<1>8. T \in SUBSET Nat
  OBVIOUS
<1> HIDE DEF T
<1>9. T = Nat
  BY <1>6, <1>7, <1>8, SetInduction
<1>10. Whole(n)
  BY <1>1, <1>9 DEF T
<1>11. QED BY <1>1, <1>3, <1>10 DEF Whole

\* Nothing concatenated is nothing.
LEMMA FlattenNone == FlattenSeq(<<>>) = <<>>
BY DEF FlattenSeq

\* A function on 1..n + 1 is a sequence: its first n values and one more.
LEMMA LastOne ==
  ASSUME NEW S, NEW n \in Nat, NEW f \in [1..(n + 1) -> S]
  PROVE  /\ [j \in 1..n |-> f[j]] \in Seq(S)
         /\ f[n + 1] \in S
         /\ f = Append([j \in 1..n |-> f[j]], f[n + 1])
<1> DEFINE s == [j \in 1..n |-> f[j]]
<1>1. s \in Seq(S) /\ Len(s) = n /\ \A j \in 1..n : s[j] = f[j]
  OBVIOUS
<1>2. n + 1 \in 1..(n + 1) /\ f[n + 1] \in S
  OBVIOUS
<1> HIDE DEF s
<1> DEFINE t == Append(s, f[n + 1])
<1>3. /\ t \in Seq(S) /\ Len(t) = n + 1 /\ t[n + 1] = f[n + 1]
      /\ \A j \in 1..n : t[j] = f[j]
  BY <1>1, <1>2
<1> HIDE DEF t
<1>4. t \in [1..(n + 1) -> S]
  <2>1. n + 1 \in Nat /\ t \in [1..Len(t) -> S]
    BY <1>3
  <2>2. QED BY <1>3, <2>1
<1>5. \A j \in 1..(n + 1) : t[j] = f[j]
  <2>1. ASSUME NEW j \in 1..(n + 1) PROVE j \in 1..n \/ j = n + 1
    OBVIOUS
  <2>2. QED BY <1>3, <2>1
<1>6. t = f
  BY <1>4, <1>5
<1>7. QED BY <1>1, <1>2, <1>6 DEF s, t

\* The last of n + 1 sequences is concatenated last.
LEMMA FlattenLast ==
  ASSUME NEW S, NEW n \in Nat, NEW f \in [1..(n + 1) -> Seq(S)]
  PROVE  /\ FlattenSeq([j \in 1..n |-> f[j]]) \in Seq(S)
         /\ f[n + 1] \in Seq(S)
         /\ FlattenSeq(f) = FlattenSeq([j \in 1..n |-> f[j]]) \o f[n + 1]
<1>1. PICK T : T = Seq(S)
  OBVIOUS
<1>2. PICK ss : ss = [j \in 1..n |-> f[j]]
  OBVIOUS
<1>3. ss \in Seq(T) /\ f[n + 1] \in T /\ f = Append(ss, f[n + 1])
  BY <1>1, <1>2, LastOne
<1>4. FlattenSeq(ss) \in Seq(S) /\ FlattenSeq(Append(ss, f[n + 1])) = FlattenSeq(ss) \o f[n + 1]
  BY <1>1, <1>3, FlattenAppend
<1>5. QED BY <1>1, <1>2, <1>3, <1>4

\* One more element of t after all of s.
LEMMA PrefixNext ==
  ASSUME NEW S, NEW s \in Seq(S), NEW t \in Seq(S), NEW m \in 1..Len(t)
  PROVE  s \o SubSeq(t, 1, m) = Append(s \o SubSeq(t, 1, m - 1), t[m])
<1>1. /\ m \in Nat /\ m - 1 \in Nat /\ m - 1 <= Len(t) /\ m <= Len(t) /\ m >= 1
      /\ Len(s) \in Nat
  OBVIOUS
<1> DEFINE a == SubSeq(t, 1, m)
           b == SubSeq(t, 1, m - 1)
<1>2. /\ a \in Seq(S) /\ Len(a) = m /\ \A j \in 1..m : a[j] = t[j]
      /\ b \in Seq(S) /\ Len(b) = m - 1 /\ \A j \in 1..(m - 1) : b[j] = t[j]
  BY <1>1
<1> HIDE DEF a, b
<1> DEFINE u == s \o a
           v == Append(s \o b, t[m])
<1>3. /\ u \in Seq(S) /\ Len(u) = Len(s) + m
      /\ \A j \in 1..Len(u) : u[j] = IF j <= Len(s) THEN s[j] ELSE t[j - Len(s)]
  <2>0. \A x, y \in Seq(S) : x \o y \in Seq(S) /\ Len(x \o y) = Len(x) + Len(y)
    OBVIOUS
  <2>1. u \in Seq(S) /\ Len(u) = Len(s) + m
    <3>1. a \in Seq(S) /\ Len(a) = m
      BY <1>2
    <3>2. QED BY <2>0, <3>1
  <2>2. ASSUME NEW j \in 1..Len(u)
        PROVE  u[j] = IF j <= Len(s) THEN s[j] ELSE t[j - Len(s)]
    <3>1. u[j] = IF j <= Len(s) THEN s[j] ELSE a[j - Len(s)]
      BY <1>1, <1>2, <2>1
    <3>2. j > Len(s) => j - Len(s) \in 1..m
      BY <1>1, <2>1
    <3>3. QED BY <1>1, <1>2, <3>1, <3>2
  <2>3. QED BY <2>1, <2>2
<1>4. t[m] \in S
  OBVIOUS
<1>5. /\ v \in Seq(S) /\ Len(v) = Len(s) + m
      /\ \A j \in 1..Len(v) : v[j] = IF j <= Len(s) THEN s[j] ELSE t[j - Len(s)]
  BY <1>1, <1>2, <1>4
<1> HIDE DEF u, v
<1>6. u = v
  BY SMTT(40), <1>3, <1>5
<1>7. QED BY <1>6 DEF u, v, a, b

\* None and all of t after s.
LEMMA PrefixEnds ==
  ASSUME NEW S, NEW s \in Seq(S), NEW t \in Seq(S)
  PROVE  s \o SubSeq(t, 1, 0) = s /\ s \o SubSeq(t, 1, Len(t)) = s \o t
OBVIOUS
==============================================================================
