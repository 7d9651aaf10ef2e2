---------------------------- MODULE Filters_proofs ----------------------------
(***************************************************************************)
(* What the parsers of pkg/filter make of a documented expression, for     *)
(* every key, value and resource.                                          *)
(***************************************************************************)
EXTENDS Expressions, SequenceInduction, SequenceTheorems

-----------------------------------------------------------------------------
(* Where a text occurs in another.                                         *)

At(t, s, p) ==
  /\ p \in 1..(Len(s) - Len(t) + 1)
  /\ \A n \in 1..Len(t) : s[p + n - 1] = t[n]

LEMMA PrefixIs ==
  ASSUME NEW C, NEW s \in Seq(C), NEW i \in 0..Len(s)
  PROVE  /\ SubSeq(s, 1, i) \in Seq(C)
         /\ Len(SubSeq(s, 1, i)) = i
         /\ \A n \in 1..i : SubSeq(s, 1, i)[n] = s[n]
<1>1. \A n \in 1..i : s[n] \in C
  OBVIOUS
<1>2. /\ SubSeq(s, 1, i) \in Seq(C)
      /\ Len(SubSeq(s, 1, i)) = IF 1 <= i THEN i - 1 + 1 ELSE 0
      /\ \A n \in 1..(i - 1 + 1) : SubSeq(s, 1, i)[n] = s[1 + n - 1]
  BY <1>1, SubSeqProperties
<1> QED BY <1>2

LEMMA OccursAt ==
  ASSUME NEW C, NEW s \in Seq(C), NEW t \in Seq(C), t # <<>>
  PROVE  Occurs(t, s) <=> \E p \in Nat : At(t, s, p)
<1>0. Len(t) \in Nat /\ Len(t) > 0 /\ Len(s) \in Nat
  OBVIOUS
<1>1. ASSUME Occurs(t, s) PROVE \E p \in Nat : At(t, s, p)
  <2>1. PICK i, j \in 0..Len(s) : t = SubSeq(s, i + 1, j)
    BY <1>1 DEF Occurs, SubSeqs
  <2>2. \A n \in (i + 1)..j : s[n] \in C
    OBVIOUS
  <2>3. /\ Len(t) = IF i + 1 <= j THEN j - (i + 1) + 1 ELSE 0
        /\ \A n \in 1..(j - (i + 1) + 1) : t[n] = s[i + 1 + n - 1]
    BY <2>1, <2>2, SubSeqProperties
  <2>4. i + 1 \in Nat /\ At(t, s, i + 1)
    BY <1>0, <2>3 DEF At
  <2> QED BY <2>4
<1>2. ASSUME NEW p \in Nat, At(t, s, p) PROVE Occurs(t, s)
  <2>1. p - 1 \in 0..Len(s) /\ p + Len(t) - 1 \in 0..Len(s) /\ p - 1 + 1 = p
    BY <1>0, <1>2 DEF At
  <2> DEFINE u == SubSeq(s, p, p + Len(t) - 1)
  <2>2. \A n \in p..(p + Len(t) - 1) : s[n] \in C
    BY <2>1
  <2>3. /\ u \in Seq(C) /\ Len(u) = Len(t)
        /\ \A n \in 1..Len(t) : u[n] = s[p + n - 1]
    BY <1>0, <2>1, <2>2, SubSeqProperties
  <2> HIDE DEF u
  <2>4. u = t
    BY <1>2, <2>3, SeqEqual DEF At
  <2>5. t = SubSeq(s, (p - 1) + 1, p + Len(t) - 1)
    BY <2>1, <2>4 DEF u
  <2>6. PICK i, j \in 0..Len(s) : i = p - 1 /\ j = p + Len(t) - 1
    BY <2>1
  <2>7. t = SubSeq(s, i + 1, j)
    BY <2>5, <2>6
  <2> QED BY <2>7 DEF Occurs, SubSeqs
<1> QED BY <1>1, <1>2

\* IndexFirstSubSeq is the first place.
LEMMA FirstPlace ==
  ASSUME NEW C, NEW s \in Seq(C), NEW t \in Seq(C), t # <<>>,
         NEW p \in Nat, At(t, s, p), \A q \in 1..(p - 1) : ~At(t, s, q)
  PROVE  IndexFirstSubSeq(t, s) = p
<1> DEFINE P(i) == t \in SubSeqs(SubSeq(s, 1, i))
           last == p + Len(t) - 1
<1>0. Len(t) \in Nat /\ Len(t) > 0 /\ Len(s) \in Nat /\ p \in 1..(Len(s) - Len(t) + 1)
  BY DEF At
<1>1. last \in 0..Len(s)
  BY <1>0
<1>2. \A i \in 0..Len(s) : P(i) <=> last <= i
  <2> TAKE i \in 0..Len(s)
  <2> DEFINE u == SubSeq(s, 1, i)
  <2>1. u \in Seq(C) /\ Len(u) = i /\ \A n \in 1..i : u[n] = s[n]
    BY PrefixIs
  <2> HIDE DEF u
  <2>2. P(i) <=> \E q \in Nat : At(t, u, q)
    BY <2>1, OccursAt DEF u, Occurs
  <2>3. ASSUME NEW q \in Nat, At(t, u, q) PROVE last <= i
    <3>1. q \in 1..(i - Len(t) + 1) /\ \A n \in 1..Len(t) : u[q + n - 1] = t[n]
      BY <2>1, <2>3 DEF At
    <3>2. \A n \in 1..Len(t) : q + n - 1 \in 1..i
      BY <1>0, <3>1
    <3>3. At(t, s, q)
      BY <1>0, <2>1, <3>1, <3>2 DEF At
    <3>4. ~(q \in 1..(p - 1))
      BY <3>3
    <3> QED BY <1>0, <3>1, <3>4
  <2>4. ASSUME last <= i PROVE At(t, u, p)
    <3>1. \A n \in 1..Len(t) : p + n - 1 \in 1..i
      BY <1>0, <2>4
    <3>2. p \in 1..(i - Len(t) + 1)
      BY <1>0, <2>4
    <3> QED BY <2>1, <3>1, <3>2 DEF At
  <2> QED BY <2>2, <2>3, <2>4
<1> HIDE DEF P, last
<1> DEFINE Is(i) == P(i) /\ \A j \in 0..(i - 1) : ~P(j)
<1>3. Is(last)
  BY <1>1, <1>2
<1>4. \A i \in 0..Len(s) : Is(i) => i = last
  BY <1>1, <1>2
<1> HIDE DEF Is
<1>5. (CHOOSE i \in 0..Len(s) : Is(i)) = last
  BY <1>1, <1>3, <1>4
<1>6. IndexFirstSubSeq(t, s) = (CHOOSE i \in 0..Len(s) : Is(i)) - (Len(t) - 1)
  BY Zenon DEF IndexFirstSubSeq, Is, P
<1>7. last - (Len(t) - 1) = p
  BY <1>0 DEF last
<1> QED BY <1>5, <1>6, <1>7

-----------------------------------------------------------------------------
(* Cutting a text at a separator.                                          *)

LEMMA Concat3 ==
  ASSUME NEW C, NEW a \in Seq(C), NEW t \in Seq(C), NEW b \in Seq(C)
  PROVE  /\ a \o t \o b \in Seq(C)
         /\ Len(a \o t \o b) = Len(a) + Len(t) + Len(b)
         /\ \A n \in 1..Len(a) : (a \o t \o b)[n] = a[n]
         /\ \A n \in 1..Len(t) : (a \o t \o b)[Len(a) + n] = t[n]
         /\ \A n \in 1..Len(b) : (a \o t \o b)[Len(a) + Len(t) + n] = b[n]
<1>1. /\ a \o t \in Seq(C) /\ Len(a \o t) = Len(a) + Len(t)
      /\ \A n \in 1..Len(a) : (a \o t)[n] = a[n]
      /\ \A n \in 1..Len(t) : (a \o t)[Len(a) + n] = t[n]
  OBVIOUS
<1> DEFINE u == a \o t
<1> HIDE DEF u
<1>2. /\ u \in Seq(C) /\ Len(u) = Len(a) + Len(t)
      /\ \A n \in 1..Len(a) : u[n] = a[n]
      /\ \A n \in 1..Len(t) : u[Len(a) + n] = t[n]
  BY <1>1 DEF u
<1>3. /\ u \o b \in Seq(C) /\ Len(u \o b) = Len(u) + Len(b)
      /\ \A n \in 1..Len(u) : (u \o b)[n] = u[n]
      /\ \A n \in 1..Len(b) : (u \o b)[Len(u) + n] = b[n]
  <2>1. u \in Seq(C)
    BY <1>2
  <2>2. /\ u \o b \in Seq(C) /\ Len(u \o b) = Len(u) + Len(b)
        /\ \A n \in 1..(Len(u) + Len(b)) :
             (u \o b)[n] = IF n <= Len(u) THEN u[n] ELSE b[n - Len(u)]
    BY <2>1, ConcatProperties
  <2>3. Len(u) \in Nat /\ Len(b) \in Nat
    BY <2>1
  <2>4. \A n \in 1..Len(b) : /\ Len(u) + n \in 1..(Len(u) + Len(b))
                            /\ ~(Len(u) + n <= Len(u)) /\ Len(u) + n - Len(u) = n
    BY <2>3
  <2>5. \A n \in 1..Len(u) : n \in 1..(Len(u) + Len(b)) /\ n <= Len(u)
    BY <2>3
  <2> QED BY <2>2, <2>4, <2>5
<1>4. \A n \in 1..Len(a) : n \in 1..Len(u)
  BY <1>2
<1>5. \A n \in 1..Len(t) : Len(a) + n \in 1..Len(u)
  BY <1>2
<1>6. /\ u \o b \in Seq(C)
      /\ Len(u \o b) = Len(a) + Len(t) + Len(b)
      /\ \A n \in 1..Len(a) : (u \o b)[n] = a[n]
      /\ \A n \in 1..Len(t) : (u \o b)[Len(a) + n] = t[n]
      /\ \A n \in 1..Len(b) : (u \o b)[Len(a) + Len(t) + n] = b[n]
  BY <1>2, <1>3, <1>4, <1>5
<1> QED BY <1>6 DEF u

\* A text is cut at a separator whose first chunk is not before it.
LEMMA Cuts ==
  ASSUME NEW C, NEW a \in Seq(C), NEW t \in Seq(C), NEW b \in Seq(C), t # <<>>,
         \A n \in 1..Len(a) : a[n] # t[1]
  PROVE  /\ Occurs(t, a \o t \o b)
         /\ Before(a \o t \o b, t) = a
         /\ After(a \o t \o b, t) = b
<1> DEFINE s == a \o t \o b
           p == Len(a) + 1
<1>1. /\ s \in Seq(C) /\ Len(s) = Len(a) + Len(t) + Len(b)
      /\ \A n \in 1..Len(a) : s[n] = a[n]
      /\ \A n \in 1..Len(t) : s[Len(a) + n] = t[n]
      /\ \A n \in 1..Len(b) : s[Len(a) + Len(t) + n] = b[n]
  BY Concat3
<1> HIDE DEF s
<1>2. Len(a) \in Nat /\ Len(b) \in Nat /\ Len(t) \in Nat /\ Len(t) > 0
  OBVIOUS
<1>3. p \in Nat /\ At(t, s, p)
  <2>1. \A n \in 1..Len(t) : p + n - 1 = Len(a) + n
    BY <1>2
  <2>2. p \in Nat /\ p \in 1..(Len(s) - Len(t) + 1)
    BY <1>1, <1>2
  <2> QED BY <1>1, <2>1, <2>2 DEF At
<1>4. ASSUME NEW q \in 1..(p - 1) PROVE ~At(t, s, q)
  <2>1. q \in 1..Len(a) /\ s[q] # t[1] /\ q + 1 - 1 = q /\ 1 \in 1..Len(t)
    BY <1>1, <1>2
  <2> QED BY <2>1 DEF At
<1>5. Occurs(t, s)
  BY <1>1, <1>3, OccursAt
<1>6. IndexFirstSubSeq(t, s) = p
  BY <1>1, <1>3, <1>4, FirstPlace
<1>7. p - 1 = Len(a) /\ p + Len(t) = Len(a) + Len(t) + 1
  BY <1>2
<1>8. Before(s, t) = SubSeq(s, 1, Len(a))
  BY <1>6, <1>7 DEF Before
<1>9. After(s, t) = SubSeq(s, Len(a) + Len(t) + 1, Len(s))
  BY <1>6, <1>7 DEF After
<1>10. SubSeq(s, 1, Len(a)) = a
  <2>1. Len(a) \in 0..Len(s)
    BY <1>1, <1>2
  <2>2. /\ SubSeq(s, 1, Len(a)) \in Seq(C) /\ Len(SubSeq(s, 1, Len(a))) = Len(a)
        /\ \A n \in 1..Len(a) : SubSeq(s, 1, Len(a))[n] = s[n]
    BY <1>1, <2>1, PrefixIs
  <2> QED BY <1>1, <2>2, SeqEqual
<1>11. SubSeq(s, Len(a) + Len(t) + 1, Len(s)) = b
  <2> DEFINE m == Len(a) + Len(t) + 1
             u == SubSeq(s, m, Len(s))
  <2>1. m \in Int /\ Len(s) \in Int /\ Len(s) - m + 1 = Len(b)
        /\ (m <= Len(s) \/ Len(b) = 0)
    BY <1>1, <1>2
  <2>2. \A n \in m..Len(s) : s[n] \in C
    BY <1>1, <1>2
  <2>3. /\ u \in Seq(C)
        /\ Len(u) = IF m <= Len(s) THEN Len(s) - m + 1 ELSE 0
        /\ \A n \in 1..(Len(s) - m + 1) : u[n] = s[m + n - 1]
    BY <2>1, <2>2, SubSeqProperties
  <2>4. \A n \in 1..Len(b) : m + n - 1 = Len(a) + Len(t) + n
    BY <1>2
  <2>5. Len(u) = Len(b) /\ \A n \in 1..Len(b) : u[n] = b[n]
    BY <1>1, <2>1, <2>3, <2>4
  <2> HIDE DEF u
  <2>6. u = b
    BY <2>3, <2>5, SeqEqual
  <2> QED BY <2>6 DEF u
<1> QED BY <1>5, <1>8, <1>9, <1>10, <1>11 DEF s

\* One chunk occurs where it is.
LEMMA ChunkOccurs ==
  ASSUME NEW C, NEW s \in Seq(C), NEW c \in C
  PROVE  Occurs(<<c>>, s) <=> \E n \in DOMAIN s : s[n] = c
<1>1. <<c>> \in Seq(C) /\ <<c>> # <<>> /\ Len(<<c>>) = 1 /\ <<c>>[1] = c
  OBVIOUS
<1>2. Occurs(<<c>>, s) <=> \E p \in Nat : At(<<c>>, s, p)
  BY <1>1, OccursAt
<1>3. \A p \in Nat : At(<<c>>, s, p) <=> p \in 1..Len(s) /\ s[p] = c
  <2> TAKE p \in Nat
  <2>1. 1..(Len(s) - Len(<<c>>) + 1) = 1..Len(s)
    BY <1>1
  <2>2. (\A n \in 1..Len(<<c>>) : s[p + n - 1] = <<c>>[n]) <=> s[p] = c
    BY <1>1
  <2> QED BY <2>1, <2>2 DEF At
<1>4. DOMAIN s = 1..Len(s) /\ \A n \in 1..Len(s) : n \in Nat
  OBVIOUS
<1> QED BY <1>2, <1>3, <1>4

\* Two chunks occur where they follow each other.
LEMMA PairOccurs ==
  ASSUME NEW C, NEW s \in Seq(C), NEW c \in C, NEW d \in C
  PROVE  Occurs(<<c, d>>, s)
           <=> \E n \in DOMAIN s : n + 1 \in DOMAIN s /\ s[n] = c /\ s[n + 1] = d
<1> DEFINE t == <<c, d>>
<1>1. t \in Seq(C) /\ t # <<>> /\ Len(t) = 2 /\ t[1] = c /\ t[2] = d
  OBVIOUS
<1> HIDE DEF t
<1>2. Occurs(t, s) <=> \E p \in Nat : At(t, s, p)
  BY <1>1, OccursAt
<1>3. ASSUME NEW p \in Nat
      PROVE  At(t, s, p) <=> p \in 1..Len(s) /\ p + 1 \in 1..Len(s) /\ s[p] = c /\ s[p + 1] = d
  <2>1. p \in 1..(Len(s) - Len(t) + 1) <=> p \in 1..Len(s) /\ p + 1 \in 1..Len(s)
    BY <1>1
  <2>2. (\A n \in 1..Len(t) : s[p + n - 1] = t[n])
          <=> s[p + 1 - 1] = t[1] /\ s[p + 2 - 1] = t[2]
    <3>1. \A n \in 1..Len(t) : n = 1 \/ n = 2
      BY <1>1
    <3>2. 1 \in 1..Len(t) /\ 2 \in 1..Len(t)
      BY <1>1
    <3> QED BY <3>1, <3>2
  <2>3. p + 1 - 1 = p /\ p + 2 - 1 = p + 1
    OBVIOUS
  <2> QED BY <1>1, <2>1, <2>2, <2>3 DEF At
<1>4. DOMAIN s = 1..Len(s) /\ \A n \in 1..Len(s) : n \in Nat
  OBVIOUS
<1> QED BY <1>2, <1>3, <1>4 DEF t

-----------------------------------------------------------------------------
(* The ends of a text.                                                     *)

LEMMA PrefixAt ==
  ASSUME NEW C, NEW s \in Seq(C), NEW t \in Seq(C)
  PROVE  IsPrefix(t, s) <=> Len(t) <= Len(s) /\ \A n \in 1..Len(t) : s[n] = t[n]
<1>1. CASE ~(Len(t) <= Len(s))
  BY <1>1 DEF IsPrefix
<1>2. CASE Len(t) <= Len(s)
  <2>1. Len(t) \in 0..Len(s) /\ Len(t) \in 0..Len(t)
    BY <1>2
  <2> DEFINE u == SubSeq(s, 1, Len(t))
             v == SubSeq(t, 1, Len(t))
  <2>2. u \in Seq(C) /\ Len(u) = Len(t) /\ \A n \in 1..Len(t) : u[n] = s[n]
    BY <2>1, PrefixIs
  <2>3. v \in Seq(C) /\ Len(v) = Len(t) /\ \A n \in 1..Len(t) : v[n] = t[n]
    BY <2>1, PrefixIs
  <2>4. IsPrefix(t, s) <=> v = u
    BY <1>2 DEF IsPrefix
  <2> HIDE DEF u, v
  <2>5. v = u <=> \A n \in 1..Len(t) : s[n] = t[n]
    <3>1. ASSUME \A n \in 1..Len(t) : s[n] = t[n] PROVE v = u
      <4>1. Len(v) = Len(u) /\ \A n \in 1..Len(v) : v[n] = u[n]
        BY <2>2, <2>3, <3>1
      <4> QED BY <2>2, <2>3, <4>1, SeqEqual
    <3>2. ASSUME v = u PROVE \A n \in 1..Len(t) : s[n] = t[n]
      BY <2>2, <2>3, <3>2
    <3> QED BY <3>1, <3>2
  <2> QED BY <1>2, <2>4, <2>5
<1> QED BY <1>1, <1>2

LEMMA SuffixAt ==
  ASSUME NEW C, NEW s \in Seq(C), NEW t \in Seq(C)
  PROVE  IsSuffix(t, s)
           <=> Len(t) <= Len(s) /\ \A n \in 1..Len(t) : s[Len(s) - Len(t) + n] = t[n]
<1> DEFINE u == Reverse(t)
           v == Reverse(s)
<1>1. u \in Seq(C) /\ Len(u) = Len(t) /\ \A n \in 1..Len(t) : u[n] = t[(Len(t) - n) + 1]
  BY DEF Reverse
<1>2. v \in Seq(C) /\ Len(v) = Len(s) /\ \A n \in 1..Len(s) : v[n] = s[(Len(s) - n) + 1]
  BY DEF Reverse
<1>3. IsSuffix(t, s) <=> IsPrefix(u, v)
  BY DEF IsSuffix
<1> HIDE DEF u, v
<1>4. IsPrefix(u, v) <=> Len(u) <= Len(v) /\ \A n \in 1..Len(u) : v[n] = u[n]
  BY <1>1, <1>2, PrefixAt
<1>5. ASSUME Len(t) <= Len(s)
      PROVE  (\A n \in 1..Len(u) : v[n] = u[n])
               <=> \A n \in 1..Len(t) : s[Len(s) - Len(t) + n] = t[n]
  <2>0. Len(t) \in Nat /\ Len(s) \in Nat
    OBVIOUS
  <2>1. \A n \in 1..Len(t) : n \in 1..Len(s) /\ (Len(t) - n) + 1 \in 1..Len(t)
    BY <1>5, <2>0
  <2>2. \A n \in 1..Len(t) : v[n] = u[n] <=> s[(Len(s) - n) + 1] = t[(Len(t) - n) + 1]
    BY <1>1, <1>2, <2>1
  <2>3. \A n \in 1..Len(t) : Len(s) - Len(t) + ((Len(t) - n) + 1) = (Len(s) - n) + 1
    BY <2>0
  <2>4. \A n \in 1..Len(t) : /\ (Len(t) - ((Len(t) - n) + 1)) + 1 = n
                            /\ (Len(s) - ((Len(t) - n) + 1)) + 1 = Len(s) - Len(t) + n
    BY <2>0
  <2>5. ASSUME \A n \in 1..Len(u) : v[n] = u[n], NEW n \in 1..Len(t)
        PROVE  s[Len(s) - Len(t) + n] = t[n]
    <3> DEFINE m == (Len(t) - n) + 1
    <3>1. m \in 1..Len(t) /\ (Len(t) - m) + 1 = n /\ (Len(s) - m) + 1 = Len(s) - Len(t) + n
      BY <2>1, <2>4
    <3> HIDE DEF m
    <3>2. v[m] = u[m]
      BY <1>1, <2>5, <3>1
    <3>3. s[(Len(s) - m) + 1] = t[(Len(t) - m) + 1]
      BY <2>2, <3>1, <3>2
    <3> QED BY <3>1, <3>3
  <2>6. ASSUME \A n \in 1..Len(t) : s[Len(s) - Len(t) + n] = t[n], NEW n \in 1..Len(u)
        PROVE  v[n] = u[n]
    <3>1. n \in 1..Len(t) /\ (Len(t) - n) + 1 \in 1..Len(t)
      BY <1>1, <2>1
    <3>2. s[Len(s) - Len(t) + ((Len(t) - n) + 1)] = t[(Len(t) - n) + 1]
      BY <2>6, <3>1
    <3>3. s[(Len(s) - n) + 1] = t[(Len(t) - n) + 1]
      BY <2>3, <3>1, <3>2
    <3> QED BY <2>2, <3>1, <3>3
  <2> QED BY <2>5, <2>6
<1> QED BY <1>1, <1>2, <1>3, <1>4, <1>5

LEMMA ChunkFirst ==
  ASSUME NEW C, NEW s \in Seq(C), NEW c \in C
  PROVE  IsPrefix(<<c>>, s) <=> Len(s) > 0 /\ s[1] = c
<1>1. <<c>> \in Seq(C) /\ Len(<<c>>) = 1 /\ <<c>>[1] = c
  OBVIOUS
<1>2. IsPrefix(<<c>>, s) <=> 1 <= Len(s) /\ \A n \in 1..1 : s[n] = <<c>>[n]
  BY <1>1, PrefixAt
<1>3. \A n \in 1..1 : n = 1
  OBVIOUS
<1> QED BY <1>1, <1>2, <1>3

LEMMA ChunkLast ==
  ASSUME NEW C, NEW s \in Seq(C), NEW c \in C
  PROVE  IsSuffix(<<c>>, s) <=> Len(s) > 0 /\ s[Len(s)] = c
<1> DEFINE t == <<c>>
<1>1. t \in Seq(C) /\ Len(t) = 1 /\ t[1] = c
  OBVIOUS
<1> HIDE DEF t
<1>2. IsSuffix(t, s)
        <=> Len(t) <= Len(s) /\ \A n \in 1..Len(t) : s[Len(s) - Len(t) + n] = t[n]
  BY ZenonT(40), <1>1, SuffixAt
<1>3. 1 \in 1..1 /\ \A n \in 1..1 : n = 1 /\ Len(s) - 1 + n = Len(s)
  OBVIOUS
<1>4. IsSuffix(t, s) <=> Len(s) > 0 /\ s[Len(s)] = c
  BY <1>1, <1>2, <1>3
<1> QED BY <1>4 DEF t

LEMMA TrimmedFirst ==
  ASSUME NEW C, NEW s \in Seq(C), NEW c \in C
  PROVE  /\ IsPrefix(<<c>>, <<c>> \o s)
         /\ TrimPrefix(<<c>> \o s, <<c>>) = s
<1> DEFINE u == <<c>> \o s
<1>1. /\ u \in Seq(C) /\ Len(u) = Len(s) + 1 /\ u[1] = c
      /\ \A n \in 1..Len(s) : u[n + 1] = s[n]
  <2>1. <<c>> \in Seq(C) /\ Len(<<c>>) = 1 /\ <<c>>[1] = c
    OBVIOUS
  <2>2. /\ u \in Seq(C) /\ Len(u) = 1 + Len(s)
        /\ \A n \in 1..(1 + Len(s)) : u[n] = IF n <= 1 THEN <<c>>[n] ELSE s[n - 1]
    BY <2>1, ConcatProperties
  <2>3. \A n \in 1..Len(s) : n + 1 \in 1..(1 + Len(s)) /\ ~(n + 1 <= 1) /\ n + 1 - 1 = n
    OBVIOUS
  <2>4. 1 \in 1..(1 + Len(s)) /\ Len(u) = Len(s) + 1
    BY <2>2
  <2> QED BY <2>1, <2>2, <2>3, <2>4
<1> HIDE DEF u
<1>2. IsPrefix(<<c>>, u)
  BY <1>1, ChunkFirst
<1>3. Len(<<c>>) = 1
  OBVIOUS
<1>4. TrimPrefix(u, <<c>>) = SubSeq(u, 2, Len(s) + 1)
  BY <1>1, <1>2, <1>3 DEF TrimPrefix
<1>5. /\ SubSeq(u, 2, Len(s) + 1) \in Seq(C) /\ Len(SubSeq(u, 2, Len(s) + 1)) = Len(s)
      /\ \A n \in 1..Len(s) : SubSeq(u, 2, Len(s) + 1)[n] = s[n]
  <2>1. \A n \in 2..(Len(s) + 1) : u[n] \in C
    BY <1>1
  <2>2. /\ SubSeq(u, 2, Len(s) + 1) \in Seq(C)
        /\ Len(SubSeq(u, 2, Len(s) + 1)) = IF 2 <= Len(s) + 1 THEN Len(s) + 1 - 2 + 1 ELSE 0
        /\ \A n \in 1..(Len(s) + 1 - 2 + 1) : SubSeq(u, 2, Len(s) + 1)[n] = u[2 + n - 1]
    BY <2>1, SubSeqProperties
  <2>3. Len(s) + 1 - 2 + 1 = Len(s) /\ \A n \in 1..Len(s) : 2 + n - 1 = n + 1
    OBVIOUS
  <2> QED BY <1>1, <2>2, <2>3
<1>6. SubSeq(u, 2, Len(s) + 1) = s
  BY <1>5, SeqEqual
<1> QED BY <1>2, <1>4, <1>6 DEF u

LEMMA TrimmedLast ==
  ASSUME NEW C, NEW s \in Seq(C), NEW c \in C
  PROVE  /\ IsSuffix(<<c>>, s \o <<c>>)
         /\ TrimSuffix(s \o <<c>>, <<c>>) = s
<1> DEFINE u == s \o <<c>>
<1>1. /\ u \in Seq(C) /\ Len(u) = Len(s) + 1 /\ u[Len(u)] = c
      /\ \A n \in 1..Len(s) : u[n] = s[n]
  <2>1. <<c>> \in Seq(C) /\ Len(<<c>>) = 1 /\ <<c>>[1] = c
    OBVIOUS
  <2>2. /\ u \in Seq(C) /\ Len(u) = Len(s) + 1
        /\ \A n \in 1..(Len(s) + 1) : u[n] = IF n <= Len(s) THEN s[n] ELSE <<c>>[n - Len(s)]
    BY <2>1, ConcatProperties
  <2>3. /\ Len(s) + 1 \in 1..(Len(s) + 1) /\ ~(Len(s) + 1 <= Len(s))
        /\ Len(s) + 1 - Len(s) = 1 /\ \A n \in 1..Len(s) : n \in 1..(Len(s) + 1) /\ n <= Len(s)
    OBVIOUS
  <2> QED BY <2>1, <2>2, <2>3
<1> HIDE DEF u
<1>2. IsSuffix(<<c>>, u)
  BY <1>1, ChunkLast
<1>3. Len(<<c>>) = 1 /\ Len(s) + 1 - 1 = Len(s)
  OBVIOUS
<1>4. TrimSuffix(u, <<c>>) = SubSeq(u, 1, Len(s))
  BY <1>1, <1>2, <1>3 DEF TrimSuffix
<1>5. /\ SubSeq(u, 1, Len(s)) \in Seq(C) /\ Len(SubSeq(u, 1, Len(s))) = Len(s)
      /\ \A n \in 1..Len(s) : SubSeq(u, 1, Len(s))[n] = s[n]
  <2>1. Len(s) \in 0..Len(u)
    BY <1>1
  <2>2. /\ SubSeq(u, 1, Len(s)) \in Seq(C) /\ Len(SubSeq(u, 1, Len(s))) = Len(s)
        /\ \A n \in 1..Len(s) : SubSeq(u, 1, Len(s))[n] = u[n]
    BY <1>1, <2>1, PrefixIs
  <2> QED BY <1>1, <2>2
<1>6. SubSeq(u, 1, Len(s)) = s
  BY <1>5, SeqEqual
<1> QED BY <1>2, <1>4, <1>6 DEF u

-----------------------------------------------------------------------------
(* The chunks of a text made of three.                                     *)

Has(s, c) == \E n \in DOMAIN s : s[n] = c

LEMMA Where3 ==
  ASSUME NEW C, NEW a \in Seq(C), NEW t \in Seq(C), NEW b \in Seq(C),
         NEW n \in DOMAIN (a \o t \o b)
  PROVE  \/ n \in 1..Len(a) /\ (a \o t \o b)[n] = a[n]
         \/ n - Len(a) \in 1..Len(t) /\ (a \o t \o b)[n] = t[n - Len(a)]
         \/ /\ n - (Len(a) + Len(t)) \in 1..Len(b)
            /\ (a \o t \o b)[n] = b[n - (Len(a) + Len(t))]
<1> DEFINE s == a \o t \o b
<1>1. /\ s \in Seq(C) /\ Len(s) = Len(a) + Len(t) + Len(b)
      /\ \A m \in 1..Len(a) : s[m] = a[m]
      /\ \A m \in 1..Len(t) : s[Len(a) + m] = t[m]
      /\ \A m \in 1..Len(b) : s[Len(a) + Len(t) + m] = b[m]
  BY Concat3
<1> HIDE DEF s
<1>2. n \in 1..Len(s)
  BY <1>1 DEF s
<1>3. Len(a) \in Nat /\ Len(t) \in Nat /\ Len(b) \in Nat /\ n \in Nat
  BY <1>2
<1>4. \/ n \in 1..Len(a) \/ n - Len(a) \in 1..Len(t)
      \/ n - (Len(a) + Len(t)) \in 1..Len(b)
  BY <1>1, <1>2, <1>3
<1>5. Len(a) + (n - Len(a)) = n /\ Len(a) + Len(t) + (n - (Len(a) + Len(t))) = n
  BY <1>3
<1>6. ASSUME n - Len(a) \in 1..Len(t) PROVE s[n] = t[n - Len(a)]
  BY <1>1, <1>5, <1>6
<1>7. ASSUME n - (Len(a) + Len(t)) \in 1..Len(b) PROVE s[n] = b[n - (Len(a) + Len(t))]
  BY <1>1, <1>5, <1>7
<1>8. ASSUME n \in 1..Len(a) PROVE s[n] = a[n]
  BY <1>1, <1>8
<1> QED BY <1>4, <1>6, <1>7, <1>8 DEF s

LEMMA Has3 ==
  ASSUME NEW C, NEW a \in Seq(C), NEW t \in Seq(C), NEW b \in Seq(C), NEW c
  PROVE  Has(a \o t \o b, c) <=> Has(a, c) \/ Has(t, c) \/ Has(b, c)
<1> DEFINE s == a \o t \o b
<1>1. /\ s \in Seq(C) /\ Len(s) = Len(a) + Len(t) + Len(b)
      /\ \A m \in 1..Len(a) : s[m] = a[m]
      /\ \A m \in 1..Len(t) : s[Len(a) + m] = t[m]
      /\ \A m \in 1..Len(b) : s[Len(a) + Len(t) + m] = b[m]
  BY Concat3
<1>2. ASSUME NEW n \in DOMAIN s, s[n] = c PROVE Has(a, c) \/ Has(t, c) \/ Has(b, c)
  <2>1. \/ n \in 1..Len(a) /\ s[n] = a[n]
        \/ n - Len(a) \in 1..Len(t) /\ s[n] = t[n - Len(a)]
        \/ n - (Len(a) + Len(t)) \in 1..Len(b) /\ s[n] = b[n - (Len(a) + Len(t))]
    BY Where3
  <2> HIDE DEF s
  <2>2. DOMAIN a = 1..Len(a) /\ DOMAIN t = 1..Len(t) /\ DOMAIN b = 1..Len(b)
    OBVIOUS
  <2> QED BY <1>2, <2>1, <2>2 DEF Has
<1> HIDE DEF s
<1>3. DOMAIN s = 1..Len(s) /\ Len(a) \in Nat /\ Len(t) \in Nat /\ Len(b) \in Nat
  BY <1>1
<1>4. ASSUME NEW n \in DOMAIN a, a[n] = c PROVE Has(s, c)
  <2>1. n \in 1..Len(a) /\ n \in DOMAIN s
    BY <1>1, <1>3
  <2> QED BY <1>1, <1>4, <2>1 DEF Has
<1>5. ASSUME NEW n \in DOMAIN t, t[n] = c PROVE Has(s, c)
  <2>1. n \in 1..Len(t) /\ Len(a) + n \in DOMAIN s
    BY <1>1, <1>3
  <2> QED BY <1>1, <1>5, <2>1 DEF Has
<1>6. ASSUME NEW n \in DOMAIN b, b[n] = c PROVE Has(s, c)
  <2>1. n \in 1..Len(b) /\ Len(a) + Len(t) + n \in DOMAIN s
    BY <1>1, <1>3
  <2> QED BY <1>1, <1>6, <2>1 DEF Has
<1>7. Has(s, c) <=> Has(a, c) \/ Has(t, c) \/ Has(b, c)
  BY <1>2, <1>4, <1>5, <1>6 DEF Has
<1> QED BY <1>7 DEF s

LEMMA PlainHas ==
  ASSUME NEW s, NEW S
  PROVE  Plain(s, S) <=> \A c \in S : ~Has(s, c)
BY DEF Plain, Has

\* The last chunk of "a t b" is that of b, or of t if b is empty.
LEMMA Last3 ==
  ASSUME NEW C, NEW a \in Seq(C), NEW t \in Seq(C), NEW b \in Seq(C), t # <<>>
  PROVE  /\ Len(a \o t \o b) > 0
         /\ b # <<>> => Len(b) > 0 /\ (a \o t \o b)[Len(a \o t \o b)] = b[Len(b)]
         /\ b = <<>> => (a \o t \o b)[Len(a \o t \o b)] = t[Len(t)]
<1> DEFINE s == a \o t \o b
<1>1. /\ s \in Seq(C) /\ Len(s) = Len(a) + Len(t) + Len(b)
      /\ \A m \in 1..Len(t) : s[Len(a) + m] = t[m]
      /\ \A m \in 1..Len(b) : s[Len(a) + Len(t) + m] = b[m]
  BY Concat3
<1> HIDE DEF s
<1>2. Len(a) \in Nat /\ Len(t) \in Nat /\ Len(b) \in Nat /\ Len(t) > 0
  OBVIOUS
<1>3. b # <<>> => Len(b) \in 1..Len(b)
  OBVIOUS
<1>4. b = <<>> => Len(b) = 0 /\ Len(s) = Len(a) + Len(t) /\ Len(t) \in 1..Len(t)
  BY <1>1, <1>2
<1>5. Len(s) > 0
  BY <1>1, <1>2
<1> QED BY <1>1, <1>3, <1>4, <1>5 DEF s

-----------------------------------------------------------------------------
(* --filter-tag                                                            *)

Signs == {"=", "!", "~", "/", ":", "..", ">", "<", "^", "$"}

\* The tests of the parser, in their order.
LEMMA TagArms ==
  ASSUME NEW e, e # <<>>
  PROVE  LET regex == Occurs(<<"=", "/">>, e) /\ IsSuffix(<<"/">>, e)
             Cut(op, sep) == TagFilter(Before(e, sep), op, After(e, sep))
         IN  /\ regex => ParseTagFilter(e) =
                  [Cut("matches", <<"=", "/">>) EXCEPT !.value = TrimSuffix(@, <<"/">>)]
             /\ ~regex /\ Occurs(<<"!", "=">>, e) => ParseTagFilter(e) =
                  IF After(e, <<"!", "=">>) = <<>> THEN Cut("not-exists", <<"!", "=">>) ELSE Error
             /\ ~regex /\ ~Occurs(<<"!", "=">>, e) => ParseTagFilter(e) =
                  IF Occurs(<<"~">>, e) THEN Cut("contains", <<"~">>)
                  ELSE IF Occurs(<<"=">>, e) THEN Cut("equals", <<"=">>)
                  ELSE TagFilter(e, "exists", <<>>)
BY DEF ParseTagFilter

\* A text without "=" has no operator of two chunks.
LEMMA NoEquals ==
  ASSUME NEW C, Signs \subseteq C, NEW s \in Seq(C), ~Has(s, "=")
  PROVE  ~Occurs(<<"=", "/">>, s) /\ ~Occurs(<<"!", "=">>, s) /\ ~Occurs(<<"=">>, s)
<1>1. "=" \in C /\ "/" \in C /\ "!" \in C
  BY DEF Signs
<1>2. /\ Occurs(<<"=", "/">>, s)
           <=> \E n \in DOMAIN s : n + 1 \in DOMAIN s /\ s[n] = "=" /\ s[n + 1] = "/"
      /\ Occurs(<<"!", "=">>, s)
           <=> \E n \in DOMAIN s : n + 1 \in DOMAIN s /\ s[n] = "!" /\ s[n + 1] = "="
      /\ Occurs(<<"=">>, s) <=> \E n \in DOMAIN s : s[n] = "="
  BY <1>1, PairOccurs, ChunkOccurs
<1> QED BY <1>2 DEF Has

LEMMA OccursHas ==
  ASSUME NEW C, NEW s \in Seq(C), NEW c \in C
  PROVE  Occurs(<<c>>, s) <=> Has(s, c)
BY ChunkOccurs DEF Has

LEMMA TagExists ==
  ASSUME NEW C, Signs \subseteq C, NEW e \in Seq(C), e # <<>>, ~Has(e, "="), ~Has(e, "~")
  PROVE  ParseTagFilter(e) = TagFilter(e, "exists", <<>>)
<1>1. "~" \in C
  BY DEF Signs
<1>2. ~Occurs(<<"~">>, e)
  BY <1>1, OccursHas
<1> QED BY <1>2, NoEquals, TagArms

LEMMA TagContains ==
  ASSUME NEW C, Signs \subseteq C, NEW k \in Seq(C), NEW v \in Seq(C),
         ~Has(k, "="), ~Has(k, "~"), ~Has(v, "=")
  PROVE  ParseTagFilter(k \o <<"~">> \o v) = TagFilter(k, "contains", v)
<1> DEFINE e == k \o <<"~">> \o v
<1>1. "~" \in C
  BY DEF Signs
<1>2. <<"~">> \in Seq(C) /\ <<"~">> # <<>> /\ <<"~">>[1] = "~" /\ ~Has(<<"~">>, "=")
  BY <1>1 DEF Has
<1>3. \A n \in 1..Len(k) : k[n] # <<"~">>[1]
  BY <1>2 DEF Has
<1>4. Occurs(<<"~">>, e) /\ Before(e, <<"~">>) = k /\ After(e, <<"~">>) = v
  BY ZenonT(40), <1>2, <1>3, Cuts
<1>5. e \in Seq(C) /\ Len(e) > 0
  BY <1>2, Concat3, Last3
<1>6. ~Has(e, "=")
  BY ZenonT(40), <1>2, Has3
<1> HIDE DEF e
<1>7. e # <<>>
  BY <1>5
<1>8. ParseTagFilter(e) = TagFilter(k, "contains", v)
  BY <1>4, <1>5, <1>6, <1>7, NoEquals, TagArms
<1> QED BY <1>8 DEF e

\* Around the only "=" of a text.
LEMMA AroundEquals ==
  ASSUME NEW C, Signs \subseteq C, NEW a \in Seq(C), NEW b \in Seq(C),
         ~Has(a, "="), ~Has(b, "=")
  PROVE  /\ Occurs(<<"=", "/">>, a \o <<"=">> \o b) <=> Len(b) > 0 /\ b[1] = "/"
         /\ Occurs(<<"!", "=">>, a \o <<"=">> \o b) <=> Len(a) > 0 /\ a[Len(a)] = "!"
<1> DEFINE t == <<"=">>
           s == a \o t \o b
<1>1. "=" \in C /\ "/" \in C /\ "!" \in C
  BY DEF Signs
<1>0. t \in Seq(C)
  BY <1>1
<1>2. Len(t) = 1 /\ t[1] = "="
  OBVIOUS
<1> HIDE DEF t
<1>a. /\ s \in Seq(C) /\ Len(s) = Len(a) + Len(t) + Len(b)
      /\ \A m \in 1..Len(a) : s[m] = a[m]
      /\ \A m \in 1..Len(t) : s[Len(a) + m] = t[m]
      /\ \A m \in 1..Len(b) : s[Len(a) + Len(t) + m] = b[m]
  BY <1>0, Concat3
<1>b. ASSUME NEW n \in DOMAIN s
      PROVE  \/ n \in 1..Len(a) /\ s[n] = a[n]
             \/ n - Len(a) \in 1..Len(t) /\ s[n] = t[n - Len(a)]
             \/ n - (Len(a) + Len(t)) \in 1..Len(b) /\ s[n] = b[n - (Len(a) + Len(t))]
  BY <1>0, Where3
<1> HIDE DEF s
<1>3. /\ s \in Seq(C) /\ Len(s) = Len(a) + 1 + Len(b)
      /\ \A m \in 1..Len(a) : s[m] = a[m]
      /\ \A m \in 1..Len(b) : s[Len(a) + 1 + m] = b[m]
  BY <1>2, <1>a
<1>4. s[Len(a) + 1] = "="
  <2>1. 1 \in 1..Len(t)
    BY <1>2
  <2> QED BY <1>2, <1>a, <2>1
<1>5. \A n \in DOMAIN s : \/ n \in 1..Len(a) /\ s[n] = a[n]
                          \/ n = Len(a) + 1
                          \/ n - (Len(a) + 1) \in 1..Len(b) /\ s[n] = b[n - (Len(a) + 1)]
  <2> TAKE n \in DOMAIN s
  <2>1. \/ n \in 1..Len(a) /\ s[n] = a[n]
        \/ n - Len(a) \in 1..Len(t) /\ s[n] = t[n - Len(a)]
        \/ n - (Len(a) + Len(t)) \in 1..Len(b) /\ s[n] = b[n - (Len(a) + Len(t))]
    BY <1>b
  <2>2. n \in Nat
    BY <1>3
  <2>3. n - Len(a) \in 1..Len(t) => n = Len(a) + 1
    BY <1>2, <2>2
  <2> QED BY <1>2, <2>1, <2>3
<1>6. /\ Occurs(<<"=", "/">>, s)
           <=> \E n \in DOMAIN s : n + 1 \in DOMAIN s /\ s[n] = "=" /\ s[n + 1] = "/"
      /\ Occurs(<<"!", "=">>, s)
           <=> \E n \in DOMAIN s : n + 1 \in DOMAIN s /\ s[n] = "!" /\ s[n + 1] = "="
  <2>1. s \in Seq(C)
    BY <1>3
  <2>2. \A c, d \in C : Occurs(<<c, d>>, s)
          <=> \E n \in DOMAIN s : n + 1 \in DOMAIN s /\ s[n] = c /\ s[n + 1] = d
    <3> TAKE c, d \in C
    <3> QED BY <2>1, PairOccurs
  <2> QED BY <1>1, <2>2
<1>7. Len(a) \in Nat /\ Len(b) \in Nat /\ DOMAIN s = 1..(Len(a) + 1 + Len(b))
  BY <1>3
<1>8. \A n \in DOMAIN s : s[n] = "=" <=> n = Len(a) + 1
  <2> TAKE n \in DOMAIN s
  <2>1. n \in 1..Len(a) => a[n] # "="
    BY DEF Has
  <2>2. n - (Len(a) + 1) \in 1..Len(b) => b[n - (Len(a) + 1)] # "="
    BY DEF Has
  <2> QED BY <1>4, <1>5, <2>1, <2>2
<1>9. ASSUME NEW n \in DOMAIN s, n + 1 \in DOMAIN s, s[n] = "=", s[n + 1] = "/"
      PROVE  Len(b) > 0 /\ b[1] = "/"
  <2>1. n = Len(a) + 1
    BY <1>8, <1>9
  <2>2. Len(b) > 0 /\ 1 \in 1..Len(b)
    BY <1>7, <1>9, <2>1
  <2>3. s[Len(a) + 1 + 1] = b[1]
    BY <1>3, <2>2
  <2> QED BY <1>9, <2>1, <2>2, <2>3
<1>10. ASSUME Len(b) > 0, b[1] = "/"
       PROVE  \E n \in DOMAIN s : n + 1 \in DOMAIN s /\ s[n] = "=" /\ s[n + 1] = "/"
  <2>1. 1 \in 1..Len(b) /\ Len(a) + 1 \in DOMAIN s /\ Len(a) + 1 + 1 \in DOMAIN s
    BY <1>7, <1>10
  <2>2. s[Len(a) + 1 + 1] = "/"
    BY <1>3, <1>10, <2>1
  <2> QED BY <1>4, <2>1, <2>2
<1>11. ASSUME NEW n \in DOMAIN s, n + 1 \in DOMAIN s, s[n] = "!", s[n + 1] = "="
       PROVE  Len(a) > 0 /\ a[Len(a)] = "!"
  <2>1. n + 1 = Len(a) + 1
    BY <1>8, <1>11
  <2>2. n = Len(a) /\ Len(a) > 0 /\ Len(a) \in 1..Len(a)
    BY <1>7, <1>11, <2>1
  <2> QED BY <1>3, <1>11, <2>2
<1>12. ASSUME Len(a) > 0, a[Len(a)] = "!"
       PROVE  \E n \in DOMAIN s : n + 1 \in DOMAIN s /\ s[n] = "!" /\ s[n + 1] = "="
  <2>1. Len(a) \in 1..Len(a) /\ Len(a) \in DOMAIN s /\ Len(a) + 1 \in DOMAIN s
    BY <1>7, <1>12
  <2>2. s[Len(a)] = "!"
    BY <1>3, <1>12, <2>1
  <2> QED BY <1>4, <2>1, <2>2
<1>13. /\ Occurs(<<"=", "/">>, s) <=> Len(b) > 0 /\ b[1] = "/"
       /\ Occurs(<<"!", "=">>, s) <=> Len(a) > 0 /\ a[Len(a)] = "!"
  BY <1>6, <1>9, <1>10, <1>11, <1>12
<1> QED BY <1>13 DEF s, t

\* With a value that is not between slashes it is no regular expression.
LEMMA NoRegex ==
  ASSUME NEW C, Signs \subseteq C, NEW a \in Seq(C), NEW v \in Seq(C),
         ~Has(a, "="), ~Has(v, "="), ~Slashed(v)
  PROVE  ~(Occurs(<<"=", "/">>, a \o <<"=">> \o v) /\ IsSuffix(<<"/">>, a \o <<"=">> \o v))
<1> DEFINE t == <<"=">>
           s == a \o t \o v
<1>1. "=" \in C /\ "/" \in C
  BY DEF Signs
<1>2. t \in Seq(C) /\ t # <<>>
  BY <1>1
<1>3. Occurs(<<"=", "/">>, s) <=> Len(v) > 0 /\ v[1] = "/"
  BY AroundEquals
<1> HIDE DEF t
<1>4. s \in Seq(C)
  BY <1>2, Concat3
<1>5. IsSuffix(<<"/">>, s) <=> Len(s) > 0 /\ s[Len(s)] = "/"
  BY <1>1, <1>4, ChunkLast
<1>6. v # <<>> => s[Len(s)] = v[Len(v)]
  BY <1>2, Last3
<1>7. Slashed(v) <=> Len(v) > 0 /\ v[1] = "/" /\ v[Len(v)] = "/"
  BY <1>1, ChunkFirst, ChunkLast DEF Slashed
<1>8. Len(v) > 0 => v # <<>>
  OBVIOUS
<1> HIDE DEF s
<1>9. ~(Occurs(<<"=", "/">>, s) /\ IsSuffix(<<"/">>, s))
  BY <1>3, <1>5, <1>6, <1>7, <1>8
<1> QED BY <1>9 DEF s, t

LEMMA TagEquals ==
  ASSUME NEW C, Signs \subseteq C, NEW k \in Seq(C), NEW v \in Seq(C),
         Plain(k, {"=", "!", "~"}), Plain(v, {"=", "~"}), ~Slashed(v)
  PROVE  ParseTagFilter(k \o <<"=">> \o v) = TagFilter(k, "equals", v)
<1> DEFINE e == k \o <<"=">> \o v
<1>0. ~Has(k, "=") /\ ~Has(k, "!") /\ ~Has(k, "~") /\ ~Has(v, "=") /\ ~Has(v, "~")
  BY PlainHas
<1>1. "=" \in C /\ "~" \in C
  BY DEF Signs
<1>2. <<"=">> \in Seq(C) /\ <<"=">> # <<>> /\ <<"=">>[1] = "=" /\ ~Has(<<"=">>, "~")
  BY <1>1 DEF Has
<1>3. \A n \in 1..Len(k) : k[n] # <<"=">>[1]
  BY <1>0, <1>2 DEF Has
<1>4. Occurs(<<"=">>, e) /\ Before(e, <<"=">>) = k /\ After(e, <<"=">>) = v
  BY ZenonT(40), <1>2, <1>3, Cuts
<1>5. e \in Seq(C) /\ Len(e) > 0
  BY <1>2, Concat3, Last3
<1>6. ~Occurs(<<"~">>, e)
  <2>0. <<"=">> \in Seq(C)
    BY <1>2
  <2>a. Has(e, "~") <=> Has(k, "~") \/ Has(<<"=">>, "~") \/ Has(v, "~")
    BY <2>0, Has3
  <2>1. ~Has(e, "~")
    BY <1>0, <1>2, <2>a
  <2> HIDE DEF e
  <2> QED BY <1>1, <1>5, <2>1, OccursHas
<1>7. ~(Occurs(<<"=", "/">>, e) /\ IsSuffix(<<"/">>, e))
  BY <1>0, NoRegex
<1>8. ~Occurs(<<"!", "=">>, e)
  <2>1. Len(k) > 0 => Len(k) \in DOMAIN k
    OBVIOUS
  <2>2. ~(Len(k) > 0 /\ k[Len(k)] = "!")
    BY <1>0, <2>1 DEF Has
  <2> QED BY <1>0, <2>2, AroundEquals
<1> HIDE DEF e
<1>9. e # <<>>
  BY <1>5
<1>10. ParseTagFilter(e) = TagFilter(k, "equals", v)
  BY <1>4, <1>6, <1>7, <1>8, <1>9, TagArms
<1> QED BY <1>10 DEF e

LEMMA TagNot ==
  ASSUME NEW C, Signs \subseteq C, NEW k \in Seq(C), NEW v \in Seq(C),
         Plain(k, {"=", "!", "~"}), Plain(v, {"="}), ~Slashed(v)
  PROVE  ParseTagFilter(k \o <<"!", "=">> \o v)
           = IF v = <<>> THEN TagFilter(k, "not-exists", <<>>) ELSE Error
<1> DEFINE t == <<"!", "=">>
           e == k \o t \o v
           a == k \o <<"!">>
<1>0. ~Has(k, "=") /\ ~Has(k, "!") /\ ~Has(k, "~") /\ ~Has(v, "=")
  BY PlainHas
<1>1. "=" \in C /\ "!" \in C
  BY DEF Signs
<1>2. t \in Seq(C) /\ t # <<>>
  BY <1>1
<1>t. t[1] = "!"
  OBVIOUS
<1>3. \A n \in 1..Len(k) : k[n] # t[1]
  BY <1>0, <1>t DEF Has
<1>4. /\ a \in Seq(C) /\ Len(a) = Len(k) + 1 /\ a[Len(a)] = "!" /\ ~Has(a, "=")
      /\ a \o <<"=">> = k \o t
  <2>1. <<"!">> \in Seq(C) /\ <<"=">> \in Seq(C) /\ <<"!">> \o <<"=">> = t
    <3>1. <<"!">> \in Seq(C) /\ <<"=">> \in Seq(C)
      BY <1>1
    <3> DEFINE w == <<"!">> \o <<"=">>
    <3>2. w \in Seq(C) /\ Len(w) = 2 /\ w[1] = "!" /\ w[2] = "="
      BY <3>1
    <3> HIDE DEF w
    <3>3. w = t
      BY <3>2
    <3> QED BY <3>1, <3>3 DEF w
  <2>2. a \in Seq(C) /\ Len(a) = Len(k) + 1 /\ a[Len(k) + 1] = "!"
    BY <1>1
  <2>3. a \o <<"=">> = k \o (<<"!">> \o <<"=">>)
    BY <2>1, ConcatAssociative
  <2>4. \A n \in DOMAIN a : (n \in DOMAIN k /\ a[n] = k[n]) \/ a[n] = "!"
    BY <1>1
  <2>5. ~Has(a, "=")
    BY <1>0, <2>4 DEF Has
  <2> QED BY <2>1, <2>2, <2>3, <2>5
<1> HIDE DEF t
<1>5. Occurs(t, e) /\ Before(e, t) = k /\ After(e, t) = v
  BY <1>2, <1>3, Cuts
<1>6. e \in Seq(C) /\ Len(e) > 0
  BY <1>2, Concat3, Last3
<1>7. e = a \o <<"=">> \o v
  BY <1>4
<1>8. ~(Occurs(<<"=", "/">>, e) /\ IsSuffix(<<"/">>, e))
  BY <1>0, <1>4, <1>7, NoRegex
<1> HIDE DEF e
<1>9. e # <<>>
  BY <1>6
<1>10. ParseTagFilter(e) = IF v = <<>> THEN TagFilter(k, "not-exists", v) ELSE Error
  BY <1>5, <1>8, <1>9, TagArms DEF t
<1>11. ParseTagFilter(e) = IF v = <<>> THEN TagFilter(k, "not-exists", <<>>) ELSE Error
  BY <1>10
<1> QED BY <1>11 DEF e, t

LEMMA TagMatches ==
  ASSUME NEW C, Signs \subseteq C, NEW k \in Seq(C), NEW v \in Seq(C), ~Has(k, "=")
  PROVE  ParseTagFilter(k \o <<"=", "/">> \o v \o <<"/">>) = TagFilter(k, "matches", v)
<1> DEFINE t == <<"=", "/">>
           u == v \o <<"/">>
           e == k \o t \o u
<1>1. "=" \in C /\ "/" \in C
  BY DEF Signs
<1>2. t \in Seq(C) /\ t # <<>> /\ t[1] = "=" /\ <<"/">> \in Seq(C)
  BY <1>1
<1>3. \A n \in 1..Len(k) : k[n] # t[1]
  BY <1>2 DEF Has
<1> HIDE DEF t
<1>4. /\ u \in Seq(C) /\ u # <<>> /\ u[Len(u)] = "/"
      /\ TrimSuffix(u, <<"/">>) = v
  <2>1. u \in Seq(C) /\ Len(u) = Len(v) + 1 /\ u[Len(v) + 1] = "/"
    BY <1>1
  <2>2. TrimSuffix(u, <<"/">>) = v
    BY <1>1, TrimmedLast
  <2> QED BY <2>1, <2>2
<1>5. k \o t \o v \o <<"/">> = e
  <2>1. k \o t \in Seq(C)
    BY <1>2
  <2> QED BY <1>2, <2>1, ConcatAssociative
<1> HIDE DEF u
<1>6. Occurs(t, e) /\ Before(e, t) = k /\ After(e, t) = u
  BY <1>2, <1>3, <1>4, Cuts
<1>7. e \in Seq(C) /\ Len(e) > 0 /\ e[Len(e)] = "/"
  <2>1. e \in Seq(C)
    BY <1>2, <1>4, Concat3
  <2>2. t \in Seq(C) /\ t # <<>> /\ u \in Seq(C) /\ u # <<>>
    BY <1>2, <1>4
  <2>3. Len(e) > 0 /\ e[Len(e)] = u[Len(u)]
    <3>1. t \in Seq(C)
      BY <2>2
    <3>2. u \in Seq(C)
      BY <2>2
    <3>3. t # <<>>
      BY <2>2
    <3>4. /\ Len(e) > 0
          /\ u # <<>> => Len(u) > 0 /\ e[Len(e)] = u[Len(u)]
          /\ u = <<>> => e[Len(e)] = t[Len(t)]
      BY SMTT(40), <3>1, <3>2, <3>3, Last3
    <3> QED BY <2>2, <3>4
  <2> QED BY <1>4, <2>1, <2>3
<1> HIDE DEF e
<1>8. IsSuffix(<<"/">>, e) /\ e # <<>>
  BY <1>1, <1>7, ChunkLast
<1>9. ParseTagFilter(e) = [TagFilter(k, "matches", u) EXCEPT !.value = TrimSuffix(@, <<"/">>)]
  BY <1>6, <1>8, TagArms DEF t
<1>10. ParseTagFilter(e) = TagFilter(k, "matches", v)
  BY <1>4, <1>9 DEF TagFilter
<1> QED BY <1>5, <1>10 DEF t

-----------------------------------------------------------------------------
(* --filter-regex                                                          *)

LEMMA RegexNoField ==
  ASSUME NEW C, Signs \subseteq C, NEW e \in Seq(C), ~Has(e, ":")
  PROVE  ParseRegexFilter(e) = Error
<1>1. ":" \in C
  BY DEF Signs
<1>2. ~Occurs(<<":">>, e)
  BY <1>1, OccursHas
<1> QED BY <1>2 DEF ParseRegexFilter

\* The field ends at the first ":".
LEMMA AtColon ==
  ASSUME NEW C, Signs \subseteq C, NEW f \in Seq(C), NEW p \in Seq(C), ~Has(f, ":")
  PROVE  /\ f \o <<":">> \o p \in Seq(C)
         /\ Occurs(<<":">>, f \o <<":">> \o p)
         /\ Before(f \o <<":">> \o p, <<":">>) = f
         /\ After(f \o <<":">> \o p, <<":">>) = p
<1> DEFINE t == <<":">>
<1>1. ":" \in C
  BY DEF Signs
<1>2. t \in Seq(C)
  BY <1>1
<1>3. t # <<>> /\ t[1] = ":"
  OBVIOUS
<1>4. \A n \in 1..Len(f) : f[n] # t[1]
  BY <1>3 DEF Has
<1> HIDE DEF t
<1>5. f \o t \o p \in Seq(C)
  BY <1>2, Concat3
<1>6. Occurs(t, f \o t \o p) /\ Before(f \o t \o p, t) = f /\ After(f \o t \o p, t) = p
  BY <1>2, <1>3, <1>4, Cuts
<1> QED BY <1>5, <1>6 DEF t

LEMMA RegexBare ==
  ASSUME NEW C, Signs \subseteq C, NEW f \in Seq(C), NEW p \in Seq(C), ~Has(f, ":"), ~Slashed(p)
  PROVE  ParseRegexFilter(f \o <<":">> \o p) = NewRegexFilter(f, p)
BY AtColon DEF ParseRegexFilter, Slashed

LEMMA RegexSlashed ==
  ASSUME NEW C, Signs \subseteq C, NEW f \in Seq(C), NEW v \in Seq(C), ~Has(f, ":")
  PROVE  ParseRegexFilter(f \o <<":">> \o <<"/">> \o v \o <<"/">>) = NewRegexFilter(f, v)
<1> DEFINE t == <<":">>
           u == <<"/">>
           w == v \o u
           p == u \o w
<1>1. ":" \in C /\ "/" \in C
  BY DEF Signs
<1>2. t \in Seq(C) /\ u \in Seq(C)
  BY <1>1
<1>3. w \in Seq(C)
  BY <1>2
<1>4. IsSuffix(u, w) /\ TrimSuffix(w, u) = v
  BY <1>1, TrimmedLast
<1>5. IsPrefix(u, p) /\ TrimPrefix(p, u) = w
  BY <1>1, <1>3, TrimmedFirst
<1>6. IsSuffix(u, p)
  <2>1. u \o v \in Seq(C) /\ (u \o v) \o u = p
    BY <1>2, ConcatAssociative
  <2>2. IsSuffix(u, (u \o v) \o u)
    BY <1>1, <2>1, TrimmedLast
  <2> QED BY <2>1, <2>2
<1>7. f \o t \o u \o v \o u = f \o t \o p
  <2>1. f \o t \in Seq(C) /\ (f \o t) \o u \in Seq(C)
    BY <1>2
  <2>2. (((f \o t) \o u) \o v) \o u = ((f \o t) \o u) \o w
    BY <1>2, <2>1, ConcatAssociative
  <2>3. w \in Seq(C) /\ u \in Seq(C)
    BY <1>2, <1>3
  <2> DEFINE g == f \o t
  <2> HIDE DEF w, g
  <2>4. g \in Seq(C)
    BY <2>1 DEF g
  <2>5. (g \o u) \o w = g \o (u \o w)
    BY <2>3, <2>4, ConcatAssociative
  <2> QED BY <2>2, <2>5 DEF p, g
<1>8. p \in Seq(C)
  BY <1>2, <1>3
<1> HIDE DEF p, w
<1> DEFINE e == f \o t \o p
<1>9. Occurs(t, e) /\ Before(e, t) = f /\ After(e, t) = p
  BY <1>8, AtColon
<1> HIDE DEF e
<1>10. ParseRegexFilter(e) = NewRegexFilter(f, v)
  BY <1>4, <1>5, <1>6, <1>9 DEF ParseRegexFilter
<1> QED BY <1>7, <1>10 DEF e

-----------------------------------------------------------------------------
(* The two ranges.                                                         *)

LEMMA RangeBetween ==
  ASSUME NEW C, Signs \subseteq C, NEW a \in Seq(C), NEW b \in Seq(C),
         Plain(a, RangeSigns), Plain(b, RangeSigns)
  PROVE  /\ a \o <<"..">> \o b \in Seq(C)
         /\ InTwo(a \o <<"..">> \o b, <<"..">>)
         /\ Before(a \o <<"..">> \o b, <<"..">>) = a
         /\ After(a \o <<"..">> \o b, <<"..">>) = b
<1> DEFINE t == <<"..">>
           s == a \o t \o b
<1>1. ".." \in C
  BY DEF Signs
<1>2. t \in Seq(C)
  BY <1>1
<1>3. t # <<>> /\ t[1] = ".."
  OBVIOUS
<1>4. \A n \in 1..Len(a) : a[n] # t[1]
  BY <1>3 DEF Plain, RangeSigns
<1>5. ~Occurs(t, b)
  <2>1. ~Has(b, "..")
    BY PlainHas DEF RangeSigns
  <2> QED BY <1>1, <2>1, OccursHas
<1> HIDE DEF t
<1>6. s \in Seq(C)
  BY <1>2, Concat3
<1>7. Occurs(t, s) /\ Before(s, t) = a /\ After(s, t) = b
  BY <1>2, <1>3, <1>4, Cuts
<1> HIDE DEF s
<1>8. InTwo(s, t)
  BY <1>5, <1>7 DEF InTwo
<1> QED BY <1>6, <1>7, <1>8 DEF s, t

\* No sign at its beginning, and none to cut it at.
LEMMA RangePlain ==
  ASSUME NEW C, Signs \subseteq C, NEW a \in Seq(C), Plain(a, RangeSigns)
  PROVE  /\ ~Occurs(<<"..">>, a)
         /\ ~IsPrefix(<<">">>, a) /\ ~IsPrefix(<<"<">>, a)
<1>1. ".." \in C /\ ">" \in C /\ "<" \in C
  BY DEF Signs
<1>2. ~Has(a, "..") /\ ~Has(a, ">") /\ ~Has(a, "<")
  BY PlainHas DEF RangeSigns
<1>3. Len(a) > 0 => 1 \in DOMAIN a
  OBVIOUS
<1>4. ~(Len(a) > 0 /\ a[1] = ">") /\ ~(Len(a) > 0 /\ a[1] = "<")
  BY <1>2, <1>3 DEF Has
<1>5. IsPrefix(<<">">>, a) <=> Len(a) > 0 /\ a[1] = ">"
  BY <1>1, ChunkFirst
<1>6. IsPrefix(<<"<">>, a) <=> Len(a) > 0 /\ a[1] = "<"
  BY <1>1, ChunkFirst
<1>7. ~Occurs(<<"..">>, a)
  BY <1>1, <1>2, OccursHas
<1> QED BY <1>4, <1>5, <1>6, <1>7

LEMMA RangeOpen ==
  ASSUME NEW C, Signs \subseteq C, NEW a \in Seq(C), Plain(a, RangeSigns),
         NEW c \in {">", "<"}
  PROVE  /\ <<c>> \o a \in Seq(C)
         /\ ~Occurs(<<"..">>, <<c>> \o a)
         /\ \A d \in {">", "<"} : IsPrefix(<<d>>, <<c>> \o a) <=> d = c
         /\ Tail(<<c>> \o a) = a
<1> DEFINE s == <<c>> \o a
<1>1. ".." \in C /\ ">" \in C /\ "<" \in C /\ c \in C /\ c # ".."
  BY DEF Signs
<1>2. s \in Seq(C) /\ Len(s) = Len(a) + 1 /\ s[1] = c
  BY <1>1
<1>3. \A n \in DOMAIN s : s[n] = c \/ \E m \in DOMAIN a : s[n] = a[m]
  <2>1. \A n \in DOMAIN s : n = 1 \/ (n - 1 \in DOMAIN a /\ s[n] = a[n - 1])
    BY <1>1
  <2> QED BY <1>2, <2>1
<1>4. ~Has(s, "..")
  BY <1>1, <1>3 DEF Has, Plain, RangeSigns
<1>5. Tail(s) = a
  BY <1>1
<1> HIDE DEF s
<1>6. ~Occurs(<<"..">>, s)
  BY <1>1, <1>2, <1>4, OccursHas
<1>7. ASSUME NEW d \in {">", "<"} PROVE IsPrefix(<<d>>, s) <=> d = c
  <2>1. d \in C /\ s \in Seq(C)
    BY <1>1, <1>2
  <2>2. IsPrefix(<<d>>, s) <=> Len(s) > 0 /\ s[1] = d
    BY <2>1, ChunkFirst
  <2> QED BY <1>2, <2>2
<1>8. /\ s \in Seq(C) /\ ~Occurs(<<"..">>, s)
      /\ \A d \in {">", "<"} : IsPrefix(<<d>>, s) <=> d = c
      /\ Tail(s) = a
  BY <1>2, <1>5, <1>6, <1>7
<1> QED BY <1>8 DEF s

\* What the form of a range stands for.
FromOf(x, v, w)  == IF x.form = "until" THEN NoLimit ELSE Limit(v)
UntilOf(x, v, w) == CASE x.form = "between" -> Limit(w) [] x.form = "from" -> NoLimit
                      [] x.form = "until" -> Limit(v) [] x.form = "on" -> Limit(v + 2)

LEMMA DateNoField ==
  ASSUME NEW C, Signs \subseteq C, NEW e \in Seq(C), ~Has(e, ":")
  PROVE  ParseDateRangeFilter(e) = Error
<1>1. ":" \in C
  BY DEF Signs
<1>2. ~Occurs(<<":">>, e)
  BY <1>1, OccursHas
<1> QED BY <1>2 DEF ParseDateRangeFilter

LEMMA DateArms ==
  ASSUME NEW e, Occurs(<<":">>, e)
  PROVE  LET field == Before(e, <<":">>)
             range == After(e, <<":">>)
             a == Before(range, <<"..">>)
             b == After(range, <<"..">>)
             s == Tail(range)
         IN  /\ Occurs(<<"..">>, range) => ParseDateRangeFilter(e) =
                  IF InTwo(range, <<"..">>) /\ IsDate(a) /\ IsDate(b)
                  THEN DateRange(field, Limit(parseDate(a)), Limit(parseDate(b))) ELSE Error
             /\ ~Occurs(<<"..">>, range) => ParseDateRangeFilter(e) =
                  IF IsPrefix(<<">">>, range)
                  THEN IF IsDate(s) THEN DateRange(field, Limit(parseDate(s)), NoLimit) ELSE Error
                  ELSE IF IsPrefix(<<"<">>, range)
                  THEN IF IsDate(s) THEN DateRange(field, NoLimit, Limit(parseDate(s))) ELSE Error
                  ELSE IF IsDate(range)
                  THEN DateRange(field, Limit(parseDate(range)), Limit(parseDate(range) + 2))
                  ELSE Error
BY DEF ParseDateRangeFilter

LEMMA DateForms ==
  ASSUME NEW C, Signs \subseteq C, NEW x \in Expression(C), x.flag = "date", Shaped(x)
  PROVE  ParseDateRangeFilter(Written(x)) =
           IF Valid(x)
           THEN DateRange(x.name, FromOf(x, parseDate(x.value), parseDate(x.to)),
                          UntilOf(x, parseDate(x.value), parseDate(x.to)))
           ELSE Error
<1>1. x.name \in Seq(C) /\ x.value \in Seq(C) /\ x.to \in Seq(C)
  BY DEF Expression
<1>2. /\ Written(x) = DateText(x) /\ DateShaped(x)
      /\ Valid(x) <=> /\ x.form # "no field" /\ IsDate(x.value)
                      /\ x.form = "between" => IsDate(x.to)
  BY DEF Written, Shaped, Valid
<1>3. CASE x.form = "no field"
  <2>1. Plain(x.value, {":"}) /\ Written(x) = x.value
    BY <1>2, <1>3 DEF DateShaped, DateText, RangeShaped
  <2>2. ~Has(x.value, ":")
    BY <2>1, PlainHas
  <2> QED BY <1>1, <1>2, <1>3, <2>1, <2>2, DateNoField
<1>4. CASE x.form # "no field"
  <2> DEFINE r == RangeText(x)
  <2>1. /\ Plain(x.name, {":"}) /\ x.form \in {"between", "from", "until", "on"}
        /\ Plain(x.value, RangeSigns) /\ Plain(x.to, RangeSigns)
        /\ Written(x) = x.name \o <<":">> \o r
    BY <1>2, <1>4 DEF DateShaped, DateText, RangeShaped
  <2>2. ~Has(x.name, ":")
    BY <2>1, PlainHas
  <2> DEFINE At1(e) == /\ Occurs(<<":">>, e) /\ Before(e, <<":">>) = x.name
                       /\ After(e, <<":">>) = r
  <2>3. r \in Seq(C) => At1(Written(x))
    BY <1>1, <2>1, <2>2, AtColon
  <2>4. CASE x.form = "between"
    <3>1. r = x.value \o <<"..">> \o x.to
      BY <2>4 DEF RangeText
    <3>2. /\ r \in Seq(C) /\ InTwo(r, <<"..">>)
          /\ Before(r, <<"..">>) = x.value /\ After(r, <<"..">>) = x.to
      BY <1>1, <2>1, <3>1, RangeBetween
    <3> HIDE DEF r
    <3>3. Occurs(<<"..">>, r)
      BY <3>2 DEF InTwo
    <3>4. ParseDateRangeFilter(Written(x)) =
            IF IsDate(x.value) /\ IsDate(x.to)
            THEN DateRange(x.name, Limit(parseDate(x.value)), Limit(parseDate(x.to)))
            ELSE Error
      BY <2>3, <3>2, <3>3, DateArms
    <3>5. /\ FromOf(x, parseDate(x.value), parseDate(x.to)) = Limit(parseDate(x.value))
          /\ UntilOf(x, parseDate(x.value), parseDate(x.to)) = Limit(parseDate(x.to))
          /\ Valid(x) <=> IsDate(x.value) /\ IsDate(x.to)
      BY <1>2, <1>4, <2>4 DEF FromOf, UntilOf
    <3> QED BY <3>4, <3>5
  <2>5. ASSUME NEW c \in {">", "<"}, r = <<c>> \o x.value
        PROVE  ParseDateRangeFilter(Written(x)) =
                 IF ~IsDate(x.value) THEN Error
                 ELSE IF c = ">" THEN DateRange(x.name, Limit(parseDate(x.value)), NoLimit)
                 ELSE DateRange(x.name, NoLimit, Limit(parseDate(x.value)))
    <3>1. /\ r \in Seq(C) /\ ~Occurs(<<"..">>, r)
          /\ \A d \in {">", "<"} : IsPrefix(<<d>>, r) <=> d = c
          /\ Tail(r) = x.value
      <4> DEFINE s == <<c>> \o x.value
      <4>1. x.value \in Seq(C) /\ Plain(x.value, RangeSigns)
        BY <1>1, <2>1
      <4>2. /\ s \in Seq(C) /\ ~Occurs(<<"..">>, s)
            /\ \A d \in {">", "<"} : IsPrefix(<<d>>, s) <=> d = c
            /\ Tail(s) = x.value
        BY <4>1, RangeOpen
      <4> HIDE DEF r, s
      <4>3. r = s
        BY <2>5 DEF s
      <4> QED BY <4>2, <4>3
    <3> HIDE DEF r
    <3>2. (IsPrefix(<<">">>, r) <=> c = ">") /\ (IsPrefix(<<"<">>, r) <=> c = "<")
      BY <3>1
    <3> QED BY <2>3, <3>1, <3>2, DateArms
  <2>6. CASE x.form = "from"
    <3>1. r = <<">">> \o x.value
      BY <2>6 DEF RangeText
    <3>2. ParseDateRangeFilter(Written(x)) =
            IF ~IsDate(x.value) THEN Error
            ELSE DateRange(x.name, Limit(parseDate(x.value)), NoLimit)
      BY <2>5, <3>1
    <3>3. /\ FromOf(x, parseDate(x.value), parseDate(x.to)) = Limit(parseDate(x.value))
          /\ UntilOf(x, parseDate(x.value), parseDate(x.to)) = NoLimit
          /\ Valid(x) <=> IsDate(x.value)
      BY <1>2, <1>4, <2>6 DEF FromOf, UntilOf
    <3> QED BY <3>2, <3>3
  <2>7. CASE x.form = "until"
    <3>1. r = <<"<">> \o x.value
      BY <2>7 DEF RangeText
    <3>2. ParseDateRangeFilter(Written(x)) =
            IF ~IsDate(x.value) THEN Error
            ELSE DateRange(x.name, NoLimit, Limit(parseDate(x.value)))
      BY <2>5, <3>1
    <3>3. /\ FromOf(x, parseDate(x.value), parseDate(x.to)) = NoLimit
          /\ UntilOf(x, parseDate(x.value), parseDate(x.to)) = Limit(parseDate(x.value))
          /\ Valid(x) <=> IsDate(x.value)
      BY <1>2, <1>4, <2>7 DEF FromOf, UntilOf
    <3> QED BY <3>2, <3>3
  <2>8. CASE x.form = "on"
    <3>1. r = x.value
      BY <2>8 DEF RangeText
    <3>2. ~Occurs(<<"..">>, r) /\ ~IsPrefix(<<">">>, r) /\ ~IsPrefix(<<"<">>, r)
      BY <1>1, <2>1, <3>1, RangePlain
    <3>3. ParseDateRangeFilter(Written(x)) =
            IF ~IsDate(r) THEN Error
            ELSE DateRange(x.name, Limit(parseDate(r)), Limit(parseDate(r) + 2))
      <4>1. At1(Written(x))
        BY <1>1, <2>3, <3>1
      <4> HIDE DEF r
      <4> QED BY <3>2, <4>1, DateArms
    <3>4. /\ FromOf(x, parseDate(x.value), parseDate(x.to)) = Limit(parseDate(x.value))
          /\ UntilOf(x, parseDate(x.value), parseDate(x.to)) = Limit(parseDate(x.value) + 2)
          /\ Valid(x) <=> IsDate(x.value)
      BY <1>2, <1>4, <2>8 DEF FromOf, UntilOf
    <3> QED BY <3>1, <3>3, <3>4
  <2> QED BY <2>1, <2>4, <2>6, <2>7, <2>8
<1> QED BY <1>3, <1>4

LEMMA CostForms ==
  ASSUME NEW C, Signs \subseteq C, NEW x \in Expression(C), x.flag = "cost", Shaped(x)
  PROVE  ParseCostFilter(Written(x)) =
           IF Valid(x)
           THEN CostRange(FromOf(x, parseFloat(x.value), parseFloat(x.to)),
                          UntilOf(x, parseFloat(x.value), parseFloat(x.to)))
           ELSE Error
<1> DEFINE r == Written(x)
<1>1. x.name \in Seq(C) /\ x.value \in Seq(C) /\ x.to \in Seq(C)
  BY DEF Expression
<1>2. /\ r = RangeText(x) /\ RangeShaped(x)
      /\ Valid(x) <=> /\ x.form # "on" /\ IsNumber(x.value)
                      /\ x.form = "between" => IsNumber(x.to)
  BY DEF Written, Shaped, Valid
<1>3. /\ x.form \in {"between", "from", "until", "on"}
      /\ Plain(x.value, RangeSigns) /\ Plain(x.to, RangeSigns)
  BY <1>2 DEF RangeShaped
<1>4. CASE x.form = "between"
  <2>1. r = x.value \o <<"..">> \o x.to
    BY <1>2, <1>4 DEF RangeText
  <2>2. /\ InTwo(r, <<"..">>)
        /\ Before(r, <<"..">>) = x.value /\ After(r, <<"..">>) = x.to
    BY <1>1, <1>3, <2>1, RangeBetween
  <2> HIDE DEF r
  <2>3. Occurs(<<"..">>, r)
    BY <2>2 DEF InTwo
  <2>4. ParseCostFilter(r) =
          IF IsNumber(x.value) /\ IsNumber(x.to)
          THEN CostRange(Limit(parseFloat(x.value)), Limit(parseFloat(x.to))) ELSE Error
    BY <2>2, <2>3 DEF ParseCostFilter
  <2>5. /\ FromOf(x, parseFloat(x.value), parseFloat(x.to)) = Limit(parseFloat(x.value))
        /\ UntilOf(x, parseFloat(x.value), parseFloat(x.to)) = Limit(parseFloat(x.to))
        /\ Valid(x) <=> IsNumber(x.value) /\ IsNumber(x.to)
    BY <1>2, <1>4 DEF FromOf, UntilOf
  <2> QED BY <2>4, <2>5 DEF r
<1>5. ASSUME NEW c \in {">", "<"}, r = <<c>> \o x.value
      PROVE  ParseCostFilter(r) =
               IF ~IsNumber(x.value) THEN Error
               ELSE IF c = ">" THEN CostRange(Limit(parseFloat(x.value)), NoLimit)
               ELSE CostRange(NoLimit, Limit(parseFloat(x.value)))
  <2>1. /\ ~Occurs(<<"..">>, r)
        /\ \A d \in {">", "<"} : IsPrefix(<<d>>, r) <=> d = c
        /\ Tail(r) = x.value
    <3> DEFINE s == <<c>> \o x.value
    <3>1. x.value \in Seq(C) /\ Plain(x.value, RangeSigns)
      BY <1>1, <1>3
    <3>2. /\ ~Occurs(<<"..">>, s)
          /\ \A d \in {">", "<"} : IsPrefix(<<d>>, s) <=> d = c
          /\ Tail(s) = x.value
      BY <3>1, RangeOpen
    <3> HIDE DEF r, s
    <3>3. r = s
      BY <1>5 DEF s
    <3> QED BY <3>2, <3>3
  <2> HIDE DEF r
  <2>2. (IsPrefix(<<">">>, r) <=> c = ">") /\ (IsPrefix(<<"<">>, r) <=> c = "<")
    BY <2>1
  <2> QED BY <2>1, <2>2 DEF ParseCostFilter
<1>6. CASE x.form = "from"
  <2>1. r = <<">">> \o x.value
    BY <1>2, <1>6 DEF RangeText
  <2>2. ParseCostFilter(r) =
          IF ~IsNumber(x.value) THEN Error
          ELSE CostRange(Limit(parseFloat(x.value)), NoLimit)
    BY <1>5, <2>1
  <2>3. /\ FromOf(x, parseFloat(x.value), parseFloat(x.to)) = Limit(parseFloat(x.value))
        /\ UntilOf(x, parseFloat(x.value), parseFloat(x.to)) = NoLimit
        /\ Valid(x) <=> IsNumber(x.value)
    BY <1>2, <1>6 DEF FromOf, UntilOf
  <2> QED BY <2>2, <2>3
<1>7. CASE x.form = "until"
  <2>1. r = <<"<">> \o x.value
    BY <1>2, <1>7 DEF RangeText
  <2>2. ParseCostFilter(r) =
          IF ~IsNumber(x.value) THEN Error
          ELSE CostRange(NoLimit, Limit(parseFloat(x.value)))
    BY <1>5, <2>1
  <2>3. /\ FromOf(x, parseFloat(x.value), parseFloat(x.to)) = NoLimit
        /\ UntilOf(x, parseFloat(x.value), parseFloat(x.to)) = Limit(parseFloat(x.value))
        /\ Valid(x) <=> IsNumber(x.value)
    BY <1>2, <1>7 DEF FromOf, UntilOf
  <2> QED BY <2>2, <2>3
<1>8. CASE x.form = "on"
  <2>1. r = x.value
    BY <1>2, <1>8 DEF RangeText
  <2>2. ~Occurs(<<"..">>, r) /\ ~IsPrefix(<<">">>, r) /\ ~IsPrefix(<<"<">>, r)
    BY <1>1, <1>3, <2>1, RangePlain
  <2> HIDE DEF r
  <2>3. ParseCostFilter(r) = Error
    BY <2>2 DEF ParseCostFilter
  <2> QED BY <1>2, <1>8, <2>3 DEF r
<1> QED BY <1>3, <1>4, <1>6, <1>7, <1>8

-----------------------------------------------------------------------------
(* --filter-property                                                       *)

LEMMA Operators ==
  /\ DOMAIN PropertyOperators = 1..9
  /\ PropertyOperators[1] = <<">", "=">> /\ PropertyOperators[2] = <<"<", "=">>
  /\ PropertyOperators[3] = <<"!", "=">> /\ PropertyOperators[4] = <<"=">>
  /\ PropertyOperators[5] = <<">">> /\ PropertyOperators[6] = <<"<">>
  /\ PropertyOperators[7] = <<"~">> /\ PropertyOperators[8] = <<"^", "=">>
  /\ PropertyOperators[9] = <<"$", "=">>
BY DEF PropertyOperators

\* The operator is the first of the list that occurs.
LEMMA FirstOperator ==
  ASSUME NEW e, NEW n \in 1..9, Occurs(PropertyOperators[n], e),
         \A m \in 1..(n - 1) : ~Occurs(PropertyOperators[m], e)
  PROVE  ParsePropertyFilter(e) =
           [flag |-> "property", path |-> Before(e, PropertyOperators[n]),
            op |-> PropertyOperators[n], value |-> parseValue(After(e, PropertyOperators[n]))]
<1> DEFINE found == {m \in DOMAIN PropertyOperators : Occurs(PropertyOperators[m], e)}
<1>1. n \in found /\ found \subseteq 1..9 /\ \A m \in found : ~(m \in 1..(n - 1))
  BY Operators
<1>2. \A m \in found : n <= m
  BY <1>1
<1> HIDE DEF found
<1>3. Min(found) = n
  <2> DEFINE Least(m) == \A l \in found : m <= l
  <2>1. Least(n) /\ \A m \in found : Least(m) => m <= n
    BY <1>1, <1>2
  <2>2. \A m \in found : m <= n /\ n <= m => m = n
    BY <1>1
  <2>3. \A m \in found : Least(m) => m = n
    BY <1>2, <2>1, <2>2
  <2> HIDE DEF Least
  <2>4. (CHOOSE m \in found : Least(m)) = n
    BY <1>1, <2>1, <2>3
  <2> QED BY <2>4 DEF Min, Least
<1>4. found # {}
  BY <1>1
<1> QED BY <1>3, <1>4 DEF ParsePropertyFilter, found

LEMMA NoOperator ==
  ASSUME NEW e, \A n \in 1..9 : ~Occurs(PropertyOperators[n], e)
  PROVE  ParsePropertyFilter(e) = Error
BY Operators DEF ParsePropertyFilter

\* A pair does not occur without both of its chunks.
LEMMA NoPair ==
  ASSUME NEW C, NEW s \in Seq(C), NEW c \in C, NEW d \in C, ~Has(s, c) \/ ~Has(s, d)
  PROVE  ~Occurs(<<c, d>>, s)
<1>1. Occurs(<<c, d>>, s)
        <=> \E n \in DOMAIN s : n + 1 \in DOMAIN s /\ s[n] = c /\ s[n + 1] = d
  BY PairOccurs
<1> QED BY <1>1 DEF Has

\* Which operators occur, by the chunks a text has.
LEMMA OperatorChunks ==
  ASSUME NEW C, Signs \subseteq C, NEW s \in Seq(C)
  PROVE  /\ Occurs(PropertyOperators[1], s) => Has(s, ">") /\ Has(s, "=")
         /\ Occurs(PropertyOperators[2], s) => Has(s, "<") /\ Has(s, "=")
         /\ Occurs(PropertyOperators[3], s) => Has(s, "!") /\ Has(s, "=")
         /\ Occurs(PropertyOperators[4], s) <=> Has(s, "=")
         /\ Occurs(PropertyOperators[5], s) <=> Has(s, ">")
         /\ Occurs(PropertyOperators[6], s) <=> Has(s, "<")
         /\ Occurs(PropertyOperators[7], s) <=> Has(s, "~")
         /\ Occurs(PropertyOperators[8], s) => Has(s, "=")
         /\ Occurs(PropertyOperators[9], s) => Has(s, "=")
<1>1. /\ "=" \in C /\ "!" \in C /\ ">" \in C /\ "<" \in C /\ "~" \in C
      /\ "^" \in C /\ "$" \in C
  BY DEF Signs
<1>2. \A c \in C : Occurs(<<c>>, s) <=> Has(s, c)
  <2> TAKE c \in C
  <2> QED BY OccursHas
<1>3. \A c, d \in C : Occurs(<<c, d>>, s) => Has(s, c) /\ Has(s, d)
  <2> TAKE c, d \in C
  <2> QED BY NoPair
<1>4. /\ Occurs(<<"=">>, s) <=> Has(s, "=")
      /\ Occurs(<<">">>, s) <=> Has(s, ">")
      /\ Occurs(<<"<">>, s) <=> Has(s, "<")
      /\ Occurs(<<"~">>, s) <=> Has(s, "~")
  BY <1>1, <1>2
<1>5. /\ Occurs(<<">", "=">>, s) => Has(s, ">") /\ Has(s, "=")
      /\ Occurs(<<"<", "=">>, s) => Has(s, "<") /\ Has(s, "=")
      /\ Occurs(<<"!", "=">>, s) => Has(s, "!") /\ Has(s, "=")
      /\ Occurs(<<"^", "=">>, s) => Has(s, "=")
      /\ Occurs(<<"$", "=">>, s) => Has(s, "=")
  BY <1>1, <1>3
<1> QED BY <1>4, <1>5, Operators

\* The operators before one that is written occur only with its own chunks.
LEMMA PropertyCut ==
  ASSUME NEW C, Signs \subseteq C, NEW p \in Seq(C), NEW v \in Seq(C),
         Plain(p, PropertySigns), Plain(v, PropertySigns),
         NEW n \in 1..7
  PROVE  ParsePropertyFilter(p \o PropertyOperators[n] \o v) =
           [flag |-> "property", path |-> p, op |-> PropertyOperators[n],
            value |-> parseValue(v)]
<1> DEFINE op == PropertyOperators[n]
           e == p \o op \o v
<1>1. \A c \in PropertySigns : ~Has(p, c) /\ ~Has(v, c)
  BY PlainHas
<1>2. /\ "=" \in C /\ "!" \in C /\ ">" \in C /\ "<" \in C /\ "~" \in C
  BY DEF Signs
<1>3. op \in Seq(C) /\ op # <<>> /\ op[1] \in PropertySigns
  <2>1. n \in {1, 2, 3, 4, 5, 6, 7}
    OBVIOUS
  <2>2. \A c \in C : <<c>> \in Seq(C) /\ <<c>> # <<>> /\ <<c>>[1] = c
    OBVIOUS
  <2>3. \A c, d \in C : <<c, d>> \in Seq(C) /\ <<c, d>> # <<>> /\ <<c, d>>[1] = c
    OBVIOUS
  <2>4. CASE n \in {1, 2, 3}
    <3>1. PICK c \in {">", "<", "!"} : op = <<c, "=">>
      BY <2>4, Operators
    <3>2. c \in C /\ c \in PropertySigns
      BY <1>2 DEF PropertySigns
    <3> QED BY <1>2, <2>3, <3>1, <3>2
  <2>5. CASE n \in {4, 5, 6, 7}
    <3>1. PICK c \in {"=", ">", "<", "~"} : op = <<c>>
      BY <2>5, Operators
    <3>2. c \in C /\ c \in PropertySigns
      BY <1>2 DEF PropertySigns
    <3> QED BY <2>2, <3>1, <3>2
  <2> HIDE DEF op
  <2> QED BY <2>1, <2>4, <2>5
<1>4. /\ Has(op, "=") <=> n \in 1..4
      /\ Has(op, ">") <=> n \in {1, 5}
      /\ Has(op, "<") <=> n \in {2, 6}
      /\ Has(op, "!") <=> n = 3
      /\ Has(op, "~") <=> n = 7
  <2>1. n \in {1, 2, 3, 4, 5, 6, 7}
    OBVIOUS
  <2>2. \A c, d : Has(<<c>>, d) <=> d = c
    BY DEF Has
  <2>3. \A b, c, d : Has(<<b, c>>, d) <=> d = b \/ d = c
    <3> TAKE b, c, d
    <3>1. DOMAIN <<b, c>> = {1, 2} /\ <<b, c>>[1] = b /\ <<b, c>>[2] = c
      OBVIOUS
    <3> QED BY <3>1 DEF Has
  <2>4. CASE n = 1
    <3>1. \A d : Has(op, d) <=> d = ">" \/ d = "="
      BY <2>3, <2>4, Operators
    <3> HIDE DEF op
    <3> QED BY <2>4, <3>1
  <2>5. CASE n = 2
    <3>1. \A d : Has(op, d) <=> d = "<" \/ d = "="
      BY <2>3, <2>5, Operators
    <3> HIDE DEF op
    <3> QED BY <2>5, <3>1
  <2>6. CASE n = 3
    <3>1. \A d : Has(op, d) <=> d = "!" \/ d = "="
      BY <2>3, <2>6, Operators
    <3> HIDE DEF op
    <3> QED BY <2>6, <3>1
  <2>7. CASE n = 4
    <3>1. \A d : Has(op, d) <=> d = "="
      BY <2>2, <2>7, Operators
    <3> HIDE DEF op
    <3> QED BY <2>7, <3>1
  <2>8. CASE n = 5
    <3>1. \A d : Has(op, d) <=> d = ">"
      BY <2>2, <2>8, Operators
    <3> HIDE DEF op
    <3> QED BY <2>8, <3>1
  <2>9. CASE n = 6
    <3>1. \A d : Has(op, d) <=> d = "<"
      BY <2>2, <2>9, Operators
    <3> HIDE DEF op
    <3> QED BY <2>9, <3>1
  <2>10. CASE n = 7
    <3>1. \A d : Has(op, d) <=> d = "~"
      BY <2>2, <2>10, Operators
    <3> HIDE DEF op
    <3> QED BY <2>10, <3>1
  <2> HIDE DEF op
  <2> QED BY <2>1, <2>4, <2>5, <2>6, <2>7, <2>8, <2>9, <2>10
<1> HIDE DEF op
<1>5. \A c \in PropertySigns : Has(e, c) <=> Has(op, c)
  <2> TAKE c \in PropertySigns
  <2>1. op \in Seq(C)
    BY <1>3
  <2>2. Has(e, c) <=> Has(p, c) \/ Has(op, c) \/ Has(v, c)
    BY <2>1, Has3
  <2> QED BY <1>1, <2>2
<1>6. \A m \in 1..Len(p) : p[m] # op[1]
  BY <1>1, <1>3 DEF Has
<1>7. Occurs(op, e) /\ Before(e, op) = p /\ After(e, op) = v
  <2>1. op \in Seq(C)
    BY <1>3
  <2>2. op # <<>>
    BY <1>3
  <2> QED BY <1>6, <2>1, <2>2, Cuts
<1>8. e \in Seq(C)
  <2>1. op \in Seq(C)
    BY <1>3
  <2> QED BY <2>1, Concat3
<1> HIDE DEF e
<1>9. /\ Has(e, "=") <=> n \in 1..4
      /\ Has(e, ">") <=> n \in {1, 5}
      /\ Has(e, "<") <=> n \in {2, 6}
      /\ Has(e, "!") <=> n = 3
  BY <1>4, <1>5 DEF PropertySigns
<1>10. ASSUME NEW m \in 1..(n - 1) PROVE ~Occurs(PropertyOperators[m], e)
  <2>1. m \in {1, 2, 3, 4, 5, 6} /\ m < n
    OBVIOUS
  <2>2. CASE m = 1
    <3>1. ~(Has(e, ">") /\ Has(e, "="))
      BY <1>9, <2>1, <2>2
    <3> QED BY <1>8, <2>2, <3>1, OperatorChunks
  <2>3. CASE m = 2
    <3>1. ~(Has(e, "<") /\ Has(e, "="))
      BY <1>9, <2>1, <2>3
    <3> QED BY <1>8, <2>3, <3>1, OperatorChunks
  <2>4. CASE m = 3
    <3>1. ~Has(e, "!")
      BY <1>9, <2>1, <2>4
    <3> QED BY <1>8, <2>4, <3>1, OperatorChunks
  <2>5. CASE m = 4
    <3>1. ~Has(e, "=")
      BY <1>9, <2>1, <2>5
    <3> QED BY <1>8, <2>5, <3>1, OperatorChunks
  <2>6. CASE m = 5
    <3>1. ~Has(e, ">")
      BY <1>9, <2>1, <2>6
    <3> QED BY <1>8, <2>6, <3>1, OperatorChunks
  <2>7. CASE m = 6
    <3>1. ~Has(e, "<")
      BY <1>9, <2>1, <2>7
    <3> QED BY <1>8, <2>7, <3>1, OperatorChunks
  <2> QED BY <2>1, <2>2, <2>3, <2>4, <2>5, <2>6, <2>7
<1>11. ParsePropertyFilter(e) =
         [flag |-> "property", path |-> p, op |-> op, value |-> parseValue(v)]
  <2>1. n \in 1..9 /\ Occurs(PropertyOperators[n], e)
    BY <1>7 DEF op
  <2>2. ParsePropertyFilter(e) =
          [flag |-> "property", path |-> Before(e, PropertyOperators[n]),
           op |-> PropertyOperators[n], value |-> parseValue(After(e, PropertyOperators[n]))]
    BY <1>10, <2>1, FirstOperator
  <2> QED BY <1>7, <2>2 DEF op
<1> QED BY <1>11 DEF e, op

\* "=" is found before "^=" and "$=", whose first chunk is left to the path.
EndCut(p, c, v) ==
  ParsePropertyFilter(p \o <<c, "=">> \o v) =
    [flag |-> "property", path |-> p \o <<c>>, op |-> <<"=">>, value |-> parseValue(v)]

LEMMA EndCuts ==
  ASSUME NEW C, Signs \subseteq C, NEW p \in Seq(C), NEW v \in Seq(C),
         Plain(p, PropertySigns), Plain(v, PropertySigns), NEW c \in {"^", "$"}
  PROVE  EndCut(p, c, v)
<1> DEFINE q == p \o <<c>>
<1>1. "=" \in C /\ c \in C
  BY DEF Signs
<1>2. <<c>> \in Seq(C) /\ <<"=">> \in Seq(C) /\ <<c>> \o <<"=">> = <<c, "=">>
  <2>1. <<c>> \in Seq(C) /\ <<"=">> \in Seq(C)
    BY <1>1
  <2> DEFINE w == <<c>> \o <<"=">>
  <2>2. w \in Seq(C) /\ Len(w) = 2 /\ w[1] = c /\ w[2] = "="
    BY <2>1
  <2> HIDE DEF w
  <2>3. w = <<c, "=">>
    BY <2>2
  <2> QED BY <2>1, <2>3 DEF w
<1>3. q \in Seq(C)
  BY <1>2
<1>4. \A n \in DOMAIN q : (n \in DOMAIN p /\ q[n] = p[n]) \/ q[n] = c
  BY <1>1
<1>5. c \notin PropertySigns
  BY DEF PropertySigns
<1>6. Plain(q, PropertySigns)
  BY <1>4, <1>5 DEF Plain
<1>7. q \o <<"=">> = p \o <<c, "=">>
  BY <1>2, ConcatAssociative
<1> HIDE DEF q
<1>8. 4 \in 1..7 /\ PropertyOperators[4] = <<"=">>
  BY Operators
<1>9. ParsePropertyFilter(q \o PropertyOperators[4] \o v) =
        [flag |-> "property", path |-> q, op |-> PropertyOperators[4], value |-> parseValue(v)]
  BY <1>3, <1>6, <1>8, PropertyCut
<1>10. ParsePropertyFilter(p \o <<c, "=">> \o v) =
         [flag |-> "property", path |-> q, op |-> <<"=">>, value |-> parseValue(v)]
  BY <1>7, <1>8, <1>9
<1> QED BY <1>10 DEF EndCut, q

LEMMA PropertyForms ==
  ASSUME NEW C, Signs \subseteq C, NEW x \in Expression(C),
         x.flag = "property", Shaped(x)
  PROVE  ParsePropertyFilter(Written(x)) =
           IF ~Valid(x) THEN Error
           ELSE IF x.op \notin EndOps
           THEN [flag |-> "property", path |-> x.name, op |-> x.op,
                 value |-> parseValue(x.value)]
           ELSE [flag |-> "property", path |-> x.name \o <<x.op[1]>>, op |-> <<"=">>,
                 value |-> parseValue(x.value)]
<1>1. x.name \in Seq(C) /\ x.value \in Seq(C) /\ x.op \in Seq(C)
  BY DEF Expression
<1>2. /\ Written(x) = x.name \o x.op \o x.value
      /\ Plain(x.name, PropertySigns) /\ Plain(x.value, PropertySigns)
      /\ x.op \in PropertyOps \cup {<<>>}
      /\ Valid(x) <=> x.op # <<>>
  BY DEF Written, PropertyText, Shaped, PropertyShaped, Valid
<1>3. CASE x.op = <<>>
  <2> DEFINE e == x.name \o x.op \o x.value
  <2>1. e \in Seq(C)
    BY <1>1, Concat3
  <2>2. \A c \in PropertySigns : ~Has(e, c)
    <3> TAKE c \in PropertySigns
    <3>1. ~Has(x.name, c) /\ ~Has(x.value, c)
      BY <1>2, PlainHas
    <3>2. ~Has(x.op, c)
      BY <1>3 DEF Has
    <3> QED BY <1>1, <3>1, <3>2, Has3
  <2>3. ~Has(e, "=") /\ ~Has(e, ">") /\ ~Has(e, "<") /\ ~Has(e, "!") /\ ~Has(e, "~")
    BY <2>2 DEF PropertySigns
  <2> HIDE DEF e
  <2>4. ASSUME NEW n \in 1..9 PROVE ~Occurs(PropertyOperators[n], e)
    <3>1. n \in {1, 2, 3, 4, 5, 6, 7, 8, 9}
      OBVIOUS
    <3> QED BY <2>1, <2>3, <3>1, OperatorChunks
  <2>5. ParsePropertyFilter(e) = Error
    BY <2>4, NoOperator
  <2> QED BY <1>2, <1>3, <2>5 DEF e
<1>4. CASE x.op # <<>> /\ x.op \notin EndOps
  <2>1. \E n \in 1..7 : x.op = PropertyOperators[n]
    <3>1. /\ 1 \in 1..7 /\ 2 \in 1..7 /\ 3 \in 1..7 /\ 4 \in 1..7 /\ 5 \in 1..7
          /\ 6 \in 1..7 /\ 7 \in 1..7
      OBVIOUS
    <3> QED BY <1>2, <1>4, <3>1, Operators DEF PropertyOps, Orders, Equalities
  <2>2. PICK n \in 1..7 : x.op = PropertyOperators[n]
    BY <2>1
  <2>3. ParsePropertyFilter(x.name \o PropertyOperators[n] \o x.value) =
          [flag |-> "property", path |-> x.name, op |-> PropertyOperators[n],
           value |-> parseValue(x.value)]
    BY <1>1, <1>2, PropertyCut
  <2> QED BY <1>2, <1>4, <2>2, <2>3
<1>5. CASE x.op \in EndOps
  <2>1. PICK c \in {"^", "$"} : x.op = <<c, "=">>
    BY <1>5 DEF EndOps
  <2>2. x.op # <<>> /\ x.op[1] = c
    BY <2>1
  <2>3. EndCut(x.name, c, x.value)
    BY <1>1, <1>2, EndCuts
  <2> QED BY <1>2, <1>5, <2>1, <2>2, <2>3 DEF EndCut
<1> QED BY <1>3, <1>4, <1>5

-----------------------------------------------------------------------------
(* What the predicates that are parsed hold of.                            *)

LEMMA ParseOf ==
  ASSUME NEW e
  PROVE  /\ Parse("tag", e) = ParseTagFilter(e)
         /\ Parse("regex", e) = ParseRegexFilter(e)
         /\ Parse("date", e) = ParseDateRangeFilter(e)
         /\ Parse("state", e) = ParseStateFilter(e)
         /\ Parse("property", e) = ParsePropertyFilter(e)
         /\ Parse("cost", e) = ParseCostFilter(e)
         /\ Parse("type", e) = ParseTypeFilter(e)
         /\ Parse("provider", e) = ParseProviderFilter(e)
BY DEF Parse

LEMMA ApplyOf ==
  ASSUME NEW f, NEW res
  PROVE  /\ f.flag = "tag" => Apply(f, res) = ApplyTag(f, res)
         /\ f.flag = "regex" => Apply(f, res) = ApplyRegex(f, res)
         /\ f.flag = "date" => Apply(f, res) = ApplyDateRange(f, res)
         /\ f.flag = "state" => Apply(f, res) = ApplyState(f, res)
         /\ f.flag = "property" => Apply(f, res) = ApplyProperty(f, res)
         /\ f.flag = "cost" => Apply(f, res) = ApplyCost(f, res)
         /\ f.flag = "type" => Apply(f, res) = ApplyType(f, res)
         /\ f.flag = "provider" => Apply(f, res) = ApplyProvider(f, res)
BY DEF Apply

\* A resource as a provider gives it, with instants for dates.
HasInstants(res) == res.created \in Int /\ res.updated \in Int

Says(x) ==
  /\ Parse(x.flag, Written(x)) # Error <=> Valid(x)
  /\ Valid(x) => \A res, estimate : (HasInstants(res) /\ ~Misread(x, res, estimate)) =>
       (Apply(Parse(x.flag, Written(x)), res) <=> Means(x, res, estimate))

LEMMA TagForms ==
  ASSUME NEW C, Signs \subseteq C, NEW x \in Expression(C), x.flag = "tag", Shaped(x)
  PROVE  ParseTagFilter(Written(x)) =
           IF Valid(x)
           THEN TagFilter(x.name, x.form,
                  IF x.form \in {"contains", "equals", "matches"} THEN x.value ELSE <<>>)
           ELSE Error
<1>1. x.name \in Seq(C) /\ x.value \in Seq(C)
  BY DEF Expression
<1>2. /\ Written(x) = TagText(x) /\ TagShaped(x)
      /\ Valid(x) <=> x.form # "not-equals" /\ (x.form = "exists" => x.name # <<>>)
  BY DEF Written, Shaped, Valid
<1>3. Plain(x.name, {"=", "!", "~"})
  BY <1>2 DEF TagShaped
<1>4. ~Has(x.name, "=") /\ ~Has(x.name, "~")
  BY <1>3, PlainHas
<1>5. CASE x.form = "exists"
  <2>1. Written(x) = x.name
    BY <1>2, <1>5 DEF TagText
  <2>2. CASE x.name = <<>>
    <3>1. <<>> \in Seq(C) /\ ~Has(<<>>, "=")
      BY DEF Has
    <3>2. ~Occurs(<<"=", "/">>, <<>>) /\ ~Occurs(<<"!", "=">>, <<>>)
      BY <3>1, NoEquals
    <3>3. ParseTagFilter(<<>>) = Error
      BY <3>2 DEF ParseTagFilter
    <3> QED BY <1>2, <1>5, <2>1, <2>2, <3>3
  <2>3. CASE x.name # <<>>
    BY <1>1, <1>2, <1>4, <1>5, <2>1, <2>3, TagExists
  <2> QED BY <2>2, <2>3
<1>6. CASE x.form = "contains"
  <2>1. Written(x) = x.name \o <<"~">> \o x.value
    BY <1>2, <1>6 DEF TagText
  <2>2. ~Has(x.value, "=")
    <3>1. Plain(x.value, {"="})
      BY <1>2, <1>6 DEF TagShaped
    <3> QED BY <3>1, PlainHas
  <2>3. ParseTagFilter(x.name \o <<"~">> \o x.value) = TagFilter(x.name, "contains", x.value)
    BY <1>1, <1>4, <2>2, TagContains
  <2> QED BY <1>2, <1>6, <2>1, <2>3
<1>7. CASE x.form = "equals"
  <2>1. Written(x) = x.name \o <<"=">> \o x.value
    BY <1>2, <1>7 DEF TagText
  <2>2. Plain(x.value, {"=", "~"}) /\ ~Slashed(x.value)
    BY <1>2, <1>7 DEF TagShaped
  <2>3. ParseTagFilter(x.name \o <<"=">> \o x.value) = TagFilter(x.name, "equals", x.value)
    BY <1>1, <1>3, <2>2, TagEquals
  <2> QED BY <1>2, <1>7, <2>1, <2>3
<1>8. CASE x.form = "not-equals"
  <2>1. Written(x) = x.name \o <<"!", "=">> \o x.value
    BY <1>2, <1>8 DEF TagText
  <2>2. Plain(x.value, {"="}) /\ ~Slashed(x.value) /\ x.value # <<>>
    BY <1>2, <1>8 DEF TagShaped
  <2>3. ParseTagFilter(x.name \o <<"!", "=">> \o x.value) = Error
    BY <1>1, <1>3, <2>2, TagNot
  <2> QED BY <1>2, <1>8, <2>1, <2>3
<1>9. CASE x.form = "not-exists"
  <2>1. Written(x) = x.name \o <<"!", "=">> \o <<>>
    <3>1. Written(x) = x.name \o <<"!", "=">>
      BY <1>2, <1>9 DEF TagText
    <3>2. "!" \in C /\ "=" \in C
      BY DEF Signs
    <3>3. x.name \o <<"!", "=">> \in Seq(C)
      BY <1>1, <3>2
    <3> QED BY <3>1, <3>3, ConcatEmptySeq
  <2>2. <<>> \in Seq(C) /\ Plain(<<>>, {"="})
    BY DEF Plain
  <2>3. ~Slashed(<<>>)
    <3>1. "/" \in C
      BY DEF Signs
    <3>2. ~IsPrefix(<<"/">>, <<>>)
      <4>1. IsPrefix(<<"/">>, <<>>) <=> Len(<<>>) > 0 /\ <<>>[1] = "/"
        BY <2>2, <3>1, ChunkFirst
      <4> QED BY <4>1
    <3> QED BY <3>2 DEF Slashed
  <2>4. ParseTagFilter(x.name \o <<"!", "=">> \o <<>>) = TagFilter(x.name, "not-exists", <<>>)
    BY <1>1, <1>3, <2>2, <2>3, TagNot
  <2> QED BY <1>2, <1>9, <2>1, <2>4
<1>10. CASE x.form = "matches"
  <2>1. Written(x) = x.name \o <<"=", "/">> \o x.value \o <<"/">>
    BY <1>2, <1>10 DEF TagText
  <2>2. ParseTagFilter(x.name \o <<"=", "/">> \o x.value \o <<"/">>)
          = TagFilter(x.name, "matches", x.value)
    BY <1>1, <1>4, TagMatches
  <2> QED BY <1>2, <1>10, <2>1, <2>2
<1>11. x.form \in {"exists", "contains", "equals", "not-equals", "not-exists", "matches"}
  BY <1>2 DEF TagShaped
<1> QED BY <1>5, <1>6, <1>7, <1>8, <1>9, <1>10, <1>11

LEMMA TagSays ==
  ASSUME NEW C, Signs \subseteq C, NEW x \in Expression(C), x.flag = "tag", Shaped(x)
  PROVE  Says(x)
<1> DEFINE f == TagFilter(x.name, x.form,
                  IF x.form \in {"contains", "equals", "matches"} THEN x.value ELSE <<>>)
<1>1. Parse(x.flag, Written(x)) = IF Valid(x) THEN f ELSE Error
  BY TagForms, ParseOf
<1>2. /\ f.flag = "tag" /\ f.key = x.name /\ f.op = x.form
      /\ f.value = IF x.form \in {"contains", "equals", "matches"} THEN x.value ELSE <<>>
  BY DEF TagFilter
<1> HIDE DEF f
<1>3. f # Error
  BY <1>2 DEF Error
<1>4. ASSUME Valid(x), NEW res, NEW estimate PROVE Apply(f, res) <=> Means(x, res, estimate)
  <2>1. Apply(f, res) = ApplyTag(f, res)
    BY <1>2, ApplyOf
  <2>2. Means(x, res, estimate) <=> TagMeans(x, res)
    BY DEF Means
  <2>3. /\ TagShaped(x) /\ x.form # "not-equals"
    BY <1>4 DEF Valid, Shaped
  <2>4. x.form \in {"exists", "contains", "equals", "not-exists", "matches"}
    BY <2>3 DEF TagShaped
  <2>10. ApplyTag(f, res) <=> TagMeans(x, res)
    <3>1. CASE x.form = "exists"
      BY <1>2, <3>1 DEF ApplyTag, TagMeans
    <3>2. CASE x.form = "not-exists"
      BY <1>2, <3>2 DEF ApplyTag, TagMeans
    <3>3. CASE x.form = "contains"
      BY <1>2, <3>3 DEF ApplyTag, TagMeans
    <3>4. CASE x.form = "equals"
      BY <1>2, <3>4 DEF ApplyTag, TagMeans
    <3>5. CASE x.form = "matches"
      BY <1>2, <3>5 DEF ApplyTag, TagMeans
    <3> QED BY <2>4, <3>1, <3>2, <3>3, <3>4, <3>5
  <2> QED BY <2>1, <2>2, <2>10
<1> QED BY <1>1, <1>3, <1>4 DEF Says

\* The six fields go before a property of the same name.
LEMMA FieldOf ==
  ASSUME NEW C, NEW x, x.name \in Seq(C), NEW res
  PROVE  ApplyRegex([flag |-> "regex", field |-> x.name, pattern |-> x.value], res)
           <=> RegexMeans(x, res)
<1> DEFINE F == {"name", "id", "type", "provider", "region", "account"}
           fields == [name |-> res.name, id |-> res.id, type |-> <<res.type>>,
                      provider |-> <<res.provider>>, region |-> <<res.region>>,
                      account |-> <<res.account>>]
           f == [flag |-> "regex", field |-> x.name, pattern |-> x.value]
<1>1. ASSUME NEW c PROVE <<c>> = x.name <=> Len(x.name) = 1 /\ x.name[1] = c
  <2>1. PICK s \in Seq(C) : s = x.name
    OBVIOUS
  <2>2. ASSUME Len(s) = 1 PROVE s = <<s[1]>>
    BY <2>2
  <2>3. Len(<<c>>) = 1 /\ <<c>>[1] = c
    OBVIOUS
  <2> QED BY <2>1, <2>2, <2>3
<1>2. DOMAIN fields = F
  OBVIOUS
<1>3. CASE Single(x.name, F)
  <2>1. PICK c \in F : x.name = <<c>>
    BY <1>1, <1>3 DEF Single
  <2>2. Single(x.name, DOMAIN fields) /\ x.name[1] = c
    BY <1>2, <1>3, <2>1
  <2>3. f.field = <<c>> /\ f.pattern = x.value
    BY <2>1
  <2>4. RegexMeans(x, res) <=> MatchString(x.value, fields[c])
    BY <2>2 DEF RegexMeans
  <2> HIDE DEF f
  <2>5. ApplyRegex(f, res) <=> MatchString(x.value, fields[c])
    BY <2>1, <2>3 DEF ApplyRegex
  <2> QED BY <2>4, <2>5 DEF f
<1>4. CASE ~Single(x.name, F)
  <2>1. \A c \in F : x.name # <<c>>
    BY <1>1, <1>4 DEF Single
  <2> QED BY <1>2, <1>4, <2>1 DEF ApplyRegex, RegexMeans
<1> QED BY <1>3, <1>4

LEMMA RegexSays ==
  ASSUME NEW C, Signs \subseteq C, NEW x \in Expression(C), x.flag = "regex", Shaped(x)
  PROVE  Says(x)
<1>1. x.name \in Seq(C) /\ x.value \in Seq(C)
  BY DEF Expression
<1>2. /\ Written(x) = RegexText(x) /\ RegexShaped(x)
      /\ Valid(x) <=> x.form # "no field" /\ Compiles(x.value)
  BY DEF Written, Shaped, Valid
<1>3. ParseRegexFilter(Written(x)) =
        IF x.form = "no field" THEN Error ELSE NewRegexFilter(x.name, x.value)
  <2>1. CASE x.form = "no field"
    <3>1. Written(x) = x.value /\ Plain(x.value, {":"})
      BY <1>2, <2>1 DEF RegexText, RegexShaped
    <3>2. ~Has(x.value, ":")
      BY <3>1, PlainHas
    <3>3. ParseRegexFilter(x.value) = Error
      BY <1>1, <3>2, RegexNoField
    <3> QED BY <2>1, <3>1, <3>3
  <2>2. CASE x.form = "bare"
    <3>1. /\ Written(x) = x.name \o <<":">> \o x.value
          /\ Plain(x.name, {":"}) /\ ~Slashed(x.value)
      BY <1>2, <2>2 DEF RegexText, RegexShaped
    <3>2. ~Has(x.name, ":")
      BY <3>1, PlainHas
    <3>3. ParseRegexFilter(x.name \o <<":">> \o x.value) = NewRegexFilter(x.name, x.value)
      BY <1>1, <3>1, <3>2, RegexBare
    <3> QED BY <2>2, <3>1, <3>3
  <2>3. CASE x.form = "slashed"
    <3>1. /\ Written(x) = x.name \o <<":">> \o <<"/">> \o x.value \o <<"/">>
          /\ Plain(x.name, {":"})
      BY <1>2, <2>3 DEF RegexText, RegexShaped
    <3>2. ~Has(x.name, ":")
      BY <3>1, PlainHas
    <3>3. ParseRegexFilter(x.name \o <<":">> \o <<"/">> \o x.value \o <<"/">>)
            = NewRegexFilter(x.name, x.value)
      BY <1>1, <3>2, RegexSlashed
    <3> QED BY <2>3, <3>1, <3>3
  <2> QED BY <1>2, <2>1, <2>2, <2>3 DEF RegexShaped
<1> DEFINE f == [flag |-> "regex", field |-> x.name, pattern |-> x.value]
<1>4. Parse(x.flag, Written(x)) = IF Valid(x) THEN f ELSE Error
  BY <1>2, <1>3, ParseOf DEF NewRegexFilter
<1>5. f # Error
  BY DEF Error
<1>6. ASSUME NEW res, NEW estimate PROVE Apply(f, res) <=> Means(x, res, estimate)
  <2>1. Apply(f, res) = ApplyRegex(f, res)
    BY ApplyOf
  <2>2. Means(x, res, estimate) <=> RegexMeans(x, res)
    BY DEF Means
  <2>3. x.name \in Seq(C)
    BY DEF Expression
  <2> QED BY <2>1, <2>2, <2>3, FieldOf
<1> QED BY <1>4, <1>5, <1>6 DEF Says

LEMMA DateExact ==
  ASSUME NEW C, Signs \subseteq C, NEW x \in Expression(C), x.flag = "date", Shaped(x)
  PROVE  /\ Parse(x.flag, Written(x)) # Error <=> Valid(x)
         /\ Valid(x) => \A res, estimate : HasInstants(res) =>
              ((Apply(Parse(x.flag, Written(x)), res) <=> Means(x, res, estimate))
                 <=> ~Misread(x, res, estimate))
<1> DEFINE v == parseDate(x.value)
           w == parseDate(x.to)
           f == DateRange(x.name, FromOf(x, v, w), UntilOf(x, v, w))
<1>1. Parse(x.flag, Written(x)) = IF Valid(x) THEN f ELSE Error
  BY DateForms, ParseOf
<1>i. Valid(x) => v \in Int /\ (x.form = "between" => w \in Int)
  BY FiltersAssumption DEF Valid, IsDate, parseDate, Single
<1> HIDE DEF v, w
<1>2. /\ f.flag = "date" /\ f.field = x.name
      /\ f.from = FromOf(x, v, w) /\ f.to = UntilOf(x, v, w)
  BY DEF DateRange
<1> HIDE DEF f
<1>3. f # Error
  BY <1>2 DEF Error
<1>4. ASSUME Valid(x), NEW res, NEW estimate, HasInstants(res)
      PROVE  (Apply(f, res) <=> Means(x, res, estimate)) <=> ~Misread(x, res, estimate)
  <2>1. Apply(f, res) = ApplyDateRange(f, res)
    BY <1>2, ApplyOf
  <2>2. /\ Means(x, res, estimate) <=> DateMeans(x, res)
        /\ Misread(x, res, estimate) <=> DateMisread(x, res)
    BY DEF Means, Misread
  <2>3. x.form \in {"between", "from", "until", "on"}
    BY <1>4 DEF Valid, Shaped, DateShaped, RangeShaped
  <2> DEFINE date == IF x.name = <<"created">> THEN res.created
                     ELSE IF x.name = <<"updated">> THEN res.updated ELSE -1
             day == Single(x.to, Days)
  <2>4. ApplyDateRange(f, res) <=> /\ date >= 0
                                   /\ f.from.set => date >= f.from.at
                                   /\ f.to.set => date <= f.to.at
    BY <1>2 DEF ApplyDateRange
  <2>5. DateMeans(x, res) <=>
          /\ date >= 0
          /\ \/ /\ x.form = "between" /\ date >= v
                /\ IF day THEN date < w + 2 ELSE date <= w
             \/ x.form = "from" /\ date > v
             \/ x.form = "until" /\ date < v
             \/ x.form = "on" /\ date >= v /\ date < v + 2
    BY DEF DateMeans, v, w
  <2>6. DateMisread(x, res) <=>
          /\ date >= 0
          /\ \/ x.form = "between" /\ day /\ date >= v /\ date > w /\ date < w + 2
             \/ x.form \in {"from", "until"} /\ date = v
             \/ x.form = "on" /\ date = v + 2
    BY DEF DateMisread, v, w
  <2>7. date \in Int
    BY <1>4 DEF HasInstants
  <2> HIDE DEF date, day
  <2>8. (ApplyDateRange(f, res) <=> DateMeans(x, res)) <=> ~DateMisread(x, res)
    <3>1. CASE x.form = "between"
      <4>1. f.from = Limit(v) /\ f.to = Limit(w) /\ v \in Int /\ w \in Int
        BY <1>i, <1>2, <1>4, <3>1 DEF FromOf, UntilOf
      <4>2. ApplyDateRange(f, res) <=> date >= 0 /\ date >= v /\ date <= w
        BY <2>4, <4>1 DEF Limit
      <4>3. /\ DateMeans(x, res) <=>
                  date >= 0 /\ date >= v /\ (IF day THEN date < w + 2 ELSE date <= w)
            /\ DateMisread(x, res) <=>
                  date >= 0 /\ day /\ date >= v /\ date > w /\ date < w + 2
        BY <2>5, <2>6, <3>1
      <4> QED BY <2>7, <4>1, <4>2, <4>3
    <3>2. CASE x.form = "from"
      <4>1. f.from = Limit(v) /\ f.to = NoLimit /\ v \in Int
        BY <1>i, <1>2, <1>4, <3>2 DEF FromOf, UntilOf
      <4>2. ApplyDateRange(f, res) <=> date >= 0 /\ date >= v
        BY <2>4, <4>1 DEF Limit, NoLimit
      <4>3. /\ DateMeans(x, res) <=> date >= 0 /\ date > v
            /\ DateMisread(x, res) <=> date >= 0 /\ date = v
        BY <2>5, <2>6, <3>2
      <4> QED BY <2>7, <4>1, <4>2, <4>3
    <3>3. CASE x.form = "until"
      <4>1. f.from = NoLimit /\ f.to = Limit(v) /\ v \in Int
        BY <1>i, <1>2, <1>4, <3>3 DEF FromOf, UntilOf
      <4>2. ApplyDateRange(f, res) <=> date >= 0 /\ date <= v
        BY <2>4, <4>1 DEF Limit, NoLimit
      <4>3. /\ DateMeans(x, res) <=> date >= 0 /\ date < v
            /\ DateMisread(x, res) <=> date >= 0 /\ date = v
        BY <2>5, <2>6, <3>3
      <4> QED BY <2>7, <4>1, <4>2, <4>3
    <3>4. CASE x.form = "on"
      <4>1. f.from = Limit(v) /\ f.to = Limit(v + 2) /\ v \in Int
        BY <1>i, <1>2, <1>4, <3>4 DEF FromOf, UntilOf
      <4>2. ApplyDateRange(f, res) <=> date >= 0 /\ date >= v /\ date <= v + 2
        BY <2>4, <4>1 DEF Limit
      <4>3. /\ DateMeans(x, res) <=> date >= 0 /\ date >= v /\ date < v + 2
            /\ DateMisread(x, res) <=> date >= 0 /\ date = v + 2
        BY <2>5, <2>6, <3>4
      <4> QED BY <2>7, <4>1, <4>2, <4>3
    <3> QED BY <2>3, <3>1, <3>2, <3>3, <3>4
  <2> QED BY <2>1, <2>2, <2>8
<1> QED BY <1>1, <1>3, <1>4

LEMMA DateSays ==
  ASSUME NEW C, Signs \subseteq C, NEW x \in Expression(C), x.flag = "date", Shaped(x)
  PROVE  Says(x)
BY DateExact DEF Says

LEMMA CostSays ==
  ASSUME NEW C, Signs \subseteq C, NEW x \in Expression(C), x.flag = "cost", Shaped(x)
  PROVE  Says(x)
<1> DEFINE v == parseFloat(x.value)
           w == parseFloat(x.to)
           f == CostRange(FromOf(x, v, w), UntilOf(x, v, w))
<1>1. Parse(x.flag, Written(x)) = IF Valid(x) THEN f ELSE Error
  BY CostForms, ParseOf
<1>i. Valid(x) => v \in Int
  BY FiltersAssumption DEF Valid, IsNumber, parseFloat, Single
<1> HIDE DEF v, w
<1>2. f.flag = "cost" /\ f.min = FromOf(x, v, w) /\ f.max = UntilOf(x, v, w)
  BY DEF CostRange
<1> HIDE DEF f
<1>3. f # Error
  BY <1>2 DEF Error
<1>4. ASSUME Valid(x), NEW res, NEW estimate, ~Misread(x, res, estimate)
      PROVE  Apply(f, res) <=> Means(x, res, estimate)
  <2>1. Apply(f, res) = ApplyCost(f, res)
    BY <1>2, ApplyOf
  <2>2. (Means(x, res, estimate) <=> CostMeans(x, res, estimate))
        /\ ~CostMisread(x, res, estimate)
    BY <1>4 DEF Means, Misread
  <2>3. x.form \in {"between", "from", "until"}
    BY <1>4 DEF Valid, Shaped, RangeShaped
  <2> DEFINE P == DOMAIN res.props
             Of(k) == toFloat64(res.props[k])
             c == CostOf(res, estimate)
  <2>4. ApplyCost(f, res) <=>
          \E k \in {"cost", "monthly_cost"} :
            /\ k \in P
            /\ k = "monthly_cost" => "cost" \notin P
            /\ Of(k).set
            /\ f.min.set => Of(k).at >= f.min.at
            /\ f.max.set => Of(k).at <= f.max.at
    BY DEF ApplyCost
  <2>5. c = IF "cost" \in P THEN Of("cost")
            ELSE IF "monthly_cost" \in P THEN Of("monthly_cost") ELSE NoLimit
    BY <2>2 DEF CostMisread, CostOf
  <2>6. CostMeans(x, res, estimate) <=>
          /\ c.set
          /\ \/ x.form = "between" /\ c.at >= v /\ c.at <= w
             \/ x.form = "from" /\ c.at > v
             \/ x.form = "until" /\ c.at < v
    BY DEF CostMeans, v, w
  <2>7. x.form \in {"from", "until"} => c # Limit(v)
    BY <2>2 DEF CostMisread, v
  <2>8. c.set => c = Limit(c.at) /\ c.at \in Int
    <3>1. \A k : Of(k).set => Of(k) = Limit(Of(k).at) /\ Of(k).at \in Int
      BY FiltersAssumption DEF toFloat64, parseFloat, IsNumber, Single, Limit, NoLimit
    <3> HIDE DEF Of, P, c
    <3> QED BY <2>5, <3>1 DEF NoLimit
  <2> HIDE DEF Of, P, c
  <2>9. ApplyCost(f, res) <=>
          /\ c.set
          /\ f.min.set => c.at >= f.min.at
          /\ f.max.set => c.at <= f.max.at
    <3>1. CASE "cost" \in P
      BY <2>4, <2>5, <3>1
    <3>2. CASE "cost" \notin P /\ "monthly_cost" \in P
      BY <2>4, <2>5, <3>2
    <3>3. CASE "cost" \notin P /\ "monthly_cost" \notin P
      <4>1. ~c.set
        BY <2>5, <3>3 DEF NoLimit
      <4> QED BY <2>4, <3>3, <4>1
    <3> QED BY <3>1, <3>2, <3>3
  <2>10. ApplyCost(f, res) <=> CostMeans(x, res, estimate)
    <3>1. CASE x.form = "between"
      <4>1. f.min = Limit(v) /\ f.max = Limit(w)
        BY <1>2, <3>1 DEF FromOf, UntilOf
      <4> QED BY <2>6, <2>9, <3>1, <4>1 DEF Limit
    <3>2. CASE x.form = "from"
      <4>1. f.min = Limit(v) /\ f.max = NoLimit
        BY <1>2, <3>2 DEF FromOf, UntilOf
      <4>2. c.set => c.at # v /\ c.at \in Int /\ v \in Int
        BY <1>i, <1>4, <2>7, <2>8, <3>2
      <4>3. ApplyCost(f, res) <=> c.set /\ c.at >= v
        BY <2>9, <4>1 DEF Limit, NoLimit
      <4> QED BY <2>6, <3>2, <4>2, <4>3
    <3>3. CASE x.form = "until"
      <4>1. f.min = NoLimit /\ f.max = Limit(v)
        BY <1>2, <3>3 DEF FromOf, UntilOf
      <4>2. c.set => c.at # v /\ c.at \in Int /\ v \in Int
        BY <1>i, <1>4, <2>7, <2>8, <3>3
      <4>3. ApplyCost(f, res) <=> c.set /\ c.at <= v
        BY <2>9, <4>1 DEF Limit, NoLimit
      <4> QED BY <2>6, <3>3, <4>2, <4>3
    <3> QED BY <2>3, <3>1, <3>2, <3>3
  <2> QED BY <2>1, <2>2, <2>10
<1> QED BY <1>1, <1>3, <1>4 DEF Says

LEMMA PropertySays ==
  ASSUME NEW C, Signs \subseteq C, NEW x \in Expression(C), x.flag = "property", Shaped(x)
  PROVE  Says(x)
<1> DEFINE f == [flag |-> "property", path |-> x.name, op |-> x.op,
                 value |-> parseValue(x.value)]
           g == [flag |-> "property", path |-> x.name \o <<x.op[1]>>, op |-> <<"=">>,
                 value |-> parseValue(x.value)]
<1>1. Parse(x.flag, Written(x)) = IF ~Valid(x) THEN Error ELSE IF x.op \notin EndOps THEN f ELSE g
  BY PropertyForms, ParseOf
<1>2. /\ f.flag = "property" /\ f.path = x.name /\ f.op = x.op
      /\ f.value = parseValue(x.value) /\ g.flag = "property"
  OBVIOUS
<1> HIDE DEF f, g
<1>3. f # Error /\ g # Error
  BY <1>2 DEF Error
<1>4. ASSUME Valid(x), NEW res, NEW estimate, ~Misread(x, res, estimate)
      PROVE  x.op \notin EndOps /\ (Apply(f, res) <=> Means(x, res, estimate))
  <2>1. Apply(f, res) = ApplyProperty(f, res)
    BY <1>2, ApplyOf
  <2>2. (Means(x, res, estimate) <=> PropertyMeans(x, res)) /\ ~PropertyMisread(x, res)
    BY <1>4 DEF Means, Misread
  <2>3. x.op \in PropertyOps /\ x.op \notin EndOps
    BY <1>4, <2>2 DEF Valid, Shaped, PropertyShaped, PropertyMisread
  <2> DEFINE v == getPropertyValue(x.name, res)
             u == parseValue(x.value)
             a == toFloat64(v)
             Same == SameNumber(v, x.value)
             Holds(op) ==
               \/ op = <<"=">> /\ v.text = u.text
               \/ op = <<"!", "=">> /\ v.text # u.text
               \/ op = <<"~">> /\ Occurs(ToLower(u.text), ToLower(v.text))
               \/ op = <<"^", "=">> /\ IsPrefix(ToLower(u.text), ToLower(v.text))
               \/ op = <<"$", "=">> /\ IsSuffix(ToLower(u.text), ToLower(v.text))
               \/ compareNumeric(op, a, u.number)
  <2>4. ApplyProperty(f, res) <=> v.type # "nil" /\ Holds(x.op)
    BY <1>2 DEF ApplyProperty
  <2> DEFINE Wanted ==
               CASE x.op = <<"=">>      -> v.text = x.value \/ Same
                 [] x.op = <<"!", "=">> -> ~(v.text = x.value \/ Same)
                 [] x.op = <<"~">>      -> Occurs(ToLower(x.value), ToLower(v.text))
                 [] x.op = <<"^", "=">> -> IsPrefix(ToLower(x.value), ToLower(v.text))
                 [] x.op = <<"$", "=">> -> IsSuffix(ToLower(x.value), ToLower(v.text))
                 [] x.op \in Orders     -> Ordered(v, x.op, x.value)
  <2>5. PropertyMeans(x, res) <=> v.type # "nil" /\ Wanted
    BY DEF PropertyMeans
  <2>6. /\ x.op \in Equalities \cup {<<"~">>} => u.text = x.value
        /\ x.op \in Equalities /\ v.type # "nil" /\ v.text # x.value => ~Same
        /\ x.op \in Orders => v.type \in Float64Types \cup {"nil"} \/ ~Amount(v).set
    BY <2>2 DEF PropertyMisread
  <2>7. u.number = IF IsNumber(x.value) THEN Limit(parseFloat(x.value)) ELSE NoLimit
    BY DEF parseValue, IsNumber, parseFloat
  <2>8. a = IF v.type \in Float64Types THEN Amount(v) ELSE NoLimit
    BY DEF toFloat64, Amount
  <2>9. v.type # "nil" =>
          (Ordered(v, x.op, x.value) <=> x.op \in Orders /\ Ordered(v, x.op, x.value))
    BY DEF Ordered, Orders
  <2>10. ASSUME v.type # "nil", x.op \in Orders
         PROVE  compareNumeric(x.op, a, u.number) <=> Ordered(v, x.op, x.value)
    <3> HIDE DEF v, u
    <3>1. CASE ~Amount(v).set
      <4>1. ~a.set
        BY <2>8, <3>1 DEF NoLimit
      <4> QED BY <3>1, <4>1 DEF compareNumeric, Ordered
    <3>2. CASE ~IsNumber(x.value)
      <4>1. ~u.number.set
        BY <2>7, <3>2 DEF NoLimit
      <4> QED BY <3>2, <4>1 DEF compareNumeric, Ordered
    <3>3. CASE Amount(v).set /\ IsNumber(x.value)
      <4>1. a = Amount(v)
        BY <2>6, <2>8, <2>10, <3>3
      <4>2. u.number.set /\ u.number.at = parseFloat(x.value)
        BY <2>7, <3>3 DEF Limit
      <4> HIDE DEF a
      <4> QED BY <3>3, <4>1, <4>2 DEF compareNumeric, Ordered
    <3> QED BY <3>1, <3>2, <3>3
  <2>11. /\ x.op \in Orders => x.op \notin Equalities /\ x.op # <<"~">>
         /\ x.op \in Orders \/ x.op \in Equalities \/ x.op = <<"~">>
         /\ x.op \notin Orders => ~compareNumeric(x.op, a, u.number)
    <3> HIDE DEF a, u
    <3> QED BY <2>3 DEF PropertyOps, Orders, Equalities, EndOps, compareNumeric
  <2> HIDE DEF v, u, a, Same
  <2>12. v.type # "nil" => (Holds(x.op) <=> Wanted)
    <3> SUFFICES ASSUME v.type # "nil" PROVE Holds(x.op) <=> Wanted
      OBVIOUS
    <3>0. \A q, r, t : <<q>> # <<r, t>> /\ (<<q>> = <<r>> => q = r)
      OBVIOUS
    <3>m. \A q, r, t, z : <<q, r>> = <<t, z>> => q = t
      OBVIOUS
    <3>1. CASE x.op = <<"=">>
      <4>1. x.op \in Equalities /\ x.op \notin Orders
        BY <2>11, <3>1 DEF Equalities
      <4>2. u.text = x.value /\ (v.text # x.value => ~Same) /\ ~compareNumeric(x.op, a, u.number)
        BY <2>6, <2>11, <4>1
      <4>3. x.op \notin {<<"!", "=">>, <<"~">>, <<"^", "=">>, <<"$", "=">>}
        BY <3>0, <3>1
      <4>4. Wanted <=> v.text = x.value \/ Same
        BY <3>1, <4>1, <4>3
      <4> HIDE DEF Wanted
      <4> QED BY <3>1, <4>2, <4>3, <4>4
    <3>2. CASE x.op = <<"!", "=">>
      <4>1. x.op \in Equalities /\ x.op \notin Orders
        BY <2>11, <3>2 DEF Equalities
      <4>2. u.text = x.value /\ (v.text # x.value => ~Same) /\ ~compareNumeric(x.op, a, u.number)
        BY <2>6, <2>11, <4>1
      <4>3. x.op \notin {<<"=">>, <<"~">>, <<"^", "=">>, <<"$", "=">>}
        BY <3>0, <3>m, <3>2
      <4>4. Wanted <=> ~(v.text = x.value \/ Same)
        BY <3>2, <4>1, <4>3
      <4> HIDE DEF Wanted
      <4> QED BY <3>2, <4>2, <4>3, <4>4
    <3>3. CASE x.op = <<"~">>
      <4>1. x.op \notin Orders
        BY <2>11, <3>3
      <4>2. u.text = x.value /\ ~compareNumeric(x.op, a, u.number)
        BY <2>6, <2>11, <3>3, <4>1
      <4>3. x.op \notin {<<"=">>, <<"!", "=">>, <<"^", "=">>, <<"$", "=">>}
        BY <3>0, <3>3
      <4>4. Wanted <=> Occurs(ToLower(x.value), ToLower(v.text))
        BY <3>3, <4>1, <4>3
      <4> HIDE DEF Wanted
      <4> QED BY <3>3, <4>2, <4>3, <4>4
    <3>4. CASE x.op \in Orders
      <4>1. x.op \notin {<<"=">>, <<"!", "=">>, <<"~">>, <<"^", "=">>, <<"$", "=">>}
        BY <2>3, <2>11, <3>4 DEF Equalities, EndOps
      <4> QED BY <2>10, <3>4, <4>1
    <3> QED BY <2>11, <3>1, <3>2, <3>3, <3>4 DEF Equalities
  <2> QED BY <2>1, <2>2, <2>3, <2>4, <2>5, <2>12
<1> QED BY <1>1, <1>3, <1>4 DEF Says

LEMMA Evens ==
  ASSUME NEW a \in Nat, NEW b \in Nat
  PROVE  /\ a % 2 = 0 /\ b % 2 = 0 /\ a < b => a + 2 <= b
         /\ a % 2 = 0 => (a + 1) % 2 = 1 /\ (a + 2) % 2 = 0
         /\ a % 2 = 1 => a >= 1 /\ (a - 1) % 2 = 0 /\ (a + 1) % 2 = 0
OBVIOUS

LEMMA OneChunk ==
  ASSUME NEW C, NEW s \in Seq(C), NEW m \in DOMAIN s
  PROVE  SubSeq(s, m, m) = <<s[m]>>
<1> DEFINE u == SubSeq(s, m, m)
<1>1. m \in Int /\ \A n \in m..m : s[n] \in C
  OBVIOUS
<1>2. /\ u \in Seq(C) /\ Len(u) = IF m <= m THEN m - m + 1 ELSE 0
      /\ \A n \in 1..(m - m + 1) : u[n] = s[m + n - 1]
  BY SMTT(40), <1>1, SubSeqProperties
<1> HIDE DEF u
<1>3. m <= m /\ m - m + 1 = 1 /\ m + 1 - 1 = m /\ 1 \in 1..1
  BY <1>1
<1>a. Len(u) = 1 /\ \A n \in 1..1 : u[n] = s[m + n - 1]
  BY <1>2, <1>3
<1>b. u[1] = s[m + 1 - 1]
  BY <1>3, <1>a
<1>4. u \in Seq(C) /\ Len(u) = 1 /\ u[1] = s[m]
  BY <1>2, <1>3, <1>a, <1>b
<1>5. u = <<s[m]>>
  BY <1>4
<1> QED BY <1>5 DEF u

\* A list of chunks between separators has these for its segments.
LEMMA SegmentsOf ==
  ASSUME NEW C, NEW s \in Seq(C), NEW sep, Alternates(s, sep), Plain(s, {Space})
  PROVE  /\ {TrimSpace(p) : p \in Segments(s, sep)} = {<<s[n]>> : n \in {m \in DOMAIN s : s[m] # sep}}
         /\ 1 \in {m \in DOMAIN s : s[m] # sep}
<1> DEFINE cuts == {0, Len(s) + 1} \cup {n \in DOMAIN s : s[n] = sep}
           Adjacent(d) == d[1] < d[2] /\ \A n \in cuts : n <= d[1] \/ n >= d[2]
           odd == {m \in DOMAIN s : s[m] # sep}
<1>1. /\ Len(s) \in Nat /\ Len(s) % 2 = 1 /\ DOMAIN s = 1..Len(s)
      /\ \A n \in DOMAIN s : s[n] = sep <=> n % 2 = 0
  BY DEF Alternates
<1>2. cuts = {n \in 0..(Len(s) + 1) : n % 2 = 0}
  BY <1>1
<1>3. odd = {n \in 1..Len(s) : n % 2 = 1}
  BY <1>1
<1>4. ASSUME NEW d \in cuts \X cuts, Adjacent(d) PROVE d[2] = d[1] + 2 /\ d[1] + 1 \in odd
  <2>1. /\ d[1] \in 0..(Len(s) + 1) /\ d[1] % 2 = 0 /\ d[2] \in 0..(Len(s) + 1) /\ d[2] % 2 = 0
        /\ d[1] < d[2]
    BY <1>2, <1>4
  <2> DEFINE a == d[1]
             b == d[2]
  <2>2. a \in Nat /\ b \in Nat /\ a < b /\ a % 2 = 0 /\ b % 2 = 0 /\ b <= Len(s) + 1
    BY <2>1
  <2> HIDE DEF a, b
  <2>3. a + 2 <= b /\ (a + 1) % 2 = 1 /\ (a + 2) % 2 = 0
    BY <2>2, Evens
  <2>4. a + 2 \in 0..(Len(s) + 1) /\ a + 1 \in 1..Len(s)
    BY SMTT(40), <1>1, <2>2, <2>3
  <2>5. a + 2 \in cuts /\ a + 1 \in odd
    BY <1>2, <1>3, <2>3, <2>4
  <2>6. a + 2 <= a \/ a + 2 >= b
    BY <1>4, <2>5 DEF a, b
  <2>7. b = a + 2
    BY <2>2, <2>3, <2>6
  <2> QED BY <2>5, <2>7 DEF a, b
<1>5. ASSUME NEW m \in odd
      PROVE  <<m - 1, m + 1>> \in cuts \X cuts /\ Adjacent(<<m - 1, m + 1>>)
  <2>1. m \in 1..Len(s) /\ m % 2 = 1
    BY <1>3
  <2>0. m \in Nat /\ Len(s) \in Nat
    BY <1>1, <2>1
  <2>a. (m - 1) % 2 = 0 /\ (m + 1) % 2 = 0
    BY <2>0, <2>1, Evens
  <2>b. m - 1 \in 0..(Len(s) + 1) /\ m + 1 \in 0..(Len(s) + 1)
    BY <2>0, <2>1
  <2>2. m - 1 \in cuts /\ m + 1 \in cuts
    BY <1>2, <2>a, <2>b
  <2>3. \A n \in cuts : n <= m - 1 \/ n >= m + 1
    BY <1>2, <2>1
  <2> QED BY <2>1, <2>2, <2>3
<1>6. ASSUME NEW m \in odd PROVE TrimSpace(SubSeq(s, m, m)) = <<s[m]>>
  <2>1. m \in 1..Len(s) /\ s[m] # Space /\ s[m] \in C
    BY <1>1 DEF Plain
  <2>2. SubSeq(s, m, m) = <<s[m]>>
    BY <1>1, <2>1, OneChunk
  <2>3. ASSUME NEW c, c # Space PROVE TrimSpace(<<c>>) = <<c>>
    <3>1. {n \in DOMAIN <<c>> : <<c>>[n] # Space} = {1}
      BY <2>3
    <3>2. Min({1}) = 1 /\ Max({1}) = 1
      BY DEF Min, Max
    <3>3. SubSeq(<<c>>, 1, 1) = <<c>>
      <4>1. <<c>> \in Seq({c}) /\ 1 \in DOMAIN <<c>> /\ <<c>>[1] = c
        OBVIOUS
      <4> QED BY <4>1, OneChunk
    <3> QED BY <3>1, <3>2, <3>3 DEF TrimSpace
  <2> QED BY <2>1, <2>2, <2>3
<1>7. Segments(s, sep) = {SubSeq(s, c[1] + 1, c[2] - 1) : c \in {d \in cuts \X cuts : Adjacent(d)}}
  BY DEF Segments
<1> HIDE DEF cuts, Adjacent, odd
<1>8. ASSUME NEW p \in Segments(s, sep) PROVE \E m \in odd : TrimSpace(p) = <<s[m]>>
  <2>1. PICK c \in cuts \X cuts : Adjacent(c) /\ p = SubSeq(s, c[1] + 1, c[2] - 1)
    BY <1>7
  <2>2. c[2] = c[1] + 2 /\ c[1] + 1 \in odd /\ c[1] \in Int
    BY <1>2, <1>4, <2>1
  <2>3. c[2] - 1 = c[1] + 1
    BY <2>2
  <2> QED BY <1>6, <2>1, <2>2, <2>3
<1>9. ASSUME NEW m \in odd PROVE SubSeq(s, m, m) \in Segments(s, sep)
  <2>1. m \in Int
    BY <1>3
  <2>2. m - 1 + 1 = m /\ m + 1 - 1 = m
    BY <2>1
  <2> DEFINE d == <<m - 1, m + 1>>
  <2>3. d \in cuts \X cuts /\ Adjacent(d) /\ d[1] = m - 1 /\ d[2] = m + 1
    BY <1>5
  <2> HIDE DEF d
  <2>4. d[1] + 1 = m /\ d[2] - 1 = m
    <3>1. d[1] = m - 1 /\ d[2] = m + 1
      BY <2>3
    <3> QED BY <2>1, <3>1
  <2> QED BY <1>7, <2>3, <2>4
<1>10. {TrimSpace(p) : p \in Segments(s, sep)} \subseteq {<<s[n]>> : n \in odd}
  BY <1>8
<1>11. {<<s[n]>> : n \in odd} \subseteq {TrimSpace(p) : p \in Segments(s, sep)}
  BY <1>6, <1>9
<1>12. 1 \in odd
  <2>1. 1 \in 1..Len(s) /\ 1 % 2 = 1
    BY <1>1
  <2> QED BY <1>3, <2>1
<1> QED BY <1>10, <1>11, <1>12 DEF odd

LEMMA ListSays ==
  ASSUME NEW C, NEW x \in Expression(C), x.flag \in {"state", "type", "provider"}, Shaped(x)
  PROVE  Says(x)
<1>1. x.value \in Seq(C) /\ Written(x) = x.value
  BY DEF Expression, Written
<1>2. CASE x.flag = "state"
  <2>1. Valid(x) <=> x.value # <<>>
    BY <1>2 DEF Valid
  <2> DEFINE states == {TrimSpace(p) : p \in Segments(x.value, ",")}
             f == [flag |-> "state", states |-> states]
  <2>2. Parse(x.flag, Written(x)) = IF Valid(x) THEN f ELSE Error
    BY <1>1, <1>2, <2>1, ParseOf DEF ParseStateFilter
  <2>3. f # Error /\ f.flag = "state" /\ f.states = states
    BY DEF Error
  <2>4. ASSUME Valid(x), NEW res, NEW estimate PROVE Apply(f, res) <=> Means(x, res, estimate)
    <3>1. Apply(f, res) = ApplyState(f, res)
      BY <2>3, ApplyOf
    <3>2. Means(x, res, estimate) <=> StateMeans(x, res)
      BY <1>2 DEF Means
    <3>3. Alternates(x.value, ",") /\ Plain(x.value, {Space})
      BY Zenon, <1>2, <2>1, <2>4 DEF Shaped
    <3> DEFINE odd == {m \in DOMAIN x.value : x.value[m] # ","}
               Is(state) == \E k \in stateKeys \cap DOMAIN res.props :
                              ToLower(state) = ToLower(res.props[k].text)
    <3>4. states = {<<x.value[n]>> : n \in odd}
      BY Zenon, <1>1, <3>3, SegmentsOf
    <3>5. 1 \in odd
      BY Zenon, <1>1, <3>3, SegmentsOf
    <3>6. StateMeans(x, res) <=> \E n \in odd : Is(<<x.value[n]>>)
      BY DEF StateMeans
    <3> HIDE DEF f, states, odd
    <3>7. ApplyState(f, res) <=> states = {} \/ \E state \in states : Is(state)
      BY <2>3 DEF ApplyState
    <3> HIDE DEF Is
    <3>8. ApplyState(f, res) <=> StateMeans(x, res)
      BY <3>4, <3>5, <3>6, <3>7
    <3> QED BY <3>1, <3>2, <3>8
  <2> QED BY <2>2, <2>3, <2>4 DEF Says
<1>3. ASSUME x.flag \in {"type", "provider"} PROVE Valid(x) /\ ToSet(x.value) # {}
  <2>1. x.value # <<>>
    BY <1>3 DEF Shaped
  <2>2. 1 \in DOMAIN x.value
    BY <1>1, <2>1
  <2>3. ToSet(x.value) # {}
    BY <2>2 DEF ToSet
  <2>4. Valid(x)
    BY <1>3 DEF Valid
  <2> QED BY <2>3, <2>4
<1>4. CASE x.flag = "type"
  <2> DEFINE f == [flag |-> "type", types |-> ToSet(x.value)]
  <2>1. Parse(x.flag, Written(x)) = f
    BY <1>1, <1>4, ParseOf DEF ParseTypeFilter
  <2>2. f # Error /\ f.flag = "type" /\ f.types = ToSet(x.value)
    BY DEF Error
  <2> HIDE DEF f
  <2>3. ASSUME NEW res, NEW estimate PROVE Apply(f, res) <=> Means(x, res, estimate)
    <3>1. Apply(f, res) = (f.types = {} \/ res.type \in f.types)
      BY <2>2, ApplyOf DEF ApplyType
    <3>2. Means(x, res, estimate) <=> res.type \in ToSet(x.value)
      BY <1>4 DEF Means
    <3> QED BY <1>3, <1>4, <2>2, <3>1, <3>2
  <2> QED BY <1>3, <1>4, <2>1, <2>2, <2>3 DEF Says
<1>5. CASE x.flag = "provider"
  <2> DEFINE f == [flag |-> "provider", providers |-> ToSet(x.value)]
  <2>1. Parse(x.flag, Written(x)) = f
    BY <1>1, <1>5, ParseOf DEF ParseProviderFilter
  <2>2. f # Error /\ f.flag = "provider" /\ f.providers = ToSet(x.value)
    BY DEF Error
  <2> HIDE DEF f
  <2>3. ASSUME NEW res, NEW estimate PROVE Apply(f, res) <=> Means(x, res, estimate)
    <3>1. Apply(f, res) = (f.providers = {} \/ res.provider \in f.providers)
      BY <2>2, ApplyOf DEF ApplyProvider
    <3>2. Means(x, res, estimate) <=> res.provider \in ToSet(x.value)
      BY <1>5 DEF Means
    <3> QED BY <1>3, <1>5, <2>2, <3>1, <3>2
  <2> QED BY <1>3, <1>5, <2>1, <2>2, <2>3 DEF Says
<1> QED BY <1>2, <1>4, <1>5

\* With more signs to choose from it is the same expression.
LEMMA MoreChunks ==
  ASSUME NEW C, NEW x \in Expression(C)
  PROVE  Signs \subseteq C \cup Signs /\ x \in Expression(C \cup Signs)
<1> DEFINE D == C \cup Signs
<1>1. \A s \in Seq(C) : s \in Seq(D)
  OBVIOUS
<1>2. /\ x.flag \in {"tag", "regex", "date", "state", "property", "cost", "type", "provider"}
      /\ x.form \in STRING /\ x.name \in Seq(C) /\ x.op \in Seq(C)
      /\ x.value \in Seq(C) /\ x.to \in Seq(C)
      /\ x = [flag |-> x.flag, form |-> x.form, name |-> x.name, op |-> x.op,
              value |-> x.value, to |-> x.to]
  BY DEF Expression
<1>3. x.name \in Seq(D) /\ x.op \in Seq(D) /\ x.value \in Seq(D) /\ x.to \in Seq(D)
  BY <1>1, <1>2
<1> HIDE DEF D
<1>4. x \in Expression(D)
  BY <1>2, <1>3 DEF Expression
<1> QED BY <1>4 DEF D

\* Every documented expression parses exactly if it is valid, and the predicate
\* it is parsed to holds of exactly the resources the documents say it selects,
\* except of those that Misread names: of any of the eight flags, with any keys
\* and values, for every resource and estimate.
THEOREM Documented ==
  ASSUME NEW C, NEW x \in Expression(C), Shaped(x)
  PROVE  /\ Parse(x.flag, Written(x)) # Error <=> Valid(x)
         /\ Valid(x) => \A res, estimate : (HasInstants(res) /\ ~Misread(x, res, estimate)) =>
              (Apply(Parse(x.flag, Written(x)), res) <=> Means(x, res, estimate))
<1>1. x.flag \in {"tag", "regex", "date", "state", "property", "cost", "type", "provider"}
  BY DEF Expression
<1>2. Says(x)
  BY <1>1, MoreChunks, TagSays, RegexSays, DateSays, CostSays, PropertySays, ListSays
<1> QED BY <1>2 DEF Says

\* The date filters are misread there and nowhere else: the last day of a range
\* is cut to its first instant, and a bound that is to be passed is included.
THEOREM DatesMisread ==
  ASSUME NEW C, NEW x \in Expression(C), Shaped(x), x.flag = "date", Valid(x),
         NEW res, NEW estimate, HasInstants(res)
  PROVE  Misread(x, res, estimate) <=>
           ~(Apply(Parse(x.flag, Written(x)), res) <=> Means(x, res, estimate))
BY MoreChunks, DateExact

\* parser.go lists "^=" and "$=", but "=" is looked for before them: whatever
\* is written, no property filter asks how a value starts or ends.
THEOREM NeverStartsOrEndsWith ==
  ASSUME NEW C, NEW e \in Seq(C), ParsePropertyFilter(e) # Error
  PROVE  ParsePropertyFilter(e).op \notin {<<"^", "=">>, <<"$", "=">>}
<1> DEFINE D == C \cup Signs
           found == {n \in DOMAIN PropertyOperators : Occurs(PropertyOperators[n], e)}
<1>1. Signs \subseteq D /\ e \in Seq(D)
  OBVIOUS
<1> HIDE DEF D
<1>2. found \subseteq 1..9 /\ found # {}
  BY Operators DEF ParsePropertyFilter
<1>3. 8 \in found \/ 9 \in found => 4 \in found
  <2>1. 4 \in 1..9 /\ 8 \in 1..9 /\ 9 \in 1..9
    OBVIOUS
  <2>2. Occurs(PropertyOperators[8], e) \/ Occurs(PropertyOperators[9], e)
          => Occurs(PropertyOperators[4], e)
    BY <1>1, OperatorChunks
  <2> QED BY <2>1, <2>2, Operators
<1>4. PICK n \in found : \A m \in found : n <= m
  <2>1. found \in SUBSET Nat /\ found # {}
    BY <1>2
  <2> HIDE DEF found
  <2>2. \E n \in found : \A m \in found : n <= m
    BY <2>1, LeastNatural
  <2> QED BY <2>2
<1>5. ParsePropertyFilter(e).op = PropertyOperators[n]
  <2>1. n \in 1..9 /\ Occurs(PropertyOperators[n], e)
    BY <1>2, <1>4
  <2>2. \A m \in 1..(n - 1) : ~Occurs(PropertyOperators[m], e)
    <3> SUFFICES ASSUME NEW m \in 1..(n - 1), Occurs(PropertyOperators[m], e) PROVE FALSE
      OBVIOUS
    <3>1. m \in 1..9 /\ m < n
      BY <2>1
    <3>2. m \in found
      BY <3>1, Operators
    <3> QED BY <1>4, <3>1, <3>2
  <2> QED BY <2>1, <2>2, FirstOperator
<1>6. n \in {1, 2, 3, 4, 5, 6, 7}
  <2> HIDE DEF found
  <2>1. n # 8 /\ n # 9
    BY <1>3, <1>4
  <2>2. n \in 1..9
    BY <1>2, <1>4
  <2> QED BY <2>1, <2>2
<1>7. PropertyOperators[n] \notin {<<"^", "=">>, <<"$", "=">>}
  <2>1. \A c, d, u, v : <<c, d>> = <<u, v>> => c = u
    OBVIOUS
  <2>2. \A c, u, v : <<c>> # <<u, v>>
    OBVIOUS
  <2> QED BY <1>6, <2>1, <2>2, Operators
<1> QED BY <1>5, <1>7

=============================================================================
