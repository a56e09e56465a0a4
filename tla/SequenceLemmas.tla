--------------------------- MODULE SequenceLemmas ---------------------------
(***************************************************************************)
(* What the operators on sequences that the models take from SequencesExt  *)
(* compute.  They are recursive functions, so each fact is an induction on *)
(* a set of natural numbers.                                               *)
(***************************************************************************)
EXTENDS SequencesExt, FiniteSetTheorems, WellFoundedInduction, TLAPS

\* Every nonempty set of natural numbers has a least element.
LEMMA LeastElement ==
    ASSUME NEW T, T \subseteq Nat, T # {}
    PROVE  \E n \in T : \A m \in T : n <= m
<1> DEFINE R == OpToRel(<, Nat)
<1>1. IsWellFoundedOn(R, Nat)
  BY NatLessThanWellFounded
<1>2. \A x, y \in Nat : <<x, y>> \in R <=> x < y
  BY DEF OpToRel
<1> HIDE DEF R
<1>3. PICK n \in T : \A m \in T : ~ (<<m, n>> \in R)
  BY <1>1, WFMin
<1>4. ASSUME NEW m \in T PROVE n <= m
  <2>1. n \in Nat /\ m \in Nat /\ ~(m < n)
    BY <1>2, <1>3
  <2> QED BY <2>1
<1> QED BY <1>4

\* A set with 0, and with n + 1 if with n, has every natural number.
LEMMA Induction ==
    ASSUME NEW S, 0 \in S, \A n \in Nat : n \in S => n + 1 \in S
    PROVE  Nat \subseteq S
<1> SUFFICES ASSUME Nat \ S # {} PROVE FALSE
  OBVIOUS
<1>1. PICK n \in Nat \ S : \A m \in Nat \ S : n <= m
  BY LeastElement
<1>2. n \in Nat /\ n # 0
  OBVIOUS
<1>3. n - 1 \in Nat /\ n - 1 \in S
  BY <1>1, <1>2
<1> QED BY <1>2, <1>3

-----------------------------------------------------------------------------
(***************************************************************************)
(* FlattenSeq.                                                             *)
(***************************************************************************)
\* What stands where in two sequences appended.
LEMMA AppendedElements ==
    ASSUME NEW T, NEW s \in Seq(T), NEW t \in Seq(T)
    PROVE  /\ s \o t \in Seq(T)
           /\ Len(s) \in Nat /\ DOMAIN s = 1..Len(s)
           /\ Len(t) \in Nat /\ DOMAIN t = 1..Len(t)
           /\ DOMAIN (s \o t) = 1..Len(s \o t)
           /\ Len(s \o t) = Len(s) + Len(t)
           /\ \A k \in 1..Len(s) : k \in 1..Len(s \o t) /\ (s \o t)[k] = s[k]
           /\ \A k \in 1..Len(t) : /\ Len(s) + k \in 1..Len(s \o t)
                                   /\ (s \o t)[Len(s) + k] = t[k]
           /\ \A k \in 1..Len(s \o t) :
                 k \notin 1..Len(s) =>
                    k - Len(s) \in 1..Len(t) /\ (s \o t)[k] = t[k - Len(s)]
OBVIOUS

\* Appending one element to none or to one.
LEMMA SmallAppends ==
    ASSUME NEW a, NEW b
    PROVE  /\ <<>> \o <<b>> = <<b>>
           /\ <<a>> \o <<b>> = <<a, b>>
<1> DEFINE T == {a, b}
           c == <<a>> \o <<b>>
<1>1. a \in T /\ b \in T
  OBVIOUS
<1> HIDE DEF T
<1>2. <<>> \in Seq(T) /\ <<a>> \in Seq(T) /\ <<b>> \in Seq(T) /\ <<a, b>> \in Seq(T)
  BY <1>1
<1>3. <<>> \o <<b>> = <<b>>
  BY <1>2
<1>4. c \in Seq(T) /\ Len(c) = 2 /\ c[1] = a /\ c[2] = b
  BY <1>2
<1> HIDE DEF c
<1>5. c = [i \in 1..2 |-> c[i]]
  BY <1>4
<1>6. c = <<a, b>>
  BY <1>4, <1>5
<1> QED BY <1>3, <1>6 DEF c

\* FlattenSeq appends one sequence after the other.
LEMMA FlattenSteps ==
    ASSUME NEW T, NEW n \in Nat, NEW seqs \in [1..n -> Seq(T)]
    PROVE  \E f \in [0..n -> Seq(T)] :
              /\ f[0] = <<>>
              /\ \A i \in Nat : i < n => f[i + 1] = f[i] \o seqs[i + 1]
              /\ FlattenSeq(seqs) = f[n]
<1> DEFINE Grows(f, k) == f = [i \in 1..k |-> IF i = 1 THEN seqs[i] ELSE f[i - 1] \o seqs[i]]
           Typed(f, k) == f \in [1..k -> Seq(T)]
           Exists(k) == \E f : Grows(f, k) /\ Typed(f, k)
           S == {k \in Nat : k <= n => Exists(k)}
<1>1. 0 \in S
  <2> DEFINE f == [i \in 1..0 |-> <<>>]
  <2>1. Grows(f, 0) /\ Typed(f, 0)
    OBVIOUS
  <2>2. Exists(0)
    BY <2>1
  <2> QED BY <2>2
<1>2. ASSUME NEW k \in Nat, k \in S PROVE k + 1 \in S
  <2>1. ASSUME k + 1 <= n PROVE Exists(k + 1)
    <3>1. Exists(k)
      <4>1. k <= n
        BY <2>1
      <4> HIDE DEF Exists
      <4> QED BY <1>2, <4>1
    <3>2. PICK f : Grows(f, k) /\ Typed(f, k)
      BY <3>1
    <3> DEFINE g == [i \in 1..(k + 1) |->
                        IF i = k + 1 THEN IF i = 1 THEN seqs[i] ELSE f[k] \o seqs[i]
                        ELSE f[i]]
    <3>3. Typed(g, k + 1)
      <4>1. ASSUME NEW i \in 1..(k + 1) PROVE g[i] \in Seq(T)
        <5>1. CASE i = k + 1
          <6>1. seqs[i] \in Seq(T) /\ (i # 1 => f[k] \in Seq(T))
            BY <2>1, <3>2, <5>1
          <6> QED BY <5>1, <6>1
        <5>2. CASE i # k + 1
          <6>1. i \in 1..k
            BY <5>2
          <6> QED BY <3>2, <5>2, <6>1
        <5> QED BY <5>1, <5>2
      <4> QED BY <4>1
    <3>4. \A i \in 1..k : f[i] = IF i = 1 THEN seqs[i] ELSE f[i - 1] \o seqs[i]
      BY <3>2
    <3>5. ASSUME NEW i \in 1..(k + 1)
          PROVE  g[i] = IF i = 1 THEN seqs[i] ELSE g[i - 1] \o seqs[i]
      <4>1. CASE i = k + 1
        BY <4>1
      <4>2. CASE i # k + 1
        <5>1. i \in 1..k /\ g[i] = f[i] /\ (i # 1 => i - 1 \in 1..k /\ g[i - 1] = f[i - 1])
          BY <4>2
        <5> QED BY <3>4, <5>1
      <4> QED BY <4>1, <4>2
    <3>6. Grows(g, k + 1)
      BY <3>5
    <3> HIDE DEF g, Grows, Typed
    <3> QED BY <3>3, <3>6
  <2> HIDE DEF Exists
  <2> QED BY <2>1
<1>3. Exists(n)
  <2> HIDE DEF S, Exists
  <2>1. Nat \subseteq S
    BY <1>1, <1>2, Induction
  <2>2. n \in S
    BY <2>1
  <2> QED BY <2>2 DEF S
<1>4. Len(seqs) = n
  OBVIOUS
<1>5. CASE n = 0
  <2>1. FlattenSeq(seqs) = seqs /\ seqs = <<>>
    BY <1>4, <1>5 DEF FlattenSeq
  <2> DEFINE f == [i \in 0..n |-> <<>>]
  <2>2. f \in [0..n -> Seq(T)] /\ f[0] = <<>> /\ f[n] = <<>>
    BY <1>5
  <2>3. \A i \in Nat : ~(i < n)
    BY <1>5
  <2> HIDE DEF f
  <2> QED BY <2>1, <2>2, <2>3
<1>6. CASE n # 0
  <2> DEFINE flatten == CHOOSE f : Grows(f, n)
  <2>1. Grows(flatten, n)
    BY <1>3
  <2>2. FlattenSeq(seqs) = flatten[n]
    BY <1>4, <1>6 DEF FlattenSeq
  <2>3. Typed(flatten, n)
    <3>1. PICK h : Grows(h, n) /\ Typed(h, n)
      BY <1>3
    <3> DEFINE E == {k \in Nat : k \in 1..n => flatten[k] = h[k]}
    <3> HIDE DEF flatten
    <3>2. \A i \in 1..n : /\ flatten[i] = IF i = 1 THEN seqs[i] ELSE flatten[i - 1] \o seqs[i]
                          /\ h[i] = IF i = 1 THEN seqs[i] ELSE h[i - 1] \o seqs[i]
      BY <2>1, <3>1
    <3>3. 0 \in E
      OBVIOUS
    <3>4. ASSUME NEW k \in Nat, k \in E PROVE k + 1 \in E
      BY <3>2, <3>4
    <3>5. Nat \subseteq E
      <4> HIDE DEF E
      <4> QED BY <3>3, <3>4, Induction
    <3>6. \A i \in 1..n : flatten[i] = h[i]
      BY <3>5
    <3>7. flatten = [i \in 1..n |-> flatten[i]] /\ \A i \in 1..n : flatten[i] \in Seq(T)
      BY <2>1, <3>1, <3>6
    <3> QED BY <3>7
  <2> HIDE DEF flatten
  <2> DEFINE f == [i \in 0..n |-> IF i = 0 THEN <<>> ELSE flatten[i]]
  <2>4. f \in [0..n -> Seq(T)] /\ f[0] = <<>> /\ FlattenSeq(seqs) = f[n]
    BY <1>6, <2>2, <2>3
  <2>5. \A i \in 1..n : flatten[i] = IF i = 1 THEN seqs[i] ELSE flatten[i - 1] \o seqs[i]
    BY <2>1
  <2>6. ASSUME NEW i \in Nat, i < n PROVE f[i + 1] = f[i] \o seqs[i + 1]
    <3>1. i + 1 \in 1..n /\ f[i + 1] = flatten[i + 1] /\ seqs[i + 1] \in Seq(T)
      BY <2>6
    <3>2. CASE i = 0
      <4>1. <<>> \o seqs[i + 1] = seqs[i + 1]
        BY <3>1
      <4> QED BY <2>5, <3>1, <3>2, <4>1
    <3>3. CASE i # 0
      <4>1. i + 1 # 1 /\ (i + 1) - 1 = i /\ f[i] = flatten[i]
        BY <3>1, <3>3
      <4> QED BY <2>5, <3>1, <4>1
    <3> QED BY <3>2, <3>3
  <2> QED BY <2>4, <2>6
<1> QED BY <1>5, <1>6

\* Its elements are those of the sequences, and all of those.
IsElement(x, n, seqs) == \E i \in 1..n : \E j \in DOMAIN seqs[i] : x = seqs[i][j]

LEMMA FlattenElements ==
    ASSUME NEW T, NEW n \in Nat, NEW seqs \in [1..n -> Seq(T)]
    PROVE  /\ FlattenSeq(seqs) \in Seq(T)
           /\ \A k \in DOMAIN FlattenSeq(seqs) : IsElement(FlattenSeq(seqs)[k], n, seqs)
           /\ \A x : IsElement(x, n, seqs) => x \in ToSet(FlattenSeq(seqs))
<1>1. PICK f \in [0..n -> Seq(T)] :
         /\ f[0] = <<>>
         /\ \A i \in Nat : i < n => f[i + 1] = f[i] \o seqs[i + 1]
         /\ FlattenSeq(seqs) = f[n]
  BY FlattenSteps
<1> DEFINE Out(m) == \A k \in DOMAIN f[m] :
                        \E i \in 1..m : \E j \in DOMAIN seqs[i] : f[m][k] = seqs[i][j]
           In(m) == \A i \in 1..m : \A j \in DOMAIN seqs[i] :
                       \E k \in DOMAIN f[m] : f[m][k] = seqs[i][j]
           S == {m \in Nat : m <= n => Out(m) /\ In(m)}
<1>2. 0 \in S
  BY <1>1
<1>3. ASSUME NEW m \in Nat, m \in S PROVE m + 1 \in S
  <2> SUFFICES ASSUME m + 1 <= n PROVE Out(m + 1) /\ In(m + 1)
    OBVIOUS
  <2> DEFINE old == f[m]
             new == seqs[m + 1]
             all == f[m + 1]
  <2>1. m <= n /\ m \in 0..n /\ m + 1 \in 1..n /\ m < n
    OBVIOUS
  <2>2. Out(m) /\ In(m)
    BY <1>3, <2>1
  <2>3. old \in Seq(T) /\ new \in Seq(T) /\ all = old \o new
    BY <1>1, <2>1
  <2>4. /\ DOMAIN old = 1..Len(old) /\ DOMAIN new = 1..Len(new) /\ DOMAIN all = 1..Len(all)
        /\ \A k \in 1..Len(old) : k \in 1..Len(all) /\ all[k] = old[k]
        /\ \A k \in 1..Len(new) : Len(old) + k \in 1..Len(all) /\ all[Len(old) + k] = new[k]
        /\ \A k \in 1..Len(all) :
              k \notin 1..Len(old) => k - Len(old) \in 1..Len(new) /\ all[k] = new[k - Len(old)]
    <3> HIDE DEF old, new, all
    <3> QED BY <2>3, AppendedElements
  <2> HIDE DEF S
  <2>5. Out(m + 1)
    <3> SUFFICES ASSUME NEW k \in DOMAIN all
                 PROVE  \E i \in 1..(m + 1) : \E j \in DOMAIN seqs[i] : all[k] = seqs[i][j]
      OBVIOUS
    <3>1. CASE k \in 1..Len(old)
      <4>1. all[k] = old[k] /\ k \in DOMAIN old
        BY <2>4, <3>1
      <4>2. PICK i \in 1..m : \E j \in DOMAIN seqs[i] : old[k] = seqs[i][j]
        BY <2>2, <4>1
      <4>3. i \in 1..(m + 1)
        OBVIOUS
      <4> QED BY <4>1, <4>2, <4>3
    <3>2. CASE k \notin 1..Len(old)
      <4>1. k - Len(old) \in DOMAIN new /\ all[k] = new[k - Len(old)]
        BY <2>4, <3>2
      <4>2. m + 1 \in 1..(m + 1)
        OBVIOUS
      <4> QED BY <4>1, <4>2
    <3> QED BY <3>1, <3>2
  <2>6. In(m + 1)
    <3> SUFFICES ASSUME NEW i \in 1..(m + 1), NEW j \in DOMAIN seqs[i]
                 PROVE  \E k \in DOMAIN all : all[k] = seqs[i][j]
      OBVIOUS
    <3>1. CASE i = m + 1
      <4>1. j \in 1..Len(new) /\ seqs[i][j] = new[j]
        BY <2>4, <3>1
      <4>2. Len(old) + j \in DOMAIN all /\ all[Len(old) + j] = new[j]
        BY <2>4, <4>1
      <4> QED BY <4>1, <4>2
    <3>2. CASE i # m + 1
      <4>1. i \in 1..m
        BY <3>2
      <4>2. PICK k \in DOMAIN old : old[k] = seqs[i][j]
        BY <2>2, <4>1
      <4>3. k \in DOMAIN all /\ all[k] = old[k]
        BY <2>4
      <4> QED BY <4>2, <4>3
    <3> QED BY <3>1, <3>2
  <2> QED BY <2>5, <2>6
<1>4. Out(n) /\ In(n)
  <2>1. Nat \subseteq S
    <3> HIDE DEF S
    <3> QED BY <1>2, <1>3, Induction
  <2> QED BY <2>1
<1> QED BY <1>1, <1>4 DEF IsElement, ToSet

\* Sequences of one length, with elements related one by one, flatten to such.
Related(R, s, t) == /\ Len(s) = Len(t)
                    /\ \A k \in 1..Len(s) : <<s[k], t[k]>> \in R

LEMMA FlattenPairs ==
    ASSUME NEW T, NEW U, NEW R, NEW n \in Nat,
           NEW s \in [1..n -> Seq(T)], NEW t \in [1..n -> Seq(U)],
           \A i \in 1..n : Related(R, s[i], t[i])
    PROVE  Related(R, FlattenSeq(s), FlattenSeq(t))
<1>1. PICK f \in [0..n -> Seq(T)] :
         /\ f[0] = <<>>
         /\ \A i \in Nat : i < n => f[i + 1] = f[i] \o s[i + 1]
         /\ FlattenSeq(s) = f[n]
  BY FlattenSteps
<1>2. PICK g \in [0..n -> Seq(U)] :
         /\ g[0] = <<>>
         /\ \A i \in Nat : i < n => g[i + 1] = g[i] \o t[i + 1]
         /\ FlattenSeq(t) = g[n]
  BY FlattenSteps
<1> USE DEF Related
<1> DEFINE Same(m) == Related(R, f[m], g[m])
           S == {m \in Nat : m <= n => Same(m)}
<1>3. 0 \in S
  BY <1>1, <1>2
<1>4. ASSUME NEW m \in Nat, m \in S PROVE m + 1 \in S
  <2> SUFFICES ASSUME m + 1 <= n PROVE Same(m + 1)
    OBVIOUS
  <2>1. m <= n /\ m \in 0..n /\ m + 1 \in 1..n /\ m < n
    OBVIOUS
  <2>2. Same(m)
    BY <1>4, <2>1
  <2>3. /\ f[m] \in Seq(T) /\ s[m + 1] \in Seq(T) /\ f[m + 1] = f[m] \o s[m + 1]
        /\ g[m] \in Seq(U) /\ t[m + 1] \in Seq(U) /\ g[m + 1] = g[m] \o t[m + 1]
    BY <1>1, <1>2, <2>1
  <2>4. /\ Len(s[m + 1]) = Len(t[m + 1])
        /\ \A j \in 1..Len(s[m + 1]) : <<s[m + 1][j], t[m + 1][j]>> \in R
    BY <2>1
  <2>5. /\ Len(f[m]) \in Nat
        /\ Len(f[m + 1]) = Len(f[m]) + Len(s[m + 1])
        /\ \A k \in 1..Len(f[m]) : f[m + 1][k] = f[m][k]
        /\ \A k \in 1..Len(f[m + 1]) :
              k \notin 1..Len(f[m]) => /\ k - Len(f[m]) \in 1..Len(s[m + 1])
                                       /\ f[m + 1][k] = s[m + 1][k - Len(f[m])]
    <3> DEFINE old == f[m]
               new == s[m + 1]
               all == f[m + 1]
    <3>1. old \in Seq(T) /\ new \in Seq(T) /\ all = old \o new
      BY <2>3
    <3> HIDE DEF old, new, all
    <3>2. /\ Len(old) \in Nat
          /\ Len(all) = Len(old) + Len(new)
          /\ \A k \in 1..Len(old) : all[k] = old[k]
          /\ \A k \in 1..Len(all) :
                k \notin 1..Len(old) => k - Len(old) \in 1..Len(new) /\ all[k] = new[k - Len(old)]
      BY <3>1, AppendedElements
    <3> QED BY <3>2 DEF old, new, all
  <2>6. /\ Len(g[m + 1]) = Len(g[m]) + Len(t[m + 1])
        /\ \A k \in 1..Len(g[m]) : g[m + 1][k] = g[m][k]
        /\ \A k \in 1..Len(g[m + 1]) :
              k \notin 1..Len(g[m]) => g[m + 1][k] = t[m + 1][k - Len(g[m])]
    <3> DEFINE old == g[m]
               new == t[m + 1]
               all == g[m + 1]
    <3>1. old \in Seq(U) /\ new \in Seq(U) /\ all = old \o new
      BY <2>3
    <3> HIDE DEF old, new, all
    <3>2. /\ Len(old) \in Nat
          /\ Len(all) = Len(old) + Len(new)
          /\ \A k \in 1..Len(old) : all[k] = old[k]
          /\ \A k \in 1..Len(all) :
                k \notin 1..Len(old) => k - Len(old) \in 1..Len(new) /\ all[k] = new[k - Len(old)]
      BY <3>1, AppendedElements
    <3> QED BY <3>2 DEF old, new, all
  <2>7. Len(g[m + 1]) = Len(f[m + 1])
    BY <2>2, <2>4, <2>5, <2>6
  <2>8. ASSUME NEW k \in 1..Len(f[m + 1]) PROVE <<f[m + 1][k], g[m + 1][k]>> \in R
    <3>1. CASE k \in 1..Len(f[m])
      <4>1. f[m + 1][k] = f[m][k] /\ g[m + 1][k] = g[m][k]
        BY <2>2, <2>5, <2>6, <3>1
      <4> QED BY <2>2, <3>1, <4>1
    <3>2. CASE k \notin 1..Len(f[m])
      <4> DEFINE j == k - Len(f[m])
      <4>1. j \in 1..Len(s[m + 1]) /\ f[m + 1][k] = s[m + 1][j]
        BY <2>5, <3>2
      <4>2. g[m + 1][k] = t[m + 1][j]
        BY <2>2, <2>6, <2>7, <3>2
      <4> HIDE DEF j
      <4> QED BY <2>4, <4>1, <4>2
    <3> QED BY <3>1, <3>2
  <2> QED BY <2>7, <2>8
<1>5. Same(n)
  <2>1. Nat \subseteq S
    <3> HIDE DEF S
    <3> QED BY <1>3, <1>4, Induction
  <2> QED BY <2>1
<1> QED BY <1>1, <1>2, <1>5

\* Sequences of one element each flatten to the sequence of these elements.
LEMMA FlattenSingles ==
    ASSUME NEW n \in Nat, NEW seqs, seqs = [i \in 1..n |-> <<seqs[i][1]>>]
    PROVE  FlattenSeq(seqs) = [i \in 1..n |-> seqs[i][1]]
<1> DEFINE T == {seqs[i][1] : i \in 1..n}
<1>1. \A i \in 1..n : seqs[i] = <<seqs[i][1]>> /\ seqs[i][1] \in T
  OBVIOUS
<1>2. seqs \in [1..n -> Seq(T)]
  <2> HIDE DEF T
  <2>1. \A i \in 1..n : seqs[i] \in Seq(T)
    BY <1>1
  <2> QED BY <2>1
<1> HIDE DEF T
<1>3. PICK f \in [0..n -> Seq(T)] :
         /\ f[0] = <<>>
         /\ \A i \in Nat : i < n => f[i + 1] = f[i] \o seqs[i + 1]
         /\ FlattenSeq(seqs) = f[n]
  BY <1>2, FlattenSteps
<1> DEFINE Listed(m) == Len(f[m]) = m /\ \A i \in 1..m : f[m][i] = seqs[i][1]
           S == {m \in Nat : m <= n => Listed(m)}
<1>4. 0 \in S
  BY <1>3
<1>5. ASSUME NEW m \in Nat, m \in S PROVE m + 1 \in S
  <2> HIDE DEF Listed
  <2> SUFFICES ASSUME m + 1 <= n PROVE Listed(m + 1)
    OBVIOUS
  <2> USE DEF Listed
  <2> DEFINE x == seqs[m + 1][1]
  <2>1. m <= n /\ m \in 0..n /\ m + 1 \in 1..n /\ m < n
    OBVIOUS
  <2>2. Listed(m)
    BY <1>5, <2>1
  <2>3. f[m] \in Seq(T) /\ f[m + 1] = f[m] \o <<x>> /\ x \in T
    BY <1>1, <1>3, <2>1
  <2>4. Len(f[m]) = m /\ \A i \in 1..m : f[m][i] = seqs[i][1]
    BY <2>2
  <2>5. Len(f[m + 1]) = m + 1
    <3> HIDE DEF x
    <3> QED BY <2>3, <2>4
  <2>6. ASSUME NEW i \in 1..(m + 1) PROVE f[m + 1][i] = seqs[i][1]
    <3>1. CASE i = m + 1
      <4>1. f[m + 1][m + 1] = x
        <5> HIDE DEF x
        <5> QED BY <2>3, <2>4
      <4> QED BY <3>1, <4>1
    <3>2. CASE i # m + 1
      <4>1. i \in 1..m
        BY <3>2
      <4>2. f[m + 1][i] = f[m][i]
        <5> HIDE DEF x
        <5> QED BY <2>3, <2>4, <4>1
      <4> QED BY <2>4, <4>1, <4>2
    <3> QED BY <3>1, <3>2
  <2> QED BY <2>5, <2>6
<1>6. Listed(n)
  <2>1. Nat \subseteq S
    <3> HIDE DEF S
    <3> QED BY <1>4, <1>5, Induction
  <2> QED BY <2>1
<1>7. f[n] \in Seq(T) /\ Len(f[n]) = n /\ \A i \in 1..n : f[n][i] = seqs[i][1]
  BY <1>6
<1>8. f[n] = [i \in 1..n |-> f[n][i]]
  BY <1>7
<1> QED BY <1>3, <1>7, <1>8

-----------------------------------------------------------------------------
(***************************************************************************)
(* SetToSeq and FoldLeft.                                                  *)
(***************************************************************************)
\* A finite set is put in some order, each element once.
LEMMA SetInOrder ==
    ASSUME NEW S, IsFiniteSet(S)
    PROVE  /\ Cardinality(S) \in Nat
           /\ SetToSeq(S) \in [1..Cardinality(S) -> S]
           /\ \A x \in S : \E i \in 1..Cardinality(S) : SetToSeq(S)[i] = x
<1> DEFINE n == Cardinality(S)
<1>1. n \in Nat
  BY FS_CardinalityType
<1>2. \E f \in [1..n -> S] : IsInjective(f)
  <2>1. ExistsBijection(1..n, S)
    BY FS_CardinalityType
  <2> QED BY <2>1 DEF ExistsBijection, Bijection, Injection
<1>3. SetToSeq(S) \in [1..n -> S] /\ IsInjective(SetToSeq(S))
  BY <1>2 DEF SetToSeq
<1>4. SetToSeq(S) \in Surjection(1..n, S)
  <2>1. SetToSeq(S) \in Injection(1..n, S)
    BY <1>3 DEF Injection
  <2>2. IsFiniteSet(1..n) /\ Cardinality(1..n) = n
    BY <1>1, FS_Interval
  <2> QED BY <2>1, <2>2, FS_Injection
<1> QED BY <1>1, <1>3, <1>4 DEF Surjection

\* A sum of balances is a number.
LEMMA SumIsNumber ==
    ASSUME NEW n \in Nat, NEW blocks, DOMAIN blocks = 1..n,
           \A i \in 1..n : blocks[i].balance \in Nat
    PROVE  FoldLeft(LAMBDA sum, b : sum + b.balance, 0, blocks) \in Nat
<1> DEFINE Sums(f, k) ==
             f = [s \in SUBSET (1..k) |->
                     IF s = {} THEN 0 ELSE f[s \ {Max(s)}] + blocks[Max(s)].balance]
           Exists(k) == \E f : Sums(f, k)
           S == {k \in Nat : k <= n => Exists(k)}
<1>1. 0 \in S
  <2> DEFINE f == [s \in SUBSET (1..0) |-> 0]
  <2>1. Sums(f, 0)
    OBVIOUS
  <2>2. Exists(0)
    BY <2>1
  <2> QED BY <2>2
<1>2. ASSUME NEW k \in Nat, k \in S PROVE k + 1 \in S
  <2>1. ASSUME k + 1 <= n PROVE Exists(k + 1)
    <3>1. Exists(k)
      <4>1. k <= n
        BY <2>1
      <4> HIDE DEF Exists
      <4> QED BY <1>2, <4>1
    <3>2. PICK f : Sums(f, k)
      BY <3>1
    <3> DEFINE g == [s \in SUBSET (1..(k + 1)) |->
                        IF k + 1 \in s THEN f[s \ {k + 1}] + blocks[k + 1].balance
                        ELSE f[s]]
    <3>3. ASSUME NEW s \in SUBSET (1..(k + 1))
          PROVE  g[s] = IF s = {} THEN 0 ELSE g[s \ {Max(s)}] + blocks[Max(s)].balance
      <4>1. CASE k + 1 \in s
        <5>1. Max(s) = k + 1
          <6>1. \A y \in s : k + 1 >= y /\ y \in Nat
            OBVIOUS
          <6>2. \A x \in s : (\A y \in s : x >= y) => x = k + 1
            BY <4>1, <6>1
          <6> QED BY <4>1, <6>1, <6>2 DEF Max
        <5>2. s \ {k + 1} \in SUBSET (1..(k + 1)) /\ k + 1 \notin s \ {k + 1}
          OBVIOUS
        <5> QED BY <4>1, <5>1, <5>2
      <4>2. CASE k + 1 \notin s
        <5>1. s \in SUBSET (1..k)
          BY <4>2
        <5>2. s \ {Max(s)} \in SUBSET (1..(k + 1)) /\ k + 1 \notin s \ {Max(s)}
          BY <4>2
        <5>3. f[s] = IF s = {} THEN 0 ELSE f[s \ {Max(s)}] + blocks[Max(s)].balance
          BY <3>2, <5>1
        <5> QED BY <4>2, <5>2, <5>3
      <4> QED BY <4>1, <4>2
    <3>4. Sums(g, k + 1)
      BY <3>3
    <3> HIDE DEF g, Sums
    <3> QED BY <3>4
  <2> HIDE DEF Exists
  <2> QED BY <2>1
<1>3. Exists(n)
  <2> HIDE DEF S, Exists
  <2>1. Nat \subseteq S
    BY <1>1, <1>2, Induction
  <2>2. n \in S
    BY <2>1
  <2> QED BY <2>2 DEF S
<1> DEFINE iter == CHOOSE f : Sums(f, n)
<1>4. Sums(iter, n)
  BY <1>3
<1>5. FoldLeft(LAMBDA sum, b : sum + b.balance, 0, blocks) = iter[1..n]
  BY DEF FoldLeft, MapThenFoldSet
<1> HIDE DEF iter
<1> DEFINE N == {k \in Nat : k <= n => iter[1..k] \in Nat}
<1>6. 0 \in N
  <2>1. iter[{}] = 0 /\ 1..0 = {}
    BY <1>4
  <2> QED BY <2>1
<1>7. ASSUME NEW k \in Nat, k \in N PROVE k + 1 \in N
  <2>1. ASSUME k + 1 <= n PROVE iter[1..(k + 1)] \in Nat
    <3>1. 1..(k + 1) \in SUBSET (1..n) /\ 1..(k + 1) # {} /\ k + 1 \in 1..n
      <4>1. \A y \in 1..(k + 1) : y \in 1..n
        BY <2>1
      <4>2. k + 1 \in 1..(k + 1)
        OBVIOUS
      <4> HIDE DEF N
      <4> QED BY <4>1, <4>2
    <3>2. Max(1..(k + 1)) = k + 1
      <4>1. \A y \in 1..(k + 1) : k + 1 >= y
        OBVIOUS
      <4>2. \A x \in 1..(k + 1) : (\A y \in 1..(k + 1) : x >= y) => x = k + 1
        OBVIOUS
      <4>3. k + 1 \in 1..(k + 1)
        OBVIOUS
      <4> QED BY <4>1, <4>2, <4>3 DEF Max
    <3>3. iter[1..(k + 1)] = iter[(1..(k + 1)) \ {k + 1}] + blocks[k + 1].balance
      BY <1>4, <3>1, <3>2
    <3>4. (1..(k + 1)) \ {k + 1} = 1..k
      OBVIOUS
    <3>5. iter[1..k] \in Nat
      BY <1>7, <2>1
    <3>6. blocks[k + 1].balance \in Nat
      BY <3>1
    <3> DEFINE below == iter[1..k]
               above == blocks[k + 1].balance
    <3>7. iter[1..(k + 1)] = below + above
      BY <3>3, <3>4
    <3>8. below \in Nat /\ above \in Nat
      BY <3>5, <3>6
    <3> HIDE DEF below, above
    <3>9. below + above \in Nat
      BY <3>8
    <3> QED BY <3>7, <3>9, Zenon
  <2> QED BY <2>1
<1>8. iter[1..n] \in Nat
  <2>1. Nat \subseteq N
    <3> HIDE DEF N
    <3> QED BY <1>6, <1>7, Induction
  <2> QED BY <2>1
<1> QED BY <1>5, <1>8
=============================================================================
