--------------------------------- MODULE Lemmas ---------------------------------
(*******************************************************************************)
(* Lemmas of no module in particular: induction and recursion over natural     *)
(* numbers, sequences and their members, ranks (module Ranks).                 *)
(*******************************************************************************)
EXTENDS Ranks, FiniteSetTheorems, SequenceTheorems, WellFoundedInduction, TLAPS

(* Every non-empty set of naturals has a least element.                        *)
LEMMA NatHasLeast ==
  ASSUME NEW T, T \subseteq Nat, T # {}
  PROVE  \E x \in T : \A y \in T : x <= y
<1> DEFINE R == OpToRel(<, Nat)
<1>1. IsWellFoundedOn(R, Nat)
  BY NatLessThanWellFounded
<1>2. \E x \in T : \A y \in T : ~ (<<y, x>> \in R)
  BY <1>1, WFMin
<1>3. ASSUME NEW x \in T, NEW y \in T, ~ (<<y, x>> \in R)
      PROVE  x <= y
  BY <1>3 DEF OpToRel
<1> QED BY <1>2, <1>3

(* Induction, over a set and not a formula.                                    *)
LEMMA SetInduction ==
  ASSUME NEW S, 0 \in S, \A n \in Nat : n \in S => n + 1 \in S
  PROVE  \A n \in Nat : n \in S
<1> SUFFICES ASSUME Nat \ S # {}
             PROVE  FALSE
  OBVIOUS
<1>1. PICK x \in Nat \ S : \A y \in Nat \ S : x <= y
  <2>1. Nat \ S \subseteq Nat
    OBVIOUS
  <2> QED BY <2>1, NatHasLeast
<1>2. x # 0 /\ x - 1 \in Nat /\ ~(x <= x - 1)
  BY <1>1
<1>3. x - 1 \in S
  BY <1>1, <1>2
<1> QED BY <1>1, <1>2, <1>3

(* What holds of a number when it holds of the smaller ones holds of all.      *)
LEMMA StrongInduction ==
  ASSUME NEW S, \A n \in Nat : (\A m \in Nat : m < n => m \in S) => n \in S
  PROVE  \A n \in Nat : n \in S
<1> SUFFICES ASSUME Nat \ S # {}
             PROVE  FALSE
  OBVIOUS
<1>1. PICK x \in Nat \ S : \A y \in Nat \ S : x <= y
  <2>1. Nat \ S \subseteq Nat
    OBVIOUS
  <2> QED BY <2>1, NatHasLeast
<1>2. \A m \in Nat : m < x => m \in S
  BY <1>1
<1> QED BY <1>1, <1>2

(* The function given up to N by its value at 0 and by its steps.              *)
Recursive(f, N, D, base, step) ==
  /\ f \in [0 .. N -> D]
  /\ f[0] = base
  /\ \A n \in 1 .. N : f[n] = step[n][f[n - 1]]

(* It exists.                                                                  *)
LEMMA Recursion ==
  ASSUME NEW N \in Nat, NEW D, NEW base \in D, NEW step \in [1 .. N -> [D -> D]]
  PROVE  \E f : Recursive(f, N, D, base, step)
<1> DEFINE Upto(m, f) == /\ f[0] = base
                         /\ \A n \in 1 .. m : f[n] = step[n][f[n - 1]]
           S == {m \in Nat : m <= N => \E f \in [0 .. m -> D] : Upto(m, f)}
<1>1. 0 \in S
  <2>1. [i \in 0 .. 0 |-> base] \in [0 .. 0 -> D] /\ Upto(0, [i \in 0 .. 0 |-> base])
    OBVIOUS
  <2> QED BY <2>1
<1>2. ASSUME NEW m \in Nat, m \in S
      PROVE  m + 1 \in S
  <2> SUFFICES ASSUME m + 1 <= N
               PROVE  \E f \in [0 .. m + 1 -> D] : Upto(m + 1, f)
    OBVIOUS
  <2>1. PICK f \in [0 .. m -> D] : Upto(m, f)
    BY <1>2
  <2> DEFINE g == [i \in 0 .. m + 1 |-> IF i = m + 1 THEN step[m + 1][f[m]] ELSE f[i]]
  <2>2. m + 1 \in 1 .. N /\ m \in 0 .. m /\ f[m] \in D
    OBVIOUS
  <2>3. step[m + 1][f[m]] \in D
    BY <2>2
  <2>4. g \in [0 .. m + 1 -> D]
    BY <2>3
  <2>5. g[0] = base
    BY <2>1
  <2>6. ASSUME NEW n \in 1 .. m + 1
        PROVE  g[n] = step[n][g[n - 1]]
    BY <2>1
  <2> QED BY <2>4, <2>5, <2>6
<1>3. \A m \in Nat : m \in S
  <2> HIDE DEF S
  <2> QED BY <1>1, <1>2, SetInduction
<1> QED BY <1>3 DEF Recursive

(* What a step makes at a place depends on places of smaller size only.        *)
Shrinks(S, size, D, base, step) ==
  /\ size \in [S -> Nat] /\ base \in [S -> D] /\ step \in [[S -> D] -> [S -> D]]
  /\ \A x \in S : \A f, g \in [S -> D] :
       (\A y \in S : size[y] < size[x] => f[y] = g[y]) => step[f][x] = step[g][x]

(* Then there is a function that the step leaves as it is.                     *)
LEMMA SizeRecursion ==
  ASSUME NEW S, NEW size, NEW D, NEW base, NEW step, Shrinks(S, size, D, base, step)
  PROVE  \E f \in [S -> D] : f = step[f]
<1> DEFINE F == [S -> D]
           Fix(n, f) == \A x \in S : size[x] < n => f[x] = step[f][x]
           Same == {n \in Nat : \A f, g \in F : Fix(n, f) /\ Fix(n, g) =>
                                  \A x \in S : size[x] < n => f[x] = g[x]}
           Some == {n \in Nat : \E f \in F : Fix(n, f)}
<1>b. size \in [S -> Nat] /\ base \in F /\ step \in [F -> F]
  BY DEF Shrinks
<1>0. \A f \in F : step[f] \in F
  BY <1>b
<1>a. \A x \in S : \A f, g \in F :
        (\A y \in S : size[y] < size[x] => f[y] = g[y]) => step[f][x] = step[g][x]
  BY DEF Shrinks
<1>1. \A n \in Nat : n \in Same
  <2>1. 0 \in Same
    BY <1>b
  <2>2. ASSUME NEW n \in Nat, n \in Same PROVE n + 1 \in Same
    <3> SUFFICES ASSUME NEW f \in F, NEW g \in F, Fix(n + 1, f), Fix(n + 1, g),
                        NEW x \in S, size[x] < n + 1
                 PROVE  f[x] = g[x]
      OBVIOUS
    <3>1. Fix(n, f) /\ Fix(n, g)
      BY <1>b
    <3>2. \A y \in S : size[y] < n => f[y] = g[y]
      BY <2>2, <3>1
    <3>3. \A y \in S : size[y] < size[x] => f[y] = g[y]
      BY <1>b, <3>2
    <3>4. step[f][x] = step[g][x]
      BY <1>a, <3>3
    <3> QED BY <3>4
  <2> HIDE DEF Same
  <2> QED BY <2>1, <2>2, SetInduction
<1>2. \A n \in Nat : n \in Some
  <2>1. 0 \in Some
    <3>1. Fix(0, base)
      BY <1>b
    <3> QED BY <1>b, <3>1
  <2>2. ASSUME NEW n \in Nat, n \in Some PROVE n + 1 \in Some
    <3>1. PICK f \in F : Fix(n, f)
      BY <2>2
    <3>2. ASSUME NEW x \in S, size[x] < n + 1 PROVE step[f][x] = step[step[f]][x]
      <4>1. \A y \in S : size[y] < size[x] => f[y] = step[f][y]
        BY <1>b, <3>1, <3>2
      <4> QED BY <1>0, <1>a, <4>1
    <3>3. Fix(n + 1, step[f])
      BY <3>2
    <3> QED BY <1>0, <3>3
  <2> HIDE DEF Some
  <2> QED BY <2>1, <2>2, SetInduction
<1> DEFINE at == [x \in S |-> CHOOSE f \in F : Fix(size[x] + 1, f)]
           g == [x \in S |-> at[x][x]]
<1>3. ASSUME NEW x \in S PROVE at[x] \in F /\ Fix(size[x] + 1, at[x])
  <2>1. size[x] + 1 \in Nat
    BY <1>b
  <2>2. \E f \in F : Fix(size[x] + 1, f)
    BY <1>2, <2>1
  <2> HIDE DEF F, Fix
  <2> QED BY <2>2
<1>4. g \in F
  <2> HIDE DEF at
  <2> QED BY <1>3
<1>5. ASSUME NEW x \in S PROVE g[x] = step[g][x]
  <2>1. at[x] \in F /\ at[x][x] = step[at[x]][x]
    <3> HIDE DEF at
    <3>1. at[x] \in F /\ Fix(size[x] + 1, at[x])
      BY <1>3
    <3>2. size[x] < size[x] + 1
      BY <1>b
    <3> QED BY <3>1, <3>2
  <2>2. ASSUME NEW y \in S, size[y] < size[x] PROVE at[x][y] = g[y]
    <3>1. Fix(size[y] + 1, at[x])
      <4>1. Fix(size[x] + 1, at[x])
        BY <1>3
      <4> HIDE DEF at
      <4> QED BY <1>b, <2>2, <4>1
    <3>2. size[y] + 1 \in Same /\ at[y] \in F /\ Fix(size[y] + 1, at[y]) /\ at[x] \in F
      <4>1. size[y] + 1 \in Nat
        BY <1>b
      <4> HIDE DEF Same, Fix, at, F
      <4> QED BY <1>1, <1>3, <4>1
    <3>a. size[y] < size[y] + 1
      BY <1>b
    <3> HIDE DEF Fix, at
    <3>3. at[x][y] = at[y][y]
      BY <3>1, <3>2, <3>a
    <3> QED BY <3>3
  <2> HIDE DEF at
  <2>3. step[at[x]][x] = step[g][x]
    <3> HIDE DEF g
    <3> QED BY <1>a, <1>4, <2>1, <2>2
  <2> QED BY <2>1, <2>3
<1>6. g = step[g]
  <2> HIDE DEF g
  <2> QED BY <1>0, <1>4, <1>5
<1> QED BY <1>4, <1>6

(* Every non-empty set of positions of a sequence has a last one.              *)
LEMMA IntervalHasLast ==
  ASSUME NEW n \in Nat, NEW T, T \subseteq 1 .. n, T # {}
  PROVE  \E x \in T : \A y \in T : y <= x
<1> DEFINE M == {n - i : i \in T}
<1>1. M \subseteq Nat /\ M # {}
  <2>1. ASSUME NEW i \in T PROVE n - i \in Nat
    BY SMT
  <2>2. PICK i \in T : TRUE
    OBVIOUS
  <2>3. n - i \in M
    BY <2>2
  <2> QED BY <2>1, <2>3
<1>2. PICK m \in M : \A y \in M : m <= y
  BY <1>1, NatHasLeast
<1>3. PICK x \in T : m = n - x
  BY <1>2
<1>4. \A y \in T : y <= x
  <2> SUFFICES ASSUME NEW y \in T PROVE y <= x
    OBVIOUS
  <2>1. m <= n - y
    BY <1>2
  <2> QED BY <2>1, <1>3
<1> QED BY <1>4

(* Removing the element at a position keeps the others in their order.        *)
LEMMA RemoveAtFacts ==
  ASSUME NEW S, NEW list \in Seq(S), NEW at \in 1 .. Len(list)
  PROVE  LET n == Len(list)
             new == SubSeq(list, 1, at - 1) \o SubSeq(list, at + 1, n)
         IN  /\ new \in Seq(S)
             /\ Len(new) = n - 1
             /\ \A i \in 1 .. n - 1 : new[i] = IF i <= at - 1 THEN list[i] ELSE list[i + 1]
<1> DEFINE n == Len(list)
           left == SubSeq(list, 1, at - 1)
           right == SubSeq(list, at + 1, n)
           new == left \o right
<1>1. n \in Nat /\ \A i \in 1 .. n : list[i] \in S
  BY LenProperties, ElementOfSeq
<1>2. /\ left \in Seq(S)
      /\ Len(left) = at - 1
      /\ \A i \in 1 .. at - 1 : left[i] = list[i]
  <2>1. /\ left \in Seq(S)
        /\ Len(left) = IF 1 <= at - 1 THEN (at - 1) - 1 + 1 ELSE 0
        /\ \A i \in 1 .. (at - 1) - 1 + 1 : left[i] = list[1 + i - 1]
    <3>1. 1 \in Int /\ at - 1 \in Int /\ \A i \in 1 .. at - 1 : list[i] \in S
      BY <1>1
    <3> QED BY <3>1, SubSeqProperties
  <2> QED BY <2>1, <1>1
<1>3. /\ right \in Seq(S)
      /\ Len(right) = n - at
      /\ \A i \in 1 .. n - at : right[i] = list[at + i]
  <2>1. /\ right \in Seq(S)
        /\ Len(right) = IF at + 1 <= n THEN n - (at + 1) + 1 ELSE 0
        /\ \A i \in 1 .. n - (at + 1) + 1 : right[i] = list[(at + 1) + i - 1]
    <3>1. at + 1 \in Int /\ n \in Int /\ \A i \in at + 1 .. n : list[i] \in S
      BY <1>1
    <3> QED BY <3>1, SubSeqProperties
  <2> QED BY <2>1, <1>1
<1> HIDE DEF left, right
<1>4. /\ new \in Seq(S)
      /\ Len(new) = n - 1
      /\ \A i \in 1 .. n - 1 : new[i] = IF i <= at - 1 THEN list[i] ELSE list[i + 1]
  <2>1. /\ new \in Seq(S)
        /\ Len(new) = Len(left) + Len(right)
        /\ \A i \in 1 .. Len(left) + Len(right) :
             new[i] = IF i <= Len(left) THEN left[i] ELSE right[i - Len(left)]
    BY <1>2, <1>3, ConcatProperties
  <2>2. Len(left) + Len(right) = n - 1
    BY <1>1, <1>2, <1>3
  <2>3. ASSUME NEW i \in 1 .. n - 1
        PROVE  new[i] = IF i <= at - 1 THEN list[i] ELSE list[i + 1]
    <3>1. CASE i <= at - 1
      BY <2>1, <2>2, <3>1, <1>2
    <3>2. CASE ~(i <= at - 1)
      <4>1. new[i] = right[i - (at - 1)]
        BY <2>1, <2>2, <3>2, <1>2
      <4>2. i - (at - 1) \in 1 .. n - at /\ at + (i - (at - 1)) = i + 1
        BY <1>1, <3>2
      <4> QED BY <4>1, <4>2, <1>3, <3>2
    <3> QED BY <3>1, <3>2
  <2> QED BY <2>1, <2>2, <2>3
<1> QED BY <1>4 DEF left, right

(* The members of a sequence, and a sequence that has each once.               *)
Elements(q) == {q[i] : i \in DOMAIN q}
Distinct(q) == \A i, j \in DOMAIN q : q[i] = q[j] => i = j

(* Sequences of no and of one member.                                          *)
LEMMA ShortFacts ==
  ASSUME NEW S, NEW x \in S
  PROVE  /\ <<>> \in Seq(S) /\ Elements(<<>>) = {} /\ Distinct(<<>>)
         /\ <<x>> \in Seq(S) /\ Elements(<<x>>) = {x} /\ Distinct(<<x>>)
  BY DEF Elements, Distinct

(* Sequences one after the other.                                              *)
LEMMA CatFacts ==
  ASSUME NEW S, NEW p \in Seq(S), NEW q \in Seq(S)
  PROVE  /\ p \o q \in Seq(S)
         /\ Elements(p \o q) = Elements(p) \cup Elements(q)
         /\ Distinct(p) /\ Distinct(q) /\ Elements(p) \cap Elements(q) = {} => Distinct(p \o q)
<1>1. /\ p \o q \in Seq(S) /\ Len(p \o q) = Len(p) + Len(q)
      /\ \A i \in 1 .. Len(p) + Len(q) :
           (p \o q)[i] = IF i <= Len(p) THEN p[i] ELSE q[i - Len(p)]
      /\ Len(p) \in Nat /\ Len(q) \in Nat
      /\ DOMAIN p = 1 .. Len(p) /\ DOMAIN q = 1 .. Len(q)
      /\ DOMAIN (p \o q) = 1 .. Len(p) + Len(q)
  OBVIOUS
<1> DEFINE m == Len(p)
           n == Len(q)
           c == p \o q
<1>2. /\ m \in Nat /\ n \in Nat /\ DOMAIN p = 1 .. m /\ DOMAIN q = 1 .. n
      /\ DOMAIN c = 1 .. m + n
      /\ \A i \in 1 .. m + n : c[i] = IF i <= m THEN p[i] ELSE q[i - m]
  BY <1>1
<1> HIDE DEF m, n, c
<1>3. /\ \A i \in 1 .. m : i \in 1 .. m + n /\ c[i] = p[i]
      /\ \A j \in 1 .. n : m + j \in 1 .. m + n /\ c[m + j] = q[j]
      /\ \A i \in 1 .. m + n : i \in 1 .. m \/ i - m \in 1 .. n
  <2>1. ASSUME NEW i \in 1 .. m PROVE i \in 1 .. m + n /\ c[i] = p[i]
    <3>1. i \in 1 .. m + n /\ i <= m
      BY <1>2
    <3> QED BY <1>2, <3>1
  <2>2. ASSUME NEW j \in 1 .. n PROVE m + j \in 1 .. m + n /\ c[m + j] = q[j]
    <3>1. m + j \in 1 .. m + n /\ ~(m + j <= m) /\ (m + j) - m = j
      BY <1>2
    <3> QED BY <1>2, <3>1
  <2>3. ASSUME NEW i \in 1 .. m + n PROVE i \in 1 .. m \/ i - m \in 1 .. n
    BY <1>2
  <2> QED BY <2>1, <2>2, <2>3
<1>4. Elements(c) = Elements(p) \cup Elements(q)
  <2>1. ASSUME NEW i \in 1 .. m + n
        PROVE  c[i] \in Elements(p) \cup Elements(q)
    <3>1. CASE i <= m
      <4>1. i \in DOMAIN p /\ c[i] = p[i]
        BY <1>2, <2>1, <3>1
      <4> QED BY <4>1 DEF Elements
    <3>2. CASE ~(i <= m)
      <4>1. i - m \in DOMAIN q /\ c[i] = q[i - m]
        BY <1>2, <2>1, <3>2
      <4> QED BY <4>1 DEF Elements
    <3> QED BY <3>1, <3>2
  <2>2. ASSUME NEW i \in 1 .. m
        PROVE  p[i] \in Elements(c)
    BY <1>2, <1>3 DEF Elements
  <2>3. ASSUME NEW j \in 1 .. n
        PROVE  q[j] \in Elements(c)
    BY <1>2, <1>3 DEF Elements
  <2> QED BY <1>2, <2>1, <2>2, <2>3 DEF Elements
<1>5. ASSUME Distinct(p), Distinct(q), Elements(p) \cap Elements(q) = {}
      PROVE  Distinct(c)
  <2> SUFFICES ASSUME NEW i \in 1 .. m + n, NEW j \in 1 .. m + n, c[i] = c[j]
               PROVE  i = j
    BY <1>2 DEF Distinct
  <2>1. CASE i <= m /\ j <= m
    BY <1>2, <1>5, <2>1 DEF Distinct
  <2>2. CASE ~(i <= m) /\ ~(j <= m)
    <3>1. i - m \in DOMAIN q /\ j - m \in DOMAIN q /\ q[i - m] = q[j - m]
      BY <1>2, <2>2
    <3>2. i - m = j - m
      BY <1>5, <3>1 DEF Distinct
    <3> QED BY <1>2, <3>2
  <2>3. CASE (i <= m /\ ~(j <= m)) \/ (~(i <= m) /\ j <= m)
    <3>1. \A h \in 1 .. m + n : h <= m => h \in DOMAIN p /\ c[h] \in Elements(p)
      <4> SUFFICES ASSUME NEW h \in 1 .. m + n, h <= m
                   PROVE  h \in DOMAIN p /\ c[h] = p[h]
        BY DEF Elements
      <4> QED BY <1>2
    <3>2. \A h \in 1 .. m + n : ~(h <= m) => h - m \in 1 .. n /\ c[h] \in Elements(q)
      <4> SUFFICES ASSUME NEW h \in 1 .. m + n, ~(h <= m)
                   PROVE  h - m \in 1 .. n /\ c[h] = q[h - m]
        BY <1>2 DEF Elements
      <4> QED BY <1>2
    <3> QED BY <1>5, <2>3, <3>1, <3>2
  <2> QED BY <2>1, <2>2, <2>3
<1> QED BY <1>1, <1>4, <1>5 DEF c

(* Two sequences of one member.                                                *)
LEMMA PairCat == ASSUME NEW S, NEW x \in S, NEW y \in S PROVE <<x>> \o <<y>> = <<x, y>>
<1> DEFINE c == <<x>> \o <<y>>
           d == <<x, y>>
<1>1. <<x>> \in Seq(S) /\ Len(<<x>>) = 1 /\ <<y>> \in Seq(S) /\ Len(<<y>>) = 1
  OBVIOUS
<1>2. c \in Seq(S) /\ Len(c) = 2 /\ c[1] = x /\ c[2] = y
  <2>1. c \in Seq(S) /\ Len(c) = 2
    BY <1>1, ConcatProperties
  <2>2. c[1] = x /\ c[2] = y
    BY <1>1, ConcatProperties
  <2> QED BY <2>1, <2>2
<1>3. d \in Seq(S) /\ Len(d) = 2 /\ d[1] = x /\ d[2] = y
  OBVIOUS
<1>4. \A i \in 1 .. 2 : c[i] = d[i]
  BY <1>2, <1>3
<1> HIDE DEF c, d
<1>5. c = d
  BY <1>2, <1>3, <1>4, SeqEqual
<1> QED BY <1>5 DEF c, d

(* A member added at the end.                                                  *)
LEMMA AppendFacts ==
  ASSUME NEW S, NEW q \in Seq(S), NEW x \in S
  PROVE  /\ Append(q, x) \in Seq(S)
         /\ Elements(Append(q, x)) = Elements(q) \cup {x}
         /\ Distinct(q) /\ x \notin Elements(q) => Distinct(Append(q, x))
<1>1. Append(q, x) = q \o <<x>>
  OBVIOUS
<1>2. <<x>> \in Seq(S) /\ Elements(<<x>>) = {x} /\ Distinct(<<x>>)
  BY ShortFacts
<1> DEFINE one == <<x>>
<1> HIDE DEF one
<1>3. /\ q \o one \in Seq(S) /\ Elements(q \o one) = Elements(q) \cup Elements(one)
      /\ Distinct(q) /\ Distinct(one) /\ Elements(q) \cap Elements(one) = {}
           => Distinct(q \o one)
  BY <1>2, CatFacts DEF one
<1> QED BY <1>1, <1>2, <1>3 DEF one

(* The first member of a sequence is taken from it.                            *)
LEMMA TailFacts ==
  ASSUME NEW S, NEW q \in Seq(S), q # <<>>
  PROVE  /\ Head(q) \in Elements(q) /\ Elements(q) \subseteq S
         /\ Tail(q) \in Seq(S)
         /\ Elements(Tail(q)) \subseteq Elements(q)
         /\ Distinct(q) => Distinct(Tail(q)) /\ Elements(Tail(q)) = Elements(q) \ {Head(q)}
<1>1. /\ Tail(q) \in Seq(S) /\ Len(q) \in Nat \ {0} /\ DOMAIN q = 1 .. Len(q)
      /\ DOMAIN Tail(q) = 1 .. Len(q) - 1 /\ Head(q) = q[1]
      /\ \A i \in 1 .. Len(q) - 1 : Tail(q)[i] = q[i + 1]
  OBVIOUS
<1>2. \A i \in 1 .. Len(q) - 1 : i + 1 \in DOMAIN q /\ i + 1 # 1
  BY <1>1
<1>3. \A i \in DOMAIN q : i = 1 \/ (i - 1 \in DOMAIN Tail(q) /\ q[i] = Tail(q)[i - 1])
  <2> SUFFICES ASSUME NEW i \in 1 .. Len(q), i # 1
               PROVE  i - 1 \in 1 .. Len(q) - 1 /\ (i - 1) + 1 = i
    BY <1>1
  <2> QED BY <1>1
<1>4. Elements(Tail(q)) \subseteq Elements(q) /\ 1 \in DOMAIN q
  BY <1>1, <1>2 DEF Elements
<1>5. ASSUME Distinct(q)
      PROVE  Distinct(Tail(q)) /\ Head(q) \notin Elements(Tail(q))
  <2>1. ASSUME NEW i \in 1 .. Len(q) - 1, NEW j \in 1 .. Len(q) - 1, Tail(q)[i] = Tail(q)[j]
        PROVE  i = j
    <3>1. i + 1 \in DOMAIN q /\ j + 1 \in DOMAIN q /\ q[i + 1] = q[j + 1]
      BY <1>1, <1>2, <2>1
    <3>2. i + 1 = j + 1
      BY <1>5, <3>1 DEF Distinct
    <3> QED BY <3>2
  <2>2. ASSUME NEW i \in 1 .. Len(q) - 1 PROVE Tail(q)[i] # Head(q)
    <3>1. i + 1 \in DOMAIN q /\ i + 1 # 1 /\ Tail(q)[i] = q[i + 1]
      BY <1>1, <1>2
    <3> QED BY <1>1, <1>4, <1>5, <3>1 DEF Distinct
  <2> QED BY <1>1, <2>1, <2>2 DEF Distinct, Elements
<1>6. Elements(q) \subseteq Elements(Tail(q)) \cup {Head(q)}
  BY <1>1, <1>3 DEF Elements
<1> QED BY <1>1, <1>4, <1>5, <1>6 DEF Elements

(* How many positions of a sequence have a member of M.                        *)
Positions(q, M) == {i \in DOMAIN q : q[i] \in M}
Count(q, M) == Cardinality(Positions(q, M))

(* It is a number, and 0 when no member is one of M.                           *)
LEMMA CountFacts ==
  ASSUME NEW S, NEW q \in Seq(S), NEW M
  PROVE  /\ IsFiniteSet(Positions(q, M)) /\ Count(q, M) \in Nat
         /\ Count(q, M) = 0 <=> Elements(q) \cap M = {}
<1>1. Len(q) \in Nat /\ DOMAIN q = 1 .. Len(q)
  OBVIOUS
<1>2. IsFiniteSet(1 .. Len(q))
  BY <1>1, FS_Interval
<1>3. IsFiniteSet(Positions(q, M))
  <2>1. Positions(q, M) \in SUBSET (1 .. Len(q))
    BY <1>1 DEF Positions
  <2> QED BY <1>2, <2>1, FS_Subset
<1>4. Count(q, M) \in Nat
  BY <1>3, FS_CardinalityType DEF Count
<1>5. Count(q, M) = 0 <=> Positions(q, M) = {}
  BY <1>3, FS_EmptySet DEF Count
<1>6. Positions(q, M) = {} <=> Elements(q) \cap M = {}
  BY DEF Positions, Elements
<1> QED BY <1>3, <1>4, <1>5, <1>6

(* A member added at the end counts for one.                                   *)
LEMMA CountAppend ==
  ASSUME NEW S, NEW q \in Seq(S), NEW x \in S, NEW M
  PROVE  Count(Append(q, x), M) = Count(q, M) + IF x \in M THEN 1 ELSE 0
<1> DEFINE n == Len(q) + 1
           p == Append(q, x)
<1>1. /\ n \in Nat \ {0} /\ DOMAIN q = 1 .. n - 1 /\ DOMAIN p = 1 .. n /\ p[n] = x
      /\ \A i \in 1 .. n - 1 : p[i] = q[i]
  OBVIOUS
<1> HIDE DEF n, p
<1>2. IsFiniteSet(Positions(q, M)) /\ Count(q, M) \in Nat
  BY CountFacts
<1>3. n \notin Positions(q, M)
  BY <1>1 DEF Positions
<1>4. Positions(p, M) = IF x \in M THEN Positions(q, M) \cup {n} ELSE Positions(q, M)
  <2>1. \A i \in 1 .. n : i = n \/ i \in 1 .. n - 1
    BY <1>1
  <2>2. n \in 1 .. n /\ \A i \in 1 .. n - 1 : i \in 1 .. n
    BY <1>1
  <2> QED BY <1>1, <2>1, <2>2 DEF Positions
<1>5. CASE x \in M
  <2>1. Positions(p, M) = Positions(q, M) \cup {n}
    BY <1>4, <1>5
  <2>2. Cardinality(Positions(q, M) \cup {n}) = Cardinality(Positions(q, M)) + 1
    BY <1>2, <1>3, FS_AddElement
  <2> QED BY <1>5, <2>1, <2>2 DEF Count, p
<1>6. CASE x \notin M
  BY <1>2, <1>4, <1>6 DEF Count, p
<1> QED BY <1>5, <1>6

(* The first one taken away counts for one.                                    *)
LEMMA CountTail ==
  ASSUME NEW S, NEW q \in Seq(S), q # <<>>, NEW M
  PROVE  Count(q, M) = Count(Tail(q), M) + IF Head(q) \in M THEN 1 ELSE 0
<1> DEFINE n == Len(q)
           t == Tail(q)
           A == Positions(t, M)
           B == Positions(q, M) \ {1}
           f == [i \in A |-> i + 1]
<1>1. /\ n \in Nat \ {0} /\ DOMAIN q = 1 .. n /\ DOMAIN t = 1 .. n - 1 /\ Head(q) = q[1]
      /\ \A i \in 1 .. n - 1 : t[i] = q[i + 1]
      /\ t \in Seq(S)
  OBVIOUS
<1> HIDE DEF n, t
<1>2. IsFiniteSet(Positions(q, M)) /\ IsFiniteSet(A)
  BY <1>1, CountFacts
<1>3. \A i \in A : i \in Nat /\ i + 1 \in B
  BY <1>1 DEF Positions
<1>4. \A j \in B : j - 1 \in A /\ (j - 1) + 1 = j
  <2> SUFFICES ASSUME NEW j \in B PROVE j - 1 \in A /\ (j - 1) + 1 = j
    OBVIOUS
  <2>1. j \in 1 .. n /\ j # 1 /\ q[j] \in M
    BY <1>1 DEF Positions
  <2>2. j - 1 \in 1 .. n - 1 /\ (j - 1) + 1 = j
    BY <1>1, <2>1
  <2>3. t[j - 1] = q[j]
    BY <1>1, <2>2
  <2> QED BY <1>1, <2>1, <2>2, <2>3 DEF Positions
<1>5. ExistsBijection(A, B)
  <2> HIDE DEF A, B
  <2>1. f \in [A -> B]
    BY <1>3
  <2>2. \A i, j \in A : f[i] = f[j] => i = j
    BY <1>3
  <2>3. \A j \in B : \E i \in A : f[i] = j
    BY <1>3, <1>4
  <2>4. f \in Bijection(A, B)
    <3> HIDE DEF f
    <3> QED BY <2>1, <2>2, <2>3 DEF Bijection, Injection, IsInjective, Surjection
  <2> QED BY <2>4 DEF ExistsBijection
<1>6. Cardinality(B) = Cardinality(A)
  <2> HIDE DEF A, B
  <2> QED BY <1>2, <1>5, FS_Bijection
<1>7. Cardinality(B) = IF 1 \in Positions(q, M) THEN Count(q, M) - 1 ELSE Count(q, M)
  BY <1>2, FS_RemoveElement DEF Count
<1>8. 1 \in Positions(q, M) <=> Head(q) \in M
  BY <1>1 DEF Positions
<1>9. Count(q, M) \in Nat /\ Cardinality(A) = Count(t, M)
  BY CountFacts DEF Count
<1> QED BY <1>6, <1>7, <1>8, <1>9 DEF t

--------------------------------------------------------------------------------
(* The i-th smallest of the used indexes exists: it is the least index up to   *)
(* which there are i used ones.                                                *)
LEMMA NthFacts ==
  ASSUME NEW n \in Nat, NEW used \in SUBSET (1 .. n),
         NEW i \in 1 .. Cardinality(used)
  PROVE  /\ Nth(used, i) \in used
         /\ Rank(used, Nth(used, i)) = i
<1> DEFINE upTo(j) == {h \in used : h <= j}
           T == {j \in 1 .. n : Cardinality(upTo(j)) >= i}
           Less == OpToRel(<, Nat)
<1>0. \A h \in used : h \in Nat /\ 1 <= h /\ h <= n
  OBVIOUS
<1>1. IsFiniteSet(used)
  <2>1. IsFiniteSet(1 .. n)
    BY FS_Interval
  <2> QED
    BY <2>1, FS_Subset
<1>2. \A j : IsFiniteSet(upTo(j)) /\ Cardinality(upTo(j)) \in Nat
  <2> TAKE j
  <2>1. upTo(j) \in SUBSET used
    OBVIOUS
  <2> HIDE DEF upTo
  <2> QED
    BY <1>1, <2>1, FS_Subset, FS_CardinalityType
<1>3. T # {}
  <2>1. upTo(n) = used
    BY <1>0
  <2>2. n \in 1 .. n
    <3>1. \E h : h \in used
      BY FS_EmptySet
    <3> QED
      BY <1>0, <3>1
  <2> QED
    BY <2>1, <2>2, <1>2
<1>4. PICK m \in T : \A j \in T : m <= j
  <2>1. T \subseteq Nat
    OBVIOUS
  <2>2. \E m \in T : \A j \in T : ~ (<<j, m>> \in Less)
    <3>1. IsWellFoundedOn(Less, Nat)
      BY NatLessThanWellFounded
    <3> HIDE DEF T, Less
    <3> QED
      BY <1>3, <2>1, <3>1, WFMin
  <2>3. PICK m \in T : \A j \in T : ~ (<<j, m>> \in Less)
    BY <2>2
  <2>4. \A j \in T : ~(j < m)
    BY <2>1, <2>3 DEF OpToRel
  <2>5. \A j \in T : m <= j
    BY <2>1, <2>4
  <2> QED
    BY <2>5
<1>5. m \in Nat /\ 1 <= m /\ m <= n /\ Cardinality(upTo(m)) >= i
  BY <1>4
<1>6. Cardinality(upTo(m - 1)) < i
  <2>1. CASE m = 1
    <3>1. upTo(m - 1) = {}
      <4>1. \A h \in used : ~(h <= m - 1)
        BY <1>0, <2>1
      <4> QED
        BY <4>1
    <3> HIDE DEF upTo
    <3> QED
      BY <3>1, FS_EmptySet
  <2>2. CASE m # 1
    <3>1. m - 1 \in 1 .. n /\ m - 1 < m
      BY <1>5, <2>2
    <3>2. m - 1 \notin T
      <4> HIDE DEF T
      <4> QED
        BY <1>4, <1>5, <3>1
    <3>3. ~(Cardinality(upTo(m - 1)) >= i)
      BY <3>1, <3>2
    <3> HIDE DEF upTo
    <3> QED
      BY <1>2, <3>3
  <2> QED
    BY <2>1, <2>2
<1>7. upTo(m) = upTo(m - 1) \cup (IF m \in used THEN {m} ELSE {})
  <2>1. \A h \in used : h <= m <=> h <= m - 1 \/ h = m
    BY <1>0, <1>5
  <2> QED
    BY <2>1
<1>8. m \notin upTo(m - 1)
  BY <1>0, <1>5
<1> HIDE DEF upTo
<1>9. m \in used
  <2>1. CASE m \notin used
    <3>1. upTo(m) = upTo(m - 1)
      BY <1>7, <2>1
    <3>2. Cardinality(upTo(m)) \in Nat
      BY <1>2
    <3> QED
      BY <1>5, <1>6, <3>1, <3>2
  <2> QED
    BY <2>1
<1>10. Cardinality(upTo(m)) = Cardinality(upTo(m - 1)) + 1
  BY <1>2, <1>7, <1>8, <1>9, FS_AddElement
<1>11. Cardinality(upTo(m)) = i
  BY <1>2, <1>5, <1>6, <1>10
<1> QED
  BY <1>9, <1>11 DEF Nth, Rank, upTo

(* Ranks of used indexes are numbers of the packed array, all different, the   *)
(* smaller the index the smaller the rank.                                     *)
LEMMA RankFacts ==
  ASSUME NEW n \in Nat, NEW used \in SUBSET (1 .. n)
  PROVE  /\ IsFiniteSet(used) /\ Cardinality(used) \in Nat
         /\ \A j \in used : Rank(used, j) \in 1 .. Cardinality(used)
         /\ \A i, j \in used : Rank(used, i) = Rank(used, j) => i = j
<1> DEFINE upTo(j) == {h \in used : h <= j}
<1>0. \A h \in used : h \in Nat /\ 1 <= h /\ h <= n
  OBVIOUS
<1>1. IsFiniteSet(used) /\ Cardinality(used) \in Nat
  <2>1. IsFiniteSet(1 .. n)
    BY FS_Interval
  <2> QED
    BY <2>1, FS_Subset, FS_CardinalityType
<1>2. \A j : /\ IsFiniteSet(upTo(j)) /\ Cardinality(upTo(j)) \in Nat
             /\ Cardinality(upTo(j)) <= Cardinality(used)
  <2> TAKE j
  <2>1. upTo(j) \in SUBSET used
    OBVIOUS
  <2> HIDE DEF upTo
  <2> QED
    BY <1>1, <2>1, FS_Subset, FS_CardinalityType
<1>3. \A j \in used : Cardinality(upTo(j)) >= 1
  <2> TAKE j \in used
  <2>1. j \in upTo(j)
    BY <1>0
  <2>2. upTo(j) # {}
    BY <2>1
  <2> HIDE DEF upTo
  <2>3. Cardinality(upTo(j)) # 0
    BY <1>2, <2>2, FS_EmptySet
  <2> QED
    BY <1>2, <2>3
<1>4. ASSUME NEW i \in used, NEW j \in used, i < j
      PROVE  Cardinality(upTo(i)) # Cardinality(upTo(j))
  <2>1. \A h \in used : h <= i => h <= j
    BY <1>0, <1>4
  <2>2. upTo(i) \in SUBSET upTo(j)
    BY <2>1
  <2>3. j \in upTo(j)
    BY <1>0
  <2>4. j \notin upTo(i)
    BY <1>0, <1>4
  <2> HIDE DEF upTo
  <2> QED
    BY <1>2, <2>2, <2>3, <2>4, FS_Subset
<1>5. \A i, j \in used : Cardinality(upTo(i)) = Cardinality(upTo(j)) => i = j
  <2> SUFFICES ASSUME NEW i \in used, NEW j \in used, i # j
               PROVE  Cardinality(upTo(i)) # Cardinality(upTo(j))
    OBVIOUS
  <2>1. i < j \/ j < i
    BY <1>0
  <2> HIDE DEF upTo
  <2> QED
    BY <1>4, <2>1
<1>6. \A j : Rank(used, j) = Cardinality(upTo(j))
  BY DEF Rank
<1> HIDE DEF upTo
<1> QED
  BY <1>1, <1>2, <1>3, <1>5, <1>6

(* Every used index has its place in the packed array.                         *)
LEMMA NthOfRank ==
  ASSUME NEW n \in Nat, NEW used \in SUBSET (1 .. n), NEW j \in used
  PROVE  Nth(used, Rank(used, j)) = j
<1>1. Rank(used, j) \in 1 .. Cardinality(used)
  BY RankFacts
<1>2. /\ Nth(used, Rank(used, j)) \in used
      /\ Rank(used, Nth(used, Rank(used, j))) = Rank(used, j)
  BY <1>1, NthFacts
<1> QED
  BY <1>2, RankFacts

(* Packing a list of elements of S: each entry is one that was used, no two    *)
(* are the same, and each that was used is there, at its rank.                 *)
LEMMA PickedFacts ==
  ASSUME NEW S, NEW list \in Seq(S), NEW used \in SUBSET DOMAIN list
  PROVE  /\ Picked(list, used) \in Seq(S)
         /\ Len(Picked(list, used)) = Cardinality(used)
         /\ DOMAIN Picked(list, used) = 1 .. Cardinality(used)
         /\ \A i \in DOMAIN Picked(list, used) :
              /\ Nth(used, i) \in used
              /\ Picked(list, used)[i] = list[Nth(used, i)]
         /\ \A i, j \in DOMAIN Picked(list, used) : Nth(used, i) = Nth(used, j) => i = j
         /\ \A j \in used : /\ Rank(used, j) \in DOMAIN Picked(list, used)
                             /\ Nth(used, Rank(used, j)) = j
                             /\ Picked(list, used)[Rank(used, j)] = list[j]
<1> DEFINE n == Len(list)
           count == Cardinality(used)
           packed == Picked(list, used)
<1>1. n \in Nat /\ DOMAIN list = 1 .. n /\ used \in SUBSET (1 .. n)
  OBVIOUS
<1>2. count \in Nat
  BY <1>1, RankFacts
<1>3. \A i \in 1 .. count : Nth(used, i) \in used /\ Rank(used, Nth(used, i)) = i
  BY <1>1, NthFacts
<1>4. \A j \in used : Rank(used, j) \in 1 .. count /\ Nth(used, Rank(used, j)) = j
  BY <1>1, RankFacts, NthOfRank
<1>5. packed = [i \in 1 .. count |-> list[Nth(used, i)]]
  BY DEF Picked
<1>6. packed \in [1 .. count -> S]
  <2>1. \A j \in used : list[j] \in S
    BY <1>1
  <2>2. \A i \in 1 .. count : list[Nth(used, i)] \in S
    BY <1>3, <2>1
  <2> HIDE DEF count, packed
  <2> QED
    BY <1>5, <2>2
<1> HIDE DEF n, count, packed
<1>7. packed \in Seq(S) /\ Len(packed) = count /\ DOMAIN packed = 1 .. count
  <2>1. packed \in Seq(S)
    BY <1>2, <1>6, SeqDef
  <2>2. DOMAIN packed = 1 .. count
    BY <1>6
  <2> QED
    BY <1>2, <2>1, <2>2
<1>8. \A i \in 1 .. count : packed[i] = list[Nth(used, i)]
  BY <1>5
<1>9. \A i, j \in 1 .. count : Nth(used, i) = Nth(used, j) => i = j
  BY <1>3
<1>10. \A j \in used : packed[Rank(used, j)] = list[j]
  BY <1>4, <1>8
<1> QED
  BY <1>3, <1>4, <1>7, <1>8, <1>9, <1>10 DEF packed, count
================================================================================
