-------------------------------- MODULE AnswersProofs --------------------------------
(*******************************************************************************)
(* Proofs about module Answers and the modules it is made of, for any records, *)
(* sizes of buffers and of writes, keys, rules and clock.                      *)
(*                                                                             *)
(* The stream.  What Decoded reads of the encoding of a record is the record,  *)
(* and no proper prefix of an encoding ends a record, so that bytes that are   *)
(* the encodings of records are so of one list of records only.  What is in    *)
(* the ring, in the pipe and in the input is such a list at every step         *)
(* (StreamInv), to which a put appends one and of which the reader takes the   *)
(* first.                                                                      *)
(*                                                                             *)
(* The dates.  The text of a duration is read again as a duration that is not  *)
(* greater and not 0.  An answer under way was written at this time or one     *)
(* tick before it (Fresh), which is so because the client waits for one answer *)
(* for each key (DatesInv).                                                    *)
(*                                                                             *)
(* The cache.  A put and a search leave the dates of the items as they were,   *)
(* but for the item that is put.                                               *)
(*******************************************************************************)
EXTENDS Answers, Lemmas

--------------------------------------------------------------------------------
(* Two functions that make the same steps from the same value are the same.    *)
SameSteps(f, g, n) ==
  f[0] = g[0] /\ \A i \in 1 .. n : f[i - 1] = g[i - 1] => f[i] = g[i]

(* By induction on the step.                                                   *)
LEMMA SameUpTo ==
  ASSUME NEW n \in Nat, NEW f, NEW g, SameSteps(f, g, n)
  PROVE  \A i \in 0 .. n : f[i] = g[i]
<1>0. f[0] = g[0] /\ \A i \in 1 .. n : f[i - 1] = g[i - 1] => f[i] = g[i]
  BY DEF SameSteps
<1> DEFINE S == {m \in Nat : m <= n => f[m] = g[m]}
<1>1. 0 \in S
  BY <1>0
<1>2. ASSUME NEW m \in Nat, m \in S PROVE m + 1 \in S
  <2> SUFFICES ASSUME m + 1 <= n PROVE f[m + 1] = g[m + 1]
    OBVIOUS
  <2>1. m + 1 \in 1 .. n /\ (m + 1) - 1 = m /\ f[m] = g[m]
    BY <1>2
  <2> QED BY <1>0, <2>1
<1>3. \A m \in Nat : m \in S
  <2> HIDE DEF S
  <2> QED BY <1>1, <1>2, SetInduction
<1> QED BY <1>3

(* Three sequences, grouped either way.                                        *)
Grouped(s, t, u) == (s \o t) \o u = s \o (t \o u)

(* Concatenation is associative.                                               *)
LEMMA CatAssoc ==
  \A S : \A s, t, u \in Seq(S) : Grouped(s, t, u)
<1> SUFFICES ASSUME NEW S, NEW s \in Seq(S), NEW t \in Seq(S), NEW u \in Seq(S)
             PROVE  (s \o t) \o u = s \o (t \o u)
  BY DEF Grouped
<1> QED BY ConcatAssociative

(* Sequences of sequences, one after the other.                                *)
LEMMA FlattenIs ==
  ASSUME NEW S, NEW ss \in Seq(Seq(S)), NEW f \in [0 .. Len(ss) -> Seq(S)],
         f[0] = <<>>, \A i \in 1 .. Len(ss) : f[i] = f[i - 1] \o ss[i]
  PROVE  FlattenSeq(ss) = f[Len(ss)]
<1> DEFINE n == Len(ss)
           Body(g) == [i \in 1 .. n |-> IF i = 1 THEN ss[i] ELSE g[i - 1] \o ss[i]]
           h == [i \in 1 .. n |-> f[i]]
           flatten == CHOOSE g : g = Body(g)
<1>1. n \in Nat
  OBVIOUS
<1>2. CASE n = 0
  <2>1. ss = <<>>
    BY <1>2
  <2> QED BY <1>2, <2>1 DEF FlattenSeq
<1>3. CASE n # 0
  <2>0. 1 \in 1 .. n /\ f[1] = ss[1]
    <3>1. 1 \in 1 .. n /\ 1 - 1 = 0
      BY <1>1, <1>3
    <3>2. f[1] = <<>> \o ss[1] /\ ss[1] \in Seq(S)
      BY <3>1, ElementOfSeq
    <3> QED BY <3>1, <3>2, ConcatEmptySeq
  <2>1. h = Body(h)
    <3> SUFFICES ASSUME NEW i \in 1 .. n PROVE f[i] = Body(h)[i]
      OBVIOUS
    <3>1. CASE i = 1
      BY <3>1, <2>0
    <3>2. CASE i # 1
      <4>1. i - 1 \in 1 .. n
        BY <3>2, <1>1
      <4> QED BY <3>2, <4>1
    <3> QED BY <3>1, <3>2
  <2>2. flatten = Body(flatten)
    <3> HIDE DEF Body, h
    <3> QED BY <2>1
  <2>3. FlattenSeq(ss) = flatten[n]
    BY <1>3 DEF FlattenSeq
  <2> HIDE DEF flatten
  <2> DEFINE T == {m \in Nat : m + 1 <= n => flatten[m + 1] = f[m + 1]}
  <2>4. 0 \in T
    <3>1. flatten[1] = ss[1]
      BY <2>0, <2>2
    <3> QED BY <2>0, <3>1
  <2>5. ASSUME NEW m \in Nat, m \in T PROVE m + 1 \in T
    <3> SUFFICES ASSUME m + 2 <= n PROVE flatten[m + 2] = f[m + 2]
      OBVIOUS
    <3>1. m + 2 \in 1 .. n /\ m + 2 # 1 /\ (m + 2) - 1 = m + 1 /\ m + 1 <= n
      BY <1>1
    <3>2. flatten[m + 2] = flatten[m + 1] \o ss[m + 2]
      BY <2>2, <3>1
    <3>3. f[m + 2] = f[m + 1] \o ss[m + 2]
      BY <3>1
    <3> QED BY <2>5, <3>1, <3>2, <3>3
  <2>6. n - 1 \in T
    <3> HIDE DEF T
    <3>1. n - 1 \in Nat
      BY <1>1, <1>3
    <3> QED BY <3>1, <2>4, <2>5, SetInduction
  <2> QED BY <1>1, <1>3, <2>3, <2>6
<1> QED BY <1>2, <1>3

(* The sequences so far.                                                       *)
IsFlat(f, S, ss) ==
  /\ f \in [0 .. Len(ss) -> Seq(S)]
  /\ f[0] = <<>>
  /\ \A i \in 1 .. Len(ss) : f[i] = f[i - 1] \o ss[i]

(* There is a function that flattens.                                          *)
LEMMA FlatExists ==
  ASSUME NEW S, NEW ss \in Seq(Seq(S))
  PROVE  \E f : IsFlat(f, S, ss)
<1> DEFINE n == Len(ss)
           D == Seq(S)
           base == <<>>
           step == [i \in 1 .. n |-> [d \in D |-> d \o ss[i]]]
<1>1. n \in Nat /\ base \in D
  OBVIOUS
<1>2. step \in [1 .. n -> [D -> D]]
  <2> SUFFICES ASSUME NEW i \in 1 .. n, NEW d \in D PROVE d \o ss[i] \in D
    OBVIOUS
  <2>1. ss[i] \in Seq(S)
    OBVIOUS
  <2> QED BY <2>1, ConcatProperties
<1>3. PICK f : Recursive(f, n, D, base, step)
  <2> HIDE DEF n, D, base, step
  <2> QED BY <1>1, <1>2, Recursion
<1>4. IsFlat(f, S, ss)
  <2>1. f \in [0 .. n -> D] /\ f[0] = <<>> /\ \A i \in 1 .. n : f[i] = step[i][f[i - 1]]
    BY <1>3 DEF Recursive
  <2>2. ASSUME NEW i \in 1 .. n PROVE f[i] = f[i - 1] \o ss[i]
    <3>1. i - 1 \in 0 .. n
      BY <1>1
    <3>2. f[i - 1] \in D
      BY <2>1, <3>1
    <3>3. step[i][f[i - 1]] = f[i - 1] \o ss[i]
      BY <3>2
    <3> QED BY <2>1, <3>3
  <2> QED BY <2>1, <2>2 DEF IsFlat
<1> QED BY <1>4

(* One sequence more, at the end or at the beginning.                          *)
LEMMA FlattenFacts ==
  ASSUME NEW S, NEW ss \in Seq(Seq(S)), NEW s \in Seq(S)
  PROVE  /\ FlattenSeq(ss) \in Seq(S)
         /\ FlattenSeq(<<>>) = <<>>
         /\ FlattenSeq(Append(ss, s)) = FlattenSeq(ss) \o s
         /\ FlattenSeq(<<s>> \o ss) = s \o FlattenSeq(ss)
<1> DEFINE n == Len(ss)
<1>0. n \in Nat /\ n \in 0 .. n
  OBVIOUS
<1>1. PICK f : IsFlat(f, S, ss)
  BY FlatExists
<1>a. /\ f \in [0 .. n -> Seq(S)] /\ f[0] = <<>>
      /\ \A i \in 1 .. n : f[i] = f[i - 1] \o ss[i]
  BY <1>1 DEF IsFlat
<1>2. FlattenSeq(ss) = f[n] /\ f[n] \in Seq(S)
  <2>1. f[n] \in Seq(S)
    BY <1>0, <1>a
  <2> QED BY <2>1, <1>a, FlattenIs
<1>3. FlattenSeq(<<>>) = <<>>
  BY DEF FlattenSeq
<1> HIDE DEF n
<1>4. FlattenSeq(Append(ss, s)) = FlattenSeq(ss) \o s
  <2> DEFINE p == Append(ss, s)
             g == [i \in 0 .. n + 1 |-> IF i = n + 1 THEN f[n] \o s ELSE f[i]]
  <2>1. p \in Seq(Seq(S)) /\ Len(p) = n + 1 /\ p[n + 1] = s /\ \A i \in 1 .. n : p[i] = ss[i]
    BY DEF n
  <2>2. f[n] \o s \in Seq(S)
    BY <1>2, ConcatProperties
  <2>i. \A i \in 0 .. n + 1 : i # n + 1 => i \in 0 .. n
    BY <1>0
  <2>3. g \in [0 .. n + 1 -> Seq(S)] /\ g[0] = <<>>
    <3>1. g \in [0 .. n + 1 -> Seq(S)]
      BY <1>a, <2>2, <2>i
    <3>2. 0 \in 0 .. n + 1 /\ 0 # n + 1
      BY <1>0
    <3> QED BY <1>a, <3>1, <3>2
  <2>4. ASSUME NEW i \in 1 .. n + 1 PROVE g[i] = g[i - 1] \o p[i]
    <3>0. i \in 0 .. n + 1 /\ i - 1 \in 0 .. n + 1 /\ i - 1 # n + 1 /\ (i # n + 1 => i \in 1 .. n)
      BY <1>0
    <3>a. g[i - 1] = f[i - 1]
      BY <3>0
    <3>1. CASE i = n + 1
      <4>1. i - 1 = n
        BY <1>0, <3>1
      <4> QED BY <2>1, <3>0, <3>1, <3>a, <4>1
    <3>2. CASE i # n + 1
      <4>1. g[i] = f[i] /\ f[i] = f[i - 1] \o ss[i] /\ p[i] = ss[i]
        BY <1>a, <2>1, <3>0, <3>2
      <4> QED BY <4>1, <3>a
    <3> QED BY <3>1, <3>2
  <2>5. FlattenSeq(p) = g[n + 1]
    <3> HIDE DEF p, g
    <3> QED BY <2>1, <2>3, <2>4, FlattenIs
  <2>6. g[n + 1] = f[n] \o s
    BY <1>0
  <2> QED BY <1>2, <2>5, <2>6
<1>5. FlattenSeq(<<s>> \o ss) = s \o FlattenSeq(ss)
  <2> DEFINE p == <<s>> \o ss
             g == [i \in 0 .. n + 1 |-> IF i = 0 THEN <<>> ELSE s \o f[i - 1]]
  <2>1. p \in Seq(Seq(S)) /\ Len(p) = n + 1 /\ p[1] = s /\ \A i \in 2 .. n + 1 : p[i] = ss[i - 1]
    <3>1. <<s>> \in Seq(Seq(S)) /\ Len(<<s>>) = 1 /\ <<s>>[1] = s
      OBVIOUS
    <3>2. /\ p \in Seq(Seq(S)) /\ Len(p) = 1 + n
          /\ \A i \in 1 .. 1 + n : p[i] = IF i <= 1 THEN <<s>>[i] ELSE ss[i - 1]
      BY <3>1, ConcatProperties DEF n
    <3> HIDE DEF p
    <3> QED BY <1>0, <3>1, <3>2
  <2>2. ASSUME NEW i \in 1 .. n + 1 PROVE i - 1 \in 0 .. n /\ f[i - 1] \in Seq(S) /\ s \o f[i - 1] \in Seq(S)
    <3>1. i - 1 \in 0 .. n
      BY <1>0
    <3>2. f[i - 1] \in Seq(S)
      BY <1>a, <3>1
    <3> QED BY <3>1, <3>2, ConcatProperties
  <2>3. g \in [0 .. n + 1 -> Seq(S)] /\ g[0] = <<>>
    <3>1. \A i \in 0 .. n + 1 : i # 0 => i \in 1 .. n + 1
      BY <1>0
    <3> QED BY <1>0, <2>2, <3>1
  <2>a. ASSUME NEW i \in 1 .. n + 1 PROVE g[i] = s \o f[i - 1]
    <3>1. i \in 0 .. n + 1 /\ i # 0
      BY <1>0
    <3> QED BY <3>1
  <2>4. ASSUME NEW i \in 1 .. n + 1 PROVE g[i] = g[i - 1] \o p[i]
    <3>1. CASE i = 1
      <4>1. g[1] = s \o f[0] /\ f[0] = <<>> /\ 1 - 1 = 0
        BY <1>0, <1>a, <2>a, <3>1
      <4>2. s \o <<>> = s /\ <<>> \o s = s
        OBVIOUS
      <4> HIDE DEF g, p
      <4> QED BY <2>1, <2>3, <3>1, <4>1, <4>2
    <3>2. CASE i # 1
      <4>1. i - 1 \in 1 .. n /\ i - 1 \in 1 .. n + 1 /\ i \in 2 .. n + 1 /\ i - 2 \in 0 .. n /\ (i - 1) - 1 = i - 2
        BY <1>0, <3>2
      <4>2. f[i - 1] = f[i - 2] \o ss[i - 1] /\ ss[i - 1] \in Seq(S) /\ f[i - 2] \in Seq(S)
        <5>1. f[i - 1] = f[(i - 1) - 1] \o ss[i - 1]
          BY <1>a, <4>1
        <5>2. ss[i - 1] \in Seq(S)
          BY <4>1 DEF n
        <5>3. f[i - 2] \in Seq(S)
          BY <1>a, <4>1
        <5> QED BY <4>1, <5>1, <5>2, <5>3
      <4>3. g[i] = s \o f[i - 1] /\ g[i - 1] = s \o f[i - 2]
        BY <4>1, <2>a
      <4>4. p[i] = ss[i - 1]
        BY <2>1, <4>1
      <4> HIDE DEF g, p
      <4>5. (s \o f[i - 2]) \o ss[i - 1] = s \o (f[i - 2] \o ss[i - 1])
        <5>1. Grouped(s, f[i - 2], ss[i - 1])
          BY <4>2, CatAssoc, Zenon
        <5> QED BY <5>1 DEF Grouped
      <4> QED BY <4>2, <4>3, <4>4, <4>5
    <3> QED BY <3>1, <3>2
  <2>5. FlattenSeq(p) = g[n + 1]
    <3> HIDE DEF p, g
    <3>1. g \in [0 .. Len(p) -> Seq(S)] /\ \A i \in 1 .. Len(p) : g[i] = g[i - 1] \o p[i]
      BY <2>1, <2>3, <2>4
    <3>2. p \in Seq(Seq(S)) /\ g[0] = <<>>
      BY <2>1, <2>3
    <3>3. FlattenSeq(p) = g[Len(p)]
      BY ONLY <3>1, <3>2, FlattenIs
    <3> QED BY <2>1, <3>3
  <2>6. g[n + 1] = s \o f[n]
    <3>1. n + 1 \in 1 .. n + 1 /\ (n + 1) - 1 = n
      BY <1>0
    <3> HIDE DEF g
    <3> QED BY <2>a, <3>1
  <2> QED BY <1>2, <2>5, <2>6
<1> QED BY <1>2, <1>3, <1>4, <1>5

--------------------------------------------------------------------------------
(* What a step makes, one after the other, of the elements of a sequence, from *)
(* a to z in A; "legal" are the arguments that it meets.                       *)
Steps(t, step, legal, s) ==
  \A i \in 1 .. Len(s) : <<t[i - 1], s[i]>> \in legal /\ t[i] = step[<<t[i - 1], s[i]>>]
Runs(step, legal, A, a, s, z) ==
  \E t \in [0 .. Len(s) -> A] : t[0] = a /\ t[Len(s)] = z /\ Steps(t, step, legal, s)

(* No byte is read, one byte, and two texts one after the other.               *)
LEMMA RunsNone ==
  ASSUME NEW step, NEW legal, NEW A, NEW a \in A
  PROVE  Runs(step, legal, A, a, <<>>, a)
<1> DEFINE t == [i \in 0 .. 0 |-> a]
<1>1. t \in [0 .. Len(<<>>) -> A] /\ t[0] = a /\ Steps(t, step, legal, <<>>) /\ Len(<<>>) = 0
  BY DEF Steps
<1> HIDE DEF t
<1> QED BY <1>1 DEF Runs

LEMMA RunsOne ==
  ASSUME NEW step, NEW legal, NEW A, NEW a \in A, NEW z \in A, NEW c,
         <<a, c>> \in legal, step[<<a, c>>] = z
  PROVE  Runs(step, legal, A, a, <<c>>, z)
<1> DEFINE t == [i \in 0 .. 1 |-> IF i = 0 THEN a ELSE z]
<1>1. Len(<<c>>) = 1 /\ <<c>>[1] = c
  OBVIOUS
<1>2. t \in [0 .. 1 -> A] /\ t[0] = a /\ t[1] = z
  OBVIOUS
<1> HIDE DEF t
<1>3. Steps(t, step, legal, <<c>>)
  <2> SUFFICES ASSUME NEW i \in 1 .. 1
               PROVE  <<t[i - 1], <<c>>[i]>> \in legal /\ t[i] = step[<<t[i - 1], <<c>>[i]>>]
    BY <1>1 DEF Steps
  <2>1. i = 1 /\ i - 1 = 0
    OBVIOUS
  <2> QED BY <1>1, <1>2, <2>1
<1> QED BY <1>1, <1>2, <1>3 DEF Runs

LEMMA RunsCat ==
  ASSUME NEW step, NEW legal, NEW A, NEW S, NEW a, NEW b, NEW c, NEW x \in Seq(S), NEW y \in Seq(S),
         Runs(step, legal, A, a, x, b), Runs(step, legal, A, b, y, c)
  PROVE  Runs(step, legal, A, a, x \o y, c)
<1> DEFINE m == Len(x)
           n == Len(y)
           Stepped(v, s, i) == <<v[i - 1], s[i]>> \in legal /\ v[i] = step[<<v[i - 1], s[i]>>]
<1>1. PICK t \in [0 .. m -> A] : t[0] = a /\ t[m] = b /\ Steps(t, step, legal, x)
  BY DEF Runs
<1>2. PICK u \in [0 .. n -> A] : u[0] = b /\ u[n] = c /\ Steps(u, step, legal, y)
  BY DEF Runs
<1>3. /\ m \in Nat /\ n \in Nat /\ Len(x \o y) = m + n
      /\ \A i \in 1 .. m + n : (x \o y)[i] = IF i <= m THEN x[i] ELSE y[i - m]
  OBVIOUS
<1>4. \A i \in 1 .. m : Stepped(t, x, i)
  BY <1>1 DEF Steps
<1>5. \A i \in 1 .. n : Stepped(u, y, i)
  BY <1>2 DEF Steps
<1> HIDE DEF m, n
<1> DEFINE w == [i \in 0 .. m + n |-> IF i <= m THEN t[i] ELSE u[i - m]]
<1>6. w \in [0 .. m + n -> A]
  <2> SUFFICES ASSUME NEW i \in 0 .. m + n PROVE (IF i <= m THEN t[i] ELSE u[i - m]) \in A
    OBVIOUS
  <2>1. (i <= m => i \in 0 .. m) /\ (~(i <= m) => i - m \in 0 .. n)
    BY <1>3
  <2> QED BY <1>1, <1>2, <2>1
<1>7. w[0] = a /\ w[m + n] = c
  <2>1. 0 \in 0 .. m + n /\ m + n \in 0 .. m + n /\ 0 <= m /\ (m + n) - m = n /\ (m + n <= m => n = 0)
    BY <1>3
  <2> QED BY <1>1, <1>2, <1>3, <2>1
<1>8. ASSUME NEW i \in 1 .. m + n PROVE Stepped(w, x \o y, i)
  <2>0. i \in 0 .. m + n /\ i - 1 \in 0 .. m + n
    BY <1>3
  <2>1. CASE i <= m
    <3>1. i \in 1 .. m /\ i - 1 <= m
      BY <1>3, <2>1
    <3>2. w[i] = t[i] /\ w[i - 1] = t[i - 1] /\ (x \o y)[i] = x[i]
      BY <1>3, <2>0, <2>1, <3>1
    <3> HIDE DEF w
    <3> QED BY <1>4, <3>1, <3>2
  <2>2. CASE ~(i <= m)
    <3>1. i - m \in 1 .. n /\ (i - 1) - m = (i - m) - 1
      BY <1>3, <2>2
    <3>2. w[i] = u[i - m] /\ (x \o y)[i] = y[i - m]
      BY <1>3, <2>0, <2>2, <3>1
    <3>3. w[i - 1] = u[(i - m) - 1]
      <4>1. CASE i - 1 <= m
        <5>1. i - 1 = m /\ (i - m) - 1 = 0
          BY <1>3, <2>2, <4>1
        <5> QED BY <1>1, <1>2, <2>0, <4>1, <5>1
      <4>2. CASE ~(i - 1 <= m)
        BY <2>0, <3>1, <4>2
      <4> QED BY <4>1, <4>2
    <3> HIDE DEF w
    <3>4. Stepped(u, y, i - m)
      BY <1>5, <3>1
    <3> QED BY <3>2, <3>3, <3>4
  <2> QED BY <2>1, <2>2
<1>9. Steps(w, step, legal, x \o y)
  <2> HIDE DEF w
  <2> QED BY <1>3, <1>8 DEF Steps
<1> HIDE DEF w
<1> QED BY <1>3, <1>6, <1>7, <1>9 DEF Runs

--------------------------------------------------------------------------------
(* The separators and the escape differ, and are bytes.                        *)
LEMMA CharFacts ==
  /\ FieldSep # RecordSep /\ FieldSep # Escape /\ RecordSep # Escape
  /\ Special = {FieldSep, RecordSep, Escape} /\ Special \subseteq Bytes /\ Chars \subseteq Bytes
  BY DEF FieldSep, RecordSep, Escape, Special, Bytes

(* What a character makes of what was read.                                    *)
LEMMA GetCharIs ==
  ASSUME NEW a \in Reading, NEW c \in Bytes
  PROVE  /\ GetChar[<<a, c>>] \in Reading
         /\ GetChar[<<a, c>>] =
              IF a.escape
              THEN [done |-> a.done, escape |-> FALSE,
                    field |-> a.field \o IF c \in Special THEN <<c>> ELSE <<Escape, c>>]
              ELSE IF c = FieldSep
              THEN [done |-> Append(a.done, a.field), field |-> <<>>, escape |-> FALSE]
              ELSE IF c = Escape THEN [a EXCEPT !.escape = TRUE]
              ELSE [a EXCEPT !.field = Append(a.field, c)]
<1>1. <<a, c>> \in Reading \X Bytes
  OBVIOUS
<1>2. GetChar[<<a, c>>] =
              IF a.escape
              THEN [done |-> a.done, escape |-> FALSE,
                    field |-> a.field \o IF c \in Special THEN <<c>> ELSE <<Escape, c>>]
              ELSE IF c = FieldSep
              THEN [done |-> Append(a.done, a.field), field |-> <<>>, escape |-> FALSE]
              ELSE IF c = Escape THEN [a EXCEPT !.escape = TRUE]
              ELSE [a EXCEPT !.field = Append(a.field, c)]
  <2> HIDE DEF Reading, Bytes
  <2> QED BY <1>1 DEF GetChar
<1>3. a.done \in Seq(Seq(Bytes)) /\ a.field \in Seq(Bytes) /\ a.escape \in BOOLEAN
  BY DEF Reading
<1>4. <<c>> \in Seq(Bytes) /\ <<Escape, c>> \in Seq(Bytes) /\ <<>> \in Seq(Bytes)
  BY CharFacts
<1>5. /\ a.field \o <<c>> \in Seq(Bytes) /\ a.field \o <<Escape, c>> \in Seq(Bytes)
      /\ Append(a.field, c) \in Seq(Bytes) /\ Append(a.done, a.field) \in Seq(Seq(Bytes))
  BY <1>3, <1>4
<1>6. GetChar[<<a, c>>] \in Reading
  <2>1. CASE a.escape
    BY <1>2, <1>3, <1>5, <2>1 DEF Reading
  <2>2. CASE ~a.escape /\ c = FieldSep
    BY <1>2, <1>4, <1>5, <2>2 DEF Reading
  <2>3. CASE ~a.escape /\ c # FieldSep
    BY <1>2, <1>5, <2>3 DEF Reading
  <2> QED BY <2>1, <2>2, <2>3
<1> QED BY <1>2, <1>6

(* A reading of bytes from a to z that meets no end of a record.               *)
Inside == {got \in Reading \X Bytes : got[2] = RecordSep => got[1].escape}
Leads(a, bytes, z) == Runs(GetChar, Inside, Reading, a, bytes, z)

(* The same for the reading of bytes inside of a record.                       *)
LEMMA LeadsNone ==
  ASSUME NEW a \in Reading
  PROVE  Leads(a, <<>>, a)
BY RunsNone DEF Leads

LEMMA LeadsOne ==
  ASSUME NEW a \in Reading, NEW c \in Bytes, c = RecordSep => a.escape
  PROVE  Leads(a, <<c>>, GetChar[<<a, c>>])
<1>1. GetChar[<<a, c>>] \in Reading
  BY GetCharIs
<1>2. <<a, c>> \in Inside
  BY DEF Inside
<1> QED BY <1>1, <1>2, RunsOne DEF Leads

LEMMA LeadsCat ==
  ASSUME NEW a, NEW b, NEW c, NEW x \in Seq(Bytes), NEW y \in Seq(Bytes),
         Leads(a, x, b), Leads(b, y, c)
  PROVE  Leads(a, x \o y, c)
BY RunsCat DEF Leads

LEMMA LeadsSteps ==
  ASSUME NEW a, NEW z, NEW s \in Seq(Bytes), Leads(a, s, z)
  PROVE  \E t \in [0 .. Len(s) -> Reading] :
           /\ t[0] = a /\ t[Len(s)] = z
           /\ \A i \in 1 .. Len(s) : /\ t[i] = GetChar[<<t[i - 1], s[i]>>]
                                     /\ s[i] = RecordSep => t[i - 1].escape
<1>1. PICK t \in [0 .. Len(s) -> Reading] : t[0] = a /\ t[Len(s)] = z /\ Steps(t, GetChar, Inside, s)
  BY DEF Leads, Runs
<1>2. ASSUME NEW i \in 1 .. Len(s)
      PROVE  t[i] = GetChar[<<t[i - 1], s[i]>>] /\ (s[i] = RecordSep => t[i - 1].escape)
  <2>1. <<t[i - 1], s[i]>> \in Inside /\ t[i] = GetChar[<<t[i - 1], s[i]>>]
    BY <1>1 DEF Steps
  <2> QED BY <2>1 DEF Inside
<1> QED BY <1>1, <1>2

--------------------------------------------------------------------------------
(* The first members of a sequence, and one more.                              *)
LEMMA FirstFacts ==
  ASSUME NEW S, NEW s \in Seq(S), NEW m \in Nat, m + 1 <= Len(s)
  PROVE  /\ SubSeq(s, 1, m) \in Seq(S) /\ Len(SubSeq(s, 1, m)) = m /\ s[m + 1] \in S
         /\ SubSeq(s, 1, m + 1) = Append(SubSeq(s, 1, m), s[m + 1])
<1>1. Len(s) \in Nat /\ m + 1 \in 1 .. Len(s)
  OBVIOUS
<1>2. SubSeq(s, 1, m) \in Seq(S) /\ Len(SubSeq(s, 1, m)) = m
  BY <1>1
<1>3. SubSeq(s, 1, m + 1) = Append(SubSeq(s, 1, m), s[m + 1])
  BY <1>1
<1> QED BY <1>1, <1>2, <1>3

(* The first members one after the other, and one more.                        *)
LEMMA FlattenFirst ==
  ASSUME NEW S, NEW ss \in Seq(Seq(S)), NEW m \in Nat, m + 1 <= Len(ss)
  PROVE  /\ FlattenSeq(SubSeq(ss, 1, m)) \in Seq(S) /\ ss[m + 1] \in Seq(S)
         /\ FlattenSeq(SubSeq(ss, 1, m + 1)) = FlattenSeq(SubSeq(ss, 1, m)) \o ss[m + 1]
<1> DEFINE p == SubSeq(ss, 1, m)
           q == ss[m + 1]
<1>1. Len(ss) \in Nat /\ m + 1 \in 1 .. Len(ss)
  OBVIOUS
<1>2. p \in Seq(Seq(S)) /\ q \in Seq(S)
  BY <1>1
<1>3. SubSeq(ss, 1, m + 1) = Append(p, q)
  BY <1>1
<1> HIDE DEF p, q
<1>4. FlattenSeq(p) \in Seq(S) /\ FlattenSeq(Append(p, q)) = FlattenSeq(p) \o q
  BY <1>2, FlattenFacts
<1>5. /\ FlattenSeq(p) \in Seq(S) /\ q \in Seq(S)
      /\ FlattenSeq(SubSeq(ss, 1, m + 1)) = FlattenSeq(p) \o q
  BY <1>2, <1>3, <1>4
<1> QED BY <1>5 DEF p, q

(* An escape and the byte that it escapes.                                     *)
LEMMA TwoBytes ==
  ASSUME NEW S, NEW x \in S, NEW y \in S
  PROVE  <<x>> \in Seq(S) /\ <<y>> \in Seq(S) /\ <<x>> \o <<y>> = <<x, y>>
<1>1. <<x>> \in Seq(S) /\ <<y>> \in Seq(S)
  OBVIOUS
<1> DEFINE p == <<x>> \o <<y>>
           q == <<x, y>>
<1>2. p \in Seq(S) /\ Len(p) = 2 /\ p[1] = x /\ p[2] = y
  BY <1>1
<1>3. q \in Seq(S) /\ Len(q) = 2 /\ q[1] = x /\ q[2] = y
  OBVIOUS
<1> HIDE DEF p, q
<1>4. \A i \in 1 .. 2 : i = 1 \/ i = 2
  OBVIOUS
<1>5. \A i \in 1 .. Len(p) : p[i] = q[i]
  BY <1>2, <1>3, <1>4
<1>6. p = q
  BY <1>2, <1>3, <1>5, SeqEqual
<1> QED BY <1>1, <1>6 DEF p, q

(* The first m characters of a field read: an escape that is held waits for    *)
(* the next character.                                                         *)
Held(f, m) == m >= 1 /\ f[m] = Escape /\ ~IsEscaped(f, m)
After(done, f, m) ==
  [done |-> done, field |-> SubSeq(f, 1, IF Held(f, m) THEN m - 1 ELSE m), escape |-> Held(f, m)]
Escaped(f) == [i \in DOMAIN f |-> IF IsEscaped(f, i) THEN <<Escape, f[i]>> ELSE <<f[i]>>]

(* What is written of a byte is one or two bytes.                              *)
LEMMA EscapedType ==
  ASSUME NEW f \in Seq(Bytes)
  PROVE  /\ Escaped(f) \in Seq(Seq(Bytes)) /\ Len(Escaped(f)) = Len(f)
         /\ EscapedField(f) = FlattenSeq(Escaped(f)) /\ EscapedField(f) \in Seq(Bytes)
<1>1. Len(f) \in Nat /\ DOMAIN f = 1 .. Len(f) /\ \A i \in 1 .. Len(f) : f[i] \in Bytes
  OBVIOUS
<1>2. \A i \in 1 .. Len(f) : <<Escape, f[i]>> \in Seq(Bytes) /\ <<f[i]>> \in Seq(Bytes)
  BY <1>1, CharFacts
<1>3. Escaped(f) \in [1 .. Len(f) -> Seq(Bytes)]
  BY <1>1, <1>2 DEF Escaped
<1>4. Escaped(f) \in Seq(Seq(Bytes)) /\ Len(Escaped(f)) = Len(f)
  BY <1>1, <1>3
<1>5. EscapedField(f) = FlattenSeq(Escaped(f))
  BY DEF EscapedField, Escaped
<1>6. FlattenSeq(Escaped(f)) \in Seq(Bytes)
  <2>1. <<>> \in Seq(Bytes)
    OBVIOUS
  <2> QED BY <1>4, <2>1, FlattenFacts
<1> QED BY <1>4, <1>5, <1>6

(* What is got after a part of a field is a reading.                           *)
LEMMA AfterType ==
  ASSUME NEW done \in Seq(Seq(Bytes)), NEW f \in Seq(Bytes), NEW m \in 0 .. Len(f)
  PROVE  /\ After(done, f, m) \in Reading
         /\ Held(f, m) => m >= 1 /\ m < Len(f) /\ f[m + 1] \notin Special
<1>1. Len(f) \in Nat /\ SubSeq(f, 1, m) \in Seq(Bytes) /\ SubSeq(f, 1, m - 1) \in Seq(Bytes)
  OBVIOUS
<1>2. Held(f, m) \in BOOLEAN
  BY DEF Held
<1>3. After(done, f, m) \in Reading
  BY <1>1, <1>2 DEF After, Reading
<1>4. Held(f, m) => m >= 1 /\ m < Len(f) /\ f[m + 1] \notin Special
  BY <1>1 DEF Held, IsEscaped
<1> QED BY <1>3, <1>4

(* Each unit of an encoded field is read as its character.                     *)
LEMMA UnitLeads ==
  ASSUME NEW done \in Seq(Seq(Bytes)), NEW f \in Seq(Bytes), NEW m \in Nat, m + 1 <= Len(f)
  PROVE  Leads(After(done, f, m), Escaped(f)[m + 1], After(done, f, m + 1))
<1> DEFINE a == After(done, f, m)
           c == f[m + 1]
<1>0. /\ Len(f) \in Nat /\ DOMAIN f = 1 .. Len(f) /\ m \in 0 .. Len(f) /\ m + 1 \in 0 .. Len(f)
      /\ m + 1 \in DOMAIN f /\ c \in Bytes /\ m + 1 >= 1 /\ (m + 1) - 1 = m
  OBVIOUS
<1>1. a \in Reading /\ a.escape = Held(f, m) /\ a.done = done
  BY <1>0, AfterType DEF After
<1>2. Escaped(f)[m + 1] = IF IsEscaped(f, m + 1) THEN <<Escape, c>> ELSE <<c>>
  BY <1>0 DEF Escaped
<1>3. SubSeq(f, 1, m + 1) = Append(SubSeq(f, 1, m), c)
  BY <1>0
<1>4. Held(f, m + 1) <=> c = Escape /\ ~IsEscaped(f, m + 1)
  BY <1>0 DEF Held
<1>4a. Held(f, m + 1) \in BOOLEAN /\ Held(f, m) \in BOOLEAN
  BY DEF Held
<1>5. CASE Held(f, m)
  <2>1. m >= 1 /\ c \notin Special /\ f[m] = Escape
    BY <1>0, <1>5, AfterType DEF Held
  <2>2. ~IsEscaped(f, m + 1) /\ ~Held(f, m + 1) /\ c # RecordSep
    BY <1>4, <2>1, CharFacts DEF IsEscaped
  <2>3. a.field = SubSeq(f, 1, m - 1)
    BY <1>5 DEF After
  <2>4. SubSeq(f, 1, m - 1) \o <<Escape, c>> = SubSeq(f, 1, m + 1)
    <3>1. SubSeq(f, 1, m) = SubSeq(f, 1, m - 1) \o <<Escape>>
      BY <1>0, <2>1
    <3>2. SubSeq(f, 1, m - 1) \in Seq(Bytes) /\ <<Escape>> \in Seq(Bytes)
      BY <1>0, CharFacts
    <3>3. \A g \in Seq(Bytes) : Append(g \o <<Escape>>, c) = g \o <<Escape, c>>
      BY <1>0, CharFacts
    <3> QED BY <1>3, <3>1, <3>2, <3>3
  <2>5. GetChar[<<a, c>>] = After(done, f, m + 1)
    <3>1. GetChar[<<a, c>>] = [done |-> done, escape |-> FALSE, field |-> SubSeq(f, 1, m + 1)]
      <4> HIDE DEF a, c
      <4>1. GetChar[<<a, c>>] = [done |-> a.done, escape |-> FALSE, field |-> a.field \o <<Escape, c>>]
        BY <1>0, <1>1, <1>5, <2>1, GetCharIs
      <4> QED BY <1>1, <2>3, <2>4, <4>1
    <3>2. Held(f, m + 1) = FALSE
      BY <2>2
    <3>3. After(done, f, m + 1) = [done |-> done, field |-> SubSeq(f, 1, m + 1), escape |-> FALSE]
      BY <3>2 DEF After
    <3> HIDE DEF a, c
    <3> QED BY <3>1, <3>3
  <2> HIDE DEF a, c
  <2>6. Leads(a, <<c>>, GetChar[<<a, c>>])
    BY <1>0, <1>1, <2>2, LeadsOne
  <2> QED BY <1>2, <2>2, <2>5, <2>6 DEF a
<1>6. CASE ~Held(f, m)
  <2>1. a.field = SubSeq(f, 1, m) /\ ~a.escape
    BY <1>1, <1>6 DEF After
  <2>a. SubSeq(f, 1, m) \in Seq(Bytes)
    BY <1>0
  <2>b. Append(SubSeq(f, 1, m), c) = SubSeq(f, 1, m) \o <<c>>
    BY <1>0, <2>a
  <2>2. CASE IsEscaped(f, m + 1)
    <3> DEFINE b == [done |-> done, field |-> SubSeq(f, 1, m), escape |-> TRUE]
    <3>1. b \in Reading /\ Escape \in Bytes
      BY <2>a, CharFacts DEF Reading
    <3>2. GetChar[<<a, Escape>>] = b
      <4>1. GetChar[<<a, Escape>>] = [a EXCEPT !.escape = TRUE]
        BY <1>1, <2>1, <3>1, CharFacts, GetCharIs
      <4>2. a = [done |-> done, field |-> SubSeq(f, 1, m), escape |-> FALSE]
        BY <1>4a, <1>6 DEF After
      <4> HIDE DEF a
      <4> QED BY <4>1, <4>2
    <3>3. c \in Special /\ ~Held(f, m + 1)
      BY <1>4, <2>2, CharFacts DEF IsEscaped
    <3>4. GetChar[<<b, c>>] = After(done, f, m + 1)
      <4>1. b.escape /\ b.done = done /\ b.field = SubSeq(f, 1, m)
        OBVIOUS
      <4> HIDE DEF b
      <4>2. GetChar[<<b, c>>] = [done |-> done, escape |-> FALSE, field |-> SubSeq(f, 1, m) \o <<c>>]
        BY <1>0, <3>1, <3>3, <4>1, GetCharIs
      <4>3. Held(f, m + 1) = FALSE
        BY <3>3
      <4>4. After(done, f, m + 1) = [done |-> done, field |-> SubSeq(f, 1, m + 1), escape |-> FALSE]
        BY <4>3 DEF After
      <4> HIDE DEF c
      <4> QED BY <1>3, <2>b, <4>2, <4>4
    <3>5. b.escape
      OBVIOUS
    <3> HIDE DEF a, b, c
    <3>6. Leads(a, <<Escape>>, b)
      BY <1>1, <3>1, <3>2, LeadsOne, CharFacts
    <3>7. Leads(b, <<c>>, After(done, f, m + 1))
      BY <1>0, <3>1, <3>4, <3>5, LeadsOne
    <3>8. <<Escape>> \in Seq(Bytes) /\ <<c>> \in Seq(Bytes) /\ <<Escape>> \o <<c>> = <<Escape, c>>
      BY <1>0, <3>1, TwoBytes
    <3>9. Leads(a, <<Escape>> \o <<c>>, After(done, f, m + 1))
      BY <3>6, <3>7, <3>8, LeadsCat
    <3> QED BY <1>2, <2>2, <3>8, <3>9 DEF a
  <2>3. CASE ~IsEscaped(f, m + 1)
    <3>1. c # FieldSep /\ c # RecordSep
      BY <2>3 DEF IsEscaped
    <3>2. GetChar[<<a, c>>] = After(done, f, m + 1)
      <4>0. a = [done |-> done, field |-> SubSeq(f, 1, m), escape |-> FALSE]
        BY <1>4a, <1>6 DEF After
      <4>1. CASE c = Escape
        <5>1. GetChar[<<a, c>>] = [a EXCEPT !.escape = TRUE]
          BY <1>0, <1>1, <2>1, <3>1, <4>1, GetCharIs
        <5>2. Held(f, m + 1) = TRUE
          BY <1>4, <1>4a, <2>3, <4>1
        <5> HIDE DEF a, c
        <5>3. After(done, f, m + 1) = [done |-> done, field |-> SubSeq(f, 1, m), escape |-> TRUE]
          BY <1>0, <5>2 DEF After
        <5> QED BY <4>0, <5>1, <5>3
      <4>2. CASE c # Escape
        <5>1. GetChar[<<a, c>>] = [a EXCEPT !.field = Append(a.field, c)]
          BY <1>0, <1>1, <2>1, <3>1, <4>2, GetCharIs
        <5>2. Held(f, m + 1) = FALSE
          BY <1>4, <1>4a, <4>2
        <5> HIDE DEF a, c
        <5>3. After(done, f, m + 1) = [done |-> done, field |-> Append(SubSeq(f, 1, m), c), escape |-> FALSE]
          BY <1>3, <5>2 DEF After
        <5> QED BY <4>0, <5>1, <5>3
      <4> QED BY <4>1, <4>2
    <3> HIDE DEF a, c
    <3>3. Leads(a, <<c>>, GetChar[<<a, c>>])
      BY <1>0, <1>1, <3>1, LeadsOne
    <3> QED BY <1>2, <2>3, <3>2, <3>3 DEF a
  <2> QED BY <2>2, <2>3
<1> QED BY <1>5, <1>6

(* An encoded field is read as the field.                                      *)
LEMMA FieldLeads ==
  ASSUME NEW done \in Seq(Seq(Bytes)), NEW f \in Seq(Bytes)
  PROVE  Leads([done |-> done, field |-> <<>>, escape |-> FALSE], EscapedField(f),
               [done |-> done, field |-> f, escape |-> FALSE])
<1> DEFINE n == Len(f)
           u == Escaped(f)
           S == {m \in Nat : m <= n =>
                   Leads(After(done, f, 0), FlattenSeq(SubSeq(u, 1, m)), After(done, f, m))}
<1>1. n \in Nat /\ u \in Seq(Seq(Bytes)) /\ Len(u) = n
  BY EscapedType
<1>2. After(done, f, 0) = [done |-> done, field |-> <<>>, escape |-> FALSE]
  <2>1. Held(f, 0) = FALSE /\ SubSeq(f, 1, 0) = <<>>
    BY DEF Held
  <2> QED BY <2>1 DEF After
<1>3. After(done, f, n) = [done |-> done, field |-> f, escape |-> FALSE]
  <2>1. Held(f, n) = FALSE /\ SubSeq(f, 1, n) = f
    BY DEF Held, IsEscaped
  <2> QED BY <2>1 DEF After
<1> HIDE DEF u
<1>4. 0 \in S
  <2>1. SubSeq(u, 1, 0) = <<>> /\ FlattenSeq(<<>>) = <<>>
    BY <1>1 DEF FlattenSeq
  <2>2. After(done, f, 0) \in Reading
    BY <1>1, AfterType
  <2> QED BY <2>1, <2>2, LeadsNone
<1>5. ASSUME NEW m \in Nat, m \in S PROVE m + 1 \in S
  <2> SUFFICES ASSUME m + 1 <= n
               PROVE  Leads(After(done, f, 0), FlattenSeq(SubSeq(u, 1, m + 1)), After(done, f, m + 1))
    OBVIOUS
  <2>1. Leads(After(done, f, 0), FlattenSeq(SubSeq(u, 1, m)), After(done, f, m))
    BY <1>1, <1>5
  <2>2. Leads(After(done, f, m), u[m + 1], After(done, f, m + 1))
    BY UnitLeads DEF u
  <2> HIDE DEF S, n
  <2>3. /\ FlattenSeq(SubSeq(u, 1, m)) \in Seq(Bytes) /\ u[m + 1] \in Seq(Bytes)
        /\ FlattenSeq(SubSeq(u, 1, m + 1)) = FlattenSeq(SubSeq(u, 1, m)) \o u[m + 1]
    BY <1>1, FlattenFirst
  <2> QED BY <2>1, <2>2, <2>3, LeadsCat
<1>6. n \in S
  <2> HIDE DEF S
  <2> QED BY <1>1, <1>4, <1>5, SetInduction
<1>7. SubSeq(u, 1, n) = u
  BY <1>1
<1> HIDE DEF n
<1>8. Leads(After(done, f, 0), FlattenSeq(u), After(done, f, n))
  <2>1. Leads(After(done, f, 0), FlattenSeq(SubSeq(u, 1, n)), After(done, f, n))
    BY <1>1, <1>6
  <2> HIDE DEF S
  <2> QED BY <2>1, <1>7
<1>9. FlattenSeq(u) = EscapedField(f)
  BY EscapedType DEF u
<1> QED BY <1>2, <1>3, <1>8, <1>9

--------------------------------------------------------------------------------
(* What precedes the end of an encoded record.                                 *)
Begin == [done |-> <<>>, field |-> <<>>, escape |-> FALSE]
Pieces(r) == [i \in 1 .. Len(r) - 1 |-> <<FieldSep>> \o EscapedField(r[i + 1])]
Body(r) == EscapedField(r[1]) \o FlattenSeq(Pieces(r))

(* A record has one field at least, and the first is not empty.                *)
LEMMA RecordType ==
  ASSUME NEW r \in Records
  PROVE  /\ r \in Seq(Seq(Bytes)) /\ Len(r) \in Nat \ {0} /\ Len(r) <= MaxFields /\ r[1] # <<>>
         /\ r # NoFields
<1>1. r \in Seq(Seq(Chars)) /\ r # <<>> /\ Head(r) # <<>> /\ Len(r) <= MaxFields /\ NoFields \notin Records
  BY RecordsAssumption
<1>2. Seq(Chars) \subseteq Seq(Bytes)
  BY CharFacts, SeqMonotonic
<1>3. r \in Seq(Seq(Bytes))
  BY <1>1, <1>2, SeqMonotonic
<1> QED BY <1>1, <1>3

(* The bytes of the record, without the separator at the end.                  *)
LEMMA BodyType ==
  ASSUME NEW r \in Records
  PROVE  /\ Pieces(r) \in Seq(Seq(Bytes)) /\ Len(Pieces(r)) = Len(r) - 1
         /\ EscapedField(r[1]) \in Seq(Bytes) /\ FlattenSeq(Pieces(r)) \in Seq(Bytes)
         /\ Body(r) \in Seq(Bytes)
         /\ Encoding[r] = Body(r) \o <<RecordSep>>
         /\ <<RecordSep>> \in Seq(Bytes) /\ <<FieldSep>> \in Seq(Bytes)
<1>1. r \in Seq(Seq(Bytes)) /\ Len(r) \in Nat \ {0} /\ \A i \in 1 .. Len(r) : r[i] \in Seq(Bytes)
  BY RecordType
<1>2. <<RecordSep>> \in Seq(Bytes) /\ <<FieldSep>> \in Seq(Bytes) /\ <<>> \in Seq(Bytes)
  BY CharFacts
<1>3. ASSUME NEW i \in 1 .. Len(r) - 1 PROVE <<FieldSep>> \o EscapedField(r[i + 1]) \in Seq(Bytes)
  <2>1. i + 1 \in 1 .. Len(r)
    BY <1>1
  <2>2. EscapedField(r[i + 1]) \in Seq(Bytes)
    BY <1>1, <2>1, EscapedType
  <2> QED BY <1>2, <2>2, ConcatProperties
<1>4. Pieces(r) \in [1 .. Len(r) - 1 -> Seq(Bytes)]
  BY <1>3 DEF Pieces
<1>5. Pieces(r) \in Seq(Seq(Bytes)) /\ Len(Pieces(r)) = Len(r) - 1
  <2>1. Len(r) - 1 \in Nat
    BY <1>1
  <2> QED BY <1>4, <2>1
<1>6. EscapedField(r[1]) \in Seq(Bytes)
  <2>1. 1 \in 1 .. Len(r)
    BY <1>1
  <2> QED BY <1>1, <2>1, EscapedType
<1>7. FlattenSeq(Pieces(r)) \in Seq(Bytes)
  BY <1>2, <1>5, FlattenFacts
<1>8. Body(r) \in Seq(Bytes)
  BY <1>6, <1>7, ConcatProperties DEF Body
<1>9. Encoding[r] = Body(r) \o <<RecordSep>>
  BY DEF Encoding, Body, Pieces
<1> QED BY <1>2, <1>5, <1>6, <1>7, <1>8, <1>9

(* It is read as the record, and meets no end.                                 *)
LEMMA RecordLeads ==
  ASSUME NEW r \in Records
  PROVE  Leads(Begin, Body(r), [done |-> SubSeq(r, 1, Len(r) - 1), field |-> r[Len(r)], escape |-> FALSE])
<1> DEFINE n == Len(r)
           p == Pieces(r)
           e == EscapedField(r[1])
           At1(m) == [done |-> SubSeq(r, 1, m), field |-> r[m + 1], escape |-> FALSE]
           So(m) == e \o FlattenSeq(SubSeq(p, 1, m))
           S == {m \in Nat : m <= n - 1 => Leads(Begin, So(m), At1(m))}
<1>1. r \in Seq(Seq(Bytes)) /\ n \in Nat \ {0} /\ \A i \in 1 .. n : r[i] \in Seq(Bytes)
  BY RecordType
<1>2. p \in Seq(Seq(Bytes)) /\ Len(p) = n - 1 /\ e \in Seq(Bytes) /\ <<FieldSep>> \in Seq(Bytes)
  BY BodyType
<1>3. \A i \in 1 .. n - 1 : p[i] = <<FieldSep>> \o EscapedField(r[i + 1])
  BY DEF Pieces
<1>4. Leads(Begin, e, At1(0))
  <2>1. 1 \in 1 .. n /\ SubSeq(r, 1, 0) = <<>> /\ <<>> \in Seq(Seq(Bytes))
    BY <1>1
  <2>2. Leads([done |-> <<>>, field |-> <<>>, escape |-> FALSE], EscapedField(r[1]),
               [done |-> <<>>, field |-> r[1], escape |-> FALSE])
    BY <1>1, <2>1, FieldLeads
  <2>3. At1(0) = [done |-> <<>>, field |-> r[1], escape |-> FALSE]
    <3>1. SubSeq(r, 1, 0) = <<>> /\ 0 + 1 = 1
      BY <2>1
    <3> QED BY <3>1, Zenon
  <2> HIDE DEF At1
  <2> QED BY <2>2, <2>3 DEF Begin
<1> HIDE DEF p, e
<1>5. 0 \in S
  <2>1. SubSeq(p, 1, 0) = <<>> /\ FlattenSeq(<<>>) = <<>>
    BY <1>2 DEF FlattenSeq
  <2>2. e \o <<>> = e
    BY <1>2
  <2> HIDE DEF At1
  <2>3. So(0) = e
    BY <2>1, <2>2
  <2> HIDE DEF So
  <2> QED BY <1>4, <2>3
<1>6. ASSUME NEW m \in Nat, m \in S PROVE m + 1 \in S
  <2> SUFFICES ASSUME m + 1 <= n - 1 PROVE Leads(Begin, So(m + 1), At1(m + 1))
    BY DEF S
  <2>1. Leads(Begin, So(m), At1(m))
    BY <1>1, <1>6
  <2>2. m + 1 \in 1 .. n - 1 /\ m + 1 \in 1 .. n /\ m + 2 \in 1 .. n /\ m + 1 <= Len(p) /\ (m + 1) + 1 = m + 2
    BY <1>1, <1>2
  <2> HIDE DEF S, n
  <2>3. /\ FlattenSeq(SubSeq(p, 1, m)) \in Seq(Bytes) /\ p[m + 1] \in Seq(Bytes)
        /\ FlattenSeq(SubSeq(p, 1, m + 1)) = FlattenSeq(SubSeq(p, 1, m)) \o p[m + 1]
    BY <1>2, <2>2, FlattenFirst
  <2>4. So(m) \in Seq(Bytes) /\ So(m + 1) = So(m) \o p[m + 1]
    <3> DEFINE q == FlattenSeq(SubSeq(p, 1, m))
    <3>1. So(m + 1) = e \o (q \o p[m + 1])
      BY <2>3
    <3>2. q \in Seq(Bytes) /\ p[m + 1] \in Seq(Bytes)
      BY <2>3
    <3>3. So(m) = e \o q
      OBVIOUS
    <3> DEFINE d == p[m + 1]
    <3>a. q \in Seq(Bytes) /\ d \in Seq(Bytes)
      BY <3>2
    <3> HIDE DEF q, d, So
    <3>b. e \o q \in Seq(Bytes)
      BY <1>2, <3>a, ConcatProperties
    <3>c. Grouped(e, q, d)
      BY <1>2, <3>a, CatAssoc, Zenon
    <3>4. e \o q \in Seq(Bytes) /\ (e \o q) \o p[m + 1] = e \o (q \o p[m + 1])
      BY <3>b, <3>c DEF Grouped, d
    <3> QED BY <3>1, <3>3, <3>4
  <2>5. Leads(At1(m), <<FieldSep>>, [done |-> SubSeq(r, 1, m + 1), field |-> <<>>, escape |-> FALSE])
    <3>1. SubSeq(r, 1, m) \in Seq(Seq(Bytes)) /\ r[m + 1] \in Seq(Bytes)
      BY <1>1, <2>2 DEF n
    <3>2. At1(m) \in Reading
      BY <3>1 DEF Reading
    <3>3. SubSeq(r, 1, m + 1) = Append(SubSeq(r, 1, m), r[m + 1])
      BY <1>1, <2>2 DEF n
    <3>a. At1(m).done = SubSeq(r, 1, m) /\ At1(m).field = r[m + 1] /\ At1(m).escape = FALSE
      OBVIOUS
    <3> HIDE DEF At1
    <3>4. GetChar[<<At1(m), FieldSep>>] =
            [done |-> Append(At1(m).done, At1(m).field), field |-> <<>>, escape |-> FALSE]
      BY <3>2, <3>a, GetCharIs, CharFacts
    <3>5. Leads(At1(m), <<FieldSep>>, GetChar[<<At1(m), FieldSep>>])
      <4>1. FieldSep \in Bytes /\ FieldSep # RecordSep
        BY CharFacts
      <4> QED BY <3>2, <4>1, LeadsOne
    <3> QED BY <3>3, <3>a, <3>4, <3>5
  <2>6. Leads([done |-> SubSeq(r, 1, m + 1), field |-> <<>>, escape |-> FALSE], EscapedField(r[m + 2]), At1(m + 1))
    <3>1. SubSeq(r, 1, m + 1) \in Seq(Seq(Bytes)) /\ r[m + 2] \in Seq(Bytes)
      BY <1>1, <2>2 DEF n
    <3> QED BY <2>2, <3>1, FieldLeads
  <2>7. p[m + 1] = <<FieldSep>> \o EscapedField(r[m + 2]) /\ EscapedField(r[m + 2]) \in Seq(Bytes)
    BY <1>1, <1>3, <2>2, EscapedType
  <2> HIDE DEF At1, So
  <2>8. Leads(At1(m), p[m + 1], At1(m + 1))
    BY <1>2, <2>5, <2>6, <2>7, LeadsCat
  <2> QED BY <2>1, <2>3, <2>4, <2>8, LeadsCat
<1>7. n - 1 \in S
  <2>1. n - 1 \in Nat
    BY <1>1
  <2> HIDE DEF S
  <2> QED BY <2>1, <1>5, <1>6, SetInduction
<1>8. SubSeq(p, 1, n - 1) = p /\ (n - 1) + 1 = n
  BY <1>1, <1>2
<1>9. Leads(Begin, So(n - 1), At1(n - 1))
  BY <1>1, <1>7
<1>10. So(n - 1) = Body(r)
  BY <1>8 DEF Body, p, e
<1>11. At1(n - 1) = [done |-> SubSeq(r, 1, n - 1), field |-> r[n], escape |-> FALSE]
  BY <1>8
<1> HIDE DEF So, At1
<1> QED BY <1>9, <1>10, <1>11

(* Decoding is reading from the beginning.                                     *)
LEMMA DecodedIs ==
  ASSUME NEW bytes \in Seq(Bytes), NEW z, Leads(Begin, bytes, z)
  PROVE  Decoded(bytes) = GotFields(z)
<1> DEFINE n == Len(bytes)
           Next(f) == [i \in 0 .. n |-> IF i = 0 THEN Begin ELSE GetChar[<<f[i - 1], bytes[i]>>]]
           read == CHOOSE f : f = Next(f)
<1>1. n \in Nat
  OBVIOUS
<1>2. PICK t \in [0 .. n -> Reading] :
          /\ t[0] = Begin /\ t[n] = z
          /\ \A i \in 1 .. n : /\ t[i] = GetChar[<<t[i - 1], bytes[i]>>]
                               /\ bytes[i] = RecordSep => t[i - 1].escape
  BY LeadsSteps
<1>3. \A i \in 1 .. n : t[i] = GetChar[<<t[i - 1], bytes[i]>>]
  BY <1>2
<1> HIDE DEF n
<1>4. t = Next(t)
  <2> SUFFICES ASSUME NEW i \in 0 .. n PROVE t[i] = Next(t)[i]
    BY <1>2
  <2>1. CASE i = 0
    BY <1>2, <2>1
  <2>2. CASE i # 0
    <3>1. i \in 1 .. n
      BY <1>1, <2>2
    <3> QED BY <1>3, <2>2, <3>1
  <2> QED BY <2>1, <2>2
<1>5. read = Next(read)
  <2> HIDE DEF Next
  <2> QED BY <1>4
<1> HIDE DEF read
<1>6. read[0] = t[0]
  BY <1>1, <1>2, <1>5
<1>7. \A i \in 1 .. n : read[i - 1] = t[i - 1] => read[i] = t[i]
  <2> SUFFICES ASSUME NEW i \in 1 .. n, read[i - 1] = t[i - 1] PROVE read[i] = t[i]
    OBVIOUS
  <2>1. i \in 0 .. n /\ i # 0
    BY <1>1
  <2>2. read[i] = GetChar[<<read[i - 1], bytes[i]>>]
    BY <1>5, <2>1
  <2> HIDE DEF Next
  <2> QED BY <1>3, <2>2
<1>8. read[n] = z
  <2>1. SameSteps(read, t, n)
    BY <1>6, <1>7 DEF SameSteps
  <2>2. \A i \in 0 .. n : read[i] = t[i]
    BY <1>1, <2>1, SameUpTo
  <2> QED BY <1>1, <1>2, <2>2
<1>9. Decoded(bytes) = GotFields(read[n])
  BY DEF Decoded, read, n, Begin
<1> QED BY <1>8, <1>9

(* The least of two integers.                                                  *)
LEMMA MinFacts ==
  ASSUME NEW a \in Int, NEW b \in Int
  PROVE  Min({a, b}) = IF a <= b THEN a ELSE b
<1> DEFINE m == IF a <= b THEN a ELSE b
<1>1. m \in {a, b} /\ \A y \in {a, b} : m =< y
  OBVIOUS
<1>2. \A x \in {a, b} : (\A y \in {a, b} : x =< y) => x = m
  OBVIOUS
<1> HIDE DEF m
<1>3. Min({a, b}) = m
  BY <1>1, <1>2 DEF Min
<1> QED BY <1>3 DEF m

(* The decoding of the encoding of a record is that record.                    *)
LEMMA DecodedBody ==
  ASSUME NEW r \in Records
  PROVE  Decoded(Body(r)) = r
<1> DEFINE n == Len(r)
           z == [done |-> SubSeq(r, 1, n - 1), field |-> r[n], escape |-> FALSE]
<1>1. r \in Seq(Seq(Bytes)) /\ n \in Nat \ {0} /\ n <= MaxFields /\ r[1] # <<>>
  BY RecordType
<1>2. Decoded(Body(r)) = GotFields(z)
  <2> HIDE DEF z
  <2>1. Leads(Begin, Body(r), z)
    BY RecordLeads DEF z
  <2> QED BY <2>1, BodyType, DecodedIs
<1>3. Append(SubSeq(r, 1, n - 1), r[n]) = r /\ Len(SubSeq(r, 1, n - 1)) + 1 = n /\ SubSeq(r, 1, n) = r
  <2>1. SubSeq(r, 1, n) = r
    BY <1>1
  <2> DEFINE m == n - 1
  <2>2. m \in Nat /\ m + 1 <= Len(r) /\ m + 1 = n
    BY <1>1
  <2> HIDE DEF n, m
  <2>3. Len(SubSeq(r, 1, m)) = m /\ SubSeq(r, 1, m + 1) = Append(SubSeq(r, 1, m), r[m + 1])
    BY <1>1, <2>2, FirstFacts
  <2>4. Len(SubSeq(r, 1, m)) + 1 = n /\ SubSeq(r, 1, n) = Append(SubSeq(r, 1, m), r[n])
    BY <2>2, <2>3
  <2> QED BY <2>1, <2>4 DEF m
<1>4. ~(SubSeq(r, 1, n - 1) = <<>> /\ r[n] = <<>>)
  <2>1. SubSeq(r, 1, n - 1) = <<>> => n = 1
    <3>1. Len(<<>>) = 0
      OBVIOUS
    <3> HIDE DEF n
    <3> QED BY <1>1, <1>3, <3>1
  <2> QED BY <1>1, <2>1
<1>5. Min({n, MaxFields}) = n
  <2>1. MaxFields \in Int /\ n \in Int
    BY <1>1, SizesAssumption
  <2> HIDE DEF n
  <2> QED BY <1>1, <2>1, MinFacts
<1>6. z.done = SubSeq(r, 1, n - 1) /\ z.field = r[n]
  OBVIOUS
<1>7. GotFields(z) = r
  <2> HIDE DEF n, z
  <2>1. GotFields(z) = SubSeq(Append(z.done, z.field), 1, Min({Len(z.done) + 1, MaxFields}))
    BY <1>4, <1>6 DEF GotFields
  <2> QED BY <1>3, <1>5, <1>6, <2>1
<1> QED BY <1>2, <1>7

--------------------------------------------------------------------------------
(* A prefix, by positions.                                                     *)
LEMMA PrefixIs ==
  ASSUME NEW S, NEW b \in Seq(S), NEW d \in Seq(S), Len(d) <= Len(b),
         \A i \in 1 .. Len(d) : b[i] = d[i]
  PROVE  SubSeq(b, 1, Len(d)) = d
<1> DEFINE m == Len(d)
           e == SubSeq(b, 1, m)
<1>1. m \in Nat /\ Len(b) \in Nat /\ m <= Len(b)
  OBVIOUS
<1>2. \A i \in 1 .. m : b[i] = d[i]
  OBVIOUS
<1> HIDE DEF m
<1>3. \A i \in 1 .. m : i \in 1 .. Len(b)
  BY <1>1
<1>4. e \in Seq(S) /\ Len(e) = m
  BY <1>1
<1>5. \A i \in 1 .. m : e[i] = b[i]
  BY <1>1, <1>3
<1> HIDE DEF e
<1>6. e = d
  BY <1>2, <1>4, <1>5, SeqEqual DEF m
<1> QED BY <1>6 DEF e, m

(* A sequence that two make has them for its parts.                            *)
LEMMA CatParts ==
  ASSUME NEW S, NEW s \in Seq(S), NEW u \in Seq(S)
  PROVE  /\ SubSeq(s \o u, 1, Len(s)) = s
         /\ SubSeq(s \o u, Len(s) + 1, Len(s \o u)) = u
<1> DEFINE n == Len(s)
           k == Len(u)
           w == s \o u
<1>1. n \in Nat /\ k \in Nat /\ w \in Seq(S) /\ Len(w) = n + k
  OBVIOUS
<1>2. /\ \A i \in 1 .. n : w[i] = s[i]
      /\ \A i \in 1 .. k : w[n + i] = u[i]
  OBVIOUS
<1> HIDE DEF w
<1>3. SubSeq(w, 1, n) = s
  BY <1>1, <1>2, PrefixIs
<1> HIDE DEF n, k
<1> DEFINE e == SubSeq(w, n + 1, n + k)
<1>4. \A i \in n + 1 .. n + k : w[i] \in S
  <2>1. \A i \in n + 1 .. n + k : i \in 1 .. Len(w)
    BY <1>1
  <2> QED BY <1>1, <2>1, ElementOfSeq
<1>5. e \in Seq(S) /\ Len(e) = k /\ \A i \in 1 .. k : e[i] = w[n + i]
  <2> DEFINE lo == n + 1
             hi == n + k
  <2>1. lo \in Int /\ hi \in Int /\ \A i \in lo .. hi : w[i] \in S
    BY <1>1, <1>4
  <2>a. hi - lo + 1 = k /\ (lo <= hi <=> k # 0) /\ lo = n + 1
    BY <1>1
  <2>b. e = SubSeq(w, lo, hi)
    OBVIOUS
  <2> HIDE DEF e, lo, hi
  <2>2. /\ e \in Seq(S) /\ Len(e) = IF lo <= hi THEN hi - lo + 1 ELSE 0
        /\ \A i \in 1 .. hi - lo + 1 : e[i] = w[lo + i - 1]
    BY <2>1, <2>b, SubSeqProperties
  <2>3. ASSUME NEW i \in 1 .. k PROVE e[i] = w[n + i]
    <3>1. i \in 1 .. hi - lo + 1 /\ lo + i - 1 = n + i
      BY <1>1, <2>a
    <3> QED BY <2>2, <3>1
  <2> QED BY <1>1, <2>a, <2>2, <2>3
<1> HIDE DEF e
<1>6. e = u
  BY <1>2, <1>5, SeqEqual DEF k
<1> QED BY <1>1, <1>3, <1>6 DEF e, n, w

(* The escapes before a place and the end of a record there, of any bytes.     *)
Run(b, p) == {n \in 0 .. p - 1 : \A j \in p - n .. p - 1 : b[j] = Escape}
EndAt(b, p) == b[p] = RecordSep /\ Max(Run(b, p)) % 2 = 0

(* EndsRecord, of any sequence of bytes.                                       *)
LEMMA EndsRecordIs ==
  \A p : /\ EndsRecord(p) <=> EndAt(input, p)
         /\ EndsRecord(p)' <=> EndAt(input', p)
  BY DEF EndsRecord, EscapesBefore, EndAt, Run

(* It depends on what precedes only.                                           *)
LEMMA EndAtPrefix ==
  ASSUME NEW b, NEW c, NEW p \in Nat \ {0}, \A j \in 1 .. p : b[j] = c[j]
  PROVE  EndAt(b, p) <=> EndAt(c, p)
<1>1. Run(b, p) = Run(c, p)
  <2>1. ASSUME NEW n \in 0 .. p - 1, NEW j \in p - n .. p - 1 PROVE b[j] = c[j]
    <3>1. j \in 1 .. p
      OBVIOUS
    <3> QED BY <3>1
  <2> QED BY <2>1 DEF Run
<1>2. b[p] = c[p]
  OBVIOUS
<1> QED BY <1>1, <1>2 DEF EndAt

(* One more is even when it was odd.                                           *)
LEMMA Parity ==
  ASSUME NEW e \in Nat
  PROVE  (e + 1) % 2 = 0 <=> ~(e % 2 = 0)
  OBVIOUS

(* The greatest of a set of naturals.                                          *)
LEMMA MaxIs ==
  ASSUME NEW T, T \subseteq Nat, NEW e \in T, \A y \in T : e >= y
  PROVE  Max(T) = e
<1>1. Max(T) \in T /\ \A y \in T : Max(T) >= y
  BY DEF Max
<1> DEFINE m == Max(T)
<1>2. m \in Nat /\ e \in Nat /\ m >= e /\ e >= m
  BY <1>1
<1> HIDE DEF m
<1>3. m = e
  BY <1>2
<1> QED BY <1>3 DEF m

(* An even number of escapes comes before a place where none is held.          *)
LEMMA EscapeParity ==
  ASSUME NEW b \in Seq(Bytes), NEW m \in Nat, m <= Len(b),
         NEW t \in [0 .. m -> Reading], ~t[0].escape,
         \A i \in 1 .. m : t[i] = GetChar[<<t[i - 1], b[i]>>]
  PROVE  \A p \in 1 .. m + 1 : Max(Run(b, p)) % 2 = 0 <=> ~t[p - 1].escape
<1> DEFINE Top(p, e) == /\ e \in Run(b, p)
                        /\ \A y \in Run(b, p) : e >= y
                        /\ e % 2 = 0 <=> ~t[p - 1].escape
           S == {n \in Nat : n <= m => \E e \in Nat : Top(n + 1, e)}
<1>1. 0 \in S
  <2>1. Run(b, 1) = {0}
    <3>1. \A n \in 0 .. 1 - 1 : n = 0
      OBVIOUS
    <3>2. 0 \in 0 .. 1 - 1 /\ \A j \in 1 - 0 .. 1 - 1 : FALSE
      OBVIOUS
    <3> QED BY <3>1, <3>2 DEF Run
  <2>2. 0 % 2 = 0 /\ 1 - 1 = 0 /\ 0 >= 0 /\ 0 + 1 = 1
    OBVIOUS
  <2>3. Top(0 + 1, 0)
    BY <2>1, <2>2
  <2> HIDE DEF Top
  <2> QED BY <2>3
<1>2. ASSUME NEW n \in Nat, n \in S PROVE n + 1 \in S
  <2> SUFFICES ASSUME n + 1 <= m PROVE \E e \in Nat : Top((n + 1) + 1, e)
    BY DEF S
  <2>1. PICK e \in Nat : Top(n + 1, e)
    <3> HIDE DEF Top
    <3> QED BY <1>2
  <2>2. /\ n + 1 \in 1 .. m /\ n \in 0 .. m /\ n + 1 \in 0 .. m /\ (n + 1) - 1 = n /\ (n + 2) - 1 = n + 1
        /\ (n + 1) + 1 = n + 2
    OBVIOUS
  <2>3. b[n + 1] \in Bytes
    BY <2>2
  <2>4. t[n + 1] = GetChar[<<t[n], b[n + 1]>>] /\ t[n] \in Reading
    BY <2>2
  <2>5. t[n + 1].escape = (~t[n].escape /\ b[n + 1] = Escape)
    <3> DEFINE a == t[n]
               c == b[n + 1]
    <3>0. a \in Reading /\ c \in Bytes /\ t[n + 1] = GetChar[<<a, c>>]
      BY <2>3, <2>4
    <3>a. a.escape \in BOOLEAN
      BY <3>0 DEF Reading
    <3>b. DOMAIN a = {"done", "field", "escape"}
      BY <3>0 DEF Reading
    <3> HIDE DEF a, c
    <3>1. CASE a.escape
      <4>1. t[n + 1] = [done |-> a.done, escape |-> FALSE,
                        field |-> a.field \o IF c \in Special THEN <<c>> ELSE <<Escape, c>>]
        BY <3>0, <3>1, GetCharIs
      <4>2. t[n + 1].escape = FALSE
        BY <4>1
      <4> QED BY <3>1, <4>2 DEF a, c
    <3>2. CASE ~a.escape /\ c = FieldSep
      <4>1. t[n + 1] = [done |-> Append(a.done, a.field), field |-> <<>>, escape |-> FALSE]
        BY <3>0, <3>2, GetCharIs
      <4>2. t[n + 1].escape = FALSE /\ c # Escape
        BY <3>2, <4>1, CharFacts
      <4> QED BY <4>2 DEF a, c
    <3>3. CASE ~a.escape /\ c = Escape
      <4>1. t[n + 1] = [a EXCEPT !.escape = TRUE]
        BY <3>0, <3>3, GetCharIs, CharFacts
      <4>2. t[n + 1].escape = TRUE
        BY <3>b, <4>1
      <4> QED BY <3>3, <4>2 DEF a, c
    <3>4. CASE ~a.escape /\ c # FieldSep /\ c # Escape
      <4>1. t[n + 1] = [a EXCEPT !.field = Append(a.field, c)]
        BY <3>0, <3>4, GetCharIs
      <4>2. t[n + 1].escape = a.escape
        BY <3>b, <4>1
      <4> QED BY <3>a, <3>4, <4>2 DEF a, c
    <3> QED BY <3>1, <3>2, <3>3, <3>4
  <2> HIDE DEF S
  <2>6. CASE b[n + 1] = Escape
    <3>1. e + 1 \in Run(b, n + 2)
      <4>1. e \in 0 .. n /\ \A j \in (n + 1) - e .. n : b[j] = Escape
        BY <2>1, <2>2 DEF Run
      <4>2. ASSUME NEW j \in (n + 2) - (e + 1) .. n + 1 PROVE b[j] = Escape
        <5>1. CASE j = n + 1
          BY <2>6, <5>1
        <5>2. CASE j # n + 1
          <6>1. j \in (n + 1) - e .. n
            BY <5>2
          <6> QED BY <4>1, <6>1
        <5> QED BY <5>1, <5>2
      <4>3. e + 1 \in 0 .. (n + 2) - 1
        BY <4>1
      <4> QED BY <2>2, <4>2, <4>3 DEF Run
    <3>2. ASSUME NEW y \in Run(b, n + 2) PROVE e + 1 >= y
      <4>1. y \in 0 .. n + 1 /\ \A j \in (n + 2) - y .. n + 1 : b[j] = Escape
        BY <2>2 DEF Run
      <4>2. CASE y = 0
        BY <4>2
      <4>3. CASE y # 0
        <5>1. y - 1 \in 0 .. n
          BY <4>1, <4>3
        <5>2. ASSUME NEW j \in (n + 1) - (y - 1) .. n PROVE b[j] = Escape
          <6>1. j \in (n + 2) - y .. n + 1
            BY <4>1
          <6> QED BY <4>1, <6>1
        <5>3. y - 1 \in Run(b, n + 1)
          BY <2>2, <5>1, <5>2 DEF Run
        <5>4. e >= y - 1
          BY <2>1, <5>3
        <5> QED BY <4>1, <5>4
      <4> QED BY <4>2, <4>3
    <3>3. (e + 1) % 2 = 0 <=> ~t[n + 1].escape
      BY <2>1, <2>2, <2>5, <2>6, Parity
    <3>4. Top(n + 2, e + 1)
      BY <2>2, <3>1, <3>2, <3>3
    <3> HIDE DEF Top
    <3> QED BY <2>2, <3>4
  <2>7. CASE b[n + 1] # Escape
    <3>1. 0 \in Run(b, n + 2)
      BY DEF Run
    <3>2. ASSUME NEW y \in Run(b, n + 2) PROVE 0 >= y
      <4>1. y \in 0 .. n + 1 /\ \A j \in (n + 2) - y .. n + 1 : b[j] = Escape
        BY <2>2 DEF Run
      <4>2. y # 0 => n + 1 \in (n + 2) - y .. n + 1
        BY <4>1
      <4> QED BY <2>7, <4>1, <4>2
    <3>3. 0 % 2 = 0 /\ ~t[n + 1].escape
      <4>1. t[n + 1].escape = FALSE
        BY <2>5, <2>7
      <4>2. 0 % 2 = 0
        OBVIOUS
      <4> QED BY <4>1, <4>2
    <3>4. Top(n + 2, 0)
      BY <2>2, <3>1, <3>2, <3>3
    <3> HIDE DEF Top
    <3> QED BY <2>2, <3>4
  <2> QED BY <2>6, <2>7
<1>3. \A n \in Nat : n \in S
  <2> HIDE DEF S
  <2> QED BY <1>1, <1>2, SetInduction
<1> SUFFICES ASSUME NEW p \in 1 .. m + 1 PROVE Max(Run(b, p)) % 2 = 0 <=> ~t[p - 1].escape
  OBVIOUS
<1>4. p - 1 \in Nat /\ p - 1 <= m /\ (p - 1) + 1 = p
  OBVIOUS
<1>5. PICK e \in Nat : Top(p, e)
  <2> HIDE DEF Top
  <2> QED BY <1>3, <1>4
<1>6. Run(b, p) \subseteq Nat
  BY DEF Run
<1>7. Max(Run(b, p)) = e
  BY <1>5, <1>6, MaxIs
<1> QED BY <1>5, <1>7

(* The first end of a record is at the end of its encoding.                    *)
LEMMA FirstEnd ==
  ASSUME NEW r \in Records, NEW x \in Seq(Bytes), NEW b, b = Encoding[r] \o x
  PROVE  LET n == Len(Encoding[r])
         IN  /\ Encoding[r] \in Seq(Bytes) /\ n \in Nat \ {0} /\ b \in Seq(Bytes) /\ Len(b) = n + Len(x)
             /\ EndAt(b, n)
             /\ \A p \in 1 .. n - 1 : ~EndAt(b, p)
             /\ SubSeq(b, 1, n - 1) = Body(r)
             /\ SubSeq(b, 1, n) = Encoding[r]
             /\ SubSeq(b, n + 1, Len(b)) = x
<1> DEFINE c == Encoding[r]
           n == Len(c)
           d == Body(r)
           m == Len(d)
<1>1. d \in Seq(Bytes) /\ c = d \o <<RecordSep>> /\ <<RecordSep>> \in Seq(Bytes) /\ RecordSep \in Bytes
  <2>1. RecordSep \in Bytes
    BY CharFacts
  <2> QED BY <2>1, BodyType
<1>2. Leads(Begin, d, [done |-> SubSeq(r, 1, Len(r) - 1), field |-> r[Len(r)], escape |-> FALSE])
  BY RecordLeads
<1> HIDE DEF d
<1>3. PICK t \in [0 .. m -> Reading] :
          /\ t[0] = Begin /\ ~t[m].escape
          /\ \A i \in 1 .. m : /\ t[i] = GetChar[<<t[i - 1], d[i]>>]
                               /\ d[i] = RecordSep => t[i - 1].escape
  <2> DEFINE z == [done |-> SubSeq(r, 1, Len(r) - 1), field |-> r[Len(r)], escape |-> FALSE]
  <2>1. ~z.escape
    OBVIOUS
  <2>2. Leads(Begin, d, z)
    BY <1>2
  <2> HIDE DEF z
  <2> QED BY <1>1, <2>1, <2>2, LeadsSteps
<1>4. /\ c \in Seq(Bytes) /\ n = m + 1 /\ m \in Nat /\ c[n] = RecordSep
      /\ \A i \in 1 .. m : c[i] = d[i]
  <2>1. /\ d \o <<RecordSep>> \in Seq(Bytes) /\ Len(d \o <<RecordSep>>) = m + 1 /\ m \in Nat
        /\ (d \o <<RecordSep>>)[m + 1] = RecordSep
        /\ \A i \in 1 .. m : (d \o <<RecordSep>>)[i] = d[i]
    BY <1>1
  <2> HIDE DEF c
  <2> QED BY <1>1, <2>1
<1> HIDE DEF c
<1>a. b = c \o x
  BY DEF c
<1>5. /\ b \in Seq(Bytes) /\ Len(b) = n + Len(x) /\ Len(x) \in Nat
      /\ \A i \in 1 .. n : b[i] = c[i]
  <2>1. /\ c \o x \in Seq(Bytes) /\ Len(c \o x) = n + Len(x) /\ Len(x) \in Nat
        /\ \A i \in 1 .. n : (c \o x)[i] = c[i]
    <3>1. c \in Seq(Bytes)
      BY <1>4
    <3> QED BY ONLY <3>1, x \in Seq(Bytes)
  <2> QED BY <1>a, <2>1
<1> HIDE DEF n, m
<1>6. \A i \in 1 .. m : b[i] = d[i] /\ i \in 1 .. n
  BY <1>4, <1>5
<1>7. /\ \A i \in 1 .. m : t[i] = GetChar[<<t[i - 1], b[i]>>] /\ (b[i] = RecordSep => t[i - 1].escape)
      /\ ~t[0].escape
  <2>1. \A i \in 1 .. m : t[i] = GetChar[<<t[i - 1], d[i]>>] /\ (d[i] = RecordSep => t[i - 1].escape)
    BY <1>3 DEF m
  <2>2. ~t[0].escape
    BY <1>3 DEF Begin
  <2> QED BY <1>6, <2>1, <2>2
<1>8. \A p \in 1 .. m + 1 : Max(Run(b, p)) % 2 = 0 <=> ~t[p - 1].escape
  <2>1. m \in Nat /\ m <= Len(b)
    BY <1>4, <1>5
  <2>2. ~t[0].escape /\ \A i \in 1 .. m : t[i] = GetChar[<<t[i - 1], b[i]>>]
    BY <1>7
  <2>3. b \in Seq(Bytes) /\ t \in [0 .. m -> Reading]
    BY <1>3, <1>5
  <2> QED BY ONLY <2>1, <2>2, <2>3, EscapeParity
<1>9. EndAt(b, n)
  <2>1. n \in 1 .. m + 1 /\ n - 1 = m /\ n \in 1 .. n
    BY <1>4
  <2> QED BY <1>3, <1>4, <1>5, <1>8, <2>1 DEF EndAt
<1>10. ASSUME NEW p \in 1 .. n - 1 PROVE ~EndAt(b, p)
  <2>1. p \in 1 .. m /\ p \in 1 .. m + 1
    BY <1>4
  <2> QED BY <1>7, <1>8, <2>1 DEF EndAt
<1>11. SubSeq(b, 1, n) = c /\ SubSeq(b, n + 1, Len(b)) = x
  <2>1. c \in Seq(Bytes)
    BY <1>4
  <2> QED BY <2>1, <1>a, CatParts DEF n
<1>12. SubSeq(b, 1, n - 1) = d
  <2>1. n - 1 = m /\ \A i \in 1 .. m : i \in 1 .. Len(b)
    BY <1>4, <1>5
  <2>2. Len(d) = m /\ m <= Len(b)
    BY <1>4, <1>5 DEF m
  <2> QED BY <1>1, <1>5, <1>6, <2>1, <2>2, PrefixIs
<1>13. n \in Nat \ {0}
  BY <1>4
<1> QED BY <1>4, <1>5, <1>9, <1>10, <1>11, <1>12, <1>13 DEF c, n, d

--------------------------------------------------------------------------------
(* The bytes of records that follow each other.                                *)
Encoded(rs) == [i \in DOMAIN rs |-> Encoding[rs[i]]]
StreamOf(rs) == FlattenSeq(Encoded(rs))

(* The encodings are sequences of bytes that are not empty.                    *)
LEMMA EncodingType ==
  ASSUME NEW r \in Records
  PROVE  Encoding[r] \in Seq(Bytes) /\ Len(Encoding[r]) \in Nat \ {0}
<1> DEFINE x == <<>>
           b == Encoding[r] \o x
<1>1. x \in Seq(Bytes)
  OBVIOUS
<1> HIDE DEF x
<1> QED BY <1>1, FirstEnd DEF b

(* One record more, at the end or at the beginning.                            *)
LEMMA StreamFacts ==
  ASSUME NEW rs \in Seq(Records), NEW r \in Records
  PROVE  /\ StreamOf(rs) \in Seq(Bytes)
         /\ StreamOf(<<>>) = <<>>
         /\ StreamOf(Append(rs, r)) = StreamOf(rs) \o Encoding[r]
         /\ StreamOf(<<r>> \o rs) = Encoding[r] \o StreamOf(rs)
         /\ rs # <<>> => StreamOf(rs) # <<>>
<1> DEFINE e == Encoded(rs)
           c == Encoding[r]
           n == Len(rs)
<1>1. n \in Nat /\ DOMAIN rs = 1 .. n /\ \A i \in 1 .. n : rs[i] \in Records
  OBVIOUS
<1>2. c \in Seq(Bytes) /\ \A i \in 1 .. n : Encoding[rs[i]] \in Seq(Bytes)
  BY <1>1, EncodingType
<1>3. e \in Seq(Seq(Bytes)) /\ Len(e) = n /\ \A i \in 1 .. n : e[i] = Encoding[rs[i]]
  <2>1. e \in [1 .. n -> Seq(Bytes)] /\ \A i \in 1 .. n : e[i] = Encoding[rs[i]]
    BY <1>1, <1>2 DEF Encoded
  <2> HIDE DEF e
  <2> QED BY <1>1, <2>1
<1>4. Encoded(<<>>) = <<>>
  BY DEF Encoded
<1>5. Encoded(Append(rs, r)) = Append(e, c)
  <2> DEFINE p == Append(rs, r)
  <2>1. DOMAIN p = 1 .. n + 1 /\ p[n + 1] = r /\ \A i \in 1 .. n : p[i] = rs[i]
    BY <1>1
  <2> HIDE DEF p
  <2>2. DOMAIN Encoded(p) = 1 .. n + 1 /\ \A i \in 1 .. n + 1 : Encoded(p)[i] = Encoding[p[i]]
    BY <2>1 DEF Encoded
  <2> HIDE DEF e, c
  <2> DEFINE q == Append(e, c)
  <2>3. q \in Seq(Seq(Bytes)) /\ Len(q) = n + 1 /\ q[n + 1] = c /\ \A i \in 1 .. n : q[i] = e[i]
    BY <1>2, <1>3
  <2> HIDE DEF q, n
  <2>4. \A i \in 1 .. n + 1 : Encoded(p)[i] = q[i]
    <3> SUFFICES ASSUME NEW i \in 1 .. n + 1 PROVE Encoding[p[i]] = q[i]
      BY <2>2
    <3>1. i = n + 1 \/ i \in 1 .. n
      BY <1>1
    <3> QED BY <1>3, <2>1, <2>3, <3>1 DEF c
  <2>5. \A i \in 1 .. n + 1 : Encoded(p)[i] \in Seq(Bytes)
    <3>1. \A i \in 1 .. n + 1 : q[i] \in Seq(Bytes)
      BY <2>3
    <3> QED BY <2>4, <3>1
  <2>6. Encoded(p) \in Seq(Seq(Bytes)) /\ Len(Encoded(p)) = n + 1
    <3>1. n + 1 \in Nat
      BY <1>1
    <3>2. Encoded(p) = [i \in 1 .. n + 1 |-> Encoding[p[i]]]
      BY <2>1 DEF Encoded
    <3>3. Encoded(p) \in [1 .. n + 1 -> Seq(Bytes)]
      BY <2>5, <3>2
    <3> QED BY <3>1, <3>3
  <2>7. Encoded(p) = q
    BY <2>3, <2>4, <2>6, SeqEqual
  <2> QED BY <2>7 DEF p, q
<1>6. Encoded(<<r>> \o rs) = <<c>> \o e
  <2> DEFINE p == <<r>> \o rs
  <2>1. DOMAIN p = 1 .. n + 1 /\ p[1] = r /\ \A i \in 1 .. n : p[i + 1] = rs[i]
    <3>1. <<r>> \in Seq(Records) /\ Len(<<r>>) = 1 /\ <<r>>[1] = r
      OBVIOUS
    <3>2. /\ p \in Seq(Records) /\ Len(p) = 1 + n
          /\ \A i \in 1 .. 1 + n : p[i] = IF i <= 1 THEN <<r>>[i] ELSE rs[i - 1]
      BY <3>1, ConcatProperties
    <3> HIDE DEF p
    <3>3. p[1] = r /\ \A i \in 1 .. n : p[i + 1] = rs[i]
      BY <1>1, <3>1, <3>2
    <3>4. DOMAIN p = 1 .. n + 1
      <4>1. 1 + n = n + 1
        BY <1>1
      <4> QED BY <3>2, <4>1
    <3> QED BY <3>3, <3>4
  <2> HIDE DEF p
  <2>2. DOMAIN Encoded(p) = 1 .. n + 1 /\ \A i \in 1 .. n + 1 : Encoded(p)[i] = Encoding[p[i]]
    BY <2>1 DEF Encoded
  <2> HIDE DEF e, c
  <2> DEFINE q == <<c>> \o e
  <2>3. q \in Seq(Seq(Bytes)) /\ Len(q) = n + 1 /\ q[1] = c /\ \A i \in 1 .. n : q[i + 1] = e[i]
    <3>1. <<c>> \in Seq(Seq(Bytes)) /\ Len(<<c>>) = 1 /\ <<c>>[1] = c
      BY <1>2
    <3>2. /\ q \in Seq(Seq(Bytes)) /\ Len(q) = 1 + n
          /\ \A i \in 1 .. 1 + n : q[i] = IF i <= 1 THEN <<c>>[i] ELSE e[i - 1]
      BY <1>3, <3>1, ConcatProperties
    <3> HIDE DEF q
    <3>3. q[1] = c /\ \A i \in 1 .. n : q[i + 1] = e[i]
      BY <1>1, <3>1, <3>2
    <3> QED BY <1>1, <3>2, <3>3
  <2> HIDE DEF q, n
  <2>4. \A i \in 1 .. n + 1 : Encoded(p)[i] = q[i]
    <3> SUFFICES ASSUME NEW i \in 1 .. n + 1 PROVE Encoding[p[i]] = q[i]
      BY <2>2
    <3>1. i = 1 \/ (i - 1 \in 1 .. n /\ (i - 1) + 1 = i)
      BY <1>1
    <3>2. CASE i = 1
      BY <2>1, <2>3, <3>2 DEF c
    <3>3. CASE i - 1 \in 1 .. n /\ (i - 1) + 1 = i
      <4>1. p[i] = rs[i - 1] /\ q[i] = e[i - 1]
        BY <2>1, <2>3, <3>3
      <4> QED BY <1>3, <3>3, <4>1
    <3> QED BY <3>1, <3>2, <3>3
  <2>6. Encoded(p) \in Seq(Seq(Bytes)) /\ Len(Encoded(p)) = n + 1
    <3>1. n + 1 \in Nat
      BY <1>1
    <3>2. Encoded(p) = [i \in 1 .. n + 1 |-> Encoding[p[i]]]
      BY <2>1 DEF Encoded
    <3>a. \A i \in 1 .. n + 1 : Encoded(p)[i] \in Seq(Bytes)
      <4>1. \A i \in 1 .. n + 1 : q[i] \in Seq(Bytes)
        BY <2>3
      <4> QED BY <2>4, <4>1
    <3>3. Encoded(p) \in [1 .. n + 1 -> Seq(Bytes)]
      BY <3>2, <3>a
    <3> QED BY <3>1, <3>3
  <2>7. Encoded(p) = q
    BY <2>3, <2>4, <2>6, SeqEqual
  <2> QED BY <2>7 DEF p, q
<1> HIDE DEF e, c
<1>7. /\ FlattenSeq(e) \in Seq(Bytes)
      /\ FlattenSeq(<<>>) = <<>>
      /\ FlattenSeq(Append(e, c)) = FlattenSeq(e) \o c
      /\ FlattenSeq(<<c>> \o e) = c \o FlattenSeq(e)
  BY <1>2, <1>3, FlattenFacts
<1>8. ASSUME rs # <<>> PROVE StreamOf(rs) # <<>>
  <2>1. 1 \in 1 .. n
    BY <1>1, <1>8
  <2> DEFINE f == FlattenSeq(SubSeq(e, 1, n - 1))
  <2>2. n - 1 \in Nat /\ (n - 1) + 1 = n /\ SubSeq(e, 1, n) = e
    BY <1>3, <2>1
  <2>3. f \in Seq(Bytes) /\ e[n] \in Seq(Bytes) /\ FlattenSeq(e) = f \o e[n]
    <3> DEFINE m == n - 1
    <3>1. m \in Nat /\ m + 1 <= Len(e) /\ m + 1 = n
      BY <1>3, <2>2
    <3> HIDE DEF m
    <3>2. /\ FlattenSeq(SubSeq(e, 1, m)) \in Seq(Bytes) /\ e[m + 1] \in Seq(Bytes)
          /\ FlattenSeq(SubSeq(e, 1, m + 1)) = FlattenSeq(SubSeq(e, 1, m)) \o e[m + 1]
      BY <1>3, <3>1, FlattenFirst
    <3> HIDE DEF n
    <3>3. FlattenSeq(e) = FlattenSeq(SubSeq(e, 1, m)) \o e[n]
      BY <2>2, <3>1, <3>2
    <3> QED BY <3>1, <3>2, <3>3 DEF m
  <2>4. n \in 1 .. n
    BY <1>1, <2>1
  <2>5. Len(e[n]) \in Nat \ {0}
    BY <1>1, <1>3, <2>4, EncodingType
  <2>6. e[n] # <<>>
    BY <2>5
  <2> HIDE DEF f
  <2>7. f \o e[n] # <<>>
    BY <2>3, <2>6, ConcatEqualIffEmpty
  <2> QED BY <2>3, <2>7 DEF StreamOf, e
<1> QED BY <1>4, <1>5, <1>6, <1>7, <1>8 DEF StreamOf, e, c

(* One record at most begins some bytes.                                       *)
LEMMA OneFirst ==
  ASSUME NEW r \in Records, NEW s \in Records, NEW x \in Seq(Bytes),
         IsPrefix(Encoding[s], Encoding[r] \o x)
  PROVE  s = r
<1> DEFINE b == Encoding[r] \o x
           n == Len(Encoding[r])
           c == Encoding[s] \o <<>>
           k == Len(Encoding[s])
<1>1. /\ n \in Nat \ {0} /\ b \in Seq(Bytes) /\ Len(b) = n + Len(x)
      /\ EndAt(b, n) /\ \A p \in 1 .. n - 1 : ~EndAt(b, p)
      /\ SubSeq(b, 1, n - 1) = Body(r)
  BY FirstEnd
<1>2. /\ Encoding[s] \in Seq(Bytes) /\ k \in Nat \ {0} /\ c \in Seq(Bytes)
      /\ EndAt(c, k) /\ \A p \in 1 .. k - 1 : ~EndAt(c, p)
      /\ SubSeq(c, 1, k - 1) = Body(s)
  <2> DEFINE e == <<>>
  <2>1. e \in Seq(Bytes)
    OBVIOUS
  <2> HIDE DEF e
  <2> QED BY <2>1, FirstEnd DEF e
<1>3. c = Encoding[s]
  BY <1>2
<1>4. k <= Len(b) /\ SubSeq(c, 1, k) = SubSeq(b, 1, k)
  BY <1>3 DEF IsPrefix
<1>4a. Len(c) = k
  BY <1>3
<1> HIDE DEF b, c, n, k
<1>5. \A i \in 1 .. k : c[i] = b[i]
  <2> SUFFICES ASSUME NEW i \in 1 .. k PROVE c[i] = b[i]
    OBVIOUS
  <2>0. k \in Nat /\ i \in 1 .. Len(b) /\ i \in 1 .. Len(c)
    BY <1>1, <1>2, <1>4, <1>4a
  <2>1. SubSeq(c, 1, k)[i] = c[i]
    BY <1>2, <2>0
  <2>2. SubSeq(b, 1, k)[i] = b[i]
    BY <1>1, <1>2, <2>0
  <2> QED BY <1>4, <2>1, <2>2
<1>6. ASSUME NEW p \in 1 .. k PROVE EndAt(c, p) <=> EndAt(b, p)
  <2>1. p \in Nat \ {0} /\ \A j \in 1 .. p : c[j] = b[j]
    <3>1. \A j \in 1 .. p : j \in 1 .. k
      BY <1>2
    <3> QED BY <1>2, <1>5, <3>1
  <2> QED BY <2>1, EndAtPrefix
<1>7. k = n
  <2>1. k \in 1 .. k /\ \A p \in 1 .. k - 1 : p \in 1 .. k
    BY <1>2
  <2>2. EndAt(b, k) /\ \A p \in 1 .. k - 1 : ~EndAt(b, p)
    BY <1>2, <1>6, <2>1
  <2>3. ~(k < n)
    <3>1. k < n => k \in 1 .. n - 1
      BY <1>1, <1>2
    <3> QED BY <1>1, <2>2, <3>1
  <2>4. ~(n < k)
    <3>1. n < k => n \in 1 .. k - 1
      BY <1>1, <1>2
    <3> QED BY <1>1, <2>2, <3>1
  <2> QED BY <1>1, <1>2, <2>3, <2>4
<1>8. SubSeq(c, 1, k - 1) = SubSeq(b, 1, k - 1)
  <2> DEFINE m == k - 1
             d == SubSeq(c, 1, m)
  <2>1. m \in Nat /\ m + 1 <= Len(c) /\ m <= Len(b) /\ \A i \in 1 .. m : i \in 1 .. k /\ i \in 1 .. Len(c)
    BY <1>1, <1>2, <1>4, <1>4a
  <2> HIDE DEF m
  <2>2. d \in Seq(Bytes) /\ Len(d) = m
    BY <1>2, <2>1, FirstFacts
  <2>3. \A i \in 1 .. m : d[i] = c[i]
    BY <1>2, <2>1
  <2> HIDE DEF d
  <2>4. Len(d) <= Len(b) /\ \A i \in 1 .. Len(d) : b[i] = d[i]
    BY <1>5, <2>1, <2>2, <2>3
  <2>5. SubSeq(b, 1, Len(d)) = d
    BY <1>1, <2>2, <2>4, PrefixIs
  <2> QED BY <2>2, <2>5 DEF d, m
<1>9. Body(s) = Body(r)
  BY <1>1, <1>2, <1>7, <1>8
<1> QED BY <1>9, DecodedBody

--------------------------------------------------------------------------------
(* The recursion of RecordsOf.                                                 *)
Starts(b) == \E e \in Encodings : IsPrefix(e.bytes, b)
FirstIn(b) == CHOOSE e \in Encodings : IsPrefix(e.bytes, b)
After1(b) == SubSeq(b, Len(FirstIn(b).bytes) + 1, Len(b))

(* That encoding is the only one that starts the bytes.                        *)
LEMMA FirstInFacts ==
  ASSUME NEW b \in Seq(Bytes), Starts(b)
  PROVE  /\ FirstIn(b).record \in Records /\ FirstIn(b).bytes = Encoding[FirstIn(b).record]
         /\ IsPrefix(Encoding[FirstIn(b).record], b)
         /\ After1(b) \in Seq(Bytes) /\ Len(After1(b)) < Len(b)
<1> DEFINE e == FirstIn(b)
<1>1. e \in Encodings /\ IsPrefix(e.bytes, b)
  BY DEF Starts, FirstIn
<1> HIDE DEF e
<1>2. PICK r \in Records : e = [record |-> r, bytes |-> Encoding[r]]
  BY <1>1 DEF Encodings
<1>3. e.record = r /\ e.bytes = Encoding[r]
  BY <1>2
<1>4. Len(e.bytes) \in Nat \ {0} /\ Len(e.bytes) <= Len(b) /\ Len(b) \in Nat
  BY <1>1, <1>3, EncodingType DEF IsPrefix
<1> DEFINE k == Len(e.bytes)
           n == Len(b)
<1>4b. k \in Nat \ {0} /\ n \in Nat /\ k <= n
  BY <1>4
<1>5. SubSeq(b, k + 1, n) \in Seq(Bytes) /\ Len(SubSeq(b, k + 1, n)) = n - k
  <2>1. k + 1 \in Int /\ n \in Int /\ \A i \in k + 1 .. n : i \in 1 .. n
    BY <1>4
  <2>2. \A i \in k + 1 .. n : b[i] \in Bytes
    BY <2>1
  <2> HIDE DEF k, n
  <2> DEFINE lo == k + 1
  <2>3. lo \in Int /\ n \in Int /\ \A i \in lo .. n : b[i] \in Bytes
    BY <2>1, <2>2
  <2> HIDE DEF lo
  <2>4. /\ SubSeq(b, lo, n) \in Seq(Bytes)
        /\ Len(SubSeq(b, lo, n)) = IF lo <= n THEN n - lo + 1 ELSE 0
    BY <2>3, SubSeqProperties
  <2>5. (IF lo <= n THEN n - lo + 1 ELSE 0) = n - k
    BY <1>4b DEF lo
  <2> QED BY <2>4, <2>5 DEF lo
<1>6. n - k < n
  BY <1>4
<1>7. After1(b) = SubSeq(b, k + 1, n)
  BY DEF After1, e
<1> HIDE DEF k, n
<1>8. FirstIn(b) = e
  BY DEF e
<1> QED BY <1>1, <1>3, <1>5, <1>6, <1>7, <1>8 DEF n

(* What RecordsOf is: a record for each encoding at the start of the rest.     *)
LEMMA RecordsOfIs ==
  ASSUME NEW b \in Seq(Bytes)
  PROVE  RecordsOf[b] = IF Starts(b) THEN <<FirstIn(b).record>> \o RecordsOf[After1(b)] ELSE <<>>
<1> DEFINE S == Seq(Bytes)
           D == Seq(Records)
           size == [x \in S |-> Len(x)]
           base == [x \in S |-> <<>>]
           Turn(f) == [x \in S |-> IF Starts(x) THEN <<FirstIn(x).record>> \o f[After1(x)] ELSE <<>>]
           step == [f \in [S -> D] |-> Turn(f)]
<1>1. size \in [S -> Nat] /\ base \in [S -> D]
  OBVIOUS
<1>2. step \in [[S -> D] -> [S -> D]]
  <2>1. ASSUME NEW f \in [S -> D], NEW x \in S, Starts(x)
        PROVE  <<FirstIn(x).record>> \o f[After1(x)] \in D
    <3>1. <<FirstIn(x).record>> \in D /\ f[After1(x)] \in D
      BY <2>1, FirstInFacts
    <3> QED BY <3>1, ConcatProperties
  <2>2. <<>> \in D
    OBVIOUS
  <2> HIDE DEF S, D
  <2>3. ASSUME NEW f \in [S -> D] PROVE Turn(f) \in [S -> D]
    BY <2>1, <2>2
  <2> HIDE DEF Turn
  <2> QED BY <2>3
<1>3. ASSUME NEW x \in S, NEW f \in [S -> D], NEW g \in [S -> D],
             \A y \in S : size[y] < size[x] => f[y] = g[y]
      PROVE  step[f][x] = step[g][x]
  <2>1. Turn(f)[x] = Turn(g)[x]
    <3>1. CASE Starts(x)
      <4>1. After1(x) \in S /\ size[After1(x)] < size[x]
        BY <3>1, FirstInFacts
      <4>2. f[After1(x)] = g[After1(x)]
        BY <1>3, <4>1
      <4> HIDE DEF S, D
      <4> QED BY <4>2
    <3>2. CASE ~Starts(x)
      BY <3>2
    <3> QED BY <3>1, <3>2
  <2> HIDE DEF Turn, S, D
  <2> QED BY <2>1
<1>4. PICK f \in [S -> D] : f = step[f]
  <2>1. Shrinks(S, size, D, base, step)
    <3> HIDE DEF S, D, size, base, step
    <3> QED BY <1>1, <1>2, <1>3 DEF Shrinks
  <2> HIDE DEF S, D, size, base, step
  <2> QED BY <2>1, SizeRecursion
<1>5. f = Turn(f)
  BY <1>4
<1> DEFINE R == CHOOSE g : g = Turn(g)
<1>6. R = Turn(R)
  <2> HIDE DEF Turn
  <2> QED BY <1>5
<1>7. RecordsOf = R
  BY DEF RecordsOf, Starts, FirstIn, After1
<1> HIDE DEF R
<1>8. R[b] = IF Starts(b) THEN <<FirstIn(b).record>> \o R[After1(b)] ELSE <<>>
  BY <1>6
<1> QED BY <1>7, <1>8

(* The records whose encodings follow each other are found in them.            *)
LEMMA RecordsOfNext ==
  ASSUME NEW r \in Records, NEW x \in Seq(Bytes)
  PROVE  RecordsOf[Encoding[r] \o x] = <<r>> \o RecordsOf[x]
<1> DEFINE c == Encoding[r]
           b == c \o x
           n == Len(c)
<1>1. c \in Seq(Bytes) /\ n \in Nat \ {0} /\ b \in Seq(Bytes) /\ Len(b) = n + Len(x)
      /\ SubSeq(b, 1, n) = c /\ SubSeq(b, n + 1, Len(b)) = x
  BY FirstEnd
<1>2. IsPrefix(c, b)
  <2>1. SubSeq(c, 1, n) = c /\ n <= Len(b)
    BY <1>1
  <2> HIDE DEF b, c
  <2> QED BY <1>1, <2>1 DEF IsPrefix
<1>3. Starts(b)
  <2>1. [record |-> r, bytes |-> c] \in Encodings /\ [record |-> r, bytes |-> c].bytes = c
    BY DEF Encodings
  <2> HIDE DEF b, c
  <2> QED BY <1>2, <2>1 DEF Starts
<1>4. FirstIn(b).record = r /\ FirstIn(b).bytes = c
  <2>1. /\ FirstIn(b).record \in Records /\ FirstIn(b).bytes = Encoding[FirstIn(b).record]
        /\ IsPrefix(Encoding[FirstIn(b).record], b)
    BY <1>1, <1>3, FirstInFacts
  <2>2. FirstIn(b).record = r
    <3> DEFINE s == FirstIn(b).record
    <3>1. s \in Records /\ IsPrefix(Encoding[s], Encoding[r] \o x)
      BY <2>1
    <3> HIDE DEF s
    <3>2. s = r
      BY <3>1, OneFirst
    <3> QED BY <3>2 DEF s
  <2> QED BY <2>1, <2>2
<1>5. After1(b) = x
  BY <1>1, <1>4 DEF After1
<1>6. RecordsOf[b] = <<FirstIn(b).record>> \o RecordsOf[After1(b)]
  BY <1>1, <1>3, RecordsOfIs
<1> HIDE DEF b
<1>7. RecordsOf[b] = <<r>> \o RecordsOf[x]
  BY <1>4, <1>5, <1>6
<1> QED BY <1>7 DEF b

(* The records of a stream of records are those records.                       *)
LEMMA RecordsOfStream ==
  ASSUME NEW rs \in Seq(Records)
  PROVE  RecordsOf[StreamOf(rs)] = rs
<1> DEFINE S == {n \in Nat : \A q \in Seq(Records) : Len(q) = n => RecordsOf[StreamOf(q)] = q}
<1>1. 0 \in S
  <2> SUFFICES ASSUME NEW q \in Seq(Records), Len(q) = 0 PROVE RecordsOf[StreamOf(q)] = q
    OBVIOUS
  <2>1. q = <<>> /\ StreamOf(<<>>) = <<>>
    BY DEF StreamOf, Encoded, FlattenSeq
  <2>2. <<>> \in Seq(Bytes) /\ Len(<<>>) = 0
    OBVIOUS
  <2>3. ~Starts(<<>>)
    <3> SUFFICES ASSUME Starts(<<>>) PROVE FALSE
      OBVIOUS
    <3>1. /\ FirstIn(<<>>).record \in Records /\ Len(After1(<<>>)) < 0
          /\ After1(<<>>) \in Seq(Bytes)
      BY <2>2, FirstInFacts
    <3> HIDE DEF S
    <3> QED BY <3>1, LenProperties
  <2>4. RecordsOf[<<>>] = <<>>
    BY <2>2, <2>3, RecordsOfIs
  <2> QED BY <2>1, <2>4
<1>2. ASSUME NEW n \in Nat, n \in S PROVE n + 1 \in S
  <2> SUFFICES ASSUME NEW q \in Seq(Records), Len(q) = n + 1 PROVE RecordsOf[StreamOf(q)] = q
    BY DEF S
  <2> DEFINE r == q[1]
             w == Tail(q)
  <2>1. r \in Records /\ w \in Seq(Records) /\ Len(w) = n
    OBVIOUS
  <2>2. q = <<r>> \o w
    <3>1. q # <<>> /\ 1 \in 1 .. Len(q) /\ Len(q) \in 1 .. Len(q) /\ SubSeq(q, 1, Len(q)) = q
      OBVIOUS
    <3>2. SubSeq(q, 1, Len(q)) = <<q[1]>> \o SubSeq(q, 1 + 1, Len(q))
      BY <3>1, SubSeqRecursiveFirst
    <3>3. Tail(q) = SubSeq(q, 2, Len(q))
      BY <3>1, TailIsSubSeq
    <3>4. 1 + 1 = 2
      OBVIOUS
    <3> QED BY <3>1, <3>2, <3>3, <3>4
  <2>3. RecordsOf[StreamOf(w)] = w
    BY <1>2, <2>1
  <2> HIDE DEF S, r, w
  <2>4. StreamOf(q) = Encoding[r] \o StreamOf(w) /\ StreamOf(w) \in Seq(Bytes)
    BY <2>1, <2>2, StreamFacts
  <2>5. RecordsOf[Encoding[r] \o StreamOf(w)] = <<r>> \o RecordsOf[StreamOf(w)]
    BY <2>1, <2>4, RecordsOfNext
  <2> QED BY <2>2, <2>3, <2>4, <2>5
<1>3. \A n \in Nat : n \in S
  <2> HIDE DEF S
  <2> QED BY <1>1, <1>2, SetInduction
<1>4. Len(rs) \in Nat
  OBVIOUS
<1> QED BY <1>3, <1>4

--------------------------------------------------------------------------------
(* The bytes that wait in a ring, and what a put and a write make of them.     *)
Places == 0 .. MaxBuffer - 1
Out(rg, s, n) == [j \in 1 .. n |-> rg[Wrapped(s + j - 1)]]
PutRing(rg, s, n, bytes) ==
  [i \in DOMAIN rg |-> IF Distance(Wrapped(s + n), i) < Len(bytes)
                       THEN bytes[Distance(Wrapped(s + n), i) + 1] ELSE rg[i]]
WrittenRing(rg, s, n) == [i \in DOMAIN rg |-> IF Distance(s, i) < n THEN Blank ELSE rg[i]]

(* A place of the ring.                                                        *)
LEMMA PlaceFacts ==
  ASSUME NEW s \in Places, NEW n \in 0 .. MaxBuffer
  PROVE  /\ MaxBuffer \in Nat \ {0}
         /\ Wrapped(s + n) \in Places
         /\ \A j \in 1 .. n : Wrapped(s + j - 1) \in Places
  BY SizesAssumption DEF Places, Wrapped

(* What is in the ring is bytes, in the order of the places.                   *)
LEMMA OutType ==
  ASSUME NEW rg \in [Places -> Bytes], NEW s \in Places, NEW n \in 0 .. MaxBuffer
  PROVE  /\ Out(rg, s, n) \in Seq(Bytes) /\ Len(Out(rg, s, n)) = n
         /\ \A j \in 1 .. n : Out(rg, s, n)[j] = rg[Wrapped(s + j - 1)]
<1>1. \A j \in 1 .. n : rg[Wrapped(s + j - 1)] \in Bytes
  BY PlaceFacts
<1>2. Out(rg, s, n) \in [1 .. n -> Bytes]
  BY <1>1 DEF Out
<1>3. n \in Nat
  BY SizesAssumption
<1>4. Out(rg, s, n) \in Seq(Bytes) /\ Len(Out(rg, s, n)) = n
  <2> HIDE DEF Out
  <2> QED BY <1>2, <1>3
<1> QED BY <1>4 DEF Out

LEMMA OutIs ==
  ASSUME NEW rg \in [Places -> Bytes], NEW s \in Places, NEW n \in 0 .. MaxBuffer
  PROVE  (IF s + n <= MaxBuffer THEN [j \in 1 .. n |-> rg[s + j - 1]]
          ELSE [j \in 1 .. MaxBuffer - s |-> rg[s + j - 1]]
                 \o [j \in 1 .. n - (MaxBuffer - s) |-> rg[0 + j - 1]]) = Out(rg, s, n)
<1>1. MaxBuffer \in Nat \ {0} /\ n \in Nat /\ s \in Nat /\ s < MaxBuffer /\ n <= MaxBuffer
  BY SizesAssumption DEF Places
<1>2. CASE s + n <= MaxBuffer
  <2>1. ASSUME NEW j \in 1 .. n PROVE s + j - 1 = Wrapped(s + j - 1)
    BY <1>1, <1>2 DEF Wrapped
  <2>2. [j \in 1 .. n |-> rg[s + j - 1]] = Out(rg, s, n)
    BY <2>1 DEF Out
  <2> QED BY <1>2, <2>2
<1>3. CASE ~(s + n <= MaxBuffer)
  <2> DEFINE k == MaxBuffer - s
             a == [j \in 1 .. k |-> rg[s + j - 1]]
             b == [j \in 1 .. n - k |-> rg[0 + j - 1]]
             c == a \o b
             d == Out(rg, s, n)
  <2>1. k \in Nat /\ k <= n /\ n - k \in Nat /\ k + (n - k) = n /\ n - k <= s
    BY <1>1, <1>3
  <2>2. \A j \in 1 .. k : s + j - 1 \in Places /\ s + j - 1 = Wrapped(s + j - 1)
    BY <1>1 DEF Places, Wrapped
  <2>3. \A j \in 1 .. n - k : 0 + j - 1 \in Places /\ 0 + j - 1 = Wrapped(s + (k + j) - 1)
    BY <1>1, <2>1 DEF Places, Wrapped
  <2>4. a \in Seq(Bytes) /\ Len(a) = k
    <3>1. a \in [1 .. k -> Bytes]
      BY <2>2
    <3> HIDE DEF a, k
    <3> QED BY <2>1, <3>1
  <2>5. b \in Seq(Bytes) /\ Len(b) = n - k
    <3>1. b \in [1 .. n - k -> Bytes]
      BY <2>3
    <3> HIDE DEF b, k
    <3> QED BY <2>1, <3>1
  <2>6. d \in Seq(Bytes) /\ Len(d) = n /\ \A j \in 1 .. n : d[j] = rg[Wrapped(s + j - 1)]
    BY OutType
  <2>7. /\ \A j \in 1 .. k : a[j] = rg[Wrapped(s + j - 1)]
        /\ \A j \in 1 .. n - k : b[j] = rg[Wrapped(s + (k + j) - 1)]
    <3> HIDE DEF k
    <3> QED BY <2>2, <2>3
  <2> HIDE DEF a, b, d, k
  <2>8. c \in Seq(Bytes) /\ Len(c) = n /\ \A j \in 1 .. n : c[j] = IF j <= k THEN a[j] ELSE b[j - k]
    <3>1. /\ c \in Seq(Bytes) /\ Len(c) = Len(a) + Len(b)
          /\ \A j \in 1 .. Len(a) + Len(b) : c[j] = IF j <= Len(a) THEN a[j] ELSE b[j - Len(a)]
      BY <2>4, <2>5, ConcatProperties
    <3> HIDE DEF c
    <3> QED BY <2>1, <2>4, <2>5, <3>1
  <2> HIDE DEF c
  <2>9. ASSUME NEW j \in 1 .. n PROVE c[j] = d[j]
    <3>1. CASE j <= k
      <4>1. j \in 1 .. k
        BY <3>1
      <4> QED BY <2>6, <2>7, <2>8, <3>1, <4>1
    <3>2. CASE ~(j <= k)
      <4>1. j - k \in 1 .. n - k /\ k + (j - k) = j
        BY <1>1, <2>1, <3>2
      <4>2. b[j - k] = rg[Wrapped(s + j - 1)]
        BY <2>7, <4>1
      <4> QED BY <2>6, <2>8, <3>2, <4>2
    <3> QED BY <3>1, <3>2
  <2>10. c = d
    BY <2>6, <2>8, <2>9, SeqEqual
  <2> QED BY <1>3, <2>10 DEF a, b, c, d, k
<1> QED BY <1>2, <1>3

(* What is put in the ring goes after what is there.                           *)
LEMMA PutOut ==
  ASSUME NEW rg \in [Places -> Bytes], NEW s \in Places, NEW n \in 0 .. MaxBuffer,
         NEW bytes \in Seq(Bytes), n + Len(bytes) <= MaxBuffer
  PROVE  /\ PutRing(rg, s, n, bytes) \in [Places -> Bytes]
         /\ n + Len(bytes) \in 0 .. MaxBuffer
         /\ Out(PutRing(rg, s, n, bytes), s, n + Len(bytes)) = Out(rg, s, n) \o bytes
<1> DEFINE new == PutRing(rg, s, n, bytes)
           k == Len(bytes)
           first == Wrapped(s + n)
           c == Out(rg, s, n) \o bytes
           d == Out(new, s, n + k)
<1>1. MaxBuffer \in Nat \ {0} /\ n \in Nat /\ s \in Nat /\ s < MaxBuffer /\ k \in Nat /\ n + k <= MaxBuffer
  BY SizesAssumption DEF Places
<1>2. first \in Places /\ \A i \in Places : Distance(first, i) \in Nat
  <2>1. first \in Places
    BY PlaceFacts
  <2> HIDE DEF first
  <2> QED BY <1>1, <2>1 DEF Places, Distance
<1>3. new \in [Places -> Bytes] /\ \A i \in Places : new[i] = IF Distance(first, i) < k THEN bytes[Distance(first, i) + 1] ELSE rg[i]
  <2>1. ASSUME NEW i \in Places PROVE (IF Distance(first, i) < k THEN bytes[Distance(first, i) + 1] ELSE rg[i]) \in Bytes
    <3> DEFINE x == Distance(first, i)
    <3>1. x \in Nat /\ rg[i] \in Bytes
      BY <1>2
    <3> HIDE DEF x
    <3>2. x < k => x + 1 \in 1 .. k
      BY <1>1, <3>1
    <3>3. x < k => bytes[x + 1] \in Bytes
      BY <3>2, ElementOfSeq
    <3>4. (IF x < k THEN bytes[x + 1] ELSE rg[i]) \in Bytes
      BY <3>1, <3>3
    <3> QED BY <3>4 DEF x
  <2>2. DOMAIN rg = Places
    OBVIOUS
  <2> HIDE DEF first, k
  <2>3. new = [i \in Places |-> IF Distance(first, i) < k THEN bytes[Distance(first, i) + 1] ELSE rg[i]]
    BY <2>2 DEF first, k, PutRing
  <2> HIDE DEF new
  <2> QED BY <2>1, <2>3
<1>4. n + k \in 0 .. MaxBuffer
  BY <1>1
<1> HIDE DEF new
<1>5. d \in Seq(Bytes) /\ Len(d) = n + k /\ \A j \in 1 .. n + k : d[j] = new[Wrapped(s + j - 1)]
  BY <1>3, <1>4, OutType
<1>6. c \in Seq(Bytes) /\ Len(c) = n + k /\ \A j \in 1 .. n + k : c[j] = IF j <= n THEN rg[Wrapped(s + j - 1)] ELSE bytes[j - n]
  <2> DEFINE a == Out(rg, s, n)
  <2>1. a \in Seq(Bytes) /\ Len(a) = n /\ \A j \in 1 .. n : a[j] = rg[Wrapped(s + j - 1)]
    BY OutType
  <2> HIDE DEF a
  <2>2. /\ a \o bytes \in Seq(Bytes) /\ Len(a \o bytes) = Len(a) + k
        /\ \A j \in 1 .. Len(a) + k : (a \o bytes)[j] = IF j <= Len(a) THEN a[j] ELSE bytes[j - Len(a)]
    BY <2>1, ConcatProperties
  <2>3. c = a \o bytes
    BY DEF a
  <2> HIDE DEF c, k
  <2> QED BY <1>1, <2>1, <2>2, <2>3
<1> HIDE DEF c, d, k
<1>7. ASSUME NEW j \in 1 .. n + k PROVE c[j] = d[j]
  <2> DEFINE i == Wrapped(s + j - 1)
  <2>1. i \in Places /\ Distance(first, i) = IF j <= n THEN (j - 1 - n) + MaxBuffer ELSE j - n - 1
    BY <1>1 DEF Places, Wrapped, Distance
  <2>2. CASE j <= n
    <3>1. ~(Distance(first, i) < k)
      BY <1>1, <2>1, <2>2
    <3> HIDE DEF i, first
    <3> QED BY <1>3, <1>5, <1>6, <2>1, <2>2, <3>1 DEF i
  <2>3. CASE ~(j <= n)
    <3>1. Distance(first, i) < k /\ Distance(first, i) + 1 = j - n
      BY <1>1, <2>1, <2>3
    <3> HIDE DEF i, first
    <3> QED BY <1>3, <1>5, <1>6, <2>1, <2>3, <3>1 DEF i
  <2> QED BY <2>2, <2>3
<1>8. d = c
  BY <1>5, <1>6, <1>7, SeqEqual
<1> QED BY <1>3, <1>4, <1>8 DEF c, d, k, new

(* What is written is the first bytes of the ring.                             *)
LEMMA WriteOut ==
  ASSUME NEW rg \in [Places -> Bytes], NEW s \in Places, NEW m \in 0 .. MaxBuffer, NEW n \in 0 .. m
  PROVE  /\ WrittenRing(rg, s, n) \in [Places -> Bytes] /\ Wrapped(s + n) \in Places /\ m - n \in 0 .. MaxBuffer
         /\ n \in 0 .. MaxBuffer
         /\ Out(rg, s, n) \o Out(WrittenRing(rg, s, n), Wrapped(s + n), m - n) = Out(rg, s, m)
<1> DEFINE new == WrittenRing(rg, s, n)
           t == Wrapped(s + n)
           a == Out(rg, s, n)
           b == Out(new, t, m - n)
           c == a \o b
           d == Out(rg, s, m)
<1>1. /\ MaxBuffer \in Nat \ {0} /\ n \in Nat /\ m \in Nat /\ s \in Nat /\ s < MaxBuffer /\ n <= m /\ m <= MaxBuffer
      /\ n \in 0 .. MaxBuffer /\ m - n \in 0 .. MaxBuffer /\ m - n \in Nat
  BY SizesAssumption DEF Places
<1>2. t \in Places
  BY <1>1, PlaceFacts
<1>3. new \in [Places -> Bytes] /\ \A i \in Places : new[i] = IF Distance(s, i) < n THEN Blank ELSE rg[i]
  <2>1. Blank \in Bytes
    BY DEF Bytes
  <2> QED BY <2>1 DEF WrittenRing
<1>4. a \in Seq(Bytes) /\ Len(a) = n /\ \A j \in 1 .. n : a[j] = rg[Wrapped(s + j - 1)]
  BY <1>1, OutType
<1>5. b \in Seq(Bytes) /\ Len(b) = m - n /\ \A j \in 1 .. m - n : b[j] = new[Wrapped(t + j - 1)]
  BY <1>1, <1>2, <1>3, OutType
<1>6. d \in Seq(Bytes) /\ Len(d) = m /\ \A j \in 1 .. m : d[j] = rg[Wrapped(s + j - 1)]
  BY OutType
<1> HIDE DEF a, b, d, new
<1>7. c \in Seq(Bytes) /\ Len(c) = m /\ \A j \in 1 .. m : c[j] = IF j <= n THEN a[j] ELSE b[j - n]
  <2>1. /\ c \in Seq(Bytes) /\ Len(c) = Len(a) + Len(b)
        /\ \A j \in 1 .. Len(a) + Len(b) : c[j] = IF j <= Len(a) THEN a[j] ELSE b[j - Len(a)]
    BY <1>4, <1>5, ConcatProperties
  <2>2. Len(a) + Len(b) = m
    BY <1>1, <1>4, <1>5
  <2> HIDE DEF c
  <2> QED BY <1>4, <2>1, <2>2
<1> HIDE DEF c
<1>8. ASSUME NEW j \in 1 .. m PROVE c[j] = d[j]
  <2>1. CASE j <= n
    <3>1. j \in 1 .. n
      BY <2>1
    <3> QED BY <1>4, <1>6, <1>7, <2>1, <3>1
  <2>2. CASE ~(j <= n)
    <3>1. j - n \in 1 .. m - n
      BY <1>1, <2>2
    <3> DEFINE i == Wrapped(s + j - 1)
    <3>2. i \in Places /\ Wrapped(t + (j - n) - 1) = i /\ ~(Distance(s, i) < n)
      BY <1>1, <2>2 DEF Places, Wrapped, Distance
    <3> HIDE DEF i, t
    <3>3. b[j - n] = new[i] /\ new[i] = rg[i]
      BY <1>3, <1>5, <3>1, <3>2
    <3> QED BY <1>6, <1>7, <2>2, <3>3 DEF i
  <2> QED BY <2>1, <2>2
<1>9. c = d
  BY <1>6, <1>7, <1>8, SeqEqual
<1> QED BY <1>1, <1>2, <1>3, <1>9 DEF a, b, c, d, t, new

--------------------------------------------------------------------------------
(* The bytes of the stream are those of whole records; what was scanned of     *)
(* them has no end of a record.                                                *)
StreamType ==
  /\ ring \in [Places -> Bytes] /\ start \in Places /\ count \in 0 .. MaxBuffer
  /\ wire \in Seq(Bytes) /\ input \in Seq(Bytes) /\ scanned \in 0 .. Len(input)
  /\ fields \in Records \cup {NoFields}
Whole == \E rs \in Seq(Records) : Undecoded = StreamOf(rs)
Scanned == fields = NoFields => \A p \in 1 .. scanned : ~EndsRecord(p)
StreamInv == StreamType /\ Whole /\ Scanned

Rest == IF fields = NoFields THEN input ELSE SubSeq(input, scanned + 1, Len(input))
Holding == IF fields = NoFields THEN <<>> ELSE <<fields>>

(* The type of the next state.                                                 *)
LEMMA LaterType ==
  ASSUME NEW S, NEW b \in Seq(S), NEW m \in 0 .. Len(b)
  PROVE  SubSeq(b, m + 1, Len(b)) \in Seq(S)
<1> DEFINE lo == m + 1
           hi == Len(b)
<1>1. lo \in Int /\ hi \in Int /\ \A i \in lo .. hi : b[i] \in S
  <2>1. \A i \in lo .. hi : i \in 1 .. hi
    OBVIOUS
  <2> QED BY <2>1
<1> HIDE DEF lo, hi
<1>2. SubSeq(b, lo, hi) \in Seq(S)
  BY <1>1, SubSeqProperties
<1> QED BY <1>2 DEF lo, hi

(* The bytes not decoded, in this state and in the next.                       *)
LEMMA UndecodedIs ==
  ASSUME StreamType
  PROVE  Undecoded = Rest \o wire \o Out(ring, start, count)
<1>1. ring \in [Places -> Bytes] /\ start \in Places /\ count \in 0 .. MaxBuffer
  BY DEF StreamType
<1>2. Outgoing(count) = Out(ring, start, count)
  BY <1>1, OutIs DEF Outgoing, Piece
<1> QED BY <1>2 DEF Undecoded, Rest

LEMMA UndecodedNext ==
  ASSUME StreamType'
  PROVE  Undecoded' = Rest' \o wire' \o Out(ring', start', count')
<1>1. ring' \in [Places -> Bytes] /\ start' \in Places /\ count' \in 0 .. MaxBuffer
  BY DEF StreamType
<1>2. Outgoing(count)' = Out(ring', start', count')
  BY <1>1, OutIs DEF Outgoing, Piece
<1> QED BY <1>2 DEF Undecoded, Rest

(* The records in transit: the one that is held, and those of the bytes.       *)
LEMMA InTransitIs ==
  ASSUME NEW rs \in Seq(Records)
  PROVE  /\ Undecoded = StreamOf(rs) => InTransit = Holding \o rs
         /\ Undecoded' = StreamOf(rs) => InTransit' = Holding' \o rs
<1>1. RecordsOf[StreamOf(rs)] = rs
  BY RecordsOfStream
<1>2. ASSUME Undecoded = StreamOf(rs) PROVE InTransit = Holding \o rs
  BY <1>1, <1>2 DEF InTransit, Holding
<1>3. ASSUME Undecoded' = StreamOf(rs) PROVE InTransit' = Holding' \o rs
  BY <1>1, <1>3 DEF InTransit, Holding
<1> QED BY <1>2, <1>3

(* The types of what is held and of the rest.                                  *)
LEMMA RestType ==
  ASSUME StreamType
  PROVE  Rest \in Seq(Bytes) /\ Len(input) \in Nat /\ Holding \in Seq(Records)
<1>1. input \in Seq(Bytes) /\ scanned \in 0 .. Len(input) /\ Len(input) \in Nat
  BY DEF StreamType
<1>2. SubSeq(input, scanned + 1, Len(input)) \in Seq(Bytes)
  BY <1>1, LaterType
<1>3. Holding \in Seq(Records)
  BY DEF Holding, StreamType
<1> QED BY <1>1, <1>2, <1>3 DEF Rest

(* At first nothing is in transit.                                             *)
LEMMA StreamInit ==
  ASSUME ProtInit
  PROVE  StreamInv /\ InTransit = <<>>
<1>1. /\ ring = [i \in Places |-> Blank] /\ start = 0 /\ count = 0 /\ wire = <<>> /\ input = <<>>
      /\ scanned = 0 /\ fields = NoFields
  BY DEF ProtInit, Places
<1>2. MaxBuffer \in Nat \ {0} /\ 0 \in Places /\ Blank \in Bytes /\ <<>> \in Seq(Bytes) /\ Len(<<>>) = 0
  BY SizesAssumption DEF Bytes, Places
<1>3. StreamType
  BY <1>1, <1>2 DEF StreamType
<1>4. Undecoded = <<>>
  <2>1. Undecoded = Rest \o wire \o Out(ring, start, count)
    BY <1>3, UndecodedIs
  <2>2. Out(ring, start, 0) = <<>>
    BY DEF Out
  <2>3. Rest = <<>>
    BY <1>1 DEF Rest
  <2> QED BY <1>1, <2>1, <2>2, <2>3
<1>5. <<>> \in Seq(Records) /\ StreamOf(<<>>) = <<>>
  BY DEF StreamOf, Encoded, FlattenSeq
<1>6. Whole
  BY <1>4, <1>5 DEF Whole
<1>7. Scanned
  BY <1>1 DEF Scanned
<1>8. InTransit = <<>>
  <2>1. InTransit = Holding \o <<>>
    BY <1>4, <1>5, InTransitIs
  <2>2. Holding = <<>>
    BY <1>1 DEF Holding
  <2> QED BY <2>1, <2>2
<1> QED BY <1>3, <1>6, <1>7, <1>8 DEF StreamInv

(* A record that is put comes last.                                            *)
LEMMA PutStep ==
  ASSUME StreamInv, NEW r \in Records, Put(r)
  PROVE  StreamInv' /\ InTransit' = Append(InTransit, r)
<1> DEFINE c == Encoding[r]
           o == Out(ring, start, count)
<1>1. c \in Seq(Bytes) /\ Len(c) \in Nat
  BY EncodingType
<1>2. StreamType /\ ring \in [Places -> Bytes] /\ start \in Places /\ count \in 0 .. MaxBuffer
  BY DEF StreamInv, StreamType
<1>3. /\ count + Len(c) <= MaxBuffer
      /\ ring' = [i \in DOMAIN ring |-> IF Distance(Wrapped(start + count), i) < Len(c)
                                        THEN c[Distance(Wrapped(start + count), i) + 1] ELSE ring[i]]
      /\ count' = count + Len(c)
      /\ start' = start /\ wire' = wire /\ input' = input /\ scanned' = scanned /\ fields' = fields
  BY DEF Put, Fits, inbuf
<1> HIDE DEF c
<1>4. /\ ring' \in [Places -> Bytes] /\ count + Len(c) \in 0 .. MaxBuffer
      /\ Out(ring', start, count + Len(c)) = o \o c
  <2>1. ring' = PutRing(ring, start, count, c) /\ count + Len(c) <= MaxBuffer
    BY <1>3 DEF PutRing
  <2> QED BY <1>1, <1>2, <2>1, PutOut
<1>5. StreamType'
  BY <1>2, <1>3, <1>4 DEF StreamType
<1>6. Rest' = Rest /\ Holding' = Holding
  BY <1>3 DEF Rest, Holding
<1>7. Undecoded' = Undecoded \o c
  <2>1. Undecoded = (Rest \o wire) \o o /\ Undecoded' = (Rest \o wire) \o (o \o c)
    BY <1>2, <1>3, <1>4, <1>5, <1>6, UndecodedIs, UndecodedNext
  <2>2. o \in Seq(Bytes)
    BY <1>2, OutType
  <2> DEFINE a == Rest \o wire
  <2>3. a \in Seq(Bytes)
    BY <1>2, RestType, ConcatProperties DEF StreamType
  <2> HIDE DEF a, o
  <2>4. (a \o o) \o c = a \o (o \o c)
    <3>1. Grouped(a, o, c)
      BY <1>1, <2>2, <2>3, CatAssoc, Zenon
    <3> QED BY <3>1 DEF Grouped
  <2> QED BY <2>1, <2>4 DEF a
<1>8. PICK rs \in Seq(Records) : Undecoded = StreamOf(rs)
  BY DEF StreamInv, Whole
<1> DEFINE new == Append(rs, r)
<1>9. new \in Seq(Records) /\ StreamOf(new) = StreamOf(rs) \o c
  <2>1. new \in Seq(Records)
    OBVIOUS
  <2>2. StreamOf(Append(rs, r)) = StreamOf(rs) \o Encoding[r]
    BY ONLY <1>8, r \in Records, StreamFacts
  <2> QED BY <2>1, <2>2 DEF c
<1>10. Undecoded' = StreamOf(new)
  BY <1>7, <1>8, <1>9
<1>11. Whole'
  BY <1>9, <1>10 DEF Whole
<1>12. Scanned'
  <2>1. \A p : EndsRecord(p)' <=> EndsRecord(p)
    BY <1>3, EndsRecordIs
  <2> QED BY <1>3, <2>1 DEF StreamInv, Scanned
<1>13. InTransit = Holding \o rs /\ InTransit' = Holding' \o new
  <2> HIDE DEF new
  <2> QED BY <1>8, <1>9, <1>10, InTransitIs
<1>14. Holding \o new = Append(Holding \o rs, r)
  <2>1. Holding \in Seq(Records) /\ rs \in Seq(Records)
    BY <1>2, RestType
  <2> QED BY <2>1
<1> QED BY <1>5, <1>6, <1>11, <1>12, <1>13, <1>14 DEF StreamInv

(* Writing and reading move bytes only.                                        *)
LEMMA SameStream ==
  ASSUME StreamInv, StreamType', Scanned', Undecoded' = Undecoded, Holding' = Holding
  PROVE  StreamInv' /\ InTransit' = InTransit
<1>1. PICK rs \in Seq(Records) : Undecoded = StreamOf(rs)
  BY DEF StreamInv, Whole
<1>2. Whole'
  BY <1>1 DEF Whole
<1>3. InTransit = Holding \o rs /\ InTransit' = Holding' \o rs
  BY <1>1, InTransitIs
<1> QED BY <1>2, <1>3 DEF StreamInv

(* A write takes bytes of the ring to the wire.                                *)
LEMMA WriteStep ==
  ASSUME StreamInv, Write
  PROVE  StreamInv' /\ InTransit' = InTransit
<1> DEFINE n == Min({count, WireSize - Len(wire)})
<1>1. /\ StreamType /\ ring \in [Places -> Bytes] /\ start \in Places /\ count \in 0 .. MaxBuffer
      /\ wire \in Seq(Bytes)
  BY DEF StreamInv, StreamType
<1>2. n \in 0 .. count
  <2>1. count \in Int /\ WireSize - Len(wire) \in Int /\ count >= 0
    BY <1>1, SizesAssumption
  <2>2. n = IF count <= WireSize - Len(wire) THEN count ELSE WireSize - Len(wire)
    BY <2>1, MinFacts
  <2>3. n > 0
    BY DEF Write
  <2> HIDE DEF n
  <2> QED BY <2>1, <2>2, <2>3
<1>3. /\ wire' = wire \o Outgoing(n)
      /\ ring' = [i \in DOMAIN ring |-> IF Distance(start, i) < n THEN Blank ELSE ring[i]]
      /\ start' = Wrapped(start + n) /\ count' = count - n
      /\ input' = input /\ scanned' = scanned /\ fields' = fields
  BY DEF Write, inbuf
<1> HIDE DEF n
<1> DEFINE a == Out(ring, start, n)
           b == Out(ring', start', count - n)
           o == Out(ring, start, count)
<1>4. /\ ring' \in [Places -> Bytes] /\ start' \in Places /\ count' \in 0 .. MaxBuffer
      /\ n \in 0 .. MaxBuffer /\ a \o b = o
  <2>1. ring' = WrittenRing(ring, start, n)
    BY <1>3 DEF WrittenRing
  <2> DEFINE new == WrittenRing(ring, start, n)
  <2>2. /\ new \in [Places -> Bytes] /\ Wrapped(start + n) \in Places /\ count - n \in 0 .. MaxBuffer
        /\ n \in 0 .. MaxBuffer /\ Out(ring, start, n) \o Out(new, Wrapped(start + n), count - n) = o
    BY <1>1, <1>2, WriteOut
  <2> HIDE DEF new
  <2>3. ring' = new
    BY <2>1 DEF new
  <2> QED BY <1>3, <2>2, <2>3
<1>5. Outgoing(n) = a /\ a \in Seq(Bytes) /\ b \in Seq(Bytes)
  <2>1. Outgoing(n) = a
    BY <1>1, <1>4, OutIs DEF Outgoing, Piece
  <2>2. a \in Seq(Bytes)
    BY <1>1, <1>4, OutType
  <2>3. count - n \in 0 .. MaxBuffer
    BY <1>3, <1>4
  <2>4. b \in Seq(Bytes)
    BY <1>4, <2>3, OutType
  <2> QED BY <2>1, <2>2, <2>4
<1>6. wire' \in Seq(Bytes)
  BY <1>1, <1>3, <1>5, ConcatProperties
<1>7. StreamType'
  BY <1>1, <1>3, <1>4, <1>6 DEF StreamType
<1>8. Rest' = Rest /\ Holding' = Holding
  BY <1>3 DEF Rest, Holding
<1>9. Undecoded' = Undecoded
  <2>1. Undecoded = (Rest \o wire) \o o
    BY <1>1, UndecodedIs
  <2>2. Undecoded' = (Rest \o (wire \o a)) \o b
    BY <1>3, <1>5, <1>7, <1>8, UndecodedNext
  <2> DEFINE x == Rest
             y == wire
  <2>3. x \in Seq(Bytes) /\ y \in Seq(Bytes) /\ a \in Seq(Bytes) /\ b \in Seq(Bytes)
    BY <1>1, <1>5, RestType
  <2> HIDE DEF a, b, o, x, y
  <2>4. x \o (y \o a) = (x \o y) \o a
    <3>1. Grouped(x, y, a)
      BY <2>3, CatAssoc, Zenon
    <3> QED BY <3>1 DEF Grouped
  <2>5. x \o y \in Seq(Bytes)
    BY ONLY <2>3, ConcatProperties
  <2>6. ((x \o y) \o a) \o b = (x \o y) \o (a \o b)
    <3>1. Grouped(x \o y, a, b)
      BY <2>3, <2>5, CatAssoc, Zenon
    <3> QED BY <3>1 DEF Grouped
  <2>7. (x \o (y \o a)) \o b = (x \o y) \o o
    BY <1>4, <2>4, <2>6
  <2> QED BY <2>1, <2>2, <2>7 DEF x, y
<1>10. Scanned'
  <2>1. \A p : EndsRecord(p)' <=> EndsRecord(p)
    BY <1>3, EndsRecordIs
  <2> QED BY <1>3, <2>1 DEF StreamInv, Scanned
<1> QED BY <1>7, <1>8, <1>9, <1>10, SameStream

(* A read takes bytes of the wire to the input.                                *)
LEMMA ReadStep ==
  ASSUME StreamInv, Read
  PROVE  StreamInv' /\ InTransit' = InTransit
<1> DEFINE n == Min({Len(wire), MaxBuffer - Len(input)})
           a == SubSeq(wire, 1, n)
           b == SubSeq(wire, n + 1, Len(wire))
           o == Out(ring, start, count)
<1>1. /\ StreamType /\ wire \in Seq(Bytes) /\ input \in Seq(Bytes) /\ scanned \in 0 .. Len(input)
      /\ Len(wire) \in Nat /\ Len(input) \in Nat
  BY DEF StreamInv, StreamType
<1>2. n \in 1 .. Len(wire)
  <2>1. Len(wire) \in Int /\ MaxBuffer - Len(input) \in Int
    BY <1>1, SizesAssumption
  <2>2. n = IF Len(wire) <= MaxBuffer - Len(input) THEN Len(wire) ELSE MaxBuffer - Len(input)
    BY <2>1, MinFacts
  <2>3. n > 0
    BY DEF Read
  <2> HIDE DEF n
  <2> QED BY <2>1, <2>2, <2>3
<1>3. /\ fields = NoFields /\ fields' = NoFields /\ input' = input \o a /\ wire' = b
      /\ ring' = ring /\ start' = start /\ count' = count /\ scanned' = scanned
  BY DEF Read, outbuf
<1> HIDE DEF n
<1>4. a \in Seq(Bytes) /\ b \in Seq(Bytes) /\ a \o b = wire
  <2>1. a \in Seq(Bytes)
    BY <1>1, <1>2
  <2>2. b \in Seq(Bytes)
    BY <1>1, <1>2, LaterType
  <2>3. SubSeq(wire, 1, n) \o SubSeq(wire, n + 1, Len(wire)) = SubSeq(wire, 1, Len(wire))
    <3>1. 1 \in 1 .. Len(wire) + 1 /\ n \in 1 - 1 .. Len(wire) /\ Len(wire) \in n .. Len(wire)
      BY <1>1, <1>2
    <3> QED BY <1>1, <3>1, ConcatAdjacentSubSeq
  <2>4. SubSeq(wire, 1, Len(wire)) = wire
    BY <1>1
  <2> QED BY <2>1, <2>2, <2>3, <2>4
<1> HIDE DEF a, b
<1>5. input' \in Seq(Bytes) /\ Len(input') = Len(input) + Len(a) /\ Len(a) \in Nat
      /\ \A i \in 1 .. Len(input) : input'[i] = input[i]
  <2>1. /\ input \o a \in Seq(Bytes) /\ Len(input \o a) = Len(input) + Len(a) /\ Len(a) \in Nat
        /\ \A i \in 1 .. Len(input) : (input \o a)[i] = input[i]
    BY <1>1, <1>4
  <2> QED BY <1>3, <2>1
<1>6. StreamType'
  <2>1. scanned' \in 0 .. Len(input')
    BY <1>1, <1>3, <1>5
  <2> QED BY <1>1, <1>3, <1>4, <1>5, <2>1 DEF StreamType
<1>7. Rest = input /\ Rest' = input \o a /\ Holding' = Holding
  BY <1>3 DEF Rest, Holding
<1>8. Undecoded' = Undecoded
  <2>1. Undecoded = (input \o wire) \o o
    BY <1>1, <1>7, UndecodedIs
  <2>2. Undecoded' = ((input \o a) \o b) \o o
    BY <1>3, <1>6, <1>7, UndecodedNext
  <2>3. (input \o a) \o b = input \o (a \o b)
    <3>1. Grouped(input, a, b)
      BY <1>1, <1>4, CatAssoc, Zenon
    <3> QED BY <3>1 DEF Grouped
  <2> HIDE DEF o
  <2> QED BY <1>4, <2>1, <2>2, <2>3
<1>9. Scanned'
  <2> SUFFICES ASSUME NEW p \in 1 .. scanned PROVE ~EndsRecord(p)'
    BY <1>3 DEF Scanned
  <2>1. ~EndsRecord(p)
    BY <1>3 DEF StreamInv, Scanned
  <2>2. p \in Nat \ {0} /\ \A j \in 1 .. p : input'[j] = input[j]
    <3>1. \A j \in 1 .. p : j \in 1 .. Len(input)
      BY <1>1
    <3> QED BY <1>1, <1>5, <3>1
  <2>3. EndAt(input', p) <=> EndAt(input, p)
    BY <2>2, EndAtPrefix
  <2> QED BY <2>1, <2>3, EndsRecordIs
<1> QED BY <1>6, <1>7, <1>8, <1>9, SameStream

(* The first end found ends the first of the records whose bytes are there.    *)
LEMMA GetStep ==
  ASSUME StreamInv, Get
  PROVE  StreamInv' /\ InTransit' = InTransit
<1> DEFINE o == Out(ring, start, count)
           w == wire \o o
           u == Undecoded
<1>1. /\ StreamType /\ wire \in Seq(Bytes) /\ input \in Seq(Bytes) /\ scanned \in 0 .. Len(input)
      /\ Len(input) \in Nat /\ fields = NoFields
  BY DEF StreamInv, StreamType, Get
<1>2. ring' = ring /\ start' = start /\ count' = count /\ wire' = wire /\ input' = input
  BY DEF Get, outbuf
<1>3. o \in Seq(Bytes) /\ w \in Seq(Bytes)
  <2>1. o \in Seq(Bytes)
    BY <1>1, OutType DEF StreamType
  <2> HIDE DEF o
  <2> QED BY <1>1, <2>1, ConcatProperties
<1>4. u = (input \o wire) \o o /\ u = input \o w
  <2>1. u = (input \o wire) \o o
    BY <1>1, UndecodedIs DEF Rest
  <2> HIDE DEF o, u
  <2>2. Grouped(input, wire, o)
    BY <1>1, <1>3, CatAssoc, Zenon
  <2> QED BY <2>1, <2>2 DEF Grouped
<1>5. \A q : EndsRecord(q)' <=> EndsRecord(q)
  BY <1>2, EndsRecordIs
<1> HIDE DEF o, w, u
<1>6. CASE Ends = {} /\ scanned' = Len(input) /\ UNCHANGED fields
  <2>1. StreamType'
    BY <1>1, <1>2, <1>6 DEF StreamType
  <2>2. Scanned'
    <3> SUFFICES ASSUME NEW q \in 1 .. Len(input) PROVE ~EndsRecord(q)
      BY <1>5, <1>6 DEF Scanned
    <3>1. CASE q \in 1 .. scanned
      BY <1>1, <3>1 DEF StreamInv, Scanned
    <3>2. CASE ~(q \in 1 .. scanned)
      <4>1. q \in scanned + 1 .. Len(input)
        BY <1>1, <3>2
      <4> QED BY <1>6, <4>1 DEF Ends
    <3> QED BY <3>1, <3>2
  <2>3. Rest' = Rest /\ Holding' = Holding
    BY <1>1, <1>2, <1>6 DEF Rest, Holding
  <2>4. Undecoded' = Undecoded
    BY <1>1, <1>2, <2>1, <2>3, UndecodedIs, UndecodedNext
  <2> QED BY <2>1, <2>2, <2>3, <2>4, SameStream
<1>7. ASSUME NEW p \in Ends, \A q \in Ends : p <= q,
             scanned' = p, fields' = Decoded(SubSeq(input, 1, p - 1))
      PROVE  StreamInv' /\ InTransit' = InTransit
  <2>1. p \in 1 .. Len(input) /\ scanned < p /\ EndAt(input, p)
    BY <1>1, EndsRecordIs DEF Ends
  <2>2. ASSUME NEW q \in 1 .. p - 1 PROVE ~EndAt(input, q)
    <3>1. CASE q \in 1 .. scanned
      <4>1. ~EndsRecord(q)
        BY <1>1, <3>1 DEF StreamInv, Scanned
      <4> QED BY <4>1, EndsRecordIs
    <3>2. CASE ~(q \in 1 .. scanned)
      <4>1. q \in scanned + 1 .. Len(input) /\ ~(p <= q)
        BY <1>1, <2>1, <3>2
      <4>2. ~EndsRecord(q)
        BY <1>7, <4>1 DEF Ends
      <4> QED BY <4>2, EndsRecordIs
    <3> QED BY <3>1, <3>2
  <2>3. /\ u \in Seq(Bytes) /\ Len(u) >= Len(input) /\ Len(u) \in Nat
        /\ \A j \in 1 .. Len(input) : u[j] = input[j]
    <3>1. /\ input \o w \in Seq(Bytes) /\ Len(input \o w) >= Len(input) /\ Len(input \o w) \in Nat
          /\ \A j \in 1 .. Len(input) : (input \o w)[j] = input[j]
      BY <1>1, <1>3
    <3> QED BY <1>4, <3>1
  <2>4. PICK rs \in Seq(Records) : u = StreamOf(rs)
    BY DEF StreamInv, Whole, u
  <2>5. rs # <<>>
    <3>1. StreamOf(<<>>) = <<>> /\ Len(<<>>) = 0
      BY DEF StreamOf, Encoded, FlattenSeq
    <3> QED BY <1>1, <2>1, <2>3, <2>4, <3>1
  <2> DEFINE r == Head(rs)
             t == Tail(rs)
             c == Encoding[r]
             n == Len(c)
             x == StreamOf(t)
  <2>6. r \in Records /\ t \in Seq(Records) /\ rs = <<r>> \o t
    BY <2>5
  <2> HIDE DEF r, t
  <2>7. x \in Seq(Bytes) /\ u = c \o x
    BY <2>4, <2>6, StreamFacts
  <2> HIDE DEF x, c
  <2>8. /\ c \in Seq(Bytes) /\ n \in Nat \ {0} /\ EndAt(u, n) /\ \A q \in 1 .. n - 1 : ~EndAt(u, q)
        /\ SubSeq(u, 1, n - 1) = Body(r) /\ SubSeq(u, 1, n) = c /\ SubSeq(u, n + 1, Len(u)) = x
    BY <2>6, <2>7, FirstEnd DEF c
  <2> HIDE DEF n
  <2>9. ASSUME NEW q \in 1 .. Len(input) PROVE EndAt(u, q) <=> EndAt(input, q)
    <3>1. q \in Nat \ {0} /\ \A j \in 1 .. q : u[j] = input[j]
      <4>1. \A j \in 1 .. q : j \in 1 .. Len(input)
        BY <1>1
      <4> QED BY <1>1, <2>3, <4>1
    <3> QED BY <3>1, EndAtPrefix
  <2>10. p = n
    <3>1. ~(p < n)
      <4>1. EndAt(u, p)
        BY <2>1, <2>9
      <4>2. p < n => p \in 1 .. n - 1
        BY <1>1, <2>1, <2>8
      <4> QED BY <2>8, <4>1, <4>2
    <3>2. ~(n < p)
      <4>1. n < p => n \in 1 .. p - 1 /\ n \in 1 .. Len(input)
        BY <1>1, <2>1, <2>8
      <4> QED BY <2>2, <2>8, <2>9, <4>1
    <3> QED BY <1>1, <2>1, <2>8, <3>1, <3>2
  <2>11. SubSeq(input, 1, n - 1) = Body(r) /\ SubSeq(input, 1, n) = c
    <3> SUFFICES ASSUME NEW k \in {n - 1, n} PROVE SubSeq(input, 1, k) = SubSeq(u, 1, k)
      BY <2>8
    <3>1. k \in 0 .. Len(input)
      BY <1>1, <2>1, <2>8, <2>10
    <3> DEFINE d == SubSeq(u, 1, k)
    <3>2. d \in Seq(Bytes) /\ Len(d) = k /\ \A i \in 1 .. k : d[i] = u[i]
      BY <1>1, <2>3, <3>1
    <3> HIDE DEF d
    <3>3. Len(d) <= Len(input) /\ \A i \in 1 .. Len(d) : input[i] = d[i]
      <4>1. \A i \in 1 .. k : i \in 1 .. Len(input)
        BY <1>1, <3>1
      <4> QED BY <1>1, <2>3, <3>1, <3>2, <4>1
    <3>4. SubSeq(input, 1, Len(d)) = d
      BY <1>1, <3>2, <3>3, PrefixIs
    <3> QED BY <3>2, <3>4 DEF d
  <2> DEFINE h == SubSeq(input, n + 1, Len(input))
  <2>12. h \in Seq(Bytes) /\ input = c \o h
    <3>1. 1 \in 1 .. Len(input) + 1 /\ n \in 1 - 1 .. Len(input) /\ Len(input) \in n .. Len(input)
      BY <1>1, <2>1, <2>10
    <3>2. SubSeq(input, 1, n) \o h = SubSeq(input, 1, Len(input))
      BY <1>1, <3>1, ConcatAdjacentSubSeq
    <3>3. SubSeq(input, 1, Len(input)) = input
      BY <1>1
    <3>4. h \in Seq(Bytes)
      BY <1>1, <2>1, <2>10, LaterType
    <3> QED BY <2>11, <3>2, <3>3, <3>4
  <2> HIDE DEF h
  <2>13. h \o w = x
    <3>1. Grouped(c, h, w)
      BY <1>3, <2>8, <2>12, CatAssoc, Zenon
    <3> DEFINE y == h \o w
    <3>2. y \in Seq(Bytes) /\ u = c \o y
      <4>1. y \in Seq(Bytes)
        BY <1>3, <2>12, ConcatProperties
      <4> HIDE DEF y
      <4> QED BY <1>4, <2>12, <3>1, <4>1 DEF Grouped, y
    <3> HIDE DEF y
    <3>3. SubSeq(u, n + 1, Len(u)) = y
      BY <2>6, <3>2, FirstEnd DEF c, n
    <3> QED BY <2>8, <3>3 DEF y
  <2>14. fields' = r
    BY <1>7, <2>6, <2>10, <2>11, DecodedBody
  <2>15. StreamType'
    BY <1>1, <1>2, <1>7, <2>1, <2>6, <2>14 DEF StreamType
  <2>16. Rest' = h /\ Holding' = <<r>> /\ Holding = <<>> /\ fields' # NoFields
    BY <1>1, <1>2, <1>7, <2>6, <2>10, <2>14, RecordType DEF Rest, Holding, h
  <2>17. Undecoded' = x
    <3>1. Undecoded' = (h \o wire) \o o
      BY <1>2, <2>15, <2>16, UndecodedNext DEF o
    <3>2. Grouped(h, wire, o)
      BY <1>1, <1>3, <2>12, CatAssoc, Zenon
    <3> QED BY <2>13, <3>1, <3>2 DEF Grouped, w
  <2>18. InTransit' = <<r>> \o t /\ InTransit = <<>> \o rs
    <3>1. InTransit' = Holding' \o t
      BY <2>6, <2>17, InTransitIs DEF x
    <3>2. InTransit = Holding \o rs
      BY <2>4, InTransitIs DEF u
    <3> QED BY <2>16, <3>1, <3>2
  <2>19. Whole' /\ Scanned'
    BY <2>6, <2>16, <2>17 DEF Whole, Scanned, x
  <2>20. <<>> \o rs = rs
    OBVIOUS
  <2> QED BY <2>6, <2>15, <2>18, <2>19, <2>20 DEF StreamInv
<1> QED BY <1>6, <1>7 DEF Get

(* The record that is released came first.                                     *)
LEMMA NextStep ==
  ASSUME StreamInv, NextRecord
  PROVE  /\ StreamInv' /\ InTransit = <<fields>> \o InTransit' /\ InTransit' = Tail(InTransit)
         /\ fields \in Records /\ InTransit # <<>>
<1>1. /\ StreamType /\ input \in Seq(Bytes) /\ fields \in Records /\ fields # NoFields /\ fields' = NoFields
      /\ input' = SubSeq(input, scanned + 1, Len(input)) /\ scanned' = 0
      /\ ring' = ring /\ start' = start /\ count' = count /\ wire' = wire
  BY DEF StreamInv, StreamType, NextRecord, outbuf
<1>2. Rest' = Rest /\ Holding = <<fields>> /\ Holding' = <<>> /\ input' = Rest
  BY <1>1 DEF Rest, Holding
<1>3. input' \in Seq(Bytes)
  BY <1>1, <1>2, RestType
<1>4. StreamType' /\ Scanned'
  BY <1>1, <1>3 DEF StreamType, Scanned
<1>5. Undecoded' = Undecoded
  BY <1>1, <1>2, <1>4, UndecodedIs, UndecodedNext
<1>6. PICK rs \in Seq(Records) : Undecoded = StreamOf(rs)
  BY DEF StreamInv, Whole
<1>7. InTransit = <<fields>> \o rs /\ InTransit' = <<>> \o rs
  BY <1>2, <1>5, <1>6, InTransitIs
<1>8. <<fields>> \o rs # <<>> /\ Tail(<<fields>> \o rs) = rs /\ <<>> \o rs = rs
  BY <1>1
<1> QED BY <1>1, <1>4, <1>5, <1>6, <1>7, <1>8 DEF StreamInv, Whole

--------------------------------------------------------------------------------
(* What is put and asked for, and the clock.                                   *)
WayInv ==
  /\ StreamInv
  /\ todo \in Seq(Records) /\ requests \in Seq(Keys \cup {List}) /\ now \in 0 .. MaxTime

(* The records that a turn of the server puts are records of the protocol.     *)
LEMMA ServeStep ==
  ASSUME WayInv, Serve
  PROVE  todo' \in Seq(Records) /\ requests' \in Seq(Keys \cup {List}) /\ now' \in 0 .. MaxTime
<1>1. requests \in Seq(Keys \cup {List}) /\ requests # <<>> /\ requests' = Tail(requests) /\ now \in 0 .. MaxTime
  BY DEF WayInv, Serve
<1>2. Head(requests) \in Keys \cup {List} /\ requests' \in Seq(Keys \cup {List})
  BY <1>1
<1>3. CASE Head(requests) = List
  <2>1. todo' = Listed \o <<Done>> /\ now' = now
    BY <1>3 DEF Serve
  <2>2. Listed \in Seq(Records) /\ <<Done>> \in Seq(Records)
    BY SentAssumption
  <2>3. Listed \o <<Done>> \in Seq(Records)
    BY <2>2, ConcatProperties
  <2> QED BY <1>1, <1>2, <2>1, <2>3
<1>4. CASE Head(requests) # List
  <2> DEFINE k == Head(requests)
  <2>1. PICK t \in {now, now + 1} :
          /\ t = now \/ (t <= MaxTime /\ aged = {})
          /\ now' = t
          /\ todo' = <<AnswerTo(k, IF InForce(EndOf[k]) THEN Yes ELSE No, WrittenDate(k, t))>>
    BY <1>4 DEF Serve
  <2>2. t \in 0 .. MaxTime
    BY <1>1, <2>1, MaxTimeAssumption
  <2>3. k \in Keys
    BY <1>2, <1>4
  <2> HIDE DEF k
  <2>4. AnswerTo(k, IF InForce(EndOf[k]) THEN Yes ELSE No, WrittenDate(k, t)) \in Records
    <3>1. CASE InForce(EndOf[k])
      <4>1. WrittenDate(k, t) = exp2check(EndOf[k], t)
        BY <3>1 DEF WrittenDate
      <4> QED BY <2>2, <2>3, <3>1, <4>1, SentAssumption
    <3>2. CASE ~InForce(EndOf[k])
      <4>1. WrittenDate(k, t) = <<>>
        BY <3>2 DEF WrittenDate
      <4> QED BY <2>3, <3>2, <4>1, SentAssumption
    <3> QED BY <3>1, <3>2
  <2> QED BY <1>2, <2>1, <2>2, <2>4
<1> QED BY <1>3, <1>4

(* At first nothing is put and nothing asked for.                              *)
LEMMA WayInit ==
  ASSUME AnswersInit
  PROVE  WayInv /\ InTransit = <<>>
<1>1. StreamInv /\ InTransit = <<>>
  BY StreamInit DEF AnswersInit
<1> QED BY <1>1, MaxTimeAssumption DEF AnswersInit, WayInv

(* What does not touch the stream leaves its records.                          *)
LEMMA SameProt ==
  ASSUME StreamInv, UNCHANGED protVars
  PROVE  StreamInv' /\ InTransit' = InTransit
<1>1. /\ ring' = ring /\ start' = start /\ count' = count /\ wire' = wire
      /\ input' = input /\ scanned' = scanned /\ fields' = fields
  BY DEF protVars, outbuf, inbuf
<1>2. StreamType /\ StreamType' /\ Rest' = Rest /\ Holding' = Holding
  BY <1>1 DEF StreamInv, StreamType, Rest, Holding
<1>3. Undecoded' = Undecoded
  BY <1>1, <1>2, UndecodedIs, UndecodedNext
<1>4. Scanned'
  <2>1. \A p : EndsRecord(p)' <=> EndsRecord(p)
    BY <1>1, EndsRecordIs
  <2> QED BY <1>1, <2>1 DEF StreamInv, Scanned
<1> QED BY <1>2, <1>3, <1>4, SameStream

(* A step puts one record, takes the first, or leaves all.                     *)
LEMMA WayNext ==
  ASSUME WayInv, [AnswersNext]_answerVars
  PROVE  /\ WayInv'
         /\ \/ \E r \in Records : InTransit' = Append(InTransit, r)
            \/ InTransit # <<>> /\ InTransit' = Tail(InTransit)
            \/ InTransit' = InTransit
<1> DEFINE Step == \/ \E r \in Records : InTransit' = Append(InTransit, r)
                   \/ InTransit # <<>> /\ InTransit' = Tail(InTransit)
                   \/ InTransit' = InTransit
           Others == /\ todo' \in Seq(Records) /\ requests' \in Seq(Keys \cup {List})
                     /\ now' \in 0 .. MaxTime
<1>1. StreamInv /\ todo \in Seq(Records) /\ requests \in Seq(Keys \cup {List}) /\ now \in 0 .. MaxTime
  BY DEF WayInv
<1>2. ASSUME NEW k \in Keys, Check(k) PROVE Others /\ StreamInv' /\ Step
  <2>1. StreamInv' /\ InTransit' = InTransit
    BY <1>1, <1>2, SameProt DEF Check
  <2>2. requests' = requests \/ requests' = Append(requests, k)
    BY <1>2 DEF Check
  <2>3. todo' = todo /\ now' = now
    BY <1>2 DEF Check
  <2>4. requests' \in Seq(Keys \cup {List})
    BY <1>1, <2>2
  <2> QED BY <1>1, <2>1, <2>3, <2>4
<1>3. ASSUME GetList PROVE Others /\ StreamInv' /\ Step
  <2>1. StreamInv' /\ InTransit' = InTransit
    BY <1>1, <1>3, SameProt DEF GetList
  <2>2. requests' = Append(requests, List) /\ todo' = todo /\ now' = now
    BY <1>3 DEF GetList
  <2>3. requests' \in Seq(Keys \cup {List})
    BY <1>1, <2>2
  <2> QED BY <1>1, <2>1, <2>2, <2>3
<1>4. ASSUME Serve PROVE Others /\ StreamInv' /\ Step
  <2>1. StreamInv' /\ InTransit' = InTransit
    BY <1>1, <1>4, SameProt DEF Serve
  <2> QED BY <1>4, <2>1, ServeStep
<1>5. ASSUME PutNext PROVE Others /\ StreamInv' /\ Step
  <2>1. /\ todo # <<>> /\ Put(Head(todo)) /\ todo' = Tail(todo) /\ now' = now /\ requests' = requests
    BY <1>5 DEF PutNext
  <2>2. Head(todo) \in Records /\ todo' \in Seq(Records)
    BY <1>1, <2>1
  <2>3. StreamInv' /\ InTransit' = Append(InTransit, Head(todo))
    BY <1>1, <2>1, <2>2, PutStep
  <2> QED BY <1>1, <2>1, <2>2, <2>3
<1>6. ASSUME Stream PROVE Others /\ StreamInv' /\ Step
  <2>1. (Write \/ Read \/ Get) /\ now' = now /\ requests' = requests /\ todo' = todo
    BY <1>6 DEF Stream, server
  <2>2. StreamInv' /\ InTransit' = InTransit
    BY <1>1, <2>1, WriteStep, ReadStep, GetStep
  <2> QED BY <1>1, <2>1, <2>2
<1>7. ASSUME Take PROVE Others /\ StreamInv' /\ Step
  <2>1. NextRecord /\ now' = now /\ requests' = requests /\ todo' = todo
    BY <1>7 DEF Take, server
  <2>2. StreamInv' /\ InTransit # <<>> /\ InTransit' = Tail(InTransit)
    BY <1>1, <2>1, NextStep
  <2> QED BY <1>1, <2>1, <2>2
<1>8. ASSUME Tick PROVE Others /\ StreamInv' /\ Step
  <2>1. StreamInv' /\ InTransit' = InTransit
    BY <1>1, <1>8, SameProt DEF Tick
  <2>2. todo' = todo /\ requests' = requests /\ now < MaxTime /\ now' = now + 1
    BY <1>8 DEF Tick, client, server
  <2>3. now' \in 0 .. MaxTime
    BY <1>1, <2>2, MaxTimeAssumption
  <2> QED BY <1>1, <2>1, <2>2, <2>3
<1>9. ASSUME UNCHANGED answerVars PROVE Others /\ StreamInv' /\ Step
  <2>1. StreamInv' /\ InTransit' = InTransit
    BY <1>1, <1>9, SameProt DEF answerVars
  <2>2. todo' = todo /\ requests' = requests /\ now' = now
    BY <1>9 DEF answerVars, server
  <2> QED BY <1>1, <2>1, <2>2
<1>10. Others /\ StreamInv' /\ Step
  BY <1>2, <1>3, <1>4, <1>5, <1>6, <1>7, <1>8, <1>9 DEF AnswersNext, Progress
<1> QED BY <1>10 DEF WayInv

(* The records in transit are records.                                         *)
LEMMA TransitType ==
  ASSUME StreamInv
  PROVE  InTransit \in Seq(Records)
<1>1. PICK rs \in Seq(Records) : Undecoded = StreamOf(rs)
  BY DEF StreamInv, Whole
<1>2. InTransit = Holding \o rs /\ Holding \in Seq(Records)
  BY <1>1, InTransitIs, RestType DEF StreamInv
<1> QED BY <1>2, ConcatProperties

(* The bytes put, cut, gathered and decoded are the records of a fifo.         *)
LEMMA FifoInit ==
  AnswersInit => Fifo!Init
BY WayInit DEF Fifo!Init

(* A step of the stream is a step of the fifo, or none.                        *)
LEMMA FifoNext ==
  WayInv /\ [AnswersNext]_answerVars => [Fifo!PutOne \/ Fifo!TakeOne]_InTransit
<1> SUFFICES ASSUME WayInv, [AnswersNext]_answerVars
             PROVE  [Fifo!PutOne \/ Fifo!TakeOne]_InTransit
  OBVIOUS
<1>1. CASE InTransit' = InTransit
  BY <1>1
<1>2. CASE InTransit # <<>> /\ InTransit' = Tail(InTransit)
  BY <1>2 DEF Fifo!TakeOne
<1>3. ASSUME NEW r \in Records, InTransit' = Append(InTransit, r) PROVE Fifo!PutOne
  <2>1. InTransit \in Seq(Records)
    BY TransitType DEF WayInv
  <2> DEFINE s == InTransit
             q == Append(s, r)
  <2> HIDE DEF s
  <2>2. q # <<>> /\ Fifo!Front(q) = s /\ Fifo!Last(q) = r
    BY <2>1 DEF s, Fifo!Front, Fifo!Last
  <2>3. InTransit' = q
    BY <1>3 DEF s
  <2> HIDE DEF q
  <2> QED BY <2>2, <2>3 DEF Fifo!PutOne, s
<1> QED BY <1>1, <1>2, <1>3, WayNext

(* What one end of the stream puts is what the other takes: the specification  *)
(* of the way of the answers implements that of RecordFifo.                    *)
THEOREM AnswersImplementFifo == AnswersSpec => ImplementsFifo
<1>1. AnswersInit => WayInv
  BY WayInit
<1>2. WayInv /\ [AnswersNext]_answerVars => WayInv'
  BY WayNext
<1> QED BY <1>1, <1>2, FifoInit, FifoNext, PTL DEF AnswersSpec, ImplementsFifo, Fifo!Spec

(* At every moment the bytes not decoded are those of whole records, and no    *)
(* end of a record was missed.                                                 *)
THEOREM StreamCorrect == AnswersSpec => []StreamInv
<1>1. AnswersInit => WayInv
  BY WayInit
<1>2. WayInv /\ [AnswersNext]_answerVars => WayInv'
  BY WayNext
<1>3. WayInv => StreamInv
  BY DEF WayInv
<1> QED BY <1>1, <1>2, <1>3, PTL DEF AnswersSpec

--------------------------------------------------------------------------------
(* The digits and the units of a duration.                                     *)
Scales == {31557600, 604800, 86400, 3600, 60, 1}

(* A digit counts for less than ten.                                           *)
LEMMA DigitFacts ==
  ASSUME NEW n \in 0 .. 9
  PROVE  /\ Digits[n + 1] \in DOMAIN DigitValue /\ DigitValue[Digits[n + 1]] = n
         /\ Digits[n + 1] \in Letters /\ Digits[n + 1] # "-"
<1>1. /\ Digits[1] = "0" /\ Digits[2] = "1" /\ Digits[3] = "2" /\ Digits[4] = "3" /\ Digits[5] = "4"
      /\ Digits[6] = "5" /\ Digits[7] = "6" /\ Digits[8] = "7" /\ Digits[9] = "8" /\ Digits[10] = "9"
  BY DEF Digits
<1>2. ASSUME NEW i \in 1 .. 10, NEW j \in 1 .. 10, Digits[i] = Digits[j] PROVE i = j
  <2>1. i \in {1, 2, 3, 4, 5, 6, 7, 8, 9, 10} /\ j \in {1, 2, 3, 4, 5, 6, 7, 8, 9, 10}
    OBVIOUS
  <2> QED BY <1>1, <1>2, <2>1
<1>3. n + 1 \in 1 .. 10 /\ (n + 1) - 1 = n
  OBVIOUS
<1>4. Digits[n + 1] \in {Digits[i] : i \in 1 .. 10}
  BY <1>3
<1>5. (CHOOSE i \in 1 .. 10 : Digits[i] = Digits[n + 1]) = n + 1
  BY <1>2, <1>3
<1>6. Digits[n + 1] \in DOMAIN DigitValue /\ DigitValue[Digits[n + 1]] = n
  BY <1>3, <1>4, <1>5 DEF DigitValue
<1>7. Digits[n + 1] # "-"
  <2>1. n + 1 \in {1, 2, 3, 4, 5, 6, 7, 8, 9, 10}
    OBVIOUS
  <2> QED BY <1>1, <2>1
<1> QED BY <1>6, <1>7 DEF Letters

(* The units are letters and no digits; the greatest is the first.             *)
LEMMA UnitFacts ==
  ASSUME NEW i \in 1 .. 6
  PROVE  /\ Units[i] \in Letters /\ Units[i] \notin DOMAIN DigitValue
         /\ Seconds[Units[i]] \in Scales
         /\ i = 6 => Seconds[Units[i]] = 1
<1>1. /\ Units[1] = "y" /\ Units[2] = "w" /\ Units[3] = "d" /\ Units[4] = "h" /\ Units[5] = "m"
      /\ Units[6] = "s" /\ DOMAIN Units = 1 .. 6
  BY DEF Units
<1>2. i \in {1, 2, 3, 4, 5, 6}
  OBVIOUS
<1>3. Units[i] \in {"y", "w", "d", "h", "m", "s"} /\ Units[i] \in Letters
  BY <1>1, <1>2 DEF Letters
<1>4. DOMAIN DigitValue = {"0", "1", "2", "3", "4", "5", "6", "7", "8", "9"}
  <2>1. DOMAIN DigitValue = {Digits[k] : k \in 1 .. 10}
    BY DEF DigitValue
  <2>2. \A k \in 1 .. 10 : k \in {1, 2, 3, 4, 5, 6, 7, 8, 9, 10}
    OBVIOUS
  <2>3. /\ Digits[1] = "0" /\ Digits[2] = "1" /\ Digits[3] = "2" /\ Digits[4] = "3" /\ Digits[5] = "4"
        /\ Digits[6] = "5" /\ Digits[7] = "6" /\ Digits[8] = "7" /\ Digits[9] = "8" /\ Digits[10] = "9"
    BY DEF Digits
  <2> QED BY <2>1, <2>2, <2>3
<1>5. Units[i] \notin DOMAIN DigitValue
  BY <1>3, <1>4
<1>6. /\ Seconds["y"] = 31557600 /\ Seconds["w"] = 604800 /\ Seconds["d"] = 86400 /\ Seconds["h"] = 3600
      /\ Seconds["m"] = 60 /\ Seconds["s"] = 1
  BY DEF Seconds
<1>7. Seconds[Units[i]] \in Scales /\ (i = 6 => Seconds[Units[i]] = 1)
  BY <1>1, <1>3, <1>6 DEF Scales
<1> QED BY <1>3, <1>5, <1>7

(* Sums and products that saturate are not greater, and not 0.                 *)
LEMMA PlusFacts ==
  ASSUME NEW x \in 0 .. TMAX, NEW y \in Nat
  PROVE  /\ Plus(x, y) \in Nat /\ Plus(x, y) <= x + y
         /\ (x >= 1 \/ y >= 1) => Plus(x, y) >= 1
         /\ y <= TMAX => Plus(x, y) \in 0 .. TMAX
  BY TMAXAssumption DEF Plus

(* A product saturates.                                                        *)
LEMMA TimesFacts ==
  ASSUME NEW x \in 0 .. TMAX, NEW m \in Scales \cup {10}
  PROVE  /\ Times(x, m) \in 0 .. TMAX /\ Times(x, m) <= x * m
         /\ x >= 1 => Times(x, m) >= 1
<1>1. TMAX \in Nat \ {0} /\ x \in Nat
  BY TMAXAssumption
<1>2. CASE m = 10
  BY <1>1, <1>2 DEF Times
<1>3. CASE m = 31557600
  BY <1>1, <1>3 DEF Times
<1>4. CASE m = 604800
  BY <1>1, <1>4 DEF Times
<1>5. CASE m = 86400
  BY <1>1, <1>5 DEF Times
<1>6. CASE m = 3600
  BY <1>1, <1>6 DEF Times
<1>7. CASE m = 60
  BY <1>1, <1>7 DEF Times
<1>8. CASE m = 1
  BY <1>1, <1>8 DEF Times
<1> QED BY <1>2, <1>3, <1>4, <1>5, <1>6, <1>7, <1>8 DEF Scales

(* A count of units, multiplied and added, saturates.                          *)
LEMMA ScaleFacts ==
  ASSUME NEW m \in Scales, NEW left \in Nat, left >= m
  PROVE  /\ m \in Nat \ {0} /\ left \div m \in Nat \ {0} /\ left % m \in 0 .. left - 1
         /\ \A x \in 0 .. left \div m : x * m \in Nat /\ x * m <= left - (left % m)
         /\ m = 1 => left % m = 0
<1> DEFINE q == left \div m
           p == left % m
<1>1. m \in Nat \ {0}
  BY DEF Scales
<1>2. q \in Nat /\ p \in 0 .. m - 1 /\ left = q * m + p
  BY <1>1
<1>3. m = 1 => p = 0
  BY <1>2
<1> HIDE DEF q, p
<1>4. q # 0
  BY <1>1, <1>2
<1>5. ASSUME NEW x \in 0 .. q PROVE x * m \in Nat /\ x * m <= left - p
  <2>1. (q - x) * m >= 0 /\ (q - x) * m = q * m - x * m /\ x * m >= 0
    BY <1>1, <1>2
  <2> QED BY <1>1, <1>2, <2>1
<1>6. p \in 0 .. left - 1
  BY <1>1, <1>2
<1>7. q \in Nat \ {0} /\ \A x \in 0 .. q : x * m \in Nat /\ x * m <= left - p
  BY <1>2, <1>4, <1>5
<1>8. /\ m \in Nat \ {0} /\ q \in Nat \ {0} /\ p \in 0 .. left - 1
      /\ \A x \in 0 .. q : x * m \in Nat /\ x * m <= left - p
      /\ m = 1 => p = 0
  BY <1>1, <1>3, <1>6, <1>7
<1> QED BY <1>8, Zenon DEF q, p

(* What reads a duration.                                                      *)
Read1(a, text, z) == Runs(ReadChar, Sums \X Letters, Sums, a, text, z)
Sum(r, x) == [r |-> r, x |-> x]

(* One character is read: a digit, or a unit.                                  *)
LEMMA ReadCharIs ==
  ASSUME NEW r \in 0 .. TMAX, NEW x \in 0 .. TMAX, NEW c \in Letters
  PROVE  /\ Sum(r, x) \in Sums /\ <<Sum(r, x), c>> \in Sums \X Letters
         /\ c \in DOMAIN DigitValue =>
              ReadChar[<<Sum(r, x), c>>] = Sum(r, Plus(Times(x, 10), DigitValue[c]))
         /\ c \notin DOMAIN DigitValue =>
              ReadChar[<<Sum(r, x), c>>] = Sum(Plus(Times(x, Seconds[c]), r), 0)
<1> DEFINE a == Sum(r, x)
<1>1. a \in Sums /\ a.r = r /\ a.x = x
  BY DEF Sum, Sums
<1> HIDE DEF a
<1>2. <<a, c>> \in Sums \X Letters
  BY <1>1
<1>3. ReadChar[<<a, c>>] = IF c \in DOMAIN DigitValue
                           THEN [r |-> a.r, x |-> Plus(Times(a.x, 10), DigitValue[c])]
                           ELSE [r |-> Plus(Times(a.x, Seconds[c]), a.r), x |-> 0]
  BY <1>2 DEF ReadChar
<1> QED BY <1>1, <1>2, <1>3 DEF a, Sum

(* A number is read as itself, or as the greatest time when it is greater.     *)
DecimalStep ==
  [f \in [Nat -> Seq(Letters)] |->
     [n \in Nat |-> IF n < 10 THEN <<Digits[n + 1]>> ELSE Append(f[n \div 10], Digits[(n % 10) + 1])]]

(* The division by ten.                                                        *)
LEMMA TenFacts ==
  ASSUME NEW n \in Nat
  PROVE  /\ n % 10 \in 0 .. 9 /\ n \div 10 \in Nat /\ n = (n \div 10) * 10 + (n % 10)
         /\ n >= 10 => n \div 10 < n /\ n \div 10 >= 1
<1> DEFINE q == n \div 10
           p == n % 10
<1>1. p \in 0 .. 9 /\ q \in Nat /\ n = q * 10 + p
  OBVIOUS
<1> HIDE DEF q, p
<1>2. n >= 10 => q < n /\ q >= 1
  BY <1>1
<1> QED BY <1>1, <1>2 DEF q, p

(* What Decimal is: it has a value for each natural.                           *)
LEMMA DecimalIs ==
  /\ Decimal \in [Nat -> Seq(Letters)]
  /\ \A n \in Nat : Decimal[n] = IF n < 10 THEN <<Digits[n + 1]>>
                                 ELSE Append(Decimal[n \div 10], Digits[(n % 10) + 1])
<1> DEFINE D == Seq(Letters)
           size == [n \in Nat |-> n]
           base == [n \in Nat |-> <<>>]
           DecimalAt(f, n) == IF n < 10 THEN <<Digits[n + 1]>> ELSE Append(f[n \div 10], Digits[(n % 10) + 1])
<1>1. ASSUME NEW f \in [Nat -> D], NEW n \in Nat PROVE DecimalAt(f, n) \in D
  <2>1. n % 10 \in 0 .. 9 /\ n \div 10 \in Nat
    BY TenFacts
  <2>2. Digits[(n % 10) + 1] \in Letters /\ (n < 10 => Digits[n + 1] \in Letters)
    <3>1. n < 10 => n \in 0 .. 9
      OBVIOUS
    <3> QED BY <2>1, <3>1, DigitFacts
  <2>3. f[n \div 10] \in Seq(Letters)
    BY <2>1
  <2> DEFINE d == Digits[(n % 10) + 1]
             e == Digits[n + 1]
             g == f[n \div 10]
  <2> HIDE DEF d, e, g
  <2>4. Append(g, d) \in Seq(Letters) /\ (n < 10 => <<e>> \in Seq(Letters))
    BY <2>2, <2>3 DEF d, e, g
  <2> QED BY <2>4 DEF d, e, g
<1>2. DecimalStep \in [[Nat -> D] -> [Nat -> D]]
  BY <1>1 DEF DecimalStep
<1>3. \A f \in [Nat -> D] : DecimalStep[f] = [n \in Nat |-> DecimalAt(f, n)]
  BY DEF DecimalStep
<1>4. ASSUME NEW x \in Nat, NEW f \in [Nat -> D], NEW g \in [Nat -> D],
             \A y \in Nat : size[y] < size[x] => f[y] = g[y]
      PROVE  DecimalStep[f][x] = DecimalStep[g][x]
  <2>1. x >= 10 => f[x \div 10] = g[x \div 10]
    BY <1>4, TenFacts
  <2>2. DecimalAt(f, x) = DecimalAt(g, x)
    BY <2>1
  <2> HIDE DEF DecimalAt, D
  <2>3. \A h \in [Nat -> D] : DecimalStep[h][x] = DecimalAt(h, x)
    BY <1>3
  <2> QED BY <1>4, <2>2, <2>3
<1>5. size \in [Nat -> Nat] /\ base \in [Nat -> D]
  OBVIOUS
<1>6. Shrinks(Nat, size, D, base, DecimalStep)
  <2> HIDE DEF size, base, D
  <2> QED BY <1>2, <1>4, <1>5 DEF Shrinks
<1>7. PICK f \in [Nat -> D] : f = DecimalStep[f]
  <2> HIDE DEF size, base, D
  <2> QED BY <1>6, SizeRecursion
<1> DEFINE Is(h) == h = [n \in Nat |-> DecimalAt(h, n)]
<1>8. Is(f)
  BY <1>3, <1>7
<1>9. Decimal = CHOOSE g : Is(g)
  BY DEF Decimal
<1>10. Is(Decimal)
  <2> HIDE DEF Is
  <2> QED BY <1>8, <1>9
<1> HIDE DEF DecimalAt
<1>11. \A n \in Nat : Decimal[n] = DecimalAt(Decimal, n)
  BY <1>10
<1>12. Decimal \in [Nat -> D]
  <2> DEFINE S == {n \in Nat : Decimal[n] \in D}
  <2>1. ASSUME NEW n \in Nat, \A m \in Nat : m < n => m \in S PROVE n \in S
    <3>1. CASE n < 10
      <4>1. DecimalAt(Decimal, n) = DecimalAt(base, n) /\ base \in [Nat -> D]
        BY <3>1 DEF DecimalAt
      <4>2. DecimalAt(base, n) \in D
        BY <1>1, <4>1
      <4> QED BY <1>11, <4>1, <4>2
    <3>2. CASE ~(n < 10)
      <4> DEFINE g == [m \in Nat |-> Decimal[n \div 10]]
      <4>1. n \div 10 \in Nat /\ Decimal[n \div 10] \in D
        BY <2>1, <3>2, TenFacts
      <4>2. g \in [Nat -> D] /\ DecimalAt(Decimal, n) = DecimalAt(g, n)
        BY <3>2, <4>1 DEF DecimalAt
      <4> HIDE DEF g
      <4>3. DecimalAt(g, n) \in D
        BY <1>1, <4>2
      <4> QED BY <1>11, <4>2, <4>3
    <3> QED BY <3>1, <3>2
  <2>2. \A n \in Nat : n \in S
    <3> HIDE DEF S
    <3> QED BY <2>1, StrongInduction
  <2> QED BY <1>10, <2>2
<1> QED BY <1>11, <1>12 DEF DecimalAt

(* A number is read as itself, or as the greatest time when it is greater.     *)
Counts(n) ==
  /\ Decimal[n] \in Seq(Letters) /\ Decimal[n] # <<>> /\ Decimal[n][1] # "-"
  /\ \A r \in 0 .. TMAX :
       \E x \in 0 .. TMAX : x <= n /\ (n >= 1 => x >= 1) /\ Read1(Sum(r, 0), Decimal[n], Sum(r, x))

(* One more digit is read.                                                     *)
LEMMA DigitRead ==
  ASSUME NEW r \in 0 .. TMAX, NEW x \in 0 .. TMAX, NEW n \in 0 .. 9
  PROVE  \E y \in 0 .. TMAX :
           /\ y <= x * 10 + n /\ (x >= 1 \/ n >= 1 => y >= 1)
           /\ Read1(Sum(r, x), <<Digits[n + 1]>>, Sum(r, y))
<1> DEFINE c == Digits[n + 1]
           t == Times(x, 10)
           y == Plus(t, n)
<1>1. c \in Letters /\ c \in DOMAIN DigitValue /\ DigitValue[c] = n
  BY DigitFacts
<1>2. t \in 0 .. TMAX /\ t <= x * 10 /\ (x >= 1 => t >= 1)
  BY TimesFacts
<1>3. x \in Nat /\ TMAX \in Nat \ {0}
  BY TMAXAssumption
<1> HIDE DEF c, t
<1>4. y \in Nat /\ y <= t + n /\ (t >= 1 \/ n >= 1 => y >= 1)
  <2>1. n \in Nat
    OBVIOUS
  <2> QED BY <1>2, <2>1, PlusFacts
<1>5. y \in 0 .. TMAX
  BY <1>2, <1>3 DEF Plus
<1>6. y <= x * 10 + n /\ (x >= 1 \/ n >= 1 => y >= 1)
  BY <1>2, <1>3, <1>4
<1>7. ReadChar[<<Sum(r, x), c>>] = Sum(r, y) /\ <<Sum(r, x), c>> \in Sums \X Letters /\ Sum(r, x) \in Sums
  BY <1>1, ReadCharIs DEF t
<1> HIDE DEF y
<1>8. Sum(r, y) \in Sums
  BY <1>5 DEF Sum, Sums
<1>9. Read1(Sum(r, x), <<c>>, Sum(r, y))
  BY <1>7, <1>8, RunsOne DEF Read1
<1> QED BY <1>5, <1>6, <1>9 DEF c

(* Each number is read.                                                        *)
LEMMA DecimalRead == \A n \in Nat : Counts(n)
<1> DEFINE S == {n \in Nat : Counts(n)}
<1>0. TMAX \in Nat \ {0}
  BY TMAXAssumption
<1>1. ASSUME NEW n \in Nat, \A m \in Nat : m < n => m \in S PROVE Counts(n)
  <2>1. CASE n < 10
    <3> DEFINE c == Digits[n + 1]
    <3>0. n \in 0 .. 9
      BY <2>1
    <3>1. n \in 0 .. 9 /\ Decimal[n] = <<c>>
      <4>1. Decimal[n] = IF n < 10 THEN <<c>> ELSE Append(Decimal[n \div 10], Digits[(n % 10) + 1])
        BY DecimalIs
      <4> QED BY <2>1, <3>0, <4>1
    <3>2. c \in Letters /\ c # "-"
      BY <3>1, DigitFacts
    <3>3. ASSUME NEW r \in 0 .. TMAX
          PROVE  \E x \in 0 .. TMAX : x <= n /\ (n >= 1 => x >= 1) /\ Read1(Sum(r, 0), <<c>>, Sum(r, x))
      <4>1. PICK y \in 0 .. TMAX : /\ y <= 0 * 10 + n /\ (0 >= 1 \/ n >= 1 => y >= 1)
                                   /\ Read1(Sum(r, 0), <<c>>, Sum(r, y))
        <5>1. 0 \in 0 .. TMAX
          BY <1>0
        <5> QED BY <3>1, <5>1, DigitRead
      <4>2. y <= n
        BY <4>1
      <4> QED BY <4>1, <4>2
    <3> HIDE DEF c
    <3>4. <<c>> \in Seq(Letters) /\ <<c>> # <<>> /\ <<c>>[1] = c
      BY <3>2
    <3> QED BY <3>1, <3>2, <3>3, <3>4 DEF Counts
  <2>2. CASE ~(n < 10)
    <3> DEFINE m == n \div 10
               k == n % 10
               d == Decimal[m]
               c == Digits[k + 1]
    <3>1. m \in Nat /\ k \in 0 .. 9 /\ n = m * 10 + k /\ m < n /\ m >= 1
      BY <2>2, TenFacts
    <3>2. Decimal[n] = Append(d, c)
      BY <2>2, DecimalIs
    <3> HIDE DEF m, k
    <3>3. Counts(m)
      BY <1>1, <3>1
    <3>4. c \in Letters
      BY <3>1, DigitFacts
    <3>5. d \in Seq(Letters) /\ d # <<>> /\ d[1] # "-"
      BY <3>3 DEF Counts
    <3>6. ASSUME NEW r \in 0 .. TMAX
          PROVE  \E x \in 0 .. TMAX : x <= n /\ (n >= 1 => x >= 1) /\ Read1(Sum(r, 0), d \o <<c>>, Sum(r, x))
      <4>1. PICK x \in 0 .. TMAX : x <= m /\ x >= 1 /\ Read1(Sum(r, 0), d, Sum(r, x))
        BY <3>1, <3>3 DEF Counts
      <4>2. PICK y \in 0 .. TMAX : /\ y <= x * 10 + k /\ (x >= 1 \/ k >= 1 => y >= 1)
                                   /\ Read1(Sum(r, x), <<c>>, Sum(r, y))
        BY <3>1, DigitRead
      <4>3. y <= n /\ y >= 1
        BY <1>0, <3>1, <4>1, <4>2
      <4> HIDE DEF d, c
      <4>4. <<c>> \in Seq(Letters)
        BY <3>4
      <4>5. Read1(Sum(r, 0), d \o <<c>>, Sum(r, y))
        BY <3>5, <4>1, <4>2, <4>4, RunsCat DEF Read1
      <4> QED BY <4>3, <4>5
    <3> HIDE DEF d, c
    <3>7. /\ Append(d, c) \in Seq(Letters) /\ Append(d, c) # <<>> /\ Append(d, c)[1] = d[1]
          /\ Append(d, c) = d \o <<c>>
      BY <3>4, <3>5
    <3> QED BY <3>2, <3>5, <3>6, <3>7 DEF Counts
  <2> QED BY <2>1, <2>2
<1>2. \A n \in Nat : n \in S
  <2>1. \A n \in Nat : (\A m \in Nat : m < n => m \in S) => n \in S
    BY <1>1
  <2> HIDE DEF S
  <2> QED BY <2>1, StrongInduction
<1> QED BY <1>2

(* What a duration of d seconds is made of, when "left" are still to write.    *)
Writing == [left : Nat, text : Seq(Letters)]
Written(d, a) ==
  /\ a \in Writing /\ a.left <= d
  /\ a.left = d => a.text = <<>>
  /\ a.left # d => a.text # <<>> /\ a.text[1] # "-"
  /\ \E r \in 0 .. TMAX : /\ r <= d - a.left /\ (a.left # d => r >= 1)
                          /\ Read1(Sum(0, 0), a.text, Sum(r, 0))

(* At first all is left to write.                                              *)
LEMMA WrittenFirst ==
  ASSUME NEW d \in Nat
  PROVE  Written(d, [left |-> d, text |-> <<>>])
<1> DEFINE a == [left |-> d, text |-> <<>>]
<1>1. a \in Writing /\ a.left = d /\ a.text = <<>> /\ d <= d /\ d - d = 0
  BY DEF Writing
<1>2. 0 \in 0 .. TMAX /\ 0 <= 0
  BY TMAXAssumption
<1>3. Sum(0, 0) \in Sums
  BY <1>2 DEF Sum, Sums
<1>4. Read1(Sum(0, 0), <<>>, Sum(0, 0))
  BY <1>3, RunsNone DEF Read1
<1> HIDE DEF a
<1>5. Written(d, a)
  BY <1>1, <1>2, <1>4 DEF Written
<1> QED BY <1>5 DEF a

(* One more unit is written.                                                   *)
LEMMA WrittenNext ==
  ASSUME NEW d \in Nat, NEW a, Written(d, a), NEW i \in 1 .. 6
  PROVE  Written(d, AddUnit(a, Units[i])) /\ (i = 6 => AddUnit(a, Units[i]).left = 0)
<1> DEFINE u == Units[i]
           m == Seconds[u]
           left == a.left
           text == a.text
<1>1. /\ u \in Letters /\ u \notin DOMAIN DigitValue /\ m \in Scales /\ m \in Nat \ {0}
      /\ (i = 6 => m = 1)
  <2>1. u \in Letters /\ u \notin DOMAIN DigitValue /\ m \in Scales /\ (i = 6 => m = 1)
    BY UnitFacts
  <2> HIDE DEF m
  <2> QED BY <2>1 DEF Scales
<1>2. left \in Nat /\ text \in Seq(Letters) /\ left <= d
  BY DEF Written, Writing
<1>3. AddUnit(a, u) = IF left < m THEN a
                      ELSE [left |-> left % m, text |-> text \o Append(Decimal[left \div m], u)]
  BY DEF AddUnit
<1>4. CASE left < m
  <2>1. AddUnit(a, u) = a
    BY <1>3, <1>4
  <2>2. i = 6 => left = 0
    <3> HIDE DEF m, left
    <3> QED BY <1>1, <1>2, <1>4
  <2> QED BY <2>1, <2>2
<1>5. CASE ~(left < m)
  <2> DEFINE n == left \div m
             p == left % m
             dec == Decimal[n]
             b == [left |-> p, text |-> text \o Append(dec, u)]
  <2>1. /\ n \in Nat \ {0} /\ p \in 0 .. left - 1
        /\ \A x \in 0 .. n : x * m \in Nat /\ x * m <= left - p
        /\ m = 1 => p = 0
    <3>1. left >= m
      <4> HIDE DEF left, m
      <4> QED BY <1>1, <1>2, <1>5
    <3> HIDE DEF left, m
    <3>2. /\ left \div m \in Nat \ {0} /\ left % m \in 0 .. left - 1
          /\ \A x \in 0 .. left \div m : x * m \in Nat /\ x * m <= left - (left % m)
          /\ m = 1 => left % m = 0
      BY <1>1, <1>2, <3>1, ScaleFacts
    <3> QED BY <3>2, Zenon
  <2>2. AddUnit(a, u) = b
    BY <1>3, <1>5
  <2> HIDE DEF n, p
  <2>3. Counts(n)
    BY <2>1, DecimalRead
  <2>4. dec \in Seq(Letters) /\ dec # <<>> /\ dec[1] # "-"
    BY <2>3 DEF Counts
  <2>5. PICK r \in 0 .. TMAX : /\ r <= d - left /\ (left # d => r >= 1)
                               /\ Read1(Sum(0, 0), text, Sum(r, 0))
    BY DEF Written
  <2>6. PICK x \in 0 .. TMAX : x <= n /\ x >= 1 /\ Read1(Sum(r, 0), dec, Sum(r, x))
    <3>1. n >= 1
      BY <2>1
    <3> QED BY <2>3, <3>1 DEF Counts
  <2> HIDE DEF dec, m, u, left, text
  <2> DEFINE t == Times(x, m)
             s == Plus(t, r)
  <2>7. t \in 0 .. TMAX /\ t <= x * m /\ t >= 1
    BY <1>1, <2>6, TimesFacts
  <2> HIDE DEF t
  <2>8. s \in 0 .. TMAX /\ s <= t + r /\ s >= 1
    <3>1. r \in Nat /\ r <= TMAX
      BY TMAXAssumption
    <3> QED BY <2>7, <3>1, PlusFacts
  <2> HIDE DEF s
  <2>9. Read1(Sum(r, x), <<u>>, Sum(s, 0))
    <3>1. 0 \in 0 .. TMAX
      BY TMAXAssumption
    <3>2. /\ Sum(r, x) \in Sums /\ <<Sum(r, x), u>> \in Sums \X Letters /\ Sum(s, 0) \in Sums
          /\ ReadChar[<<Sum(r, x), u>>] = Sum(s, 0)
      <4>1. Sum(s, 0) \in Sums
        BY <2>8, <3>1 DEF Sum, Sums
      <4> QED BY <1>1, <4>1, ReadCharIs DEF s, t, m
    <3> QED BY <3>2, RunsOne DEF Read1
  <2>10. <<u>> \in Seq(Letters) /\ dec \o <<u>> \in Seq(Letters) /\ Append(dec, u) = dec \o <<u>>
    BY <1>1, <2>4
  <2>11. Read1(Sum(0, 0), text \o (dec \o <<u>>), Sum(s, 0))
    <3>1. Read1(Sum(r, 0), dec \o <<u>>, Sum(s, 0))
      BY <2>4, <2>6, <2>9, <2>10, RunsCat DEF Read1
    <3> DEFINE e == dec \o <<u>>
    <3> HIDE DEF e
    <3> QED BY <1>2, <2>5, <2>10, <3>1, RunsCat DEF Read1, e
  <2>12. /\ text \o (dec \o <<u>>) \in Seq(Letters) /\ text \o (dec \o <<u>>) # <<>>
         /\ (text \o (dec \o <<u>>))[1] # "-"
    <3> DEFINE e == dec \o <<u>>
    <3>1. e \in Seq(Letters) /\ e # <<>> /\ e[1] = dec[1]
      BY <1>1, <2>4, <2>10
    <3> HIDE DEF e
    <3>2. text # <<>> => text[1] # "-"
      BY DEF Written, left, text
    <3>3. text \o e \in Seq(Letters) /\ text \o e # <<>>
      BY <1>2, <3>1
    <3>4. (text \o e)[1] = IF text = <<>> THEN e[1] ELSE text[1]
      BY <1>2, <3>1
    <3> QED BY <2>4, <3>1, <3>2, <3>3, <3>4 DEF e
  <2>13. s <= d - p
    <3>1. x \in 0 .. n
      BY <2>1, <2>6
    <3>2. x * m \in Nat /\ x * m <= left - p
      BY <2>1, <3>1
    <3> DEFINE y == x * m
    <3> HIDE DEF y
    <3>3. y \in Nat /\ y <= left - p /\ t <= y
      BY <2>7, <3>2 DEF y
    <3> QED BY <1>2, <2>1, <2>5, <2>7, <2>8, <3>3
  <2>14. b \in Writing /\ b.left = p /\ b.text = text \o (dec \o <<u>>) /\ p # d /\ p <= d /\ p \in Nat
    <3> DEFINE e == text \o (dec \o <<u>>)
    <3>1. e \in Seq(Letters) /\ b = [left |-> p, text |-> e]
      BY <2>10, <2>12
    <3>2. p # d /\ p <= d /\ p \in Nat
      BY <1>2, <2>1
    <3> HIDE DEF e, b
    <3> QED BY <3>1, <3>2 DEF Writing, e
  <2> HIDE DEF b
  <2>15. Written(d, b)
    BY <2>8, <2>11, <2>12, <2>13, <2>14 DEF Written
  <2>16. i = 6 => b.left = 0
    BY <1>1, <2>1, <2>14
  <2> QED BY <2>2, <2>15, <2>16 DEF u
<1> QED BY <1>4, <1>5

(* All the units are written, and nothing is left.                             *)
LEMMA UnitsAdded ==
  ASSUME NEW d \in Nat
  PROVE  \E a : Written(d, a) /\ a.left = 0 /\ DurationText(d) = a.text
<1> DEFINE W == {a \in Writing : Written(d, a)}
           first == [left |-> d, text |-> <<>>]
           step == [i \in 1 .. 6 |-> [a \in W |-> AddUnit(a, Units[i])]]
           Next(f) == [i \in 0 .. 6 |-> IF i = 0 THEN first ELSE AddUnit(f[i - 1], Units[i])]
           add == CHOOSE f : f = Next(f)
<1>1. first \in W
  <2>1. Written(d, first)
    BY WrittenFirst
  <2> HIDE DEF first
  <2> QED BY <2>1 DEF Written
<1>2. ASSUME NEW a \in W, NEW i \in 1 .. 6
      PROVE  AddUnit(a, Units[i]) \in W /\ (i = 6 => AddUnit(a, Units[i]).left = 0)
  <2>1. Written(d, AddUnit(a, Units[i])) /\ (i = 6 => AddUnit(a, Units[i]).left = 0)
    BY WrittenNext
  <2> QED BY <2>1 DEF Written
<1> HIDE DEF W, first
<1>3. step \in [1 .. 6 -> [W -> W]]
  BY <1>2
<1>4. PICK f : Recursive(f, 6, W, first, step)
  <2> HIDE DEF step
  <2> QED BY <1>1, <1>3, Recursion
<1>5. f \in [0 .. 6 -> W] /\ f[0] = first /\ \A i \in 1 .. 6 : f[i] = AddUnit(f[i - 1], Units[i])
  <2>1. f \in [0 .. 6 -> W] /\ f[0] = first /\ \A i \in 1 .. 6 : f[i] = step[i][f[i - 1]]
    BY <1>4 DEF Recursive
  <2>2. \A i \in 1 .. 6 : i - 1 \in 0 .. 6
    OBVIOUS
  <2>3. \A i \in 1 .. 6 : f[i - 1] \in W
    BY <2>1, <2>2
  <2> QED BY <2>1, <2>3
<1>6. f = Next(f)
  <2> SUFFICES ASSUME NEW i \in 0 .. 6 PROVE f[i] = IF i = 0 THEN first ELSE AddUnit(f[i - 1], Units[i])
    BY <1>5
  <2>1. i = 0 \/ i \in 1 .. 6
    OBVIOUS
  <2>2. ~(0 \in 1 .. 6)
    OBVIOUS
  <2> QED BY <1>5, <2>1, <2>2
<1>7. add = Next(add)
  <2> HIDE DEF Next
  <2> QED BY <1>6
<1> HIDE DEF add
<1>8. SameSteps(add, f, 6)
  <2>1. add[0] = first
    BY <1>7
  <2>2. \A i \in 1 .. 6 : add[i] = AddUnit(add[i - 1], Units[i])
    <3>1. \A i \in 1 .. 6 : i \in 0 .. 6 /\ i # 0
      OBVIOUS
    <3> QED BY <1>7, <3>1
  <2> HIDE DEF Next
  <2> QED BY <1>5, <2>1, <2>2 DEF SameSteps
<1>9. add[6] = f[6]
  <2>1. \A i \in 0 .. 6 : add[i] = f[i]
    BY <1>8, SameUpTo
  <2> QED BY <2>1
<1>10. f[6] \in W /\ f[6].left = 0
  <2>1. 6 \in 1 .. 6 /\ 6 - 1 \in 0 .. 6 /\ 6 \in 0 .. 6
    OBVIOUS
  <2>2. f[6] = AddUnit(f[6 - 1], Units[6]) /\ f[6 - 1] \in W /\ f[6] \in W
    BY <1>5, <2>1
  <2> QED BY <1>2, <2>1, <2>2
<1>11. DurationText(d) = add[6].text
  <2>1. Len(Units) = 6
    BY DEF Units
  <2> QED BY <2>1 DEF DurationText, add, first
<1> QED BY <1>9, <1>10, <1>11 DEF W

(* A text that leads from no sum to the sum r is parsed as r.                  *)
LEMMA ParseIs ==
  ASSUME NEW text \in Seq(Letters), NEW r \in 0 .. TMAX, Read1(Sum(0, 0), text, Sum(r, 0))
  PROVE  parse_time_spec(text) = Plus(0, r)
<1> DEFINE n == Len(text)
           Next(f) == [i \in 0 .. n |-> IF i = 0 THEN Sum(0, 0) ELSE ReadChar[<<f[i - 1], text[i]>>]]
           read == CHOOSE f : f = Next(f)
<1>1. n \in Nat
  OBVIOUS
<1>2. PICK t \in [0 .. n -> Sums] : /\ t[0] = Sum(0, 0) /\ t[n] = Sum(r, 0)
                                    /\ Steps(t, ReadChar, Sums \X Letters, text)
  BY DEF Read1, Runs
<1>3. \A i \in 1 .. n : t[i] = ReadChar[<<t[i - 1], text[i]>>]
  BY <1>2 DEF Steps
<1> HIDE DEF n
<1>4. t = Next(t)
  <2> SUFFICES ASSUME NEW i \in 0 .. n PROVE t[i] = Next(t)[i]
    BY <1>2
  <2>1. CASE i = 0
    BY <1>2, <2>1
  <2>2. CASE i # 0
    <3>1. i \in 1 .. n
      BY <1>1, <2>2
    <3> QED BY <1>3, <2>2, <3>1
  <2> QED BY <2>1, <2>2
<1>5. read = Next(read)
  <2> HIDE DEF Next
  <2> QED BY <1>4
<1> HIDE DEF read
<1>6. SameSteps(read, t, n)
  <2>1. read[0] = t[0]
    BY <1>1, <1>2, <1>5
  <2>2. ASSUME NEW i \in 1 .. n, read[i - 1] = t[i - 1] PROVE read[i] = t[i]
    <3>1. i \in 0 .. n /\ i # 0
      BY <1>1
    <3>2. read[i] = ReadChar[<<read[i - 1], text[i]>>]
      BY <1>5, <3>1
    <3> HIDE DEF Next
    <3> QED BY <1>3, <2>2, <3>2
  <2> QED BY <2>1, <2>2 DEF SameSteps
<1>7. read[n] = Sum(r, 0)
  <2>1. \A i \in 0 .. n : read[i] = t[i]
    BY <1>1, <1>6, SameUpTo
  <2> QED BY <1>1, <1>2, <2>1
<1>8. parse_time_spec(text) = Plus(read[n].x, read[n].r)
  BY DEF parse_time_spec, read, n, Sum
<1>9. Sum(r, 0).x = 0 /\ Sum(r, 0).r = r
  BY DEF Sum
<1> QED BY <1>7, <1>8, <1>9

(* What is read of the text of a duration is a duration that is not greater,   *)
(* and not 0.                                                                  *)
LEMMA DurationFacts ==
  ASSUME NEW d \in Nat
  PROVE  /\ d = 0 => DurationText(d) = <<>>
         /\ d # 0 => /\ DurationText(d) # <<>> /\ DurationText(d)[1] # "-"
                     /\ parse_time_spec(DurationText(d)) \in 0 .. TMAX
                     /\ parse_time_spec(DurationText(d)) \in 1 .. d
<1>1. PICK a : Written(d, a) /\ a.left = 0 /\ DurationText(d) = a.text
  BY UnitsAdded
<1> DEFINE text == DurationText(d)
<1>2. CASE d = 0
  BY <1>1, <1>2 DEF Written
<1>3. CASE d # 0
  <2>1. text # <<>> /\ text[1] # "-" /\ text \in Seq(Letters)
    BY <1>1, <1>3 DEF Written, Writing
  <2>2. PICK r \in 0 .. TMAX : r <= d - 0 /\ r >= 1 /\ Read1(Sum(0, 0), text, Sum(r, 0))
    BY <1>1, <1>3 DEF Written
  <2> HIDE DEF text
  <2>3. parse_time_spec(text) = Plus(0, r)
    BY <2>1, <2>2, ParseIs
  <2>4. Plus(0, r) = r
    BY <2>2, TMAXAssumption DEF Plus
  <2>5. r \in 1 .. d
    BY <2>2
  <2> QED BY <1>3, <2>1, <2>2, <2>3, <2>4, <2>5 DEF text
<1> QED BY <1>2, <1>3

(* The dates of answers, as the client understands them.                       *)
LEMMA DateFacts ==
  ASSUME NEW t \in Nat
  PROVE  /\ DateOf(<<>>, t) = 0 /\ DateOf(<<<<>>>>, t) = 0 /\ DateOf(<<NoCache>>, t) = -1
         /\ \A d \in Nat \ {0} : DateOf(<<DurationText(d)>>, t) \in 1 .. d + t
<1>1. DateOf(<<>>, t) = 0 /\ DateOf(<<<<>>>>, t) = 0
  BY DEF DateOf
<1>2. DateOf(<<NoCache>>, t) = -1
  <2>1. NoCache # <<>> /\ NoCache[1] = "-" /\ <<NoCache>>[1] = NoCache /\ <<NoCache>> # <<>>
    BY DEF NoCache
  <2>2. <<NoCache>> # <<<<>>>>
    BY <2>1
  <2> QED BY <2>1, <2>2 DEF DateOf
<1>3. ASSUME NEW d \in Nat \ {0} PROVE DateOf(<<DurationText(d)>>, t) \in 1 .. d + t
  <2> DEFINE text == DurationText(d)
             p == parse_time_spec(text)
  <2>1. text # <<>> /\ text[1] # "-" /\ p \in 0 .. TMAX /\ p \in 1 .. d
    BY DurationFacts
  <2> HIDE DEF text
  <2>2. <<text>> # <<>> /\ <<text>> # <<<<>>>> /\ <<text>>[1] = text
    BY <2>1
  <2>3. DateOf(<<text>>, t) = Plus(p, t)
    BY <2>1, <2>2 DEF DateOf
  <2> HIDE DEF p
  <2>4. Plus(p, t) \in Nat /\ Plus(p, t) <= p + t /\ Plus(p, t) >= 1
    <3>1. p \in 0 .. TMAX /\ p >= 1
      BY <2>1
    <3> QED BY ONLY <3>1, t \in Nat, PlusFacts
  <2>5. Plus(p, t) \in 1 .. d + t
    BY <2>1, <2>4
  <2> QED BY <2>3, <2>5 DEF text
<1> QED BY <1>1, <1>2, <1>3

--------------------------------------------------------------------------------
(* The items of a cache.                                                       *)
Item == [key : Keys, value : {Yes, No}, expire : Int, hit : Nat]

(* The items that did not expire are items of the cache, each one once.        *)
LEMMA UnexpiredFacts ==
  ASSUME NEW c \in Seq(Item), NEW t
  PROVE  LET live == Unexpired(c, t)
         IN  /\ live \in Seq(Item)
             /\ \A i \in DOMAIN live : \E j \in DOMAIN c : live[i] = c[j] /\ ~Expired(c[j], t)
             /\ \A j \in DOMAIN c : ~Expired(c[j], t) =>
                  \E a \in DOMAIN live :
                    /\ live[a] = c[j]
                    /\ \A b \in DOMAIN live \ {a} : \E k \in DOMAIN c \ {j} : live[b] = c[k]
<1> DEFINE used == {i \in DOMAIN c : ~Expired(c[i], t)}
           live == Picked(c, used)
<1>1. used \in SUBSET DOMAIN c
  OBVIOUS
<1>2. Unexpired(c, t) = live
  BY DEF Unexpired
<1> HIDE DEF used
<1>3. /\ live \in Seq(Item)
      /\ \A i \in DOMAIN live : Nth(used, i) \in used /\ live[i] = c[Nth(used, i)]
      /\ \A i, j \in DOMAIN live : Nth(used, i) = Nth(used, j) => i = j
      /\ \A j \in used : /\ Rank(used, j) \in DOMAIN live
                         /\ live[Rank(used, j)] = c[j]
                         /\ Nth(used, Rank(used, j)) = j
  <2>1. \A j \in used : Nth(used, Rank(used, j)) = j
    <3>1. Len(c) \in Nat /\ used \in SUBSET (1 .. Len(c))
      BY <1>1
    <3> QED BY <3>1, NthOfRank
  <2> QED BY <1>1, <2>1, PickedFacts
<1> HIDE DEF live
<1>4. \A j \in used : j \in DOMAIN c /\ ~Expired(c[j], t)
  BY DEF used
<1>5. ASSUME NEW j \in DOMAIN c, ~Expired(c[j], t)
      PROVE  \E a \in DOMAIN live :
               /\ live[a] = c[j]
               /\ \A b \in DOMAIN live \ {a} : \E k \in DOMAIN c \ {j} : live[b] = c[k]
  <2>1. j \in used
    BY <1>5 DEF used
  <2> DEFINE a == Rank(used, j)
  <2>2. a \in DOMAIN live /\ live[a] = c[j] /\ Nth(used, a) = j
    BY <1>3, <2>1
  <2> HIDE DEF a
  <2>3. ASSUME NEW b \in DOMAIN live \ {a} PROVE \E k \in DOMAIN c \ {j} : live[b] = c[k]
    <3>1. Nth(used, b) \in used /\ live[b] = c[Nth(used, b)] /\ Nth(used, b) # j
      BY <1>3, <2>2
    <3> QED BY <1>4, <3>1
  <2> QED BY <2>2, <2>3
<1> QED BY <1>2, <1>3, <1>4, <1>5

(* The place that items take.                                                  *)
LEMMA UsedFacts ==
  ASSUME NEW c \in Seq(Item)
  PROVE  Used(c) \in Nat /\ (c = <<>> => Used(c) = 0)
<1> DEFINE n == Len(c)
           Next(f) == [i \in 0 .. n |-> IF i = 0 THEN 0 ELSE f[i - 1] + Length[c[i].key]]
           used == CHOOSE f : f = Next(f)
           step == [i \in 1 .. n |-> [x \in Nat |-> x + Length[c[i].key]]]
<1>1. n \in Nat /\ \A i \in 1 .. n : c[i].key \in Keys
  <2>1. \A i \in 1 .. n : c[i] \in Item
    OBVIOUS
  <2> QED BY <2>1 DEF Item
<1>2. \A i \in 1 .. n : Length[c[i].key] \in Nat
  BY <1>1, LengthAssumption
<1> HIDE DEF n
<1>3. step \in [1 .. n -> [Nat -> Nat]]
  BY <1>2
<1>4. PICK f : Recursive(f, n, Nat, 0, step)
  <2> HIDE DEF step
  <2> QED BY <1>1, <1>3, Recursion
<1>5. f \in [0 .. n -> Nat] /\ f[0] = 0 /\ \A i \in 1 .. n : f[i] = f[i - 1] + Length[c[i].key]
  <2>1. f \in [0 .. n -> Nat] /\ f[0] = 0 /\ \A i \in 1 .. n : f[i] = step[i][f[i - 1]]
    BY <1>4 DEF Recursive
  <2>2. \A i \in 1 .. n : f[i - 1] \in Nat
    <3>1. \A i \in 1 .. n : i - 1 \in 0 .. n
      BY <1>1
    <3> QED BY <2>1, <3>1
  <2> QED BY <2>1, <2>2
<1>6. f = Next(f)
  <2> SUFFICES ASSUME NEW i \in 0 .. n PROVE f[i] = IF i = 0 THEN 0 ELSE f[i - 1] + Length[c[i].key]
    BY <1>5
  <2>1. i = 0 \/ (i \in 1 .. n /\ i # 0)
    BY <1>1
  <2> QED BY <1>5, <2>1
<1>7. used = Next(used)
  <2> HIDE DEF Next
  <2> QED BY <1>6
<1> HIDE DEF used
<1>8. SameSteps(used, f, n)
  <2>1. used[0] = 0
    BY <1>1, <1>7
  <2>2. \A i \in 1 .. n : used[i] = used[i - 1] + Length[c[i].key]
    <3>1. \A i \in 1 .. n : i \in 0 .. n /\ i # 0
      BY <1>1
    <3> QED BY <1>7, <3>1
  <2> HIDE DEF Next
  <2> QED BY <1>5, <2>1, <2>2 DEF SameSteps
<1>9. used[n] \in Nat /\ (n = 0 => used[n] = 0)
  <2>1. \A i \in 0 .. n : used[i] = f[i]
    BY <1>1, <1>8, SameUpTo
  <2> QED BY <1>1, <1>5, <2>1
<1>10. Used(c) = used[n]
  BY DEF Used, used, n
<1>11. c = <<>> => n = 0
  BY DEF n
<1> QED BY <1>9, <1>10, <1>11

(* One of the items of the least hit is dropped.                               *)
LEMMA DropFacts ==
  ASSUME NEW s \in Seq(Item), s # <<>>
  PROVE  LET n == Len(s)
         IN  \E at \in 1 .. n :
               /\ \A j \in 1 .. n : s[at].hit <= s[j].hit
               /\ drop_lre(s) \in Seq(Item) /\ Len(drop_lre(s)) = n - 1 /\ n \in Nat \ {0}
               /\ \A i \in 1 .. n - 1 : drop_lre(s)[i] = IF i <= at - 1 THEN s[i] ELSE s[i + 1]
<1> DEFINE n == Len(s)
           Least(i) == /\ \A j \in DOMAIN s : s[i].hit <= s[j].hit
                       /\ \A j \in i + 1 .. Len(s) : s[i].hit < s[j].hit
<1>1. n \in Nat \ {0} /\ DOMAIN s = 1 .. n /\ \A i \in 1 .. n : s[i].hit \in Nat
  <2>1. \A i \in 1 .. n : s[i] \in Item
    OBVIOUS
  <2> QED BY <2>1 DEF Item
<1>2. \E i \in DOMAIN s : Least(i)
  <2> DEFINE H == {s[i].hit : i \in 1 .. n}
  <2>1. H \subseteq Nat /\ H # {}
    <3>1. 1 \in 1 .. n
      BY <1>1
    <3> QED BY <1>1, <3>1
  <2>2. PICK h \in H : \A y \in H : h <= y
    <3> HIDE DEF H
    <3> QED BY <2>1, NatHasLeast
  <2> DEFINE T == {i \in 1 .. n : s[i].hit = h}
  <2>3. T \subseteq 1 .. n /\ T # {}
    BY <2>2
  <2>4. PICK x \in T : \A y \in T : y <= x
    <3> HIDE DEF T
    <3> QED BY <1>1, <2>3, IntervalHasLast
  <2>5. \A j \in 1 .. n : s[x].hit <= s[j].hit
    BY <2>2, <2>4
  <2>6. ASSUME NEW j \in x + 1 .. n PROVE s[x].hit < s[j].hit
    <3>1. j \in 1 .. n /\ x \in 1 .. n /\ ~(j <= x)
      BY <1>1, <2>4
    <3>2. j \notin T
      BY <2>4, <3>1
    <3>3. s[j].hit # s[x].hit
      BY <2>4, <3>1, <3>2
    <3> QED BY <1>1, <2>5, <3>1, <3>3
  <2> QED BY <1>1, <2>4, <2>5, <2>6
<1> DEFINE at == CHOOSE i \in DOMAIN s : Least(i)
<1>3. at \in DOMAIN s /\ Least(at)
  <2> HIDE DEF Least
  <2> QED BY <1>2
<1>4. drop_lre(s) = SubSeq(s, 1, at - 1) \o SubSeq(s, at + 1, n)
  BY DEF drop_lre, RemoveAt
<1>5. at \in 1 .. n /\ \A j \in 1 .. n : s[at].hit <= s[j].hit
  BY <1>1, <1>3
<1> HIDE DEF at
<1>6. /\ drop_lre(s) \in Seq(Item) /\ Len(drop_lre(s)) = n - 1
      /\ \A i \in 1 .. n - 1 : drop_lre(s)[i] = IF i <= at - 1 THEN s[i] ELSE s[i + 1]
  BY <1>4, <1>5, RemoveAtFacts
<1> QED BY <1>1, <1>5, <1>6

(* What holds of a cache and does not end with a drop holds when there is      *)
(* place.                                                                      *)
LEMMA RoomFacts ==
  ASSUME NEW c \in Seq(Item), NEW k \in Nat, NEW size \in Nat, k <= size,
         NEW D, D \subseteq Seq(Item), c \in D,
         \A s \in D : s # <<>> => drop_lre(s) \in D
  PROVE  MakeRoom(c, k, size) \in D
<1> DEFINE n == Len(c)
           Drop(s) == IF Used(s) + k > size THEN drop_lre(s) ELSE s
           Next(f) == [i \in 0 .. n |-> IF i = 0 THEN c ELSE Drop(f[i - 1])]
           room == CHOOSE f : f = Next(f)
           step == [i \in 1 .. n |-> [s \in D |-> Drop(s)]]
<1>1. n \in Nat
  OBVIOUS
<1>2. ASSUME NEW s \in D PROVE Drop(s) \in D
  <2>1. Used(s) \in Nat /\ (s = <<>> => Used(s) = 0)
    BY UsedFacts
  <2>2. Used(s) + k > size => s # <<>>
    BY <2>1
  <2> QED BY <2>2
<1> HIDE DEF n, Drop
<1>3. step \in [1 .. n -> [D -> D]]
  BY <1>2
<1>4. PICK f : Recursive(f, n, D, c, step)
  <2> HIDE DEF step
  <2> QED BY <1>1, <1>3, Recursion
<1>5. f \in [0 .. n -> D] /\ f[0] = c /\ \A i \in 1 .. n : f[i] = Drop(f[i - 1])
  <2>1. f \in [0 .. n -> D] /\ f[0] = c /\ \A i \in 1 .. n : f[i] = step[i][f[i - 1]]
    BY <1>4 DEF Recursive
  <2>2. \A i \in 1 .. n : f[i - 1] \in D
    <3>1. \A i \in 1 .. n : i - 1 \in 0 .. n
      BY <1>1
    <3> QED BY <2>1, <3>1
  <2> QED BY <2>1, <2>2
<1>6. f = Next(f)
  <2> SUFFICES ASSUME NEW i \in 0 .. n PROVE f[i] = IF i = 0 THEN c ELSE Drop(f[i - 1])
    BY <1>5
  <2>1. i = 0 \/ (i \in 1 .. n /\ i # 0)
    BY <1>1
  <2> QED BY <1>5, <2>1
<1>7. room = Next(room)
  <2> HIDE DEF Next
  <2> QED BY <1>6
<1> HIDE DEF room
<1>8. SameSteps(room, f, n)
  <2>1. room[0] = c
    BY <1>1, <1>7
  <2>2. \A i \in 1 .. n : room[i] = Drop(room[i - 1])
    <3>1. \A i \in 1 .. n : i \in 0 .. n /\ i # 0
      BY <1>1
    <3> QED BY <1>7, <3>1
  <2> HIDE DEF Next
  <2> QED BY <1>5, <2>1, <2>2 DEF SameSteps
<1>9. room[n] \in D
  <2>1. \A i \in 0 .. n : room[i] = f[i]
    BY <1>1, <1>8, SameUpTo
  <2> QED BY <1>1, <1>5, <2>1
<1>10. MakeRoom(c, k, size) = room[n]
  BY DEF MakeRoom, room, n, Drop
<1> QED BY <1>9, <1>10

(* A put keeps items of the cache and adds the new one at most.                *)
LEMMA PutKeeps ==
  ASSUME NEW c \in Seq(Item), NEW key \in Keys, NEW value \in {Yes, No}, NEW expire \in Int,
         NEW t, NEW size \in Nat
  PROVE  LET p == cache_put(c, key, value, expire, t, size)
             item == [key |-> key, value |-> value, expire |-> expire, hit |-> HitMax]
         IN  /\ p \in Seq(Item)
             /\ \A i \in DOMAIN p : (\E j \in DOMAIN c : p[i] = c[j]) \/ (expire >= 0 /\ p[i] = item)
<1> DEFINE live == Unexpired(c, t)
           item == [key |-> key, value |-> value, expire |-> expire, hit |-> HitMax]
           p == cache_put(c, key, value, expire, t, size)
           Kept(s) == \A i \in DOMAIN s : \E j \in DOMAIN c : s[i] = c[j]
<1>1. live \in Seq(Item) /\ Kept(live)
  BY UnexpiredFacts
<1>2. item \in Item
  BY HitMaxAssumption DEF Item
<1>3. p = IF expire < 0 THEN c
          ELSE IF At(live, key) # {}
          THEN [i \in DOMAIN live |-> IF live[i].key = key THEN item ELSE live[i]]
          ELSE IF Length[key] > size THEN live
          ELSE Append(MakeRoom(live, Length[key], size), item)
  BY DEF cache_put
<1> DEFINE Goal == p \in Seq(Item)
                   /\ \A i \in DOMAIN p : (\E j \in DOMAIN c : p[i] = c[j]) \/ (expire >= 0 /\ p[i] = item)
<1> HIDE DEF live, item, p
<1>4. ASSUME expire < 0 PROVE Goal
  BY <1>3, <1>4
<1>5. ASSUME expire >= 0, At(live, key) # {} PROVE Goal
  <2>1. p = [i \in DOMAIN live |-> IF live[i].key = key THEN item ELSE live[i]]
    BY <1>3, <1>5
  <2>2. Len(live) \in Nat /\ DOMAIN live = 1 .. Len(live) /\ \A i \in DOMAIN live : live[i] \in Item
    BY <1>1
  <2>3. p \in [1 .. Len(live) -> Item]
    BY <1>2, <2>1, <2>2
  <2>4. p \in Seq(Item) /\ DOMAIN p = DOMAIN live
    BY <2>2, <2>3
  <2> QED BY <1>1, <1>5, <2>1, <2>4
<1>6. ASSUME expire >= 0, At(live, key) = {}, Length[key] > size PROVE Goal
  BY <1>1, <1>3, <1>6
<1>7. ASSUME expire >= 0, At(live, key) = {}, Length[key] <= size PROVE Goal
  <2> DEFINE D == {s \in Seq(Item) : Kept(s)}
             room == MakeRoom(live, Length[key], size)
  <2>1. Length[key] \in Nat
    BY LengthAssumption
  <2>2. ASSUME NEW s \in D, s # <<>> PROVE drop_lre(s) \in D
    <3> DEFINE d == drop_lre(s)
               n == Len(s)
    <3>1. PICK at \in 1 .. n :
            /\ d \in Seq(Item) /\ Len(d) = n - 1 /\ n \in Nat \ {0}
            /\ \A i \in 1 .. n - 1 : d[i] = IF i <= at - 1 THEN s[i] ELSE s[i + 1]
      BY <2>2, DropFacts
    <3>2. DOMAIN s = 1 .. n
      OBVIOUS
    <3> HIDE DEF d, n
    <3>3. ASSUME NEW i \in DOMAIN d PROVE \E j \in DOMAIN c : d[i] = c[j]
      <4>1. i \in 1 .. n - 1 /\ i \in 1 .. n /\ i + 1 \in 1 .. n
        BY <3>1
      <4> QED BY <3>1, <3>2, <4>1
    <3> QED BY <3>1, <3>3 DEF d
  <2>3. room \in D
    <3>1. D \subseteq Seq(Item) /\ live \in D
      BY <1>1
    <3> HIDE DEF D
    <3> QED BY <1>1, <1>7, <2>1, <2>2, <3>1, RoomFacts
  <2>4. ~(Length[key] > size)
    BY <1>7, <2>1
  <2>5. p = Append(room, item)
    BY <1>3, <1>7, <2>4
  <2> HIDE DEF room
  <2> QED BY <1>2, <1>7, <2>3, <2>5
<1>8. Length[key] \in Nat
  BY LengthAssumption
<1>9. Goal
  BY <1>4, <1>5, <1>6, <1>7, <1>8
<1> QED BY <1>9 DEF p, item

(* A search changes nothing of the items that it leaves but their hits.        *)
LEMMA SearchKeeps ==
  ASSUME NEW c \in Seq(Item), NEW key \in Keys, NEW t
  PROVE  LET p == cache_search(c, key, t)
             live == Unexpired(c, t)
         IN  /\ p \in Seq(Item) /\ DOMAIN p = DOMAIN live
             /\ \A i \in DOMAIN p : /\ p[i].key = live[i].key /\ p[i].value = live[i].value
                                    /\ p[i].expire = live[i].expire
<1> DEFINE live == Unexpired(c, t)
           p == cache_search(c, key, t)
<1>1. live \in Seq(Item)
  BY UnexpiredFacts
<1>2. p = IF At(live, key) = {} THEN live ELSE Hit(live, key)
  BY DEF cache_search
<1> HIDE DEF live, p
<1>3. CASE p = live
  BY <1>1, <1>3 DEF live, p
<1>4. CASE p = Hit(live, key)
  <2> DEFINE Aged(x) == IF x.key = key THEN [x EXCEPT !.hit = HitMax]
                         ELSE [x EXCEPT !.hit = IF @ = 0 THEN 0 ELSE @ - 1]
  <2>1. p = [i \in DOMAIN live |-> Aged(live[i])]
    BY <1>4 DEF Hit
  <2>2. ASSUME NEW x \in Item
        PROVE  /\ Aged(x) \in Item
               /\ Aged(x).key = x.key /\ Aged(x).value = x.value /\ Aged(x).expire = x.expire
    <3>1. CASE x.key = key
      BY <3>1, HitMaxAssumption DEF Item
    <3>2. CASE x.key # key
      <4> DEFINE h == IF x.hit = 0 THEN 0 ELSE x.hit - 1
      <4>1. h \in Nat
        BY DEF Item
      <4>2. Aged(x) = [x EXCEPT !.hit = h]
        BY <3>2
      <4> HIDE DEF h, Aged
      <4> QED BY <4>1, <4>2 DEF Item
    <3> QED BY <3>1, <3>2
  <2> HIDE DEF Aged
  <2>3. \A i \in DOMAIN live : live[i] \in Item
    BY <1>1
  <2>4. p \in Seq(Item) /\ DOMAIN p = DOMAIN live
    <3>1. \A i \in DOMAIN live : Aged(live[i]) \in Item
      BY <2>2, <2>3
    <3> QED BY <1>1, <2>1, <3>1
  <2>5. \A i \in DOMAIN p : /\ p[i].key = live[i].key /\ p[i].value = live[i].value
                            /\ p[i].expire = live[i].expire
    BY <2>1, <2>2, <2>3, <2>4
  <2> QED BY <2>4, <2>5 DEF live, p
<1> QED BY <1>2, <1>3, <1>4

--------------------------------------------------------------------------------
(* The answer r to the check of k was written at the time t, or one tick       *)
(* before it when k is in old; its date is that of its rule, which did not end *)
(* before; and the keys answered at the second of their date are in end.       *)
Fresh(r, k, t, old, end) ==
  \E w \in {t - 1, t} :
    /\ w = t \/ k \in old
    /\ \/ r = AnswerTo(k, No, <<>>)
       \/ /\ r = AnswerTo(k, Yes, exp2check(EndOf[k], w))
          /\ EndOf[k] > 0 => EndOf[k] > w \/ (EndOf[k] = w /\ k \in end)

(* What is put and not taken: the client waits for each answer and its request *)
(* was read.                                                                   *)
OneAnswer(P) ==
  \A i, j \in DOMAIN P : IsAnswer(P[i]) /\ IsAnswer(P[j]) /\ P[i][2] = P[j][2] => i = j
AllFresh(P, req, w, t, old, end) ==
  \A i \in DOMAIN P : IsAnswer(P[i]) =>
    \E k \in Keys : k \in w \ ToSet(req) /\ Fresh(P[i], k, t, old, end)

(* A key is asked for once.                                                    *)
AskedOnce(req, w) ==
  /\ \A i \in DOMAIN req : req[i] \in Keys => req[i] \in w
  /\ \A i, j \in DOMAIN req : req[i] = req[j] /\ req[i] \in Keys => i = j

(* What the cache holds ends one tick after the rule at the latest.            *)
CacheEnds(c, end) ==
  /\ c \in Seq(Item)
  /\ \A i \in DOMAIN c :
       c[i].value = Yes /\ EndOf[c[i].key] # 0 /\ c[i].key \notin end =>
         EndOf[c[i].key] > 0 /\ c[i].expire \in 1 .. EndOf[c[i].key] + 1

(* The inductive invariant.                                                    *)
Pipe == InTransit \o todo
DatesInv ==
  /\ WayInv
  /\ OneAnswer(Pipe) /\ AllFresh(Pipe, requests, waits, now, aged, atEnd)
  /\ AskedOnce(requests, waits)
  /\ CacheEnds(cache, atEnd)

(* The fields of an answer.                                                    *)
LEMMA AnswerFacts ==
  ASSUME NEW k, NEW v, NEW d, d = <<>> \/ \E x : d = <<x>>
  PROVE  LET r == AnswerTo(k, v, d)
         IN  r[1] = v /\ r[2] = <<k>> /\ SubSeq(r, 3, Len(r)) = d
<1> DEFINE r == AnswerTo(k, v, d)
<1>1. CASE d = <<>>
  <2>1. r = <<v, <<k>>>>
    BY <1>1 DEF AnswerTo
  <2> HIDE DEF r
  <2>2. Len(r) = 2 /\ r[1] = v /\ r[2] = <<k>> /\ SubSeq(r, 3, 2) = <<>>
    BY <2>1
  <2> QED BY <1>1, <2>2 DEF r
<1>2. ASSUME NEW x, d = <<x>> PROVE r[1] = v /\ r[2] = <<k>> /\ SubSeq(r, 3, Len(r)) = d
  <2> DEFINE S == {v, <<k>>, x}
             u == <<v, <<k>>>>
             y == <<x>>
  <2>1. /\ u \in Seq(S) /\ y \in Seq(S) /\ Len(u) = 2 /\ Len(y) = 1
        /\ u[1] = v /\ u[2] = <<k>> /\ y[1] = x
    OBVIOUS
  <2>2. r = u \o y
    BY <1>2 DEF AnswerTo
  <2> HIDE DEF u, y, r, S
  <2>3. r \in Seq(S) /\ Len(r) = 3 /\ r[1] = v /\ r[2] = <<k>> /\ r[3] = x
    <3>1. /\ r \in Seq(S) /\ Len(r) = Len(u) + Len(y)
          /\ \A i \in 1 .. Len(u) + Len(y) : r[i] = IF i <= Len(u) THEN u[i] ELSE y[i - Len(u)]
      BY <2>1, <2>2, ConcatProperties
    <3>2. Len(u) + Len(y) = 3 /\ 3 - Len(u) = 1 /\ ~(3 <= Len(u)) /\ 1 <= Len(u) /\ 2 <= Len(u)
      BY <2>1
    <3>3. 1 \in 1 .. 3 /\ 2 \in 1 .. 3 /\ 3 \in 1 .. 3
      OBVIOUS
    <3> QED BY <2>1, <3>1, <3>2, <3>3
  <2>4. SubSeq(r, 3, 3) = <<x>>
    <3> DEFINE z == SubSeq(r, 3, 3)
    <3>1. z \in Seq(S) /\ Len(z) = 1 /\ z[1] = x
      BY <2>3
    <3> HIDE DEF z
    <3>2. z = <<x>>
      BY <3>1
    <3> QED BY <3>2 DEF z
  <2> QED BY <1>2, <2>3, <2>4
<1> QED BY <1>1, <1>2

(* The date of an answer, for an end e, at the time w.                         *)
LEMMA DateShape ==
  ASSUME NEW e \in Int, NEW w \in Int
  PROVE  LET d == exp2check(e, w)
         IN  /\ d = <<>> \/ \E x : d = <<x>>
             /\ e = 0 => d = <<>>
             /\ e < 0 => d = <<NoCache>>
             /\ e > 0 => d = <<DurationText(e - w)>>
             /\ e > 0 /\ e = w => d = <<<<>>>>
<1>1. e > 0 /\ e = w => DurationText(e - w) = <<>>
  <2>1. DurationText(0) = <<>>
    BY DurationFacts
  <2>2. e = w => e - w = 0
    OBVIOUS
  <2> QED BY <2>1, <2>2
<1>2. CASE e = 0
  BY <1>2 DEF exp2check
<1>3. CASE e < 0
  BY <1>3 DEF exp2check
<1>4. CASE e > 0
  BY <1>1, <1>4 DEF exp2check
<1> QED BY <1>2, <1>3, <1>4

(* What the client understands of an answer that it takes.                     *)
LEMMA FreshFacts ==
  ASSUME NEW k \in Keys, NEW r, NEW t \in Nat, NEW old, NEW end, Fresh(r, k, t, old, end)
  PROVE  LET expire == DateOf(SubSeq(r, 3, Len(r)), t)
         IN  /\ r[1] \in {Yes, No} /\ r[2] = <<k>> /\ expire \in Int
             /\ r[1] = Yes /\ EndOf[k] # 0 /\ k \notin end /\ expire >= 0 =>
                  EndOf[k] > 0 /\ expire \in 1 .. EndOf[k] + 1
<1> DEFINE date == SubSeq(r, 3, Len(r))
           expire == DateOf(date, t)
           e == EndOf[k]
           Goal == /\ r[1] \in {Yes, No} /\ r[2] = <<k>> /\ expire \in Int
                   /\ r[1] = Yes /\ e # 0 /\ k \notin end /\ expire >= 0 =>
                        e > 0 /\ expire \in 1 .. e + 1
<1>1. e \in Int
  BY EndOfAssumption
<1>2. PICK w \in {t - 1, t} :
        \/ r = AnswerTo(k, No, <<>>)
        \/ /\ r = AnswerTo(k, Yes, exp2check(e, w))
           /\ e > 0 => e > w \/ (e = w /\ k \in end)
  BY DEF Fresh
<1> HIDE DEF e
<1>3. Yes # No
  BY DEF Yes, No
<1>4. ASSUME r = AnswerTo(k, No, <<>>) PROVE Goal
  <2>1. r[1] = No /\ r[2] = <<k>> /\ date = <<>>
    BY <1>4, AnswerFacts
  <2> HIDE DEF date
  <2>2. expire = 0
    BY <2>1, DateFacts
  <2> HIDE DEF expire
  <2> QED BY <1>3, <2>1, <2>2
<1>5. ASSUME r = AnswerTo(k, Yes, exp2check(e, w)), e > 0 => e > w \/ (e = w /\ k \in end) PROVE Goal
  <2> DEFINE d == exp2check(e, w)
  <2>1. w \in Int /\ t <= w + 1
    OBVIOUS
  <2>2. /\ d = <<>> \/ \E x : d = <<x>>
        /\ e = 0 => d = <<>>
        /\ e < 0 => d = <<NoCache>>
        /\ e > 0 => d = <<DurationText(e - w)>>
        /\ e > 0 /\ e = w => d = <<<<>>>>
    BY <1>1, <2>1, DateShape
  <2> HIDE DEF d
  <2>3. r = AnswerTo(k, Yes, d)
    BY <1>5 DEF d
  <2>4. r[1] = Yes /\ r[2] = <<k>> /\ date = d
    BY <2>2, <2>3, AnswerFacts
  <2> HIDE DEF date
  <2>5. CASE e = 0
    <3>1. expire = 0
      BY <2>2, <2>4, <2>5, DateFacts
    <3> HIDE DEF expire
    <3> QED BY <2>4, <2>5, <3>1
  <2>6. CASE e < 0
    <3>1. expire = -1
      BY <2>2, <2>4, <2>6, DateFacts
    <3> HIDE DEF expire
    <3> QED BY <2>4, <3>1
  <2>7. CASE e > 0 /\ e = w
    <3>1. expire = 0
      BY <2>2, <2>4, <2>7, DateFacts
    <3>2. k \in end
      BY <1>1, <1>5, <2>1, <2>7
    <3> HIDE DEF expire
    <3> QED BY <2>4, <3>1, <3>2
  <2>8. CASE e > 0 /\ e > w
    <3> DEFINE n == e - w
    <3>1. n \in Nat \ {0} /\ n + t <= e + 1 /\ n + t \in Int
      BY <1>1, <2>1, <2>8
    <3>2. date = <<DurationText(n)>>
      BY <2>2, <2>4, <2>8
    <3> HIDE DEF n
    <3>3. expire \in 1 .. n + t
      BY <3>1, <3>2, DateFacts
    <3> HIDE DEF expire
    <3>4. expire \in Int /\ expire \in 1 .. e + 1
      BY <1>1, <3>1, <3>3
    <3> QED BY <2>4, <2>8, <3>4
  <2> QED BY <1>1, <1>5, <2>1, <2>5, <2>6, <2>7, <2>8
<1>6. Goal
  BY <1>2, <1>4, <1>5
<1> QED BY <1>6 DEF e

(* Answers stay fresh while time is counted.                                   *)
Later(k, t, old, end, t2, old2, end2) ==
  /\ k \in end => k \in end2
  /\ \/ t2 = t /\ (k \in old => k \in old2)
     \/ t2 = t + 1 /\ k \notin old /\ k \in old2

(* The date of an answer does not change.                                      *)
LEMMA FreshLater ==
  ASSUME NEW r, NEW k, NEW t \in Int, NEW old, NEW end, NEW t2, NEW old2, NEW end2,
         Fresh(r, k, t, old, end), Later(k, t, old, end, t2, old2, end2)
  PROVE  Fresh(r, k, t2, old2, end2)
<1>1. PICK w \in {t - 1, t} :
        /\ w = t \/ k \in old
        /\ \/ r = AnswerTo(k, No, <<>>)
           \/ /\ r = AnswerTo(k, Yes, exp2check(EndOf[k], w))
              /\ EndOf[k] > 0 => EndOf[k] > w \/ (EndOf[k] = w /\ k \in end)
  BY DEF Fresh
<1>2. w \in {t2 - 1, t2} /\ (w = t2 \/ k \in old2)
  BY <1>1 DEF Later
<1>3. \/ r = AnswerTo(k, No, <<>>)
      \/ /\ r = AnswerTo(k, Yes, exp2check(EndOf[k], w))
         /\ EndOf[k] > 0 => EndOf[k] > w \/ (EndOf[k] = w /\ k \in end2)
  BY <1>1 DEF Later
<1> QED BY <1>2, <1>3 DEF Fresh

(* The answers in P2 are answers in P, and they are fresh as before.           *)
Carried(P, req, w, t, old, end, P2, req2, w2, t2, old2, end2) ==
  \A i \in DOMAIN P2 : IsAnswer(P2[i]) =>
    \E j \in DOMAIN P : /\ P2[i] = P[j]
                        /\ \A k \in Keys : P[j][2] = <<k>> /\ k \in w \ ToSet(req) =>
                             k \in w2 \ ToSet(req2) /\ Later(k, t, old, end, t2, old2, end2)

(* They are fresh.                                                             *)
LEMMA AllLater ==
  ASSUME NEW P, NEW req, NEW w, NEW t \in Nat, NEW old, NEW end,
         NEW P2, NEW req2, NEW w2, NEW t2, NEW old2, NEW end2,
         AllFresh(P, req, w, t, old, end),
         Carried(P, req, w, t, old, end, P2, req2, w2, t2, old2, end2)
  PROVE  AllFresh(P2, req2, w2, t2, old2, end2)
<1> SUFFICES ASSUME NEW i \in DOMAIN P2, IsAnswer(P2[i])
             PROVE  \E k \in Keys : k \in w2 \ ToSet(req2) /\ Fresh(P2[i], k, t2, old2, end2)
  BY DEF AllFresh
<1>1. PICK j \in DOMAIN P : /\ P2[i] = P[j]
                            /\ \A k \in Keys : P[j][2] = <<k>> /\ k \in w \ ToSet(req) =>
                                 k \in w2 \ ToSet(req2) /\ Later(k, t, old, end, t2, old2, end2)
  BY DEF Carried
<1>2. PICK k \in Keys : k \in w \ ToSet(req) /\ Fresh(P[j], k, t, old, end)
  BY <1>1 DEF AllFresh
<1>3. P[j][2] = <<k>>
  BY <1>2, FreshFacts
<1>4. k \in w2 \ ToSet(req2) /\ Later(k, t, old, end, t2, old2, end2)
  BY <1>1, <1>2, <1>3
<1>5. Fresh(P[j], k, t2, old2, end2)
  BY <1>2, <1>4, FreshLater
<1> QED BY <1>1, <1>4, <1>5

(* Two parts of the pipe that are fresh are fresh together.                    *)
LEMMA AllCat ==
  ASSUME NEW P \in Seq(Records), NEW s \in Seq(Records),
         NEW req, NEW w, NEW t, NEW old, NEW end,
         AllFresh(P, req, w, t, old, end), AllFresh(s, req, w, t, old, end)
  PROVE  AllFresh(P \o s, req, w, t, old, end)
<1> DEFINE q == P \o s
<1>1. /\ q \in Seq(Records) /\ Len(q) = Len(P) + Len(s)
      /\ \A i \in 1 .. Len(P) + Len(s) : q[i] = IF i <= Len(P) THEN P[i] ELSE s[i - Len(P)]
  BY ConcatProperties
<1> HIDE DEF q
<1>2. ASSUME NEW i \in DOMAIN q
      PROVE  (\E j \in DOMAIN P : q[i] = P[j]) \/ (\E j \in DOMAIN s : q[i] = s[j])
  <2>1. i \in 1 .. Len(P) + Len(s)
    BY <1>1
  <2>2. CASE i <= Len(P)
    <3>1. i \in DOMAIN P /\ q[i] = P[i]
      BY <1>1, <2>1, <2>2
    <3> QED BY <3>1
  <2>3. CASE ~(i <= Len(P))
    <3>1. i - Len(P) \in DOMAIN s /\ q[i] = s[i - Len(P)]
      BY <1>1, <2>1, <2>3
    <3> QED BY <3>1
  <2> QED BY <2>2, <2>3
<1>3. AllFresh(q, req, w, t, old, end)
  BY <1>2 DEF AllFresh
<1> QED BY <1>3 DEF q

(* One answer for a key in each part, and none in both.                        *)
LEMMA OneCat ==
  ASSUME NEW P \in Seq(Records), NEW s \in Seq(Records), OneAnswer(P), OneAnswer(s),
         \A i \in DOMAIN P, j \in DOMAIN s : IsAnswer(P[i]) /\ IsAnswer(s[j]) => P[i][2] # s[j][2]
  PROVE  OneAnswer(P \o s)
<1> DEFINE q == P \o s
           n == Len(P)
<1>1. /\ q \in Seq(Records) /\ Len(q) = n + Len(s) /\ n \in Nat
      /\ \A i \in 1 .. n + Len(s) : q[i] = IF i <= n THEN P[i] ELSE s[i - n]
  BY ConcatProperties
<1>2. DOMAIN P = 1 .. n /\ DOMAIN q = 1 .. n + Len(s) /\ DOMAIN s = 1 .. Len(s) /\ Len(s) \in Nat
  BY <1>1
<1> HIDE DEF q, n
<1>3. ASSUME NEW i \in DOMAIN q
      PROVE  \/ i <= n /\ i \in DOMAIN P /\ q[i] = P[i]
             \/ ~(i <= n) /\ i - n \in DOMAIN s /\ q[i] = s[i - n]
  <2>1. i \in 1 .. n + Len(s)
    BY <1>2
  <2>2. i <= n => i \in 1 .. n
    BY <1>2, <2>1
  <2>3. ~(i <= n) => i - n \in 1 .. Len(s)
    BY <1>1, <1>2, <2>1
  <2> QED BY <1>1, <1>2, <2>1, <2>2, <2>3
<1>4. ASSUME NEW i \in DOMAIN q, NEW j \in DOMAIN q, IsAnswer(q[i]), IsAnswer(q[j]), q[i][2] = q[j][2]
      PROVE  i = j
  <2>1. CASE i <= n /\ j <= n
    <3>1. i \in DOMAIN P /\ q[i] = P[i] /\ j \in DOMAIN P /\ q[j] = P[j]
      BY <1>3, <2>1
    <3> QED BY <1>4, <3>1 DEF OneAnswer
  <2>2. CASE ~(i <= n) /\ ~(j <= n)
    <3>1. i - n \in DOMAIN s /\ q[i] = s[i - n] /\ j - n \in DOMAIN s /\ q[j] = s[j - n]
      BY <1>3, <2>2
    <3>2. i - n = j - n
      BY <1>4, <3>1 DEF OneAnswer
    <3> QED BY <1>1, <1>2, <3>2
  <2>3. CASE i <= n /\ ~(j <= n)
    BY <1>3, <1>4, <2>3
  <2>4. CASE ~(i <= n) /\ j <= n
    BY <1>3, <1>4, <2>4
  <2> QED BY <2>1, <2>2, <2>3, <2>4
<1>5. OneAnswer(q)
  BY <1>4 DEF OneAnswer
<1> QED BY <1>5 DEF q

(* The first is taken.                                                         *)
LEMMA FirstTaken ==
  ASSUME NEW P \in Seq(Records), P # <<>>
  PROVE  /\ 1 \in DOMAIN P
         /\ \A i \in DOMAIN Tail(P) : i + 1 \in DOMAIN P /\ Tail(P)[i] = P[i + 1] /\ i + 1 # 1 /\ i \in Int
OBVIOUS

(* The others remain one for a key.                                            *)
LEMMA OneTail ==
  ASSUME NEW P \in Seq(Records), P # <<>>, OneAnswer(P)
  PROVE  OneAnswer(Tail(P))
<1> SUFFICES ASSUME NEW i \in DOMAIN Tail(P), NEW j \in DOMAIN Tail(P),
                    IsAnswer(Tail(P)[i]), IsAnswer(Tail(P)[j]), Tail(P)[i][2] = Tail(P)[j][2]
             PROVE  i = j
  BY DEF OneAnswer
<1>1. /\ i + 1 \in DOMAIN P /\ Tail(P)[i] = P[i + 1] /\ i \in Int
      /\ j + 1 \in DOMAIN P /\ Tail(P)[j] = P[j + 1] /\ j \in Int
  BY FirstTaken
<1>2. i + 1 = j + 1
  BY <1>1 DEF OneAnswer
<1> QED BY <1>1, <1>2

(* The items of the cache, after a search, a put, and more keys answered at    *)
(* their date.                                                                 *)
LEMMA EndsSearch ==
  ASSUME NEW c, NEW end, CacheEnds(c, end), NEW key \in Keys, NEW t
  PROVE  CacheEnds(cache_search(c, key, t), end)
<1> DEFINE live == Unexpired(c, t)
           p == cache_search(c, key, t)
<1>1. c \in Seq(Item)
  BY DEF CacheEnds
<1>2. \A i \in DOMAIN live : \E j \in DOMAIN c : live[i] = c[j]
  BY <1>1, UnexpiredFacts
<1>3. /\ p \in Seq(Item) /\ DOMAIN p = DOMAIN live
      /\ \A i \in DOMAIN p : /\ p[i].key = live[i].key /\ p[i].value = live[i].value
                             /\ p[i].expire = live[i].expire
  BY <1>1, SearchKeeps
<1> HIDE DEF live, p
<1>4. \A i \in DOMAIN p : \E j \in DOMAIN c : /\ p[i].key = c[j].key /\ p[i].value = c[j].value
                                              /\ p[i].expire = c[j].expire
  BY <1>2, <1>3
<1>5. CacheEnds(p, end)
  BY <1>3, <1>4 DEF CacheEnds
<1> QED BY <1>5 DEF p

(* A put of an answer with the date of its rule.                               *)
LEMMA EndsPut ==
  ASSUME NEW c, NEW end, CacheEnds(c, end), NEW key \in Keys, NEW value \in {Yes, No},
         NEW expire \in Int, NEW t,
         value = Yes /\ EndOf[key] # 0 /\ key \notin end /\ expire >= 0 =>
           EndOf[key] > 0 /\ expire \in 1 .. EndOf[key] + 1
  PROVE  CacheEnds(cache_put(c, key, value, expire, t, Size), end)
<1> DEFINE item == [key |-> key, value |-> value, expire |-> expire, hit |-> HitMax]
           p == cache_put(c, key, value, expire, t, Size)
<1>1. c \in Seq(Item)
  BY DEF CacheEnds
<1>2. /\ p \in Seq(Item)
      /\ \A i \in DOMAIN p : (\E j \in DOMAIN c : p[i] = c[j]) \/ (expire >= 0 /\ p[i] = item)
  BY <1>1, PutKeeps, SizeAssumption
<1>3. item.key = key /\ item.value = value /\ item.expire = expire
  OBVIOUS
<1> HIDE DEF item, p
<1>4. ASSUME NEW i \in DOMAIN p, p[i].value = Yes, EndOf[p[i].key] # 0, p[i].key \notin end
      PROVE  EndOf[p[i].key] > 0 /\ p[i].expire \in 1 .. EndOf[p[i].key] + 1
  <2>1. CASE \E j \in DOMAIN c : p[i] = c[j]
    BY <1>4, <2>1 DEF CacheEnds
  <2>2. CASE expire >= 0 /\ p[i] = item
    BY <1>3, <1>4, <2>2
  <2> QED BY <1>2, <2>1, <2>2
<1>5. CacheEnds(p, end)
  BY <1>2, <1>4 DEF CacheEnds
<1> QED BY <1>5 DEF p

(* The types of what is in the pipe.                                           *)
LEMMA PipeType ==
  ASSUME WayInv
  PROVE  InTransit \in Seq(Records) /\ Pipe \in Seq(Records) /\ now \in Nat
<1>1. InTransit \in Seq(Records) /\ todo \in Seq(Records) /\ now \in Nat
  BY TransitType, MaxTimeAssumption DEF WayInv
<1> QED BY <1>1, ConcatProperties DEF Pipe

(* At first nothing is under way and the cache is empty.                       *)
LEMMA DatesInit ==
  ASSUME AnswersInit
  PROVE  DatesInv
<1>1. WayInv /\ InTransit = <<>>
  BY WayInit
<1>2. todo = <<>> /\ requests = <<>> /\ cache = <<>>
  BY DEF AnswersInit
<1>3. Pipe = <<>>
  BY <1>1, <1>2 DEF Pipe
<1> QED BY <1>1, <1>2, <1>3 DEF DatesInv, OneAnswer, AllFresh, AskedOnce, CacheEnds

(* Nothing is said on the way; a key may be asked for and the cache searched.  *)
LEMMA QuietDates ==
  ASSUME DatesInv, WayInv', Pipe' = Pipe, now' = now, aged' = aged, atEnd' = atEnd,
         \A k \in Keys : k \in waits \ ToSet(requests) => k \in waits' \ ToSet(requests'),
         AskedOnce(requests', waits'), CacheEnds(cache', atEnd)
  PROVE  DatesInv'
<1>1. AllFresh(Pipe, requests, waits, now, aged, atEnd) /\ now \in Nat
  BY PipeType DEF DatesInv
<1>2. \A k \in Keys : Later(k, now, aged, atEnd, now, aged, atEnd)
  BY DEF Later
<1>3. AllFresh(Pipe, requests', waits', now, aged, atEnd)
  <2>1. Carried(Pipe, requests, waits, now, aged, atEnd, Pipe, requests', waits', now, aged, atEnd)
    BY <1>2 DEF Carried
  <2> QED BY <1>1, <2>1, AllLater
<1> QED BY <1>3 DEF DatesInv

(* One more request.                                                           *)
LEMMA AskFacts ==
  ASSUME NEW req \in Seq(Keys \cup {List}), NEW w, AskedOnce(req, w),
         NEW x \in Keys \cup {List}, x \notin w
  PROVE  /\ AskedOnce(Append(req, x), w \cup {x})
         /\ \A k \in Keys : k \in w \ ToSet(req) => k \in (w \cup {x}) \ ToSet(Append(req, x))
<1> DEFINE q == Append(req, x)
           n == Len(req)
<1>1. /\ n \in Nat /\ DOMAIN req = 1 .. n /\ DOMAIN q = 1 .. n + 1 /\ q[n + 1] = x
      /\ \A i \in 1 .. n : q[i] = req[i]
  OBVIOUS
<1> HIDE DEF q, n
<1>2. \A i \in DOMAIN q : (i \in DOMAIN req /\ q[i] = req[i]) \/ (i = n + 1 /\ q[i] = x)
  BY <1>1
<1>3. AskedOnce(q, w \cup {x})
  BY <1>1, <1>2 DEF AskedOnce
<1>4. \A k : k \in w \ ToSet(req) => k \in (w \cup {x}) \ ToSet(q)
  BY <1>2 DEF ToSet
<1> QED BY <1>3, <1>4 DEF q

(* A check searches the cache, and asks at most once for its key.              *)
LEMMA CheckDates ==
  ASSUME DatesInv, NEW k \in Keys, Check(k)
  PROVE  DatesInv'
<1>1. WayInv /\ WayInv' /\ requests \in Seq(Keys \cup {List})
  BY WayNext DEF AnswersNext, DatesInv, WayInv
<1>2. InTransit' = InTransit
  BY <1>1, SameProt DEF WayInv, Check
<1>3. /\ Pipe' = Pipe /\ now' = now /\ aged' = aged /\ atEnd' = atEnd
      /\ cache' = cache_search(cache, k, now)
  BY <1>2 DEF Check, Pipe
<1>4. CacheEnds(cache', atEnd)
  BY <1>3, EndsSearch DEF DatesInv
<1>5. CASE requests' = requests /\ waits' = waits
  BY <1>1, <1>3, <1>4, <1>5, QuietDates DEF DatesInv
<1>6. CASE requests' = Append(requests, k) /\ waits' = waits \cup {k} /\ k \notin waits
  <2>1. /\ AskedOnce(requests', waits')
        /\ \A j \in Keys : j \in waits \ ToSet(requests) => j \in waits' \ ToSet(requests')
    BY <1>1, <1>6, AskFacts DEF DatesInv
  <2> QED BY <1>1, <1>3, <1>4, <2>1, QuietDates
<1> QED BY <1>5, <1>6 DEF Check

(* The list is asked for.                                                      *)
LEMMA GetListDates ==
  ASSUME DatesInv, GetList
  PROVE  DatesInv'
<1>1. WayInv /\ WayInv' /\ requests \in Seq(Keys \cup {List})
  BY WayNext DEF AnswersNext, DatesInv, WayInv
<1>2. InTransit' = InTransit
  BY <1>1, SameProt DEF WayInv, GetList
<1>3. /\ Pipe' = Pipe /\ now' = now /\ aged' = aged /\ atEnd' = atEnd /\ cache' = cache
      /\ requests' = Append(requests, List) /\ waits' = waits \cup {List} /\ List \notin waits
  BY <1>2 DEF GetList, Pipe
<1>4. /\ AskedOnce(requests', waits')
      /\ \A j \in Keys : j \in waits \ ToSet(requests) => j \in waits' \ ToSet(requests')
  BY <1>1, <1>3, AskFacts DEF DatesInv
<1>5. CacheEnds(cache', atEnd)
  BY <1>3 DEF DatesInv
<1> QED BY <1>1, <1>3, <1>4, <1>5, QuietDates

(* The stream moves bytes.                                                     *)
LEMMA StreamDates ==
  ASSUME DatesInv, Stream \/ UNCHANGED answerVars
  PROVE  DatesInv'
<1>1. WayInv /\ WayInv'
  BY WayNext DEF AnswersNext, Progress, DatesInv, WayInv
<1>2. InTransit' = InTransit
  BY <1>1, SameProt, WriteStep, ReadStep, GetStep DEF WayInv, Stream, answerVars
<1>3. /\ Pipe' = Pipe /\ now' = now /\ aged' = aged /\ atEnd' = atEnd /\ cache' = cache
      /\ requests' = requests /\ waits' = waits
  BY <1>2 DEF Stream, answerVars, client, server, Pipe
<1> QED BY <1>1, <1>3, QuietDates DEF DatesInv

(* What is put is on its way still.                                            *)
LEMMA PutDates ==
  ASSUME DatesInv, PutNext
  PROVE  DatesInv'
<1>1. WayInv /\ WayInv'
  BY WayNext DEF AnswersNext, Progress, DatesInv, WayInv
<1>2. /\ todo # <<>> /\ Put(Head(todo)) /\ todo' = Tail(todo) /\ now' = now /\ requests' = requests
      /\ cache' = cache /\ waits' = waits /\ aged' = aged /\ atEnd' = atEnd
  BY DEF PutNext, client
<1>3. todo \in Seq(Records) /\ InTransit \in Seq(Records) /\ StreamInv
  BY <1>1, PipeType DEF WayInv
<1>4. Head(todo) \in Records
  BY <1>2, <1>3
<1>5. InTransit' = Append(InTransit, Head(todo))
  BY <1>2, <1>3, <1>4, PutStep
<1>6. Append(InTransit, Head(todo)) \o Tail(todo) = InTransit \o todo
  <2> DEFINE s == InTransit
             q == todo
  <2>1. s \in Seq(Records) /\ q \in Seq(Records) /\ q # <<>>
    BY <1>2, <1>3
  <2> HIDE DEF s, q
  <2>2. Append(s, Head(q)) \o Tail(q) = s \o q
    BY <2>1
  <2> QED BY <2>2 DEF s, q
<1>7. Pipe' = Pipe
  BY <1>2, <1>5, <1>6 DEF Pipe
<1> QED BY <1>1, <1>2, <1>7, QuietDates DEF DatesInv

(* A tick makes old the answers under way, of which none was old.              *)
LEMMA TickDates ==
  ASSUME DatesInv, Tick
  PROVE  DatesInv'
<1>1. WayInv /\ WayInv'
  BY WayNext DEF AnswersNext, DatesInv, WayInv
<1>2. InTransit' = InTransit
  BY <1>1, SameProt DEF WayInv, Tick
<1>3. /\ Pipe' = Pipe /\ now' = now + 1 /\ aged = {} /\ aged' = OnTheWay /\ atEnd' = atEnd
      /\ cache' = cache /\ requests' = requests /\ waits' = waits
  BY <1>2 DEF Tick, client, server, Pipe
<1>4. \A k \in Keys : k \in waits \ ToSet(requests) => k \in OnTheWay
  BY DEF OnTheWay, ToSet
<1>5. Carried(Pipe, requests, waits, now, aged, atEnd, Pipe, requests, waits, now', aged', atEnd)
  BY <1>3, <1>4 DEF Carried, Later
<1>6. AllFresh(Pipe, requests, waits, now, aged, atEnd) /\ now \in Nat
  BY PipeType DEF DatesInv
<1>7. AllFresh(Pipe, requests, waits, now', aged', atEnd)
  BY <1>5, <1>6, AllLater
<1> QED BY <1>1, <1>3, <1>7 DEF DatesInv

(* A request is read.                                                          *)
LEMMA ReadFacts ==
  ASSUME NEW req \in Seq(Keys \cup {List}), NEW w, AskedOnce(req, w), req # <<>>
  PROVE  /\ AskedOnce(Tail(req), w) /\ ToSet(Tail(req)) \subseteq ToSet(req)
         /\ Head(req) \in ToSet(req)
         /\ Head(req) \in Keys => Head(req) \in w /\ Head(req) \notin ToSet(Tail(req))
<1>1. /\ 1 \in DOMAIN req /\ Head(req) = req[1]
      /\ \A i \in DOMAIN Tail(req) : /\ i + 1 \in DOMAIN req /\ Tail(req)[i] = req[i + 1]
                                     /\ i + 1 # 1 /\ i \in Int
  OBVIOUS
<1> DEFINE q == Tail(req)
           h == Head(req)
<1> HIDE DEF q, h
<1>2. ToSet(q) \subseteq ToSet(req) /\ h \in ToSet(req)
  BY <1>1 DEF ToSet, q, h
<1>3. h \in Keys => h \in w /\ h \notin ToSet(q)
  BY <1>1 DEF AskedOnce, ToSet, q, h
<1>4. AskedOnce(q, w)
  <2>1. \A i \in DOMAIN q : q[i] \in Keys => q[i] \in w
    BY <1>1 DEF AskedOnce, q
  <2>2. ASSUME NEW i \in DOMAIN q, NEW j \in DOMAIN q, q[i] = q[j], q[i] \in Keys PROVE i = j
    <3>1. i + 1 = j + 1
      BY <1>1, <2>2 DEF AskedOnce, q
    <3> QED BY <1>1, <3>1 DEF q
  <2> QED BY <2>1, <2>2 DEF AskedOnce
<1> QED BY <1>2, <1>3, <1>4 DEF q, h

(* The records of the list are not answers.                                    *)
LEMMA ListFacts ==
  LET s == Listed \o <<Done>>
  IN  s \in Seq(Records) /\ \A i \in DOMAIN s : ~IsAnswer(s[i])
<1> DEFINE y == <<Done>>
           s == Listed \o y
<1>1. /\ Listed \in Seq(Records) /\ y \in Seq(Records) /\ Len(y) = 1 /\ y[1] = Done
      /\ \A i \in DOMAIN Listed : ~IsAnswer(Listed[i])
  BY SentAssumption
<1>2. ~IsAnswer(Done)
  <2>1. Done[1] = <<"d">>
    BY DEF Done
  <2> QED BY <2>1 DEF IsAnswer, Yes, No
<1> HIDE DEF y
<1>3. /\ s \in Seq(Records) /\ Len(s) = Len(Listed) + 1
      /\ \A i \in 1 .. Len(Listed) + Len(y) : s[i] = IF i <= Len(Listed) THEN Listed[i] ELSE y[i - Len(Listed)]
  <2>1. /\ s \in Seq(Records) /\ Len(s) = Len(Listed) + Len(y)
        /\ \A i \in 1 .. Len(Listed) + Len(y) : s[i] = IF i <= Len(Listed) THEN Listed[i] ELSE y[i - Len(Listed)]
    BY <1>1, ConcatProperties
  <2> QED BY <1>1, <2>1
<1> HIDE DEF s
<1>4. ASSUME NEW i \in DOMAIN s PROVE ~IsAnswer(s[i])
  <2>1. i \in 1 .. Len(Listed) + 1 /\ i \in 1 .. Len(Listed) + Len(y) /\ Len(Listed) \in Nat
    BY <1>1, <1>3
  <2>2. CASE i <= Len(Listed)
    <3>1. i \in DOMAIN Listed /\ s[i] = Listed[i]
      BY <1>3, <2>1, <2>2
    <3> QED BY <1>1, <3>1
  <2>3. CASE ~(i <= Len(Listed))
    <3>1. i - Len(Listed) = 1
      BY <2>1, <2>3
    <3> QED BY <1>1, <1>2, <1>3, <2>1, <2>3, <3>1
  <2> QED BY <2>2, <2>3
<1> QED BY <1>3, <1>4 DEF s, y

(* The answer that the server puts has the date of its rule at this time.      *)
LEMMA ServeDates ==
  ASSUME DatesInv, Serve
  PROVE  DatesInv'
<1>1. WayInv /\ WayInv' /\ requests \in Seq(Keys \cup {List}) /\ now \in Nat /\ Pipe \in Seq(Records)
  BY WayNext, PipeType DEF AnswersNext, Progress, DatesInv, WayInv
<1>2. InTransit' = InTransit
  BY <1>1, SameProt DEF WayInv, Serve
<1>3. /\ todo = <<>> /\ requests # <<>> /\ requests' = Tail(requests)
      /\ cache' = cache /\ waits' = waits
      /\ aged' = IF now' = now THEN aged ELSE OnTheWay
  BY DEF Serve, Idle, client
<1>4. Pipe' = Pipe \o todo' /\ todo' \in Seq(Records)
  <2>1. Pipe = InTransit
    <3>1. InTransit \in Seq(Records)
      BY <1>1, PipeType
    <3>2. InTransit \o <<>> = InTransit
      BY <3>1, ConcatEmptySeq
    <3> QED BY <1>3, <3>2 DEF Pipe
  <2>2. Pipe' = InTransit \o todo'
    BY <1>2 DEF Pipe
  <2> QED BY <1>1, <2>1, <2>2 DEF WayInv
<1>5. /\ AskedOnce(requests', waits) /\ ToSet(requests') \subseteq ToSet(requests)
      /\ Head(requests) \in ToSet(requests) /\ Head(requests) \in Keys \cup {List}
      /\ Head(requests) \in Keys => Head(requests) \in waits /\ Head(requests) \notin ToSet(requests')
  BY <1>1, <1>3, ReadFacts DEF DatesInv
<1>6. /\ AllFresh(Pipe, requests, waits, now, aged, atEnd) /\ OneAnswer(Pipe) /\ CacheEnds(cache, atEnd)
  BY DEF DatesInv
<1>7. CASE Head(requests) = List
  <2>1. todo' = Listed \o <<Done>> /\ now' = now /\ atEnd' = atEnd /\ aged' = aged
    BY <1>3, <1>7 DEF Serve
  <2>2. \A i \in DOMAIN todo' : ~IsAnswer(todo'[i])
    BY <2>1, ListFacts
  <2>3. OneAnswer(todo') /\ AllFresh(todo', requests', waits, now, aged, atEnd)
    BY <2>2 DEF OneAnswer, AllFresh
  <2>4. Carried(Pipe, requests, waits, now, aged, atEnd, Pipe, requests', waits, now, aged, atEnd)
    BY <1>5 DEF Carried, Later
  <2>5. AllFresh(Pipe, requests', waits, now, aged, atEnd)
    BY <1>1, <1>6, <2>4, AllLater
  <2>6. AllFresh(Pipe \o todo', requests', waits, now, aged, atEnd)
    BY <1>1, <1>4, <2>3, <2>5, AllCat
  <2>7. OneAnswer(Pipe \o todo')
    BY <1>1, <1>4, <1>6, <2>2, <2>3, OneCat
  <2> QED BY <1>1, <1>3, <1>4, <1>5, <1>6, <2>1, <2>6, <2>7 DEF DatesInv
<1>8. CASE Head(requests) # List
  <2> DEFINE k == Head(requests)
             e == EndOf[k]
  <2>1. k \in Keys /\ e \in Int
    BY <1>5, <1>8, EndOfAssumption
  <2>2. PICK t \in {now, now + 1} :
          /\ t = now \/ (t <= MaxTime /\ aged = {})
          /\ now' = t
          /\ todo' = <<AnswerTo(k, IF InForce(e) THEN Yes ELSE No, WrittenDate(k, t))>>
          /\ atEnd' = IF WrittenDate(k, t) = <<<<>>>> THEN atEnd \cup {k} ELSE atEnd
    BY <1>8 DEF Serve
  <2> DEFINE r == AnswerTo(k, IF InForce(e) THEN Yes ELSE No, WrittenDate(k, t))
             s == <<r>>
  <2>3. Fresh(r, k, t, aged', atEnd')
    <3>1. CASE ~InForce(e)
      <4>1. r = AnswerTo(k, No, <<>>)
        BY <3>1 DEF WrittenDate
      <4> QED BY <4>1 DEF Fresh
    <3>2. CASE InForce(e)
      <4>1. WrittenDate(k, t) = exp2check(e, t) /\ r = AnswerTo(k, Yes, exp2check(e, t))
        BY <3>2 DEF WrittenDate
      <4>2. e > 0 => e > now
        BY <1>1, <2>1, <3>2 DEF InForce
      <4>3. e > 0 /\ e = t => k \in atEnd'
        <5>1. e > 0 /\ e = t => exp2check(e, t) = <<<<>>>>
          BY <1>1, <2>1, DateShape
        <5> HIDE DEF e
        <5> QED BY <2>2, <4>1, <5>1
      <4>4. e > 0 => e > t \/ (e = t /\ k \in atEnd')
        BY <1>1, <2>1, <2>2, <4>2, <4>3
      <4> QED BY <4>1, <4>4 DEF Fresh
    <3> QED BY <3>1, <3>2
  <2>4. atEnd \subseteq atEnd'
    BY <2>2
  <2>5. todo' = s
    BY <2>2
  <2> HIDE DEF r
  <2>6. r[2] = <<k>>
    <3>1. t \in Nat
      BY <1>1
    <3> HIDE DEF k
    <3> QED BY <2>1, <2>3, <3>1, FreshFacts
  <2>7. OneAnswer(s) /\ AllFresh(s, requests', waits, t, aged', atEnd')
    <3>1. k \in waits \ ToSet(requests')
      BY <1>5, <2>1
    <3> HIDE DEF k
    <3>2. DOMAIN s = {1} /\ s[1] = r
      OBVIOUS
    <3> HIDE DEF s
    <3> QED BY <2>1, <2>3, <3>1, <3>2 DEF OneAnswer, AllFresh
  <2>8. \A j \in Keys : j \in waits \ ToSet(requests) => Later(j, now, aged, atEnd, t, aged', atEnd')
    <3>1. CASE t = now
      BY <1>3, <2>2, <2>4, <3>1 DEF Later
    <3>2. CASE t # now
      <4>1. t = now + 1 /\ aged = {} /\ aged' = OnTheWay
        BY <1>3, <2>2, <3>2
      <4>2. \A j \in Keys : j \in waits \ ToSet(requests) => j \in OnTheWay
        BY DEF OnTheWay, ToSet
      <4> QED BY <2>4, <4>1, <4>2 DEF Later
    <3> QED BY <3>1, <3>2
  <2>9. Carried(Pipe, requests, waits, now, aged, atEnd, Pipe, requests', waits, t, aged', atEnd')
    BY <1>5, <2>8 DEF Carried
  <2>10. AllFresh(Pipe, requests', waits, t, aged', atEnd')
    BY <1>1, <1>6, <2>9, AllLater
  <2>11. s \in Seq(Records) /\ DOMAIN s = {1} /\ s[1] = r
    BY <1>4, <2>5
  <2>12. ASSUME NEW i \in DOMAIN Pipe, IsAnswer(Pipe[i]) PROVE Pipe[i][2] # r[2]
    <3>1. PICK j \in Keys : j \in waits \ ToSet(requests) /\ Fresh(Pipe[i], j, now, aged, atEnd)
      BY <1>6, <2>12 DEF AllFresh
    <3>2. Pipe[i][2] = <<j>>
      BY <1>1, <3>1, FreshFacts
    <3>3. j # k
      BY <1>5, <3>1
    <3> QED BY <2>6, <3>2, <3>3
  <2> HIDE DEF s, k
  <2>13. AllFresh(Pipe \o s, requests', waits, t, aged', atEnd')
    BY <1>1, <2>7, <2>10, <2>11, AllCat
  <2>14. OneAnswer(Pipe \o s)
    <3>1. \A i \in DOMAIN Pipe, j \in DOMAIN s :
            IsAnswer(Pipe[i]) /\ IsAnswer(s[j]) => Pipe[i][2] # s[j][2]
      BY <2>11, <2>12
    <3> QED BY <1>1, <1>6, <2>7, <2>11, <3>1, OneCat
  <2>15. CacheEnds(cache, atEnd')
    BY <1>6, <2>4 DEF CacheEnds
  <2> QED BY <1>1, <1>3, <1>4, <1>5, <2>2, <2>5, <2>13, <2>14, <2>15 DEF DatesInv
<1> QED BY <1>7, <1>8

(* What is taken is what was put first.                                        *)
LEMMA TakeFirst ==
  ASSUME WayInv, Take
  PROVE  Pipe # <<>> /\ Pipe[1] = fields /\ Pipe' = Tail(Pipe)
<1>1. StreamInv /\ NextRecord /\ todo' = todo
  BY DEF WayInv, Take, server
<1> DEFINE q == InTransit'
<1>2. InTransit = <<fields>> \o InTransit' /\ InTransit' = Tail(InTransit) /\ InTransit # <<>>
      /\ InTransit \in Seq(Records) /\ todo \in Seq(Records) /\ fields \in Records
  BY <1>1, NextStep, PipeType DEF WayInv
<1>3. q \in Seq(Records) /\ InTransit = <<fields>> \o q
  BY <1>2
<1>4. Pipe = (<<fields>> \o q) \o todo
  BY <1>3 DEF Pipe
<1>5. Pipe' = q \o todo
  BY <1>1 DEF Pipe
<1> DEFINE P == (<<fields>> \o q) \o todo
<1> HIDE DEF q
<1>6. P # <<>> /\ P[1] = fields /\ Tail(P) = q \o todo
  BY <1>2, <1>3
<1> QED BY <1>4, <1>5, <1>6

(* An answer is taken, and no other of its key is under way; or a record of the *)
(* list.                                                                       *)
LEMMA TakeDates ==
  ASSUME DatesInv, Take
  PROVE  DatesInv'
<1>1. WayInv /\ WayInv' /\ StreamInv /\ now \in Nat /\ Pipe \in Seq(Records)
  BY WayNext, PipeType DEF AnswersNext, Progress, DatesInv, WayInv
<1>2. NextRecord /\ now' = now /\ requests' = requests /\ todo' = todo /\ atEnd' = atEnd
  BY DEF Take, server
<1>3. Pipe # <<>> /\ Pipe[1] = fields /\ Pipe' = Tail(Pipe)
  BY <1>1, TakeFirst
<1>4. /\ OneAnswer(Pipe) /\ AllFresh(Pipe, requests, waits, now, aged, atEnd)
      /\ AskedOnce(requests, waits) /\ CacheEnds(cache, atEnd)
  BY DEF DatesInv
<1> DEFINE P == Pipe
           Q == Tail(P)
<1>5. /\ 1 \in DOMAIN P
      /\ \A i \in DOMAIN Q : i + 1 \in DOMAIN P /\ Q[i] = P[i + 1] /\ i + 1 # 1 /\ i \in Int
  BY <1>1, <1>3, FirstTaken
<1>6. OneAnswer(Q)
  BY <1>1, <1>3, <1>4, OneTail
<1>7. ASSUME IsAnswer(fields) PROVE DatesInv'
  <2>1. PICK k \in Keys :
          /\ fields[2] = <<k>>
          /\ cache' = cache_put(cache, k, fields[1], DateOf(SubSeq(fields, 3, Len(fields)), now), now, Size)
          /\ waits' = waits \ {k} /\ aged' = aged \ {k}
    BY <1>7 DEF Take
  <2> DEFINE expire == DateOf(SubSeq(fields, 3, Len(fields)), now)
  <2>2. PICK j \in Keys : j \in waits \ ToSet(requests) /\ Fresh(fields, j, now, aged, atEnd)
    BY <1>3, <1>4, <1>5, <1>7 DEF AllFresh
  <2>3. /\ fields[1] \in {Yes, No} /\ fields[2] = <<j>> /\ expire \in Int
        /\ fields[1] = Yes /\ EndOf[j] # 0 /\ j \notin atEnd /\ expire >= 0 =>
             EndOf[j] > 0 /\ expire \in 1 .. EndOf[j] + 1
    BY <1>1, <2>2, FreshFacts
  <2> HIDE DEF expire
  <2>4. j = k
    <3>1. <<j>> = <<k>>
      BY <2>1, <2>3
    <3>2. <<j>>[1] = j /\ <<k>>[1] = k
      OBVIOUS
    <3> QED BY <3>1, <3>2
  <2>5. CacheEnds(cache', atEnd)
    <3>1. CacheEnds(cache_put(cache, k, fields[1], expire, now, Size), atEnd)
      BY <1>4, <2>3, <2>4, EndsPut
    <3> QED BY <2>1, <3>1 DEF expire
  <2>6. AskedOnce(requests, waits \ {k})
    BY <1>4, <2>2, <2>4 DEF AskedOnce, ToSet
  <2>7. Carried(P, requests, waits, now, aged, atEnd, Q, requests, waits \ {k}, now, aged \ {k}, atEnd)
    <3>1. ASSUME NEW i \in DOMAIN Q, IsAnswer(Q[i]), NEW x \in Keys, P[i + 1][2] = <<x>> PROVE x # k
      <4>1. ~(P[1][2] = P[i + 1][2])
        BY <1>3, <1>4, <1>5, <1>7, <3>1 DEF OneAnswer
      <4> QED BY <1>3, <2>1, <3>1, <4>1
    <3> HIDE DEF P, Q
    <3>2. ASSUME NEW i \in DOMAIN Q, IsAnswer(Q[i])
          PROVE  \E b \in DOMAIN P :
                   /\ Q[i] = P[b]
                   /\ \A x \in Keys : P[b][2] = <<x>> /\ x \in waits \ ToSet(requests) =>
                        /\ x \in (waits \ {k}) \ ToSet(requests)
                        /\ Later(x, now, aged, atEnd, now, aged \ {k}, atEnd)
      <4>1. i + 1 \in DOMAIN P /\ Q[i] = P[i + 1]
        BY <1>5
      <4>2. \A x \in Keys : P[i + 1][2] = <<x>> => x # k
        BY <3>1, <3>2
      <4> QED BY <4>1, <4>2 DEF Later
    <3> QED BY <3>2 DEF Carried
  <2>8. AllFresh(Q, requests, waits \ {k}, now, aged \ {k}, atEnd)
    BY <1>1, <1>4, <2>7, AllLater
  <2> QED BY <1>1, <1>2, <1>3, <1>6, <2>1, <2>5, <2>6, <2>8 DEF DatesInv
<1>8. ASSUME ~IsAnswer(fields) PROVE DatesInv'
  <2>1. (waits' = waits \/ waits' = waits \ {List}) /\ cache' = cache /\ aged' = aged
    BY <1>8 DEF Take
  <2>2. \A k \in Keys : k \in waits => k \in waits'
    BY <2>1, ListAssumption
  <2>3. AskedOnce(requests, waits')
    BY <1>4, <2>2 DEF AskedOnce
  <2>4. Carried(P, requests, waits, now, aged, atEnd, Q, requests, waits', now, aged, atEnd)
    <3> HIDE DEF P, Q
    <3> QED BY <1>5, <2>2 DEF Carried, Later
  <2>5. AllFresh(Q, requests, waits', now, aged, atEnd)
    BY <1>1, <1>4, <2>4, AllLater
  <2> QED BY <1>1, <1>2, <1>3, <1>4, <1>6, <2>1, <2>3, <2>5 DEF DatesInv
<1> QED BY <1>7, <1>8

(* Each step keeps the dates.                                                  *)
LEMMA DatesNext ==
  ASSUME DatesInv, [AnswersNext]_answerVars
  PROVE  DatesInv'
BY CheckDates, GetListDates, ServeDates, PutDates, StreamDates, TakeDates, TickDates
   DEF AnswersNext, Progress

(* A decision is not used after its end and the tick that its answer took.     *)
THEOREM EndsInTimeHolds == AnswersSpec => []EndsInTime
<1>1. AnswersInit => DatesInv
  BY DatesInit
<1>2. DatesInv /\ [AnswersNext]_answerVars => DatesInv'
  BY DatesNext
<1>3. DatesInv => EndsInTime
  <2> SUFFICES ASSUME DatesInv, NEW i \in DOMAIN cache, cache[i].value = Yes,
                      EndOf[cache[i].key] # 0, cache[i].key \notin atEnd
               PROVE  /\ EndOf[cache[i].key] > 0
                      /\ Expired(cache[i], now) \/ now <= EndOf[cache[i].key] + 1
    BY DEF EndsInTime
  <2> DEFINE e == EndOf[cache[i].key]
             x == cache[i].expire
  <2>1. now \in Nat
    BY PipeType DEF DatesInv
  <2>2. e > 0 /\ x \in 1 .. e + 1
    BY DEF DatesInv, CacheEnds
  <2>3. e \in Int
    <3>1. cache[i] \in Item
      BY DEF DatesInv, CacheEnds
    <3> QED BY <3>1, EndOfAssumption DEF Item
  <2> HIDE DEF e, x
  <2>4. x # 0 /\ (x < now \/ now <= e + 1)
    BY <2>1, <2>2, <2>3
  <2> QED BY <2>2, <2>4 DEF Expired, e, x
<1> QED BY <1>1, <1>2, <1>3, PTL DEF AnswersSpec
================================================================================
