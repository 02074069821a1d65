----------------------------- MODULE LoopLemmas -----------------------------
(***************************************************************************)
(* What the loops of the models compute: that a recursive definition over  *)
(* a sequence has the function it describes, and what FlattenSeq and       *)
(* FoldLeft make of a sequence that is one element longer.                 *)
(*                                                                         *)
(* Induction is stated over sets of numbers, with their least elements: so *)
(* it can be cited wherever the set can be written down.                   *)
(***************************************************************************)
EXTENDS Integers, SequencesExt, SequenceTheorems, WellFoundedInduction, TLAPS

\* A set of natural numbers has a least element.
LEMMA LeastNumber ==
  ASSUME NEW T \in SUBSET Nat, T # {}
  PROVE  \E m \in T : \A k \in T : m <= k
<1> DEFINE R == {p \in Nat \X Nat : p[1] < p[2]}
<1>1. IsWellFoundedOn(R, Nat)
  BY NatLessThanWellFounded, Zenon DEF OpToRel
<1> HIDE DEF R
<1>2. PICK m \in T : \A k \in T : <<k, m>> \notin R
  BY <1>1, WFMin
<1>3. \A i, j \in Nat : i < j => <<i, j>> \in R
  BY DEF R
<1>4. \A k \in T : ~(k < m)
  BY <1>2, <1>3
<1>5. QED
  BY <1>4

\* Induction: a set with 0, and with every successor up to n, has 0..n.
LEMMA UpTo ==
  ASSUME NEW n \in Nat, NEW P, 0 \in P,
         \A i \in 1..n : i - 1 \in P => i \in P
  PROVE  0..n \subseteq P
<1> DEFINE T == (0..n) \ P
<1>1. SUFFICES ASSUME T # {} PROVE FALSE
  OBVIOUS
<1>2. PICK m \in T : \A k \in T : m <= k
  BY <1>1, LeastNumber, T \in SUBSET Nat
<1>3. m \in 1..n /\ m - 1 \in 0..n /\ m - 1 \notin T
  BY <1>2
<1>4. QED
  BY <1>3

\* A loop of n steps, whose states are those of f.
Loop(f, n, base, step) ==
    f[0] = base /\ \A i \in 1..n : f[i] = step[i][f[i - 1]]

\* A loop that makes its next state of the last one and of the number of the
\* step: all of its states exist.
LEMMA LoopExists ==
  ASSUME NEW n \in Nat, NEW A, NEW base \in A,
         NEW step \in [1..n -> [A -> A]]
  PROVE  \E f \in [0..n -> A] : Loop(f, n, base, step)
<1> DEFINE Runs(f, k) == f[0] = base /\ \A i \in 1..k : f[i] = step[i][f[i - 1]]
           P == {k \in 0..n : \E f \in [0..k -> A] : Runs(f, k)}
<1>1. 0 \in P
  <2> DEFINE g == [i \in 0..0 |-> base]
  <2>1. g \in [0..0 -> A] /\ Runs(g, 0)
    OBVIOUS
  <2> HIDE DEF g
  <2>2. QED
    BY <2>1
<1>2. ASSUME NEW k \in 1..n, k - 1 \in P PROVE k \in P
  <2>1. PICK f \in [0..k-1 -> A] : Runs(f, k - 1)
    BY <1>2
  <2> DEFINE g == [i \in 0..k |-> IF i = k THEN step[k][f[k - 1]] ELSE f[i]]
  <2>2. step[k][f[k - 1]] \in A
    BY <2>1
  <2>3. g \in [0..k -> A]
    BY <2>1, <2>2
  <2>4. Runs(g, k)
    <3>1. g[0] = base
      BY <2>1
    <3>2. ASSUME NEW i \in 1..k PROVE g[i] = step[i][g[i - 1]]
      <4>1. CASE i = k
        BY <4>1
      <4>2. CASE i # k
        <5>1. i \in 1..k-1 /\ g[i] = f[i] /\ g[i - 1] = f[i - 1]
          BY <4>2
        <5>2. QED
          BY <5>1, <2>1
      <4>3. QED
        BY <4>1, <4>2
    <3>3. QED
      BY <3>1, <3>2
  <2> HIDE DEF g
  <2>5. \E h \in [0..k -> A] : Runs(h, k)
    BY <2>3, <2>4
  <2> HIDE DEF Runs
  <2>6. QED
    BY <2>5
<1>3. 0..n \subseteq P
  <2> HIDE DEF P
  <2>1. QED
    BY <1>1, <1>2, UpTo
<1>4. n \in P
  BY <1>3
<1>5. QED
  BY <1>4 DEF Loop

-----------------------------------------------------------------------------
(* Append, ToSet and FlattenSeq *)

\* An element more at the end of the second of two sequences.
LEMMA ConcatAppend ==
  ASSUME NEW S, NEW s \in Seq(S), NEW t \in Seq(S), NEW e \in S
  PROVE  s \o Append(t, e) = Append(s \o t, e)
<1>1. <<e>> \in Seq(S) /\ s \o t \in Seq(S)
  BY ConcatProperties
<1>2. Append(t, e) = t \o <<e>> /\ Append(s \o t, e) = (s \o t) \o <<e>>
  BY <1>1, AppendIsConcat
<1>3. (s \o t) \o <<e>> = s \o (t \o <<e>>)
  BY <1>1, ConcatAssociative
<1>4. QED
  BY <1>2, <1>3

\* The elements of a sequence with one more.
LEMMA ToSetAppend ==
  ASSUME NEW S, NEW l \in Seq(S), NEW e \in S
  PROVE  ToSet(Append(l, e)) = ToSet(l) \cup {e}
<1> DEFINE n == Len(l)
           t == Append(l, e)
<1>1. n \in Nat /\ DOMAIN l = 1..n /\ DOMAIN t = 1..n+1
  BY AppendProperties, LenProperties
<1>2. t[n + 1] = e /\ \A i \in 1..n : t[i] = l[i]
  BY AppendProperties
<1> HIDE DEF n, t
<1>3. ToSet(t) \subseteq ToSet(l) \cup {e}
  <2> SUFFICES ASSUME NEW i \in 1..n+1 PROVE t[i] \in ToSet(l) \cup {e}
    BY <1>1 DEF ToSet
  <2>1. CASE i = n + 1
    BY <1>2, <2>1
  <2>2. CASE i # n + 1
    <3>1. i \in 1..n
      BY <1>1, <2>2
    <3>2. QED
      BY <1>1, <1>2, <3>1 DEF ToSet
  <2>3. QED
    BY <2>1, <2>2
<1>4. ToSet(l) \cup {e} \subseteq ToSet(t)
  <2>1. \A i \in 1..n : i \in 1..n+1
    BY <1>1
  <2>2. n + 1 \in 1..n+1
    BY <1>1
  <2>3. QED
    BY <1>1, <1>2, <2>1, <2>2 DEF ToSet
<1>5. QED
  BY <1>3, <1>4 DEF t


\* The sequences that FlattenSeq collects on its way.
Flattens(f, ss) ==
    f = [i \in 1..Len(ss) |-> IF i = 1 THEN ss[i] ELSE f[i - 1] \o ss[i]]

LEMMA FlattenExists ==
  ASSUME NEW S, NEW ss \in Seq(Seq(S)), ss # <<>>
  PROVE  \E f \in [1..Len(ss) -> Seq(S)] : Flattens(f, ss) /\ FlattenSeq(ss) = f[Len(ss)]
<1> DEFINE n == Len(ss)
           A == Seq(S)
           base == <<>>
           step == [i \in 1..n |-> [s \in A |-> s \o ss[i]]]
<1>1. n \in Nat \ {0} /\ \A i \in 1..n : ss[i] \in A
  BY EmptySeq, ElementOfSeq
<1>2. base \in A /\ \A s \in A : base \o s = s
  BY EmptySeq, ConcatEmptySeq
<1>3. \A s, t \in A : s \o t \in A
  BY ConcatProperties
<1> HIDE DEF n, A, base
<1>4. \A i \in 1..n : i - 1 \in 0..n /\ (i # 1 => i - 1 \in 1..n)
  BY <1>1
<1>5. step \in [1..n -> [A -> A]]
  BY <1>1, <1>3
<1>6. \A i \in 1..n : \A s \in A : step[i][s] = s \o ss[i]
  OBVIOUS
<1> HIDE DEF step
<1>7. \E f \in [0..n -> A] : Loop(f, n, base, step)
  <2>1. n \in Nat /\ base \in A
    BY <1>1, <1>2
  <2>2. QED
    BY <1>5, <2>1, LoopExists
<1>8. PICK f \in [0..n -> A] : f[0] = base /\ \A i \in 1..n : f[i] = step[i][f[i - 1]]
  BY <1>7 DEF Loop
<1>9. \A i \in 1..n : f[i - 1] \in A /\ f[i] = f[i - 1] \o ss[i]
  BY <1>4, <1>6, <1>8
<1>10. \A i \in 1..n : f[i] = IF i = 1 THEN ss[i] ELSE f[i - 1] \o ss[i]
  <2>1. 1 \in 1..n /\ 1 - 1 = 0
    BY <1>1
  <2>2. f[1] = f[0] \o ss[1] /\ ss[1] \in A
    BY <1>1, <1>9, <2>1
  <2>3. f[1] = ss[1]
    BY <1>2, <1>8, <2>2
  <2>4. QED
    BY <1>9, <2>3
<1> DEFINE g == [i \in 1..n |-> f[i]]
<1>11. g = [i \in 1..n |-> IF i = 1 THEN ss[i] ELSE g[i - 1] \o ss[i]]
  BY <1>4, <1>10
<1> DEFINE h == CHOOSE h : h = [i \in 1..n |-> IF i = 1 THEN ss[i] ELSE h[i - 1] \o ss[i]]
<1>12. h = [i \in 1..n |-> IF i = 1 THEN ss[i] ELSE h[i - 1] \o ss[i]]
  <2> HIDE DEF g
  <2>1. QED
    BY <1>11, Zenon
<1>13. FlattenSeq(ss) = h[n]
  BY <1>1, Zenon DEF FlattenSeq, n
<1> HIDE DEF h
<1>14. \A i \in 1..n : h[i] = IF i = 1 THEN ss[i] ELSE h[i - 1] \o ss[i]
  BY <1>12
<1> DEFINE P == {i \in 0..n : i \in 1..n => h[i] \in A}
<1>15. 0 \in P /\ \A i \in 1..n : i - 1 \in P => i \in P
  <2>1. 0 \in P
    BY <1>1
  <2>2. ASSUME NEW i \in 1..n, i - 1 \in P PROVE h[i] \in A
    <3>1. i # 1 => h[i - 1] \in A
      BY <1>4, <2>2
    <3>2. ss[i] \in A
      BY <1>1
    <3>3. i # 1 => h[i - 1] \o ss[i] \in A
      BY <1>3, <3>1, <3>2
    <3>4. QED
      BY <1>14, <3>2, <3>3
  <2>3. QED
    BY <2>1, <2>2
<1>16. \A i \in 1..n : h[i] \in A
  <2>1. n \in Nat
    BY <1>1
  <2> HIDE DEF P
  <2>2. 0..n \subseteq P
    BY <1>15, <2>1, UpTo
  <2>3. QED
    BY <2>2 DEF P
<1>17. h \in [1..n -> A]
  BY <1>12, <1>16
<1>18. Flattens(h, ss) /\ FlattenSeq(ss) = h[n]
  BY <1>12, <1>13 DEF Flattens, n
<1>19. QED
  BY <1>17, <1>18 DEF n, A

\* FlattenSeq of a sequence with one more element.
LEMMA FlattenAppend ==
  ASSUME NEW S, NEW ss \in Seq(Seq(S)), NEW s \in Seq(S)
  PROVE  /\ FlattenSeq(ss) \in Seq(S)
         /\ FlattenSeq(Append(ss, s)) = FlattenSeq(ss) \o s
<1> DEFINE tt == Append(ss, s)
           n == Len(ss)
<1>1. /\ tt \in Seq(Seq(S)) /\ tt # <<>> /\ Len(tt) = n + 1 /\ n \in Nat
      /\ \A i \in 1..n : tt[i] = ss[i]
      /\ tt[n + 1] = s
  BY AppendProperties, LenProperties
<1>2. ss = <<>> <=> n = 0
  BY EmptySeq
<1>3. FlattenSeq(<<>>) = <<>>
  <2>1. Len(<<>>) = 0
    OBVIOUS
  <2>2. QED
    BY <2>1, Zenon DEF FlattenSeq
<1> HIDE DEF tt
<1>4. PICK g \in [1..n + 1 -> Seq(S)] : Flattens(g, tt) /\ FlattenSeq(tt) = g[n + 1]
  BY <1>1, FlattenExists
<1>5. \A i \in 1..n + 1 : g[i] = IF i = 1 THEN tt[i] ELSE g[i - 1] \o tt[i]
  BY <1>1, <1>4 DEF Flattens
<1>6. CASE ss = <<>>
  <2>1. n = 0 /\ FlattenSeq(ss) = <<>>
    BY <1>2, <1>3, <1>6
  <2>2. g[1] = s
    BY <1>1, <1>5, <2>1
  <2>3. <<>> \in Seq(S) /\ <<>> \o s = s
    BY EmptySeq, ConcatEmptySeq
  <2>4. QED
    BY <1>4, <2>1, <2>2, <2>3 DEF tt
<1>7. CASE ss # <<>>
  <2>1. PICK f \in [1..n -> Seq(S)] : Flattens(f, ss) /\ FlattenSeq(ss) = f[n]
    BY <1>7, FlattenExists
  <2>2. \A i \in 1..n : f[i] = IF i = 1 THEN ss[i] ELSE f[i - 1] \o ss[i]
    BY <2>1 DEF Flattens
  <2>3. n \in Nat \ {0}
    BY <1>1, <1>2, <1>7
  <2> HIDE DEF n
  <2> DEFINE P == {i \in 0..n : i \in 1..n => f[i] = g[i]}
  <2>4. 0 \in P
    BY <2>3
  <2>5. ASSUME NEW i \in 1..n, i - 1 \in P PROVE i \in P
    <3>1. i \in 1..n + 1 /\ i \in 0..n /\ tt[i] = ss[i] /\ (i # 1 => i - 1 \in 1..n)
      BY <1>1, <2>3
    <3>2. i # 1 => f[i - 1] = g[i - 1]
      BY <2>5, <3>1
    <3>3. f[i] = g[i]
      BY <1>5, <2>2, <3>1, <3>2
    <3>4. QED
      BY <3>1, <3>3
  <2>6. 0..n \subseteq P
    <3> HIDE DEF P
    <3>1. QED
      BY <2>3, <2>4, <2>5, UpTo
  <2>7. f[n] = g[n]
    BY <2>3, <2>6
  <2>8. g[n + 1] = g[n] \o s
    <3>1. n + 1 \in 1..n + 1 /\ n + 1 # 1 /\ (n + 1) - 1 = n
      BY <2>3
    <3>2. g[n + 1] = g[(n + 1) - 1] \o tt[n + 1]
      BY <1>5, <3>1
    <3>3. QED
      BY <1>1, <3>1, <3>2
  <2>9. f[n] \in Seq(S)
    BY <2>3
  <2>10. QED
    BY <1>4, <2>1, <2>7, <2>8, <2>9 DEF tt
<1>8. QED
  BY <1>6, <1>7
\* The elements of both sequences are in their concatenation.
LEMMA ToSetConcat ==
  ASSUME NEW S, NEW s \in Seq(S), NEW t \in Seq(S)
  PROVE  ToSet(s) \subseteq ToSet(s \o t) /\ ToSet(t) \subseteq ToSet(s \o t)
<1> DEFINE m == Len(s)
           n == Len(t)
           u == s \o t
<1>1. m \in Nat /\ n \in Nat /\ DOMAIN s = 1..m /\ DOMAIN t = 1..n /\ DOMAIN u = 1..m+n
  BY ConcatProperties, LenProperties
<1>2. \A i \in 1..m+n : u[i] = IF i <= m THEN s[i] ELSE t[i - m]
  BY ConcatProperties
<1> HIDE DEF m, n, u
<1>3. ASSUME NEW i \in 1..m PROVE s[i] \in ToSet(u)
  <2>1. i \in 1..m+n /\ u[i] = s[i]
    BY <1>1, <1>2
  <2>2. QED
    BY <1>1, <2>1 DEF ToSet
<1>4. ASSUME NEW i \in 1..n PROVE t[i] \in ToSet(u)
  <2>1. i + m \in 1..m+n /\ u[i + m] = t[i]
    BY <1>1, <1>2
  <2>2. QED
    BY <1>1, <2>1 DEF ToSet
<1>5. QED
  BY <1>1, <1>3, <1>4 DEF ToSet, u

\* FlattenSeq keeps the elements.
LEMMA FlattenElement ==
  ASSUME NEW S, NEW ss \in Seq(Seq(S)), NEW j \in 1..Len(ss), NEW e \in ToSet(ss[j])
  PROVE  e \in ToSet(FlattenSeq(ss))
<1> DEFINE n == Len(ss)
<1>1. n \in Nat /\ j \in 1..n /\ ss # <<>> /\ \A k \in 1..n : ss[k] \in Seq(S)
  BY LenProperties, ElementOfSeq, EmptySeq
<1>2. PICK f \in [1..n -> Seq(S)] : Flattens(f, ss) /\ FlattenSeq(ss) = f[n]
  BY <1>1, FlattenExists
<1>3. \A k \in 1..n : f[k] = IF k = 1 THEN ss[k] ELSE f[k - 1] \o ss[k]
  BY <1>2 DEF Flattens
<1> HIDE DEF n
<1> DEFINE P == {k \in 0..n : k >= j => e \in ToSet(f[k])}
<1>4. 0 \in P
  BY <1>1
<1>5. ASSUME NEW k \in 1..n, k - 1 \in P PROVE k \in P
  <2>1. k \in 0..n /\ k \in Nat /\ (k # 1 => k - 1 \in 1..n)
    BY <1>1
  <2>2. CASE k = 1
    <3>1. k >= j => k = j
      BY <1>1, <2>2
    <3>2. f[k] = ss[k]
      BY <1>3, <2>2
    <3>3. QED
      BY <2>1, <3>1, <3>2
  <2>3. CASE k # 1
    <3>1. f[k - 1] \in Seq(S) /\ ss[k] \in Seq(S)
      BY <1>1, <1>2, <2>1, <2>3
    <3>2. f[k] = f[k - 1] \o ss[k]
      BY <1>3, <2>3
    <3>3. ToSet(f[k - 1]) \subseteq ToSet(f[k]) /\ ToSet(ss[k]) \subseteq ToSet(f[k])
      BY <3>1, <3>2, ToSetConcat
    <3>4. k >= j => e \in ToSet(f[k - 1]) \/ e \in ToSet(ss[k])
      BY <1>1, <1>5, <2>1
    <3>5. QED
      BY <2>1, <3>3, <3>4
  <2>4. QED
    BY <2>2, <2>3
<1>6. 0..n \subseteq P
  <2> HIDE DEF P
  <2>1. QED
    BY <1>1, <1>4, <1>5, UpTo
<1>7. e \in ToSet(f[n])
  BY <1>1, <1>6
<1>8. QED
  BY <1>2, <1>7

\* The elements of l with their number in K, each in a sequence of its own.
Picked(l, K) == [i \in DOMAIN l |-> IF i \in K THEN <<l[i]>> ELSE <<>>]

\* FlattenSeq of them has elements of l, and none of those in K is missing.
LEMMA PickedElements ==
  ASSUME NEW S, NEW l \in Seq(S), NEW K
  PROVE  /\ FlattenSeq(Picked(l, K)) \in Seq(S)
         /\ \A i \in (1..Len(l)) \cap K : l[i] \in ToSet(FlattenSeq(Picked(l, K)))
<1> DEFINE n == Len(l)
           ss == Picked(l, K)
<1>1. n \in Nat /\ DOMAIN l = 1..n /\ \A i \in 1..n : l[i] \in S
  BY LenProperties, ElementOfSeq
<1>2. ss = [i \in 1..n |-> IF i \in K THEN <<l[i]>> ELSE <<>>]
  BY <1>1 DEF Picked
<1> HIDE DEF n, ss
<1>3. \A i \in 1..n : (IF i \in K THEN <<l[i]>> ELSE <<>>) \in Seq(S)
  BY <1>1
<1>4. ss \in Seq(Seq(S)) /\ Len(ss) = n
  <2> DEFINE A == Seq(S)
  <2>1. ss \in [1..n -> A]
    BY <1>2, <1>3
  <2> HIDE DEF A
  <2>2. ss \in Seq(A) /\ Len(ss) = n
    BY <1>1, <2>1
  <2>3. QED
    BY <2>2 DEF A
<1>5. FlattenSeq(ss) \in Seq(S)
  BY <1>4, FlattenAppend, EmptySeq
<1>6. ASSUME NEW i \in 1..n, i \in K PROVE l[i] \in ToSet(FlattenSeq(ss))
  <2>1. ss[i] = <<l[i]>>
    BY <1>2, <1>6
  <2>2. l[i] \in ToSet(<<l[i]>>)
    BY DEF ToSet
  <2>3. QED
    BY <1>4, <2>1, <2>2, FlattenElement
<1>7. QED
  BY <1>5, <1>6 DEF n, ss

=============================================================================
