------------------------------ MODULE Induction ------------------------------
(***************************************************************************)
(* Induction over the naturals, and functions defined by it, in a form in  *)
(* which no fact has an operator as a parameter: what is to be proved of   *)
(* every number is given as the set of the numbers it holds for, and a     *)
(* step of an iteration as a function.  With them, what FlattenSeq does    *)
(* with one sequence more.                                                 *)
(***************************************************************************)
EXTENDS Integers, Sequences, SequencesExt, SequenceTheorems, WellFoundedInduction, TLAPS

\* Every set of naturals that is not empty has a least element.
THEOREM LeastNatural ==
    ASSUME NEW T, T \subseteq Nat, T # {}
    PROVE  \E x \in T : \A y \in T : x <= y
<1> DEFINE R == {pair \in Nat \X Nat : pair[1] < pair[2]}
<1>1. IsWellFoundedOn(R, Nat)
  BY NatLessThanWellFounded DEF OpToRel
<1>2. \A x, y \in Nat : <<y, x>> \in R <=> y < x
  OBVIOUS
<1> HIDE DEF R
<1>3. PICK x \in T : \A y \in T : ~(<<y, x>> \in R)
  BY <1>1, WFMin
<1>4. \A y \in T : ~(y < x)
  BY <1>2, <1>3
<1>5. \A y \in T : x \in Nat /\ y \in Nat
  OBVIOUS
<1> QED BY <1>4, <1>5

\* Induction: a set with 0 and the successors of its elements has them all.
THEOREM SetInduction ==
    ASSUME NEW S, 0 \in S, \A n \in Nat : n \in S => n + 1 \in S
    PROVE  Nat \subseteq S
<1> SUFFICES ASSUME Nat \ S # {}
             PROVE  FALSE
  OBVIOUS
<1>1. PICK x \in Nat \ S : \A y \in Nat \ S : x <= y
  BY LeastNatural
<1>2. x # 0 /\ x - 1 \in Nat /\ x - 1 \in S
  BY <1>1
<1>3. (x - 1) + 1 \in S
  BY <1>2
<1> QED BY <1>1, <1>3

\* The first n values of an iteration, which begins with a and of which each
\* step is f of where it is and what there is.
Steps(n, S, a, f) ==
    {h \in [0..n -> S] :
        h[0] = a /\ \A i \in 0..(n - 1) : h[i + 1] = f[<<i, h[i]>>]}

\* All values of an iteration.
IsIteration(g, S, a, f) ==
    /\ g \in [Nat -> S]
    /\ g[0] = a
    /\ \A n \in Nat : g[n + 1] = f[<<n, g[n]>>]

\* There is a function with all values of an iteration.
THEOREM Iteration ==
    ASSUME NEW S, NEW a \in S, NEW f \in [Nat \X S -> S]
    PROVE  \E g : IsIteration(g, S, a, f)
<1> DEFINE E == {n \in Nat : Steps(n, S, a, f) # {}}
<1>1. 0 \in E
  <2>1. [i \in 0..0 |-> a] \in Steps(0, S, a, f)
    BY DEF Steps
  <2> QED BY <2>1
<1>2. ASSUME NEW n \in Nat, n \in E
      PROVE  n + 1 \in E
  <2>1. PICK h : h \in Steps(n, S, a, f)
    BY <1>2
  <2>2. /\ h \in [0..n -> S] /\ h[0] = a
        /\ \A i \in 0..(n - 1) : h[i + 1] = f[<<i, h[i]>>]
    BY <2>1 DEF Steps
  <2> DEFINE k == [i \in 0..(n + 1) |-> IF i <= n THEN h[i] ELSE f[<<n, h[n]>>]]
  <2>3. h[n] \in S /\ f[<<n, h[n]>>] \in S
    BY <2>2
  <2>4. k \in [0..(n + 1) -> S]
    BY <2>2, <2>3
  <2>5. k[0] = a
    BY <2>2
  <2>6. ASSUME NEW i \in 0..(n + 1 - 1)
        PROVE  k[i + 1] = f[<<i, k[i]>>]
    <3>1. i \in 0..n /\ k[i] = h[i]
      OBVIOUS
    <3>2. CASE i = n
      BY <3>1, <3>2
    <3>3. CASE i # n
      <4>1. i \in 0..(n - 1) /\ i + 1 <= n /\ i + 1 \in 0..(n + 1)
        BY <3>1, <3>3
      <4> QED BY <2>2, <3>1, <4>1
    <3> QED BY <3>2, <3>3
  <2> HIDE DEF k
  <2>7. k \in Steps(n + 1, S, a, f)
    BY <2>4, <2>5, <2>6 DEF Steps
  <2> QED BY <2>7
<1>3. \A n \in Nat : Steps(n, S, a, f) # {}
  <2> HIDE DEF E
  <2>1. Nat \subseteq E
    BY <1>1, <1>2, SetInduction
  <2> QED BY <2>1 DEF E
<1>4. ASSUME NEW m \in Nat, NEW n \in Nat, m <= n,
             NEW h \in Steps(m, S, a, f), NEW k \in Steps(n, S, a, f)
      PROVE  \A i \in 0..m : h[i] = k[i]
  <2> DEFINE D == {i \in Nat : i <= m => h[i] = k[i]}
  <2>1. 0 \in D
    BY DEF Steps
  <2>2. ASSUME NEW i \in Nat, i \in D
        PROVE  i + 1 \in D
    <3> SUFFICES ASSUME i + 1 <= m
                 PROVE  h[i + 1] = k[i + 1]
      OBVIOUS
    <3>1. i \in 0..(m - 1) /\ i \in 0..(n - 1) /\ h[i] = k[i]
      BY <1>4, <2>2
    <3> QED BY <3>1 DEF Steps
  <2> HIDE DEF D
  <2>3. Nat \subseteq D
    BY <2>1, <2>2, SetInduction
  <2> QED BY <2>3 DEF D
<1> DEFINE at(n) == CHOOSE h : h \in Steps(n, S, a, f)
           g == [n \in Nat |-> at(n)[n]]
<1>5. \A n \in Nat : at(n) \in Steps(n, S, a, f)
  BY <1>3
<1> HIDE DEF at
<1>6. g \in [Nat -> S]
  <2>1. ASSUME NEW n \in Nat
        PROVE  at(n)[n] \in S
    <3>1. at(n) \in [0..n -> S] /\ n \in 0..n
      BY <1>5 DEF Steps
    <3> QED BY <3>1
  <2> QED BY <2>1
<1>7. g[0] = a
  BY <1>5 DEF Steps
<1>8. ASSUME NEW n \in Nat
      PROVE  g[n + 1] = f[<<n, g[n]>>]
  <2>1. at(n) \in Steps(n, S, a, f) /\ at(n + 1) \in Steps(n + 1, S, a, f)
    BY <1>5
  <2>2. at(n)[n] = at(n + 1)[n]
    BY <1>4, <2>1
  <2>3. n \in 0..(n + 1 - 1)
    OBVIOUS
  <2>4. at(n + 1)[n + 1] = f[<<n, at(n + 1)[n]>>]
    BY <2>1, <2>3 DEF Steps
  <2> QED BY <2>2, <2>4
<1> HIDE DEF g
<1>9. IsIteration(g, S, a, f)
  BY <1>6, <1>7, <1>8 DEF IsIteration
<1> QED BY <1>9

\* A loop of n steps has values.
THEOREM StepsExist ==
    ASSUME NEW S, NEW a \in S, NEW f \in [Nat \X S -> S], NEW n \in Nat
    PROVE  \E h : h \in Steps(n, S, a, f)
<1>1. PICK g : IsIteration(g, S, a, f)
  BY Iteration
<1> DEFINE h == [i \in 0..n |-> g[i]]
<1>2. h \in [0..n -> S] /\ h[0] = a
  BY <1>1 DEF IsIteration
<1>3. \A i \in 0..(n - 1) : h[i + 1] = f[<<i, h[i]>>]
  <2>1. ASSUME NEW i \in 0..(n - 1)
        PROVE  h[i + 1] = f[<<i, h[i]>>]
    <3>1. i \in Nat /\ i \in 0..n /\ i + 1 \in 0..n
      OBVIOUS
    <3>2. h[i + 1] = g[i + 1] /\ h[i] = g[i]
      BY <3>1
    <3> HIDE DEF h
    <3> QED BY <1>1, <3>1, <3>2 DEF IsIteration
  <2> QED BY <2>1
<1> HIDE DEF h
<1>4. h \in Steps(n, S, a, f)
  BY <1>2, <1>3 DEF Steps
<1> QED BY <1>4

\* Induction over sequences: a set with the empty one, and with one element
\* more behind each of its members, has them all.
THEOREM SequenceInduction ==
    ASSUME NEW S, NEW P, <<>> \in P,
           \A s \in Seq(S), e \in S : s \in P => Append(s, e) \in P
    PROVE  Seq(S) \subseteq P
<1> DEFINE T == {n \in Nat : \A s \in Seq(S) : Len(s) = n => s \in P}
<1>1. 0 \in T
  <2>1. ASSUME NEW s \in Seq(S), Len(s) = 0
        PROVE  s \in P
    BY <2>1, EmptySeq
  <2> QED BY <2>1
<1>2. ASSUME NEW n \in Nat, n \in T
      PROVE  n + 1 \in T
  <2>1. ASSUME NEW s \in Seq(S), Len(s) = n + 1
        PROVE  s \in P
    <3>1. s # <<>>
      BY <2>1, EmptySeq
    <3>2. PICK u \in Seq(S), e \in S : s = Append(u, e)
      BY <3>1, SequenceEmptyOrAppend
    <3>3. Len(u) \in Nat /\ Len(s) = Len(u) + 1
      BY <3>2, AppendProperties, LenProperties
    <3>4. u \in P
      BY <1>2, <2>1, <3>3
    <3> QED BY <3>2, <3>4
  <2> QED BY <2>1
<1> HIDE DEF T
<1>3. Nat \subseteq T
  BY <1>1, <1>2, SetInduction
<1>4. ASSUME NEW s \in Seq(S)
      PROVE  s \in P
  <2>1. Len(s) \in T
    BY <1>3, LenProperties
  <2> QED BY <2>1 DEF T
<1> QED BY <1>4

-----------------------------------------------------------------------------
(* Concatenation of many sequences.                                        *)

\* FlattenSeq by the place it has come to.
THEOREM FlattenDefined ==
    ASSUME NEW S, NEW ss \in Seq(Seq(S)), ss # <<>>
    PROVE  \E h : /\ h \in [1..Len(ss) -> Seq(S)]
                  /\ h[1] = ss[1]
                  /\ \A i \in 2..Len(ss) : h[i] = h[i - 1] \o ss[i]
                  /\ FlattenSeq(ss) = h[Len(ss)]
<1>1. Len(ss) \in Nat \ {0} /\ \A i \in 1..Len(ss) : ss[i] \in Seq(S)
  BY EmptySeq, LenProperties, ElementOfSeq
<1> DEFINE N == Len(ss) - 1
           step == [p \in Nat \X Seq(S) |->
                       IF p[1] < N THEN p[2] \o ss[p[1] + 2] ELSE p[2]]
<1>2. step \in [Nat \X Seq(S) -> Seq(S)]
  <2>1. ASSUME NEW p \in Nat \X Seq(S)
        PROVE  (IF p[1] < N THEN p[2] \o ss[p[1] + 2] ELSE p[2]) \in Seq(S)
    <3>1. p[1] \in Nat /\ p[2] \in Seq(S)
      OBVIOUS
    <3>2. CASE p[1] < N
      <4>1. p[1] + 2 \in 1..Len(ss)
        BY <1>1, <3>1, <3>2
      <4>2. ss[p[1] + 2] \in Seq(S)
        BY <1>1, <4>1
      <4>3. p[2] \o ss[p[1] + 2] \in Seq(S)
        BY <3>1, <4>2, ConcatProperties
      <4> QED BY <3>2, <4>3
    <3>3. CASE ~(p[1] < N)
      BY <3>1, <3>3
    <3> QED BY <3>2, <3>3
  <2> QED BY <2>1
<1>3. \A n \in Nat, v \in Seq(S) : n < N => step[<<n, v>>] = v \o ss[n + 2]
  <2>1. ASSUME NEW n \in Nat, NEW v \in Seq(S), n < N
        PROVE  step[<<n, v>>] = v \o ss[n + 2]
    <3>1. <<n, v>> \in Nat \X Seq(S) /\ <<n, v>>[1] = n /\ <<n, v>>[2] = v
      OBVIOUS
    <3>2. step[<<n, v>>] = IF <<n, v>>[1] < N THEN <<n, v>>[2] \o ss[<<n, v>>[1] + 2]
                                             ELSE <<n, v>>[2]
      BY <3>1
    <3> HIDE DEF step, N
    <3> QED BY <2>1, <3>1, <3>2
  <2> QED BY <2>1
<1> HIDE DEF step
<1>4. N \in Nat /\ ss[1] \in Seq(S)
  BY <1>1
<1>5. PICK g : g \in Steps(N, Seq(S), ss[1], step)
  <2> HIDE DEF N
  <2> QED BY <1>2, <1>4, StepsExist
<1>6. /\ g \in [0..N -> Seq(S)] /\ g[0] = ss[1]
      /\ \A i \in 0..(N - 1) : g[i + 1] = step[<<i, g[i]>>]
  BY <1>5 DEF Steps
<1>7. ASSUME NEW i \in 0..(N - 1)
      PROVE  g[i + 1] = g[i] \o ss[i + 2]
  <2>1. i \in Nat /\ i < N /\ g[i] \in Seq(S)
    BY <1>4, <1>6
  <2> QED BY <1>3, <1>6, <2>1
<1> DEFINE IsFlat(h) == h = [i \in 1..Len(ss) |->
                               IF i = 1 THEN ss[i] ELSE h[i - 1] \o ss[i]]
           h0 == [i \in 1..Len(ss) |-> g[i - 1]]
<1>8. h0 \in [1..Len(ss) -> Seq(S)]
  BY <1>1, <1>6
<1>9. IsFlat(h0)
  <2>1. ASSUME NEW i \in 1..Len(ss)
        PROVE  h0[i] = IF i = 1 THEN ss[i] ELSE h0[i - 1] \o ss[i]
    <3>1. CASE i = 1
      BY <1>6, <3>1
    <3>2. CASE i # 1
      <4>1. /\ i - 2 \in 0..(N - 1) /\ i - 2 + 1 = i - 1 /\ i - 2 + 2 = i
            /\ i - 1 \in 1..Len(ss) /\ i - 1 - 1 = i - 2
        BY <1>1, <3>2
      <4>2. g[i - 2 + 1] = g[i - 2] \o ss[i - 2 + 2]
        BY <1>7, <4>1
      <4>3. h0[i] = g[i - 1] /\ h0[i - 1] = g[i - 2]
        BY <4>1
      <4> HIDE DEF h0
      <4> QED BY <3>2, <4>1, <4>2, <4>3
    <3> QED BY <3>1, <3>2
  <2> QED BY <2>1
<1> HIDE DEF h0
<1>10. FlattenSeq(ss) = (CHOOSE h : IsFlat(h))[Len(ss)]
  BY <1>1 DEF FlattenSeq
<1> DEFINE k == CHOOSE h : IsFlat(h)
<1>11. IsFlat(k)
  <2> HIDE DEF IsFlat
  <2> QED BY <1>9
<1> HIDE DEF k
<1>12. /\ k[1] = ss[1]
       /\ \A i \in 2..Len(ss) : k[i] = k[i - 1] \o ss[i]
       /\ k = [i \in 1..Len(ss) |-> k[i]]
  <2>1. \A i \in 1..Len(ss) : k[i] = IF i = 1 THEN ss[i] ELSE k[i - 1] \o ss[i]
    BY <1>11
  <2>2. k = [i \in 1..Len(ss) |-> k[i]]
    BY <1>11
  <2>3. \A i \in 2..Len(ss) : k[i] = k[i - 1] \o ss[i]
    <3>1. \A i \in 2..Len(ss) : i \in 1..Len(ss) /\ i # 1
      BY <1>1
    <3> HIDE DEF IsFlat
    <3> QED BY <2>1, <3>1
  <2>4. k[1] = ss[1]
    <3>1. 1 \in 1..Len(ss)
      BY <1>1
    <3> HIDE DEF IsFlat
    <3> QED BY <2>1, <3>1
  <2> HIDE DEF IsFlat
  <2> QED BY <2>2, <2>3, <2>4
<1>13. \A i \in 1..Len(ss) : k[i] \in Seq(S)
  <2> DEFINE T == {n \in Nat : n + 1 <= Len(ss) => k[n + 1] \in Seq(S)}
  <2>1. 0 \in T
    BY <1>4, <1>12
  <2>2. ASSUME NEW n \in Nat, n \in T
        PROVE  n + 1 \in T
    <3>1. PICK m \in Nat : m = n + 1 + 1
      OBVIOUS
    <3> SUFFICES ASSUME m <= Len(ss)
                 PROVE  k[m] \in Seq(S)
      BY <3>1
    <3>2. m \in 2..Len(ss) /\ m \in 1..Len(ss) /\ m - 1 = n + 1 /\ n + 1 <= Len(ss)
      BY <1>1, <3>1
    <3>3. k[m - 1] \in Seq(S) /\ ss[m] \in Seq(S)
      BY <1>1, <2>2, <3>2
    <3>4. k[m] = k[m - 1] \o ss[m]
      BY <1>12, <3>2
    <3> QED BY <3>3, <3>4, ConcatProperties
  <2> HIDE DEF T
  <2>3. Nat \subseteq T
    BY <2>1, <2>2, SetInduction
  <2>4. ASSUME NEW i \in 1..Len(ss)
        PROVE  k[i] \in Seq(S)
    <3>1. i - 1 \in T /\ i - 1 + 1 = i
      BY <2>3
    <3> QED BY <3>1 DEF T
  <2> QED BY <2>4
<1>14. k \in [1..Len(ss) -> Seq(S)]
  BY <1>12, <1>13
<1>15. FlattenSeq(ss) = k[Len(ss)]
  BY <1>10 DEF k
<1> QED BY <1>12, <1>14, <1>15

\* A concatenation of texts is one, and a text more goes behind it.
THEOREM FlattenAppend ==
    ASSUME NEW S, NEW ss \in Seq(Seq(S)), NEW s \in Seq(S)
    PROVE  /\ FlattenSeq(ss) \in Seq(S)
           /\ FlattenSeq(Append(ss, s)) = FlattenSeq(ss) \o s
<1> DEFINE t == Append(ss, s)
<1>1. /\ t \in Seq(Seq(S)) /\ t # <<>> /\ Len(ss) \in Nat /\ Len(t) = Len(ss) + 1
      /\ \A i \in 1..Len(ss) : t[i] = ss[i]
      /\ t[Len(ss) + 1] = s
  BY AppendProperties, LenProperties
<1> HIDE DEF t
<1>2. PICK k : /\ k \in [1..Len(t) -> Seq(S)]
               /\ k[1] = t[1]
               /\ \A i \in 2..Len(t) : k[i] = k[i - 1] \o t[i]
               /\ FlattenSeq(t) = k[Len(t)]
  BY <1>1, FlattenDefined
<1>3. CASE ss = <<>>
  <2>1. FlattenSeq(ss) = <<>> /\ Len(ss) = 0
    BY <1>3, EmptySeq DEF FlattenSeq
  <2>2. FlattenSeq(t) = s
    BY <1>1, <1>2, <2>1
  <2>3. <<>> \o s = s
    BY ConcatEmptySeq
  <2>4. FlattenSeq(ss) \in Seq(S)
    BY <2>1, EmptySeq
  <2>5. FlattenSeq(t) = FlattenSeq(ss) \o s
    BY <2>1, <2>2, <2>3
  <2> QED BY <2>4, <2>5 DEF t
<1>4. CASE ss # <<>>
  <2>1. PICK h : /\ h \in [1..Len(ss) -> Seq(S)]
                 /\ h[1] = ss[1]
                 /\ \A i \in 2..Len(ss) : h[i] = h[i - 1] \o ss[i]
                 /\ FlattenSeq(ss) = h[Len(ss)]
    BY <1>4, FlattenDefined
  <2>2. Len(ss) \in Nat \ {0}
    BY <1>4, EmptySeq
  <2> DEFINE E == {n \in Nat : n \in 1..Len(ss) => h[n] = k[n]}
  <2>3. 0 \in E
    OBVIOUS
  <2>4. ASSUME NEW n \in Nat, n \in E
        PROVE  n + 1 \in E
    <3>1. PICK m \in Nat : m = n + 1
      OBVIOUS
    <3> SUFFICES ASSUME m \in 1..Len(ss)
                 PROVE  h[m] = k[m]
      BY <3>1
    <3>2. CASE n = 0
      <4>1. m = 1
        BY <3>1, <3>2
      <4> QED BY <1>1, <1>2, <2>1, <4>1
    <3>3. CASE n # 0
      <4>1. m \in 2..Len(ss) /\ m \in 2..Len(t) /\ m - 1 = n /\ n \in 1..Len(ss)
        BY <1>1, <3>1, <3>3
      <4>2. h[n] = k[n]
        BY <2>4, <4>1
      <4>3. h[m] = h[m - 1] \o ss[m] /\ k[m] = k[m - 1] \o t[m] /\ t[m] = ss[m]
        BY <1>1, <1>2, <2>1, <4>1
      <4> QED BY <4>1, <4>2, <4>3
    <3> QED BY <3>2, <3>3
  <2> HIDE DEF E
  <2>5. Nat \subseteq E
    BY <2>3, <2>4, SetInduction
  <2>6. h[Len(ss)] = k[Len(ss)]
    BY <2>2, <2>5 DEF E
  <2>7. PICK m \in Nat : m = Len(ss) + 1
    BY <1>1
  <2>8. m \in 2..Len(t) /\ m - 1 = Len(ss) /\ m = Len(t) /\ t[m] = s
    BY <1>1, <2>2, <2>7
  <2>9. k[m] = k[m - 1] \o t[m]
    BY <1>2, <2>8
  <2>10. FlattenSeq(t) = FlattenSeq(ss) \o s
    BY <1>2, <2>1, <2>6, <2>8, <2>9
  <2>11. FlattenSeq(ss) \in Seq(S)
    <3>1. Len(ss) \in 1..Len(ss)
      BY <2>2
    <3>2. h[Len(ss)] \in Seq(S)
      BY <2>1, <3>1
    <3> QED BY <2>1, <3>2
  <2> QED BY <2>10, <2>11 DEF t
<1> QED BY <1>3, <1>4

\* An element behind two sequences.
LEMMA ConcatAppend ==
    ASSUME NEW S, NEW s \in Seq(S), NEW t \in Seq(S), NEW e \in S
    PROVE  s \o Append(t, e) = Append(s \o t, e)
<1>1. <<e>> \in Seq(S) /\ s \o t \in Seq(S)
  BY ConcatProperties
<1>2. Append(t, e) = t \o <<e>> /\ Append(s \o t, e) = (s \o t) \o <<e>>
  BY <1>1, AppendIsConcat
<1> QED BY <1>1, <1>2, ConcatAssociative

THEOREM FlattenEmpty == FlattenSeq(<<>>) = <<>>
<1>1. Len(<<>>) = 0
  BY EmptySeq
<1> QED BY <1>1 DEF FlattenSeq
=============================================================================
