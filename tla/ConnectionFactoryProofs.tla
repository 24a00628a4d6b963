----------------------- MODULE ConnectionFactoryProofs -----------------------
(***************************************************************************)
(* Theorems about ConnectionFactory: ParseHttpUrl reads back every URI, and *)
(* the factory makes what the URI asks for.                                *)
(***************************************************************************)
EXTENDS ConnectionFactory, Induction, SequenceTheorems

-----------------------------------------------------------------------------
(* Sequences put together and cut again.                                   *)

\* The elements of a concatenation, and its two parts.
LEMMA ConcatParts ==
    ASSUME NEW S, NEW a \in Seq(S), NEW b \in Seq(S)
    PROVE  /\ a \o b \in Seq(S)
           /\ Len(a) \in Nat /\ Len(b) \in Nat /\ Len(a \o b) = Len(a) + Len(b)
           /\ \A i \in 1..Len(a) : (a \o b)[i] = a[i]
           /\ \A i \in 1..Len(b) : (a \o b)[Len(a) + i] = b[i]
           /\ SubSeq(a \o b, 1, Len(a)) = a
           /\ SubSeq(a \o b, Len(a) + 1, Len(a) + Len(b)) = b
<1> DEFINE s == a \o b
<1>1. Len(a) \in Nat /\ Len(b) \in Nat
  BY LenProperties
<1>2. s \in Seq(S) /\ Len(s) = Len(a) + Len(b)
  BY ConcatProperties
<1>3. /\ \A i \in 1..Len(a) : s[i] = a[i]
      /\ \A i \in 1..Len(b) : s[Len(a) + i] = b[i]
  <2>1. \A i \in 1..Len(a) + Len(b) :
            s[i] = IF i <= Len(a) THEN a[i] ELSE b[i - Len(a)]
    BY ConcatProperties
  <2> HIDE DEF s
  <2>2. ASSUME NEW i \in 1..Len(b)
        PROVE  s[Len(a) + i] = b[i]
    <3>1. Len(a) + i \in 1..Len(a) + Len(b) /\ ~(Len(a) + i <= Len(a))
      BY <1>1
    <3>2. Len(a) + i - Len(a) = i
      BY <1>1
    <3> QED BY <2>1, <3>1, <3>2
  <2>3. \A i \in 1..Len(a) : i \in 1..Len(a) + Len(b) /\ i <= Len(a)
    BY <1>1
  <2> QED BY <2>1, <2>2, <2>3
<1> HIDE DEF s
<1>4. SubSeq(s, 1, Len(a)) = a
  <2>1. \A i \in 1..Len(a) : s[i] \in S
    BY <1>3, ElementOfSeq
  <2>2. /\ SubSeq(s, 1, Len(a)) \in Seq(S)
        /\ Len(SubSeq(s, 1, Len(a))) = IF 1 <= Len(a) THEN Len(a) - 1 + 1 ELSE 0
        /\ \A i \in 1..Len(a) - 1 + 1 : SubSeq(s, 1, Len(a))[i] = s[1 + i - 1]
    BY <1>1, <2>1, SubSeqProperties
  <2>3. Len(SubSeq(s, 1, Len(a))) = Len(a)
    BY <1>1, <2>2
  <2>4. \A i \in 1..Len(a) : SubSeq(s, 1, Len(a))[i] = a[i]
    <3>1. \A i \in 1..Len(a) : i \in 1..Len(a) - 1 + 1 /\ 1 + i - 1 = i
      BY <1>1
    <3> QED BY <1>3, <2>2, <3>1
  <2> QED BY <2>2, <2>3, <2>4, SeqEqual
<1>5. SubSeq(s, Len(a) + 1, Len(a) + Len(b)) = b
  <2> DEFINE m == Len(a) + 1
             n == Len(a) + Len(b)
  <2>0. m \in Int /\ n \in Int
    BY <1>1
  <2>1. \A i \in m..n : s[i] \in S
    BY <1>1, <1>2, ElementOfSeq
  <2>2. /\ SubSeq(s, m, n) \in Seq(S)
        /\ Len(SubSeq(s, m, n)) = IF m <= n THEN n - m + 1 ELSE 0
        /\ \A i \in 1..n - m + 1 : SubSeq(s, m, n)[i] = s[m + i - 1]
    <3> HIDE DEF m, n
    <3> QED BY <2>0, <2>1, SubSeqProperties
  <2>3. Len(SubSeq(s, m, n)) = Len(b)
    BY <1>1, <2>2
  <2>4. \A i \in 1..Len(b) : SubSeq(s, m, n)[i] = b[i]
    <3>1. \A i \in 1..Len(b) : i \in 1..n - m + 1 /\ m + i - 1 = Len(a) + i
      BY <1>1
    <3> QED BY <1>3, <2>2, <3>1
  <2> QED BY <2>2, <2>3, <2>4, SeqEqual
<1> QED BY <1>1, <1>2, <1>3, <1>4, <1>5 DEF s

\* One of three parts in the middle.
LEMMA MiddlePart ==
    ASSUME NEW S, NEW a \in Seq(S), NEW d \in Seq(S), NEW b \in Seq(S)
    PROVE  /\ a \o d \o b \in Seq(S)
           /\ Len(a) \in Nat /\ Len(d) \in Nat /\ Len(b) \in Nat
           /\ Len(a \o d \o b) = Len(a) + Len(d) + Len(b)
           /\ \A i \in 1..Len(a) : (a \o d \o b)[i] = a[i]
           /\ SubSeq(a \o d \o b, 1, Len(a)) = a
           /\ SubSeq(a \o d \o b, Len(a) + 1, Len(a) + Len(d)) = d
           /\ SubSeq(a \o d \o b, Len(a) + Len(d) + 1, Len(a \o d \o b)) = b
<1>1. a \o d \o b = a \o (d \o b) /\ a \o d \in Seq(S) /\ d \o b \in Seq(S)
  BY ConcatAssociative, ConcatProperties
<1>2. /\ Len(a) \in Nat /\ Len(d) \in Nat /\ Len(b) \in Nat
      /\ Len(a \o d) = Len(a) + Len(d) /\ Len(d \o b) = Len(d) + Len(b)
      /\ a \o (d \o b) \in Seq(S)
      /\ Len(a \o (d \o b)) = Len(a) + (Len(d) + Len(b))
  BY <1>1, ConcatProperties, LenProperties
<1>3. /\ \A i \in 1..Len(a) : (a \o (d \o b))[i] = a[i]
      /\ SubSeq(a \o (d \o b), 1, Len(a)) = a
      /\ SubSeq(a \o (d \o b), Len(a) + 1, Len(a) + Len(d \o b)) = d \o b
  BY <1>1, ConcatParts
<1>4. SubSeq(a \o d \o b, Len(a \o d) + 1, Len(a \o d) + Len(b)) = b
  BY <1>1, ConcatParts
<1>5. SubSeq(a \o d \o b, Len(a) + 1, Len(a) + Len(d)) = d
  <2>1. /\ \A i \in 1..Len(d) : (d \o b)[i] = d[i]
        /\ \A i \in 1..Len(d \o b) : (a \o (d \o b))[Len(a) + i] = (d \o b)[i]
    BY <1>1, ConcatParts
  <2>2. \A i \in 1..Len(d) : (a \o d \o b)[Len(a) + i] = d[i]
    BY <1>1, <1>2, <2>1
  <2> DEFINE s == a \o d \o b
             m == Len(a) + 1
             n == Len(a) + Len(d)
  <2>0. m \in Int /\ n \in Int /\ n - m + 1 = Len(d)
    BY <1>2
  <2>3. ASSUME NEW i \in m..n
        PROVE  s[i] \in S
    <3>1. i - Len(a) \in 1..Len(d) /\ Len(a) + (i - Len(a)) = i
      BY <1>2
    <3> QED BY <2>2, <3>1, ElementOfSeq
  <2> HIDE DEF s
  <2>4. /\ SubSeq(s, m, n) \in Seq(S)
        /\ Len(SubSeq(s, m, n)) = IF m <= n THEN n - m + 1 ELSE 0
        /\ \A i \in 1..n - m + 1 : SubSeq(s, m, n)[i] = s[m + i - 1]
    <3> HIDE DEF m, n
    <3> QED BY <2>0, <2>3, SubSeqProperties
  <2>5. Len(SubSeq(s, m, n)) = Len(d)
    BY <1>2, <2>0, <2>4
  <2>6. \A i \in 1..Len(d) : SubSeq(s, m, n)[i] = d[i]
    <3>1. \A i \in 1..Len(d) : i \in 1..n - m + 1 /\ m + i - 1 = Len(a) + i
      BY <1>2
    <3> QED BY <2>2, <2>4, <3>1 DEF s
  <2>7. SubSeq(s, m, n) = d
    BY <2>4, <2>5, <2>6, SeqEqual
  <2> QED BY <2>7 DEF s
<1>6. /\ Len(a \o d) + Len(b) = Len(a) + (Len(d) + Len(b))
      /\ Len(a \o d) + 1 = Len(a) + Len(d) + 1
      /\ Len(a) + Len(d) + Len(b) = Len(a) + (Len(d) + Len(b))
  BY <1>2
<1> QED BY <1>1, <1>2, <1>3, <1>4, <1>5, <1>6

-----------------------------------------------------------------------------
(* The slices.                                                             *)

\* A delimiter behind a part that has not its first element is found there.
LEMMA FindBehind ==
    ASSUME NEW a \in Seq(Pieces), NEW b \in Seq(Pieces),
           NEW d \in Seq(Pieces), d # <<>>, Free(a, {d[1]})
    PROVE  LET s == a \o d \o b
           IN  /\ Places(s, d) # {}
               /\ find(s, d) = Len(a) + 1
<1> DEFINE s == a \o d \o b
<1>1. /\ Len(a) \in Nat /\ Len(d) \in Nat \ {0} /\ Len(b) \in Nat
      /\ s \in Seq(Pieces) /\ Len(s) = Len(a) + Len(d) + Len(b)
      /\ \A i \in 1..Len(a) : s[i] = a[i]
      /\ SubSeq(s, Len(a) + 1, Len(a) + Len(d)) = d
  BY MiddlePart, EmptySeq
<1>2. \A i \in 1..Len(a) : s[i] # d[1]
  <2>1. DOMAIN a = 1..Len(a)
    BY LenProperties
  <2> QED BY <1>1, <2>1 DEF Free
<1> HIDE DEF s
<1>3. Len(a) + 1 \in Places(s, d)
  <2>1. Len(a) + 1 \in 1..(Len(s) - Len(d) + 1)
    BY <1>1
  <2>2. Len(a) + 1 + Len(d) - 1 = Len(a) + Len(d)
    BY <1>1
  <2> QED BY <1>1, <2>1, <2>2 DEF Places
<1>4. ASSUME NEW i \in Places(s, d)
      PROVE  i \in Nat /\ Len(a) + 1 <= i
  <2>1. i \in 1..(Len(s) - Len(d) + 1) /\ SubSeq(s, i, i + Len(d) - 1) = d
    BY DEF Places
  <2>2. i \in Int /\ i + Len(d) - 1 \in Int /\ i + Len(d) - 1 - i + 1 = Len(d)
    BY <1>1, <2>1
  <2>3. \A j \in i..(i + Len(d) - 1) : s[j] \in Pieces
    <3>1. \A j \in i..(i + Len(d) - 1) : j \in 1..Len(s)
      BY <1>1, <2>1
    <3> QED BY <1>1, <3>1, ElementOfSeq
  <2>4. \A j \in 1..(i + Len(d) - 1 - i + 1) :
            SubSeq(s, i, i + Len(d) - 1)[j] = s[i + j - 1]
    BY <2>2, <2>3, SubSeqProperties
  <2>5. d[1] = s[i]
    <3>1. 1 \in 1..(i + Len(d) - 1 - i + 1) /\ i + 1 - 1 = i
      BY <1>1, <2>2
    <3> QED BY <2>1, <2>4, <3>1
  <2> QED BY <1>1, <1>2, <2>1, <2>5
<1>5. \A i \in Places(s, d) :
          (\A j \in Places(s, d) : i <= j) => i = Len(a) + 1
  BY <1>1, <1>3, <1>4
<1>6. find(s, d) = Len(a) + 1
  BY <1>3, <1>4, <1>5 DEF find
<1> QED BY <1>3, <1>6 DEF s

LEMMA SlicesCut ==
    ASSUME NEW a \in Seq(Pieces), NEW b \in Seq(Pieces),
           NEW d \in Seq(Pieces), d # <<>>, Free(a, {d[1]})
    PROVE  /\ HeadSlice(a \o d \o b, d) = Slice(a, b)
           /\ TailSlice(a \o d \o b, d, FALSE) = Slice(b, a)
           /\ TailSlice(a \o d \o b, d, TRUE) = Slice(d \o b, a)
<1> DEFINE s == a \o d \o b
<1>1. Places(s, d) # {} /\ find(s, d) = Len(a) + 1
  BY FindBehind
<1>2. SubSeq(s, 1, Len(a)) = a
  BY MiddlePart
<1>3. SubSeq(s, Len(a) + Len(d) + 1, Len(s)) = b
  BY MiddlePart
<1>4. SubSeq(s, Len(a) + 1, Len(s)) = d \o b
  <2>1. s = a \o (d \o b) /\ d \o b \in Seq(Pieces)
    BY ConcatAssociative, ConcatProperties
  <2> HIDE DEF s
  <2>2. SubSeq(s, Len(a) + 1, Len(a) + Len(d \o b)) = d \o b
    BY <2>1, ConcatParts
  <2>3. Len(s) = Len(a) + Len(d \o b)
    BY <2>1, ConcatProperties
  <2> QED BY <2>2, <2>3
<1> HIDE DEF s
<1>5. /\ find(s, d) - 1 = Len(a) /\ find(s, d) = Len(a) + 1
      /\ find(s, d) + Len(d) = Len(a) + Len(d) + 1
  BY <1>1, LenProperties
<1>6. HeadSlice(s, d) = Slice(a, b)
  BY <1>1, <1>2, <1>3, <1>5, Zenon DEF HeadSlice
<1>7. TailSlice(s, d, FALSE) = Slice(b, a)
  BY <1>1, <1>2, <1>3, <1>5, Zenon DEF TailSlice
<1>8. TailSlice(s, d, TRUE) = Slice(d \o b, a)
  BY <1>1, <1>2, <1>4, <1>5, Zenon DEF TailSlice
<1> QED BY <1>6, <1>7, <1>8 DEF s

\* What is free of the delimiter is not cut.
LEMMA SlicesLeave ==
    ASSUME NEW s \in Seq(Pieces), NEW c \in Pieces, Free(s, {c})
    PROVE  /\ HeadSlice(s, <<c>>) = Slice(<<>>, s)
           /\ TailSlice(s, <<c>>, FALSE) = Slice(<<>>, s)
           /\ TailSlice(s, <<c>>, TRUE) = Slice(<<>>, s)
<1>1. Len(<<c>>) = 1 /\ <<c>>[1] = c /\ Len(s) \in Nat /\ DOMAIN s = 1..Len(s)
  BY LenProperties
<1>2. ASSUME NEW i \in Places(s, <<c>>)
      PROVE  FALSE
  <2>1. i \in 1..(Len(s) - 1 + 1) /\ SubSeq(s, i, i + 1 - 1) = <<c>>
    BY <1>1 DEF Places
  <2>2. i \in 1..Len(s) /\ i + 1 - 1 = i /\ i \in Int
    BY <1>1, <2>1
  <2>3. \A j \in i..i : s[j] \in Pieces
    BY <2>2, ElementOfSeq
  <2>4. \A j \in 1..(i - i + 1) : SubSeq(s, i, i)[j] = s[i + j - 1]
    <3>1. PICK n : n = i
      OBVIOUS
    <3>2. n \in Int /\ i \in Int /\ \A j \in i..n : s[j] \in Pieces
      BY <2>2, <2>3, <3>1
    <3>3. \A j \in 1..(n - i + 1) : SubSeq(s, i, n)[j] = s[i + j - 1]
      BY <3>2, SubSeqProperties
    <3> QED BY <3>1, <3>3
  <2>5. SubSeq(s, i, i)[1] = s[i]
    <3>1. 1 \in 1..(i - i + 1) /\ i + 1 - 1 = i
      BY <2>2
    <3> QED BY <2>4, <3>1
  <2>6. s[i] = c
    BY <1>1, <2>1, <2>2, <2>5
  <2> QED BY <1>1, <2>2, <2>6 DEF Free
<1> QED BY <1>2 DEF HeadSlice, TailSlice

LEMMA DelimiterPieces ==
    /\ ":" \in Pieces /\ "/" \in Pieces /\ "?" \in Pieces /\ "@" \in Pieces
    /\ "8086" \in Pieces /\ "0" \in Pieces
<1> QED BY DelimitersArePieces

\* A delimiter of one element.
LEMMA OneElement ==
    ASSUME NEW c \in Pieces
    PROVE  <<c>> \in Seq(Pieces) /\ <<c>> # <<>> /\ Len(<<c>>) = 1 /\ <<c>>[1] = c
<1>1. <<c>> \in Seq(Pieces)
  OBVIOUS
<1>2. Len(<<c>>) = 1
  OBVIOUS
<1>3. <<c>>[1] = c
  OBVIOUS
<1>4. <<c>> # <<>>
  OBVIOUS
<1> QED BY <1>1, <1>2, <1>3, <1>4

\* The slices at a delimiter of one element.
LEMMA OneCut ==
    ASSUME NEW a \in Seq(Pieces), NEW b \in Seq(Pieces), NEW c \in Pieces,
           Free(a, {c})
    PROVE  /\ HeadSlice(a \o (<<c>> \o b), <<c>>) = Slice(a, b)
           /\ TailSlice(a \o (<<c>> \o b), <<c>>, FALSE) = Slice(b, a)
           /\ TailSlice(a \o (<<c>> \o b), <<c>>, TRUE) = Slice(<<c>> \o b, a)
<1> DEFINE d == <<c>>
<1>1. d \in Seq(Pieces) /\ d # <<>> /\ d[1] = c
  BY OneElement
<1> HIDE DEF d
<1>2. Free(a, {d[1]})
  BY <1>1
<1>3. /\ HeadSlice(a \o d \o b, d) = Slice(a, b)
      /\ TailSlice(a \o d \o b, d, FALSE) = Slice(b, a)
      /\ TailSlice(a \o d \o b, d, TRUE) = Slice(d \o b, a)
  BY <1>1, <1>2, SlicesCut
<1>4. a \o d \o b = a \o (d \o b)
  BY <1>1, ConcatAssociative
<1> QED BY <1>3, <1>4 DEF d

\* A part that has the delimiter in it is not what is left in front of the cut.
LEMMA CutInside ==
    ASSUME NEW a \in Seq(Pieces), NEW b \in Seq(Pieces), NEW c \in Pieces,
           ~Free(a, {c})
    PROVE  TailSlice(a \o b, <<c>>, FALSE).subject # a
<1> DEFINE s == a \o b
<1>1. /\ s \in Seq(Pieces) /\ Len(a) \in Nat /\ Len(b) \in Nat
      /\ Len(s) = Len(a) + Len(b)
      /\ \A i \in 1..Len(a) : s[i] = a[i]
      /\ DOMAIN a = 1..Len(a)
  BY ConcatParts, LenProperties
<1>2. Len(<<c>>) = 1 /\ <<c>>[1] = c /\ <<c>> \in Seq(Pieces)
  BY OneElement
<1> HIDE DEF s
<1>3. PICK i \in 1..Len(a) : s[i] = c
  BY <1>1 DEF Free
<1>4. i \in Places(s, <<c>>)
  <2>1. i \in 1..(Len(s) - 1 + 1) /\ i \in 1..Len(s) /\ i + 1 - 1 = i
    BY <1>1
  <2>2. SubSeq(s, i, i) = <<c>>
    <3>1. \A j \in i..i : s[j] \in Pieces
      BY <1>1, <2>1, ElementOfSeq
    <3>2. /\ SubSeq(s, i, i) \in Seq(Pieces)
          /\ Len(SubSeq(s, i, i)) = IF i <= i THEN i - i + 1 ELSE 0
          /\ \A j \in 1..(i - i + 1) : SubSeq(s, i, i)[j] = s[i + j - 1]
      <4>1. PICK n : n = i
        OBVIOUS
      <4>2. n \in Int /\ i \in Int /\ \A j \in i..n : s[j] \in Pieces
        BY <3>1, <4>1
      <4>3. /\ SubSeq(s, i, n) \in Seq(Pieces)
            /\ Len(SubSeq(s, i, n)) = IF i <= n THEN n - i + 1 ELSE 0
            /\ \A j \in 1..(n - i + 1) : SubSeq(s, i, n)[j] = s[i + j - 1]
        BY <4>2, SubSeqProperties
      <4> QED BY <4>1, <4>3
    <3>3. Len(SubSeq(s, i, i)) = 1 /\ SubSeq(s, i, i)[1] = s[i]
      <4>1. i <= i /\ i - i + 1 = 1 /\ 1 \in 1..(i - i + 1) /\ i + 1 - 1 = i
        OBVIOUS
      <4> QED BY <3>2, <4>1
    <3>4. \A j \in 1..Len(<<c>>) : SubSeq(s, i, i)[j] = <<c>>[j]
      BY <1>2, <1>3, <3>3
    <3> QED BY <1>2, <3>2, <3>3, <3>4, SeqEqual
  <2> QED BY <1>2, <2>1, <2>2 DEF Places
<1>5. Places(s, <<c>>) \subseteq Nat
  BY <1>1, <1>2 DEF Places
<1>6. PICK k \in Places(s, <<c>>) : \A j \in Places(s, <<c>>) : k <= j
  BY <1>4, <1>5, LeastNatural
<1> DEFINE at == find(s, <<c>>)
<1>7. at \in Places(s, <<c>>) /\ \A j \in Places(s, <<c>>) : at <= j
  BY <1>6 DEF find
<1>8. TailSlice(s, <<c>>, FALSE).subject = SubSeq(s, 1, at - 1)
  BY <1>4 DEF TailSlice, Slice
<1> HIDE DEF at
<1>9. at \in Nat /\ 1 <= at /\ at <= Len(a)
  BY <1>1, <1>2, <1>4, <1>5, <1>7 DEF Places
<1>10. Len(SubSeq(s, 1, at - 1)) = at - 1
  <2>1. at - 1 \in Int /\ \A j \in 1..(at - 1) : j \in 1..Len(s)
    BY <1>1, <1>9
  <2>2. \A j \in 1..(at - 1) : s[j] \in Pieces
    BY <1>1, <2>1, ElementOfSeq
  <2>3. Len(SubSeq(s, 1, at - 1)) = IF 1 <= at - 1 THEN at - 1 - 1 + 1 ELSE 0
    BY <2>1, <2>2, SubSeqProperties
  <2> QED BY <1>9, <2>3
<1>11. SubSeq(s, 1, at - 1) # a
  BY <1>1, <1>9, <1>10
<1> QED BY <1>8, <1>11 DEF s

-----------------------------------------------------------------------------
(* ParseHttpUrl, slice by slice, of a URI.                                 *)

\* The texts of a port.
PortTexts == {<<>>, <<":", "8086">>, <<":", "0">>}

\* What stands between the protocol and the path, and behind the protocol.
Authority(parts, port) == Userinfo(parts) \o parts.host \o port

SearchText(parts) ==
    IF parts.search = <<>> THEN <<>> ELSE <<"?">> \o parts.search

PasswordText(parts) ==
    IF parts.password = <<>> THEN <<>> ELSE <<":">> \o parts.password

Rest(parts, port) == Authority(parts, port) \o parts.path \o SearchText(parts)

LEMMA FreeConcat ==
    ASSUME NEW a \in Seq(Pieces), NEW b \in Seq(Pieces), NEW D,
           Free(a, D), Free(b, D)
    PROVE  Free(a \o b, D)
<1>1. DOMAIN a = 1..Len(a) /\ DOMAIN b = 1..Len(b) /\ Len(a) \in Nat /\ Len(b) \in Nat
  BY LenProperties
<1>2. /\ a \o b \in Seq(Pieces) /\ Len(a \o b) = Len(a) + Len(b)
      /\ \A i \in 1..Len(a) + Len(b) :
            (a \o b)[i] = IF i <= Len(a) THEN a[i] ELSE b[i - Len(a)]
  BY ConcatProperties
<1>3. DOMAIN (a \o b) = 1..Len(a) + Len(b)
  BY <1>2, LenProperties
<1>4. \A i \in 1..Len(a) + Len(b) :
          i \in 1..Len(a) \/ (~(i <= Len(a)) /\ i - Len(a) \in 1..Len(b))
  BY <1>1
<1> QED BY <1>1, <1>2, <1>3, <1>4 DEF Free

\* Which texts the parts are, and what they are free of.
LEMMA PartsOfUri ==
    ASSUME NEW parts \in UriParts, NEW port \in PortTexts
    PROVE  /\ parts.protocol \in Seq(Pieces) /\ parts.host \in Seq(Pieces)
           /\ parts.user \in Seq(Pieces) /\ parts.password \in Seq(Pieces)
           /\ parts.path \in Seq(Pieces) /\ parts.search \in Seq(Pieces)
           /\ port \in Seq(Pieces)
           /\ PasswordText(parts) \in Seq(Pieces)
           /\ SearchText(parts) \in Seq(Pieces)
           /\ parts.user \o PasswordText(parts) \in Seq(Pieces)
           /\ Userinfo(parts) \in Seq(Pieces)
           /\ Userinfo(parts) \o parts.host \in Seq(Pieces)
           /\ parts.host \o port \in Seq(Pieces)
           /\ Authority(parts, port) \in Seq(Pieces)
           /\ Authority(parts, port) \o parts.path \in Seq(Pieces)
<1>1. /\ parts.protocol \in Seq(Pieces) /\ parts.host \in Seq(Pieces)
      /\ parts.user \in Seq(Pieces) /\ parts.password \in Seq(Pieces)
      /\ parts.path \in Seq(Pieces) /\ parts.search \in Seq(Pieces)
  BY DEF UriParts
<1>2. /\ port \in Seq(Pieces) /\ <<":">> \in Seq(Pieces)
      /\ <<"@">> \in Seq(Pieces) /\ <<"?">> \in Seq(Pieces)
      /\ <<>> \in Seq(Pieces)
  <2>1. <<":", "8086">> \in Seq(Pieces)
    BY DelimiterPieces
  <2>2. <<":", "0">> \in Seq(Pieces)
    BY DelimiterPieces
  <2>3. <<>> \in Seq(Pieces)
    BY EmptySeq
  <2>4. <<":">> \in Seq(Pieces) /\ <<"@">> \in Seq(Pieces) /\ <<"?">> \in Seq(Pieces)
    BY DelimiterPieces, OneElement
  <2> QED BY <2>1, <2>2, <2>3, <2>4 DEF PortTexts
<1>3. PasswordText(parts) \in Seq(Pieces) /\ SearchText(parts) \in Seq(Pieces)
  BY <1>1, <1>2, ConcatProperties DEF PasswordText, SearchText
<1>4. parts.user \o PasswordText(parts) \in Seq(Pieces)
  BY <1>1, <1>3, ConcatProperties
<1>5. Userinfo(parts) \in Seq(Pieces)
  BY <1>2, <1>4, ConcatProperties DEF Userinfo, PasswordText
<1>6. /\ Userinfo(parts) \o parts.host \in Seq(Pieces)
      /\ parts.host \o port \in Seq(Pieces)
  BY <1>1, <1>2, <1>5, ConcatProperties
<1>7. Authority(parts, port) \in Seq(Pieces)
  BY <1>2, <1>6, ConcatProperties DEF Authority
<1>8. Authority(parts, port) \o parts.path \in Seq(Pieces)
  BY <1>1, <1>7, ConcatProperties
<1> QED BY <1>1, <1>2, <1>3, <1>4, <1>5, <1>6, <1>7, <1>8

LEMMA AuthorityIsFree ==
    ASSUME NEW parts \in UriParts, NEW port \in PortTexts
    PROVE  /\ Free(parts.user \o PasswordText(parts), {"@", "/", "?"})
           /\ Free(parts.host \o port, {"@", "/", "?"})
           /\ Free(Authority(parts, port), {"/", "?"})
<1>1. /\ Free(parts.user, {"@", "/", "?"}) /\ Free(parts.password, {"@", "/", "?"})
      /\ Free(parts.host, {"@", "/", "?"})
  BY DEF UriParts, Free
<1>2. /\ Free(port, {"@", "/", "?"}) /\ Free(<<":">>, {"@", "/", "?"})
      /\ Free(<<"@">>, {"/", "?"}) /\ Free(<<>>, {"@", "/", "?"})
      /\ Free(<<>>, {"/", "?"})
  BY DEF PortTexts, Free
<1>3. <<":">> \in Seq(Pieces) /\ <<"@">> \in Seq(Pieces)
  BY DelimiterPieces
<1>4. Free(PasswordText(parts), {"@", "/", "?"})
  BY <1>1, <1>2, <1>3, PartsOfUri, FreeConcat DEF PasswordText
<1>5. Free(parts.user \o PasswordText(parts), {"@", "/", "?"})
  BY <1>1, <1>4, PartsOfUri, FreeConcat
<1>6. Free(parts.host \o port, {"@", "/", "?"})
  BY <1>1, <1>2, PartsOfUri, FreeConcat
<1>7. Free(Userinfo(parts), {"/", "?"})
  <2>1. Free(parts.user \o PasswordText(parts), {"/", "?"})
    BY <1>5 DEF Free
  <2> QED BY <1>2, <1>3, <2>1, PartsOfUri, FreeConcat DEF Userinfo, PasswordText
<1>8. Free(parts.host, {"/", "?"}) /\ Free(port, {"/", "?"})
  BY <1>1, <1>2 DEF Free
<1>9. Free(Userinfo(parts) \o parts.host, {"/", "?"})
  BY <1>7, <1>8, PartsOfUri, FreeConcat
<1>10. Free(Authority(parts, port), {"/", "?"})
  BY <1>8, <1>9, PartsOfUri, FreeConcat DEF Authority
<1> QED BY <1>5, <1>6, <1>10

LEMMA SearchIsCut ==
    ASSUME NEW parts \in UriParts, NEW port \in PortTexts
    PROVE  TailSlice(Rest(parts, port), <<"?">>, FALSE) =
              Slice(parts.search, Authority(parts, port) \o parts.path)
<1> DEFINE x == Authority(parts, port) \o parts.path
<1>1. x \in Seq(Pieces) /\ parts.search \in Seq(Pieces)
  BY PartsOfUri
<1>2. Free(x, {"?"})
  <2>1. Free(Authority(parts, port), {"?"}) /\ Free(parts.path, {"?"})
    BY AuthorityIsFree DEF Free, UriParts
  <2> QED BY <2>1, PartsOfUri, FreeConcat
<1>3. Rest(parts, port) = x \o SearchText(parts)
  BY DEF Rest
<1> HIDE DEF x
<1>4. CASE parts.search = <<>>
  <2>1. Rest(parts, port) = x
    BY <1>1, <1>3, <1>4, ConcatEmptySeq DEF SearchText
  <2>2. TailSlice(x, <<"?">>, FALSE) = Slice(<<>>, x)
    BY <1>1, <1>2, SlicesLeave, DelimiterPieces
  <2> QED BY <1>4, <2>1, <2>2, Zenon DEF x
<1>5. CASE parts.search # <<>>
  <2>1. Rest(parts, port) = x \o (<<"?">> \o parts.search)
    BY <1>3, <1>5, Zenon DEF SearchText
  <2>2. TailSlice(x \o (<<"?">> \o parts.search), <<"?">>, FALSE) = Slice(parts.search, x)
    BY <1>1, <1>2, OneCut, DelimiterPieces
  <2> QED BY <2>1, <2>2, Zenon DEF x
<1> QED BY <1>4, <1>5

LEMMA PathIsCut ==
    ASSUME NEW parts \in UriParts, NEW port \in PortTexts
    PROVE  TailSlice(Authority(parts, port) \o parts.path, <<"/">>, TRUE) =
              Slice(parts.path, Authority(parts, port))
<1> DEFINE x == Authority(parts, port)
<1>1. x \in Seq(Pieces) /\ parts.path \in Seq(Pieces)
  BY PartsOfUri
<1>2. Free(x, {"/"})
  BY AuthorityIsFree DEF Free
<1> HIDE DEF x
<1>3. CASE parts.path = <<>>
  <2>1. x \o parts.path = x
    BY <1>1, <1>3, ConcatEmptySeq
  <2>2. TailSlice(x, <<"/">>, TRUE) = Slice(<<>>, x)
    BY <1>1, <1>2, SlicesLeave, DelimiterPieces
  <2> QED BY <1>3, <2>1, <2>2, Zenon DEF x
<1>4. CASE parts.path # <<>>
  <2>1. parts.path[1] = "/"
    BY <1>4 DEF UriParts
  <2> DEFINE t == SubSeq(parts.path, 2, Len(parts.path))
  <2>2. t \in Seq(Pieces) /\ parts.path = <<parts.path[1]>> \o t
    <3>1. Len(parts.path) \in Nat \ {0}
      BY <1>1, <1>4, EmptySeq
    <3>2. 1 \in 1..Len(parts.path) /\ Len(parts.path) \in 1..Len(parts.path)
      BY <3>1
    <3>3. SubSeq(parts.path, 1, Len(parts.path)) =
              <<parts.path[1]>> \o SubSeq(parts.path, 1 + 1, Len(parts.path))
      BY <1>1, <3>2, SubSeqRecursiveFirst
    <3>4. SubSeq(parts.path, 1, Len(parts.path)) = parts.path
      BY <1>1, SubSeqFull
    <3>5. 1 + 1 = 2
      OBVIOUS
    <3>6. \A i \in 2..Len(parts.path) : parts.path[i] \in Pieces
      BY <1>1, <3>1, ElementOfSeq
    <3>7. SubSeq(parts.path, 2, Len(parts.path)) \in Seq(Pieces)
      BY <3>1, <3>6, SubSeqProperties
    <3> QED BY <3>3, <3>4, <3>5, <3>7
  <2> HIDE DEF t
  <2>3. parts.path = <<"/">> \o t
    BY <2>1, <2>2
  <2>4. TailSlice(x \o (<<"/">> \o t), <<"/">>, TRUE) = Slice(<<"/">> \o t, x)
    BY <1>1, <1>2, <2>2, OneCut, DelimiterPieces
  <2> QED BY <2>3, <2>4, Zenon DEF x
<1> QED BY <1>3, <1>4

LEMMA UserinfoIsCut ==
    ASSUME NEW parts \in UriParts, NEW port \in PortTexts
    PROVE  HeadSlice(Authority(parts, port), <<"@">>) =
              Slice(parts.user \o PasswordText(parts), parts.host \o port)
<1> DEFINE x == parts.user \o PasswordText(parts)
           y == parts.host \o port
<1>1. x \in Seq(Pieces) /\ y \in Seq(Pieces) /\ Free(x, {"@"}) /\ Free(y, {"@"})
  BY PartsOfUri, AuthorityIsFree DEF Free
<1>2. Authority(parts, port) = Userinfo(parts) \o y
  <2>1. /\ Userinfo(parts) \in Seq(Pieces) /\ parts.host \in Seq(Pieces)
        /\ port \in Seq(Pieces)
    BY PartsOfUri
  <2>2. Userinfo(parts) \o parts.host \o port = Userinfo(parts) \o (parts.host \o port)
    <3> HIDE DEF x, y
    <3>1. \A a, b, c \in Seq(Pieces) : (a \o b) \o c = a \o (b \o c)
      BY ConcatAssociative
    <3> QED BY <2>1, <3>1, Zenon
  <2> QED BY <2>2, Zenon DEF Authority
<1>3. CASE parts.user = <<>>
  <2>1. PasswordText(parts) = <<>> /\ Userinfo(parts) = <<>>
    BY <1>3 DEF UriParts, PasswordText, Userinfo
  <2>2. x = <<>>
    BY <1>3, <2>1
  <2> HIDE DEF x, y
  <2>3. Authority(parts, port) = y
    BY <1>1, <1>2, <2>1, ConcatEmptySeq
  <2>4. HeadSlice(y, <<"@">>) = Slice(<<>>, y)
    BY <1>1, SlicesLeave, DelimiterPieces
  <2> QED BY <2>2, <2>3, <2>4, Zenon DEF x, y
<1>4. CASE parts.user # <<>>
  <2>1. Userinfo(parts) = x \o <<"@">>
    BY <1>4 DEF Userinfo, PasswordText
  <2> HIDE DEF x, y
  <2>2. (x \o <<"@">>) \o y = x \o (<<"@">> \o y)
    BY <1>1, OneElement, ConcatAssociative, DelimiterPieces
  <2>3. HeadSlice(x \o (<<"@">> \o y), <<"@">>) = Slice(x, y)
    BY <1>1, OneCut, DelimiterPieces
  <2> QED BY <1>2, <2>1, <2>2, <2>3, Zenon DEF x, y
<1> QED BY <1>3, <1>4

LEMMA PasswordIsCut ==
    ASSUME NEW parts \in UriParts
    PROVE  TailSlice(parts.user \o PasswordText(parts), <<":">>, FALSE) =
              Slice(parts.password, parts.user)
<1>1. /\ parts.user \in Seq(Pieces) /\ parts.password \in Seq(Pieces)
      /\ Free(parts.user, {":"})
  BY DEF UriParts, Free
<1>2. CASE parts.password = <<>>
  <2>1. parts.user \o PasswordText(parts) = parts.user
    BY <1>1, <1>2, ConcatEmptySeq DEF PasswordText
  <2>2. TailSlice(parts.user, <<":">>, FALSE) = Slice(<<>>, parts.user)
    BY <1>1, SlicesLeave, DelimiterPieces
  <2> QED BY <1>2, <2>1, <2>2
<1>3. CASE parts.password # <<>>
  <2>1. PasswordText(parts) = <<":">> \o parts.password
    BY <1>3 DEF PasswordText
  <2>2. TailSlice(parts.user \o (<<":">> \o parts.password), <<":">>, FALSE) =
            Slice(parts.password, parts.user)
    BY <1>1, OneCut, DelimiterPieces
  <2> QED BY <2>1, <2>2, Zenon
<1> QED BY <1>2, <1>3

\* The number a port text stands for.
PortNumber(port) == IF port = <<":", "8086">> THEN 8086 ELSE 0

LEMMA PortIsCut ==
    ASSUME NEW parts \in UriParts, NEW port \in PortTexts, Plain(parts.host)
    PROVE  \E output :
              /\ TailSlice(parts.host \o port, <<":">>, FALSE) = Slice(output, parts.host)
              /\ atoi(output) = PortNumber(port)
<1>1. parts.host \in Seq(Pieces) /\ Free(parts.host, {":"})
  BY DEF UriParts, Plain
<1>2. CASE port = <<>>
  <2>1. parts.host \o port = parts.host
    BY <1>1, <1>2, ConcatEmptySeq
  <2>2. TailSlice(parts.host, <<":">>, FALSE) = Slice(<<>>, parts.host)
    BY <1>1, SlicesLeave, DelimiterPieces
  <2>3. PortNumber(port) = 0 /\ atoi(<<>>) = 0
    BY <1>2 DEF PortNumber, atoi
  <2> QED BY <2>1, <2>2, <2>3, Zenon
<1>3. ASSUME NEW digits \in {"8086", "0"}, port = <<":", digits>>
      PROVE  \E output :
                /\ TailSlice(parts.host \o port, <<":">>, FALSE) = Slice(output, parts.host)
                /\ atoi(output) = PortNumber(port)
  <2> DEFINE t == <<digits>>
  <2>1. t \in Seq(Pieces) /\ t # <<>> /\ t[1] = digits
    BY OneElement, DelimiterPieces
  <2>2. port = <<":">> \o t
    BY <1>3
  <2>3. atoi(t) = IF digits = "8086" THEN 8086 ELSE 0
    BY <2>1 DEF atoi
  <2>4. PortNumber(port) = IF digits = "8086" THEN 8086 ELSE 0
    BY <1>3 DEF PortNumber
  <2> HIDE DEF t
  <2>5. TailSlice(parts.host \o (<<":">> \o t), <<":">>, FALSE) = Slice(t, parts.host)
    BY <1>1, <2>1, OneCut, DelimiterPieces
  <2>6. TailSlice(parts.host \o port, <<":">>, FALSE) = Slice(t, parts.host)
    BY <2>2, <2>5, Zenon
  <2>7. atoi(t) = PortNumber(port)
    BY <2>3, <2>4
  <2> QED BY <2>6, <2>7, Zenon
<1> QED BY <1>2, <1>3 DEF PortTexts

\* A URI without its protocol is read part by part.
LEMMA RestReadsBack ==
    ASSUME NEW parts \in UriParts, NEW port \in PortTexts,
           NEW text, NEW protocol,
           HeadSlice(text, PROTOCOL_END) = Slice(protocol, Rest(parts, port))
    PROVE  \E host, number :
              /\ ParseHttpUrl(text) =
                    [protocol |-> protocol, user |-> parts.user,
                     password |-> parts.password, host |-> host,
                     port |-> number, path |-> parts.path,
                     search |-> parts.search]
              /\ Plain(parts.host) =>
                    host = parts.host /\ number = PortNumber(port)
              /\ ~Plain(parts.host) => host # parts.host
<1> DEFINE u == parts.user \o PasswordText(parts)
           a == Authority(parts, port)
           ap == a \o parts.path
           h == parts.host \o port
           slice == TailSlice(h, <<":">>, FALSE)
           protocolSlice == HeadSlice(text, PROTOCOL_END)
           searchSlice   == TailSlice(protocolSlice.subject, <<"?">>, FALSE)
           pathSlice     == TailSlice(searchSlice.subject, <<"/">>, TRUE)
           userpassSlice == HeadSlice(pathSlice.subject, <<"@">>)
           passwordSlice == TailSlice(userpassSlice.output, <<":">>, FALSE)
           portSlice     == TailSlice(userpassSlice.subject, <<":">>, FALSE)
<1>1. TailSlice(Rest(parts, port), <<"?">>, FALSE) = Slice(parts.search, ap)
  BY SearchIsCut
<1>2. TailSlice(ap, <<"/">>, TRUE) = Slice(parts.path, a)
  BY PathIsCut
<1>3. HeadSlice(a, <<"@">>) = Slice(u, h)
  BY UserinfoIsCut
<1>4. TailSlice(u, <<":">>, FALSE) = Slice(parts.password, parts.user)
  BY PasswordIsCut
<1>5. Plain(parts.host) =>
          slice.subject = parts.host /\ atoi(slice.output) = PortNumber(port)
  <2> SUFFICES ASSUME Plain(parts.host)
               PROVE  slice.subject = parts.host /\ atoi(slice.output) = PortNumber(port)
    OBVIOUS
  <2>1. PICK output :
            /\ TailSlice(parts.host \o port, <<":">>, FALSE) = Slice(output, parts.host)
            /\ atoi(output) = PortNumber(port)
    BY PortIsCut
  <2> HIDE DEF slice
  <2>2. slice = Slice(output, parts.host)
    BY <2>1 DEF slice
  <2>3. slice.output = output /\ slice.subject = parts.host
    BY <2>2 DEF Slice
  <2> QED BY <2>1, <2>3
<1>15. ~Plain(parts.host) => slice.subject # parts.host
  <2>1. parts.host \in Seq(Pieces) /\ port \in Seq(Pieces)
    BY PartsOfUri
  <2>2. ~Plain(parts.host) =>
            TailSlice(parts.host \o port, <<":">>, FALSE).subject # parts.host
    BY <2>1, CutInside, DelimiterPieces DEF Plain
  <2> QED BY <2>2
<1>6. ParseHttpUrl(text) =
          [protocol |-> protocolSlice.output, user |-> passwordSlice.subject,
           password |-> passwordSlice.output, host |-> portSlice.subject,
           port |-> atoi(portSlice.output), path |-> pathSlice.output,
           search |-> searchSlice.output]
  BY DEF ParseHttpUrl
<1> HIDE DEF u, a, h, ap, slice
<1>7. \A o, s : Slice(o, s).output = o /\ Slice(o, s).subject = s
  BY DEF Slice
<1>8. protocolSlice.output = protocol /\ protocolSlice.subject = Rest(parts, port)
  BY <1>7
<1> HIDE DEF protocolSlice
<1>9. searchSlice.output = parts.search /\ searchSlice.subject = ap
  <2>1. searchSlice = Slice(parts.search, ap)
    BY <1>1, <1>8, Zenon
  <2> QED BY <1>7, <2>1, Zenon
<1> HIDE DEF searchSlice
<1>10. pathSlice.output = parts.path /\ pathSlice.subject = a
  <2>1. pathSlice = Slice(parts.path, a)
    BY <1>2, <1>9, Zenon
  <2> QED BY <1>7, <2>1, Zenon
<1> HIDE DEF pathSlice
<1>11. userpassSlice.output = u /\ userpassSlice.subject = h
  <2>1. userpassSlice = Slice(u, h)
    BY <1>3, <1>10, Zenon
  <2> QED BY <1>7, <2>1, Zenon
<1> HIDE DEF userpassSlice
<1>12. passwordSlice.output = parts.password /\ passwordSlice.subject = parts.user
  <2>1. passwordSlice = Slice(parts.password, parts.user)
    BY <1>4, <1>11, Zenon
  <2> HIDE DEF passwordSlice
  <2> QED BY <1>7, <2>1, Zenon
<1>13. portSlice = slice
  BY <1>11 DEF slice
<1> HIDE DEF passwordSlice, portSlice
<1>14. ParseHttpUrl(text) =
          [protocol |-> protocol, user |-> parts.user,
           password |-> parts.password, host |-> slice.subject,
           port |-> atoi(slice.output), path |-> parts.path,
           search |-> parts.search]
  BY <1>6, <1>8, <1>9, <1>10, <1>12, <1>13
<1> QED BY <1>5, <1>15, <1>14

-----------------------------------------------------------------------------
(* The protocol.                                                           *)

LEMMA ProtocolEndProperties ==
    /\ PROTOCOL_END \in Seq(Pieces) /\ PROTOCOL_END # <<>> /\ Len(PROTOCOL_END) = 3
    /\ PROTOCOL_END[1] = ":" /\ PROTOCOL_END[2] = "/" /\ PROTOCOL_END[3] = "/"
<1>1. PROTOCOL_END \in Seq(Pieces)
  BY DelimiterPieces DEF PROTOCOL_END
<1>2. Len(PROTOCOL_END) = 3
  BY DEF PROTOCOL_END
<1>3. PROTOCOL_END[1] = ":" /\ PROTOCOL_END[2] = "/" /\ PROTOCOL_END[3] = "/"
  BY DEF PROTOCOL_END
<1>4. PROTOCOL_END # <<>>
  BY DEF PROTOCOL_END
<1> QED BY <1>1, <1>2, <1>3, <1>4

ProtocolText(parts) ==
    IF parts.protocol = <<>> THEN <<>> ELSE parts.protocol \o PROTOCOL_END

\* The text of a URI is that of its protocol and the rest.
LEMMA WrittenByProtocol ==
    ASSUME NEW parts \in UriParts, NEW port \in PortTexts
    PROVE  /\ ProtocolText(parts) \in Seq(Pieces) /\ Rest(parts, port) \in Seq(Pieces)
           /\ Written(parts, port) = ProtocolText(parts) \o Rest(parts, port)
<1> DEFINE p == ProtocolText(parts)
           u == Userinfo(parts)
           q == SearchText(parts)
           uh == u \o parts.host
           a == uh \o port
           ap == a \o parts.path
<1>1. p \in Seq(Pieces)
  BY PartsOfUri, ProtocolEndProperties, ConcatProperties, EmptySeq DEF ProtocolText
<1>2. /\ u \in Seq(Pieces) /\ q \in Seq(Pieces) /\ uh \in Seq(Pieces)
      /\ a \in Seq(Pieces) /\ ap \in Seq(Pieces)
      /\ parts.host \in Seq(Pieces) /\ port \in Seq(Pieces)
      /\ parts.path \in Seq(Pieces)
  BY PartsOfUri DEF Authority
<1>3. Written(parts, port) = (((p \o u) \o parts.host) \o port) \o parts.path \o q
  BY Zenon DEF Written, ProtocolText, SearchText
<1>4. Rest(parts, port) = ap \o q
  BY Zenon DEF Rest, Authority
<1> HIDE DEF p, u, q
<1>5. \A x, y, z \in Seq(Pieces) : (x \o y) \o z = x \o (y \o z)
  BY ConcatAssociative
<1>6. (p \o u) \o parts.host = p \o uh
  BY <1>1, <1>2, <1>5, Zenon
<1> HIDE DEF uh
<1>7. (p \o uh) \o port = p \o a
  BY <1>1, <1>2, <1>5, Zenon
<1> HIDE DEF a
<1>8. (p \o a) \o parts.path = p \o ap
  BY <1>1, <1>2, <1>5, Zenon
<1> HIDE DEF ap
<1>9. (p \o ap) \o q = p \o (ap \o q)
  BY <1>1, <1>2, <1>5, Zenon
<1>10. Written(parts, port) = p \o (ap \o q)
  BY <1>3, <1>6, <1>7, <1>8, <1>9, Zenon
<1>11. Rest(parts, port) \in Seq(Pieces)
  BY <1>2, <1>4, ConcatProperties
<1> QED BY <1>1, <1>4, <1>10, <1>11, Zenon DEF p

\* The protocol of a URI that has one is cut off its text.
LEMMA ProtocolIsCut ==
    ASSUME NEW parts \in UriParts, NEW port \in PortTexts, parts.protocol # <<>>
    PROVE  HeadSlice(Written(parts, port), PROTOCOL_END) =
              Slice(parts.protocol, Rest(parts, port))
<1>1. parts.protocol \in Seq(Pieces) /\ Rest(parts, port) \in Seq(Pieces)
  BY PartsOfUri, WrittenByProtocol
<1>2. Free(parts.protocol, {PROTOCOL_END[1]})
  BY ProtocolEndProperties DEF UriParts
<1>3. HeadSlice(parts.protocol \o PROTOCOL_END \o Rest(parts, port), PROTOCOL_END) =
          Slice(parts.protocol, Rest(parts, port))
  BY <1>1, <1>2, ProtocolEndProperties, SlicesCut
<1>4. Written(parts, port) = parts.protocol \o PROTOCOL_END \o Rest(parts, port)
  <2>1. Written(parts, port) = ProtocolText(parts) \o Rest(parts, port)
    BY WrittenByProtocol
  <2>2. ProtocolText(parts) = parts.protocol \o PROTOCOL_END
    BY DEF ProtocolText
  <2> QED BY <2>1, <2>2, Zenon
<1> QED BY <1>3, <1>4, Zenon

\* A URI with a protocol is read back into its parts.
LEMMA WrittenReadsBack ==
    ASSUME NEW parts \in UriParts, NEW port \in PortTexts, parts.protocol # <<>>
    PROVE  \E host, number :
              /\ ParseHttpUrl(Written(parts, port)) =
                    [protocol |-> parts.protocol, user |-> parts.user,
                     password |-> parts.password, host |-> host,
                     port |-> number, path |-> parts.path,
                     search |-> parts.search]
              /\ Plain(parts.host) =>
                    host = parts.host /\ number = PortNumber(port)
              /\ ~Plain(parts.host) => host # parts.host
<1>1. HeadSlice(Written(parts, port), PROTOCOL_END) =
          Slice(parts.protocol, Rest(parts, port))
  BY ProtocolIsCut
<1> QED BY <1>1, RestReadsBack

\* What comes last in a concatenation.
LEMMA LastOfConcat ==
    ASSUME NEW a \in Seq(Pieces), NEW b \in Seq(Pieces), b # <<>>
    PROVE  (a \o b)[Len(a \o b)] = b[Len(b)]
<1>1. Len(b) \in Nat \ {0}
  BY EmptySeq
<1>2. /\ Len(a \o b) = Len(a) + Len(b)
      /\ \A j \in 1..Len(b) : (a \o b)[Len(a) + j] = b[j]
  BY ConcatParts
<1>3. Len(b) \in 1..Len(b)
  BY <1>1
<1> QED BY <1>2, <1>3

LEMMA LastOfAuthority ==
    ASSUME NEW parts \in UriParts, NEW port \in PortTexts,
           Authority(parts, port) # <<>>
    PROVE  Authority(parts, port)[Len(Authority(parts, port))] # ":"
<1> DEFINE u == Userinfo(parts)
           uh == u \o parts.host
<1>1. /\ u \in Seq(Pieces) /\ parts.host \in Seq(Pieces) /\ port \in Seq(Pieces)
      /\ uh \in Seq(Pieces)
  BY PartsOfUri
<1>2. Authority(parts, port) = uh \o port
  BY Zenon DEF Authority
<1>3. CASE port # <<>>
  <2>1. port[Len(port)] \in {"8086", "0"}
    BY <1>3 DEF PortTexts
  <2> HIDE DEF uh
  <2>2. (uh \o port)[Len(uh \o port)] = port[Len(port)]
    BY <1>1, <1>3, LastOfConcat
  <2> QED BY <1>2, <2>1, <2>2
<1>4. CASE port = <<>> /\ parts.host # <<>>
  <2>1. uh \o port = uh
    <3> HIDE DEF uh
    <3> QED BY <1>1, <1>4, ConcatEmptySeq
  <2>2. uh[Len(uh)] = parts.host[Len(parts.host)]
    <3> HIDE DEF u
    <3> QED BY <1>1, <1>4, LastOfConcat
  <2>3. parts.host[Len(parts.host)] # ":"
    BY <1>4 DEF UriParts
  <2> HIDE DEF uh
  <2> QED BY <1>2, <2>1, <2>2, <2>3
<1>5. CASE port = <<>> /\ parts.host = <<>>
  <2>1. uh = u
    <3> HIDE DEF u
    <3> QED BY <1>1, <1>5, ConcatEmptySeq
  <2>2. uh \o port = uh
    <3> HIDE DEF uh
    <3> QED BY <1>1, <1>5, ConcatEmptySeq
  <2>3. Authority(parts, port) = u
    BY <1>2, <2>1, <2>2, Zenon
  <2>4. parts.user # <<>>
    BY <2>3 DEF Userinfo
  <2> DEFINE v == parts.user \o PasswordText(parts)
  <2>5. v \in Seq(Pieces)
    BY PartsOfUri
  <2>6. u = v \o <<"@">>
    BY <2>4 DEF Userinfo, PasswordText
  <2> HIDE DEF u, v, uh
  <2>7. <<"@">> \in Seq(Pieces) /\ <<"@">> # <<>> /\ Len(<<"@">>) = 1 /\ <<"@">>[1] = "@"
    BY DelimiterPieces, OneElement
  <2>8. (v \o <<"@">>)[Len(v \o <<"@">>)] = <<"@">>[Len(<<"@">>)]
    BY <2>5, <2>7, LastOfConcat
  <2> QED BY <2>3, <2>6, <2>7, <2>8
<1> QED BY <1>3, <1>4, <1>5

\* The path and the search of a URI, together.
LEMMA PathAndSearch ==
    ASSUME NEW parts \in UriParts
    PROVE  LET b == parts.path \o SearchText(parts)
           IN  /\ b \in Seq(Pieces)
               /\ b # <<>> => b[1] \in {"/", "?"}
               /\ b = <<>> <=> parts.path = <<>> /\ parts.search = <<>>
<1> DEFINE q == SearchText(parts)
           b == parts.path \o q
<1>1. parts.path \in Seq(Pieces) /\ q \in Seq(Pieces) /\ parts.search \in Seq(Pieces)
  <2>1. <<>> \in PortTexts
    BY DEF PortTexts
  <2> QED BY <2>1, PartsOfUri
<1>2. b \in Seq(Pieces)
  <2> HIDE DEF q
  <2> QED BY <1>1, ConcatProperties
<1>4. b # <<>> => b[1] \in {"/", "?"}
  <2>1. CASE parts.path # <<>>
    <3>1. Len(parts.path) \in Nat \ {0}
      BY <1>1, <2>1, EmptySeq
    <3>2. 1 \in 1..Len(parts.path)
      BY <3>1
    <3>3. b[1] = parts.path[1]
      <4> HIDE DEF q
      <4> QED BY <1>1, <3>2, ConcatParts
    <3>4. parts.path[1] = "/"
      BY <2>1 DEF UriParts
    <3> HIDE DEF b
    <3> QED BY <3>3, <3>4
  <2>2. CASE parts.path = <<>>
    <3>1. b = q
      <4> HIDE DEF q
      <4> QED BY <1>1, <2>2, ConcatEmptySeq
    <3>2. CASE parts.search = <<>>
      <4>1. q = <<>>
        BY <3>2 DEF SearchText
      <4> HIDE DEF b, q
      <4> QED BY <3>1, <4>1
    <3>3. CASE parts.search # <<>>
      <4>1. q = <<"?">> \o parts.search
        BY <3>3 DEF SearchText
      <4>2. /\ <<"?">> \in Seq(Pieces) /\ Len(<<"?">>) = 1 /\ <<"?">>[1] = "?"
            /\ parts.search \in Seq(Pieces)
        BY <1>1, DelimiterPieces, OneElement
      <4>3. \A i \in 1..Len(<<"?">>) : (<<"?">> \o parts.search)[i] = <<"?">>[i]
        BY <4>2, ConcatParts
      <4>4. (<<"?">> \o parts.search)[1] = "?"
        BY <4>2, <4>3
      <4> HIDE DEF b, q
      <4> QED BY <3>1, <4>1, <4>4
    <3> QED BY <3>2, <3>3
  <2> QED BY <2>1, <2>2
<1>5. q = <<>> <=> parts.search = <<>>
  <2>1. CASE parts.search # <<>>
    <3>1. q = <<"?">> \o parts.search
      BY <2>1 DEF SearchText
    <3>2. <<"?">> \in Seq(Pieces) /\ Len(<<"?">>) = 1
      BY DelimiterPieces, OneElement
    <3>3. Len(q) = Len(<<"?">>) + Len(parts.search) /\ Len(parts.search) \in Nat
      BY <1>1, <3>1, <3>2, ConcatProperties, LenProperties
    <3> HIDE DEF q
    <3>4. Len(q) # 0
      BY <3>2, <3>3
    <3>5. q # <<>>
      BY <3>4
    <3> QED BY <2>1, <3>5
  <2>2. CASE parts.search = <<>>
    BY <2>2 DEF SearchText
  <2> QED BY <2>1, <2>2
<1>6. b = <<>> <=> parts.path = <<>> /\ q = <<>>
  <2> HIDE DEF q
  <2>1. /\ Len(b) = Len(parts.path) + Len(q)
        /\ Len(parts.path) \in Nat /\ Len(q) \in Nat
    BY <1>1, ConcatProperties, LenProperties
  <2> HIDE DEF b
  <2> QED BY <1>1, <1>2, <2>1, EmptySeq
<1> HIDE DEF b
<1>7. /\ b \in Seq(Pieces) /\ (b # <<>> => b[1] \in {"/", "?"})
      /\ b = <<>> <=> parts.path = <<>> /\ parts.search = <<>>
  BY <1>2, <1>4, <1>5, <1>6
<1> QED BY <1>7 DEF b

\* Behind the authority is the path or the search, or nothing.
LEMMA BehindAuthority ==
    ASSUME NEW parts \in UriParts, NEW port \in PortTexts
    PROVE  LET s == Rest(parts, port)
               a == Authority(parts, port)
           IN  /\ s \in Seq(Pieces) /\ Len(s) \in Nat /\ Len(a) \in Nat
               /\ \A i \in 1..Len(a) : s[i] = a[i]
               /\ Len(a) < Len(s) => s[Len(a) + 1] \in {"/", "?"}
<1> DEFINE a == Authority(parts, port)
           q == SearchText(parts)
           b == parts.path \o q
           s == a \o b
<1>1. a \in Seq(Pieces) /\ parts.path \in Seq(Pieces) /\ q \in Seq(Pieces)
  BY PartsOfUri
<1>2. b \in Seq(Pieces)
  <2> HIDE DEF q
  <2> QED BY <1>1, ConcatProperties
<1>3. Rest(parts, port) = s
  <2>1. \A x, y, z \in Seq(Pieces) : (x \o y) \o z = x \o (y \o z)
    BY ConcatAssociative
  <2>2. Rest(parts, port) = (a \o parts.path) \o q
    BY Zenon DEF Rest
  <2> HIDE DEF a, q
  <2> QED BY <1>1, <2>1, <2>2, Zenon
<1>4. b # <<>> => b[1] \in {"/", "?"}
  BY PathAndSearch, Zenon
<1> HIDE DEF b, a
<1>5. /\ s \in Seq(Pieces) /\ Len(a) \in Nat /\ Len(b) \in Nat
      /\ Len(s) = Len(a) + Len(b)
      /\ \A i \in 1..Len(a) : s[i] = a[i]
      /\ \A i \in 1..Len(b) : s[Len(a) + i] = b[i]
  BY <1>1, <1>2, ConcatParts
<1> HIDE DEF s
<1>6. ASSUME Len(a) < Len(s)
      PROVE  s[Len(a) + 1] \in {"/", "?"}
  <2>1. 1 \in 1..Len(b)
    BY <1>5, <1>6
  <2>2. b # <<>>
    BY <2>1, <1>5, EmptySeq
  <2> QED BY <1>4, <1>5, <2>1, <2>2
<1>7. Len(s) \in Nat
  BY <1>5
<1> QED BY <1>3, <1>5, <1>6, <1>7 DEF a

\* Where a URI has no protocol, none that the factory knows is read: in front
\* of a "://" of its path or its search there is more than one element.
LEMMA UnknownWithoutProtocol ==
    ASSUME NEW parts \in UriParts, NEW port \in PortTexts, NEW x,
           x \notin {"/", "?"}
    PROVE  HeadSlice(Rest(parts, port), PROTOCOL_END).output # <<x>>
<1> DEFINE s == Rest(parts, port)
           a == Authority(parts, port)
           d == PROTOCOL_END
<1>1. /\ s \in Seq(Pieces) /\ Len(s) \in Nat /\ Len(a) \in Nat
      /\ \A i \in 1..Len(a) : s[i] = a[i]
      /\ Len(a) < Len(s) => s[Len(a) + 1] \in {"/", "?"}
  BY BehindAuthority
<1>2. a # <<>> => a[Len(a)] # ":"
  BY LastOfAuthority
<1>3. \A i \in 1..Len(a) : a[i] # "/"
  <2>1. DOMAIN a = 1..Len(a)
    BY PartsOfUri, LenProperties
  <2>2. Free(a, {"/", "?"})
    BY AuthorityIsFree
  <2> HIDE DEF a
  <2> QED BY <2>1, <2>2 DEF Free
<1>4. d \in Seq(Pieces) /\ Len(d) = 3 /\ d[1] = ":" /\ d[2] = "/" /\ d[3] = "/"
  BY ProtocolEndProperties
<1> HIDE DEF s, a, d
<1> SUFFICES ASSUME HeadSlice(s, d).output = <<x>>
             PROVE  FALSE
  BY DEF s, d
<1>5. CASE Places(s, d) = {}
  <2>1. HeadSlice(s, d).output = <<>>
    BY <1>5 DEF HeadSlice, Slice
  <2>2. <<>> # <<x>>
    OBVIOUS
  <2> QED BY <2>1, <2>2
<1>6. CASE Places(s, d) # {}
  <2> DEFINE at == find(s, d)
  <2>1. Places(s, d) \subseteq Nat
    BY <1>1, <1>4 DEF Places
  <2>2. PICK i \in Places(s, d) : \A j \in Places(s, d) : i <= j
    BY <1>6, <2>1, LeastNatural
  <2>3. at \in Places(s, d)
    BY <2>2 DEF find
  <2>4. HeadSlice(s, d).output = SubSeq(s, 1, at - 1)
    BY <1>6 DEF HeadSlice, Slice
  <2> HIDE DEF at
  <2>5. at \in 1..(Len(s) - 2) /\ SubSeq(s, at, at + 2) = d
    <3>1. at \in 1..(Len(s) - 3 + 1) /\ SubSeq(s, at, at + 3 - 1) = d
      BY <1>4, <2>3 DEF Places
    <3>2. Len(s) - 3 + 1 = Len(s) - 2 /\ at + 3 - 1 = at + 2
      BY <1>1, <3>1
    <3> QED BY <3>1, <3>2
  <2>6. /\ at \in Nat
        /\ \A j \in 1..Len(s) : s[j] \in Pieces
    BY <1>1, <2>5, ElementOfSeq
  <2>7. at = 2 /\ s[1] = x
    <3>1. /\ Len(SubSeq(s, 1, at - 1)) = IF 1 <= at - 1 THEN at - 1 - 1 + 1 ELSE 0
          /\ \A j \in 1..(at - 1 - 1 + 1) : SubSeq(s, 1, at - 1)[j] = s[1 + j - 1]
      <4>1. at - 1 \in Int /\ \A j \in 1..(at - 1) : s[j] \in Pieces
        BY <1>1, <2>5, <2>6
      <4> QED BY <4>1, SubSeqProperties
    <3>2. Len(<<x>>) = 1 /\ <<x>>[1] = x
      OBVIOUS
    <3>3. Len(SubSeq(s, 1, at - 1)) = 1 /\ SubSeq(s, 1, at - 1)[1] = x
      BY <2>4, <3>2
    <3>4. at = 2
      BY <2>6, <3>1, <3>3
    <3>5. SubSeq(s, 1, at - 1)[1] = s[1]
      BY <3>1, <3>4
    <3> QED BY <3>3, <3>4, <3>5
  <2>8. s[2] = ":" /\ s[3] = "/"
    <3>1. \A j \in 1..(4 - 2 + 1) : SubSeq(s, 2, 4)[j] = s[2 + j - 1]
      <4>1. \A j \in 2..4 : s[j] \in Pieces
        BY <2>5, <2>6, <2>7
      <4> QED BY <4>1, SubSeqProperties
    <3>2. SubSeq(s, 2, 4) = d
      BY <2>5, <2>7
    <3>3. SubSeq(s, 2, 4)[1] = s[2] /\ SubSeq(s, 2, 4)[2] = s[3]
      BY <3>1
    <3> QED BY <1>4, <3>2, <3>3
  <2>9. CASE Len(a) = 0
    BY <1>1, <2>5, <2>7, <2>9
  <2>10. CASE Len(a) = 1
    BY <1>1, <2>5, <2>7, <2>8, <2>10
  <2>11. CASE Len(a) = 2
    <3>1. a # <<>>
      BY <2>11, EmptySeq
    <3>2. a[2] # ":" /\ s[2] = a[2]
      BY <1>1, <1>2, <2>11, <3>1
    <3> QED BY <2>8, <3>2
  <2>12. CASE Len(a) >= 3
    BY <1>1, <1>3, <2>8, <2>12
  <2>13. Len(a) = 0 \/ Len(a) = 1 \/ Len(a) = 2 \/ Len(a) >= 3
    <3>1. Len(a) \in Nat
      BY <1>1
    <3>2. \A n \in Nat : n = 0 \/ n = 1 \/ n = 2 \/ n >= 3
      OBVIOUS
    <3> QED BY <3>1, <3>2, Zenon
  <2> QED BY <2>9, <2>10, <2>11, <2>12, <2>13
<1> QED BY <1>5, <1>6

-----------------------------------------------------------------------------
(* The factory.                                                            *)

HttpProtocols   == {<<"http">>, <<"https">>}
SocketProtocols == {<<"udp">>, <<"unix">>}

\* The text of the port of a URI.
PortText(parts) == IF parts.port = 0 THEN <<>> ELSE <<":", "8086">>

LEMMA PortTextIsOne ==
    ASSUME NEW parts \in UriParts
    PROVE  /\ PortText(parts) \in PortTexts
           /\ PortNumber(PortText(parts)) = parts.port
           /\ Text(parts) = Written(parts, PortText(parts))
<1>1. parts.port \in {0, 8086}
  BY DEF UriParts, Ports
<1>2. <<>> # <<":", "8086">>
  OBVIOUS
<1> QED BY <1>1, <1>2 DEF PortText, PortTexts, PortNumber, Text

\* The protocol the factory goes by is that of the URI.
LEMMA KnownProtocol ==
    ASSUME NEW parts \in UriParts,
           NEW protocol \in HttpProtocols \cup SocketProtocols,
           ParseHttpUrl(Text(parts)).protocol = protocol
    PROVE  parts.protocol = protocol
<1> DEFINE port == PortText(parts)
<1>1. port \in PortTexts /\ Text(parts) = Written(parts, port)
  BY PortTextIsOne
<1> HIDE DEF port
<1>2. CASE parts.protocol = <<>>
  <2>1. PICK x : protocol = <<x>> /\ x \notin {"/", "?"}
    BY DEF HttpProtocols, SocketProtocols
  <2>2. HeadSlice(Rest(parts, port), PROTOCOL_END).output # <<x>>
    BY <1>1, <2>1, UnknownWithoutProtocol
  <2>3. Written(parts, port) = Rest(parts, port)
    <3>1. /\ Written(parts, port) = ProtocolText(parts) \o Rest(parts, port)
          /\ Rest(parts, port) \in Seq(Pieces)
      BY <1>1, WrittenByProtocol
    <3>2. ProtocolText(parts) = <<>>
      BY <1>2 DEF ProtocolText
    <3> QED BY <3>1, <3>2, ConcatEmptySeq
  <2>4. ParseHttpUrl(Text(parts)).protocol =
            HeadSlice(Text(parts), PROTOCOL_END).output
    BY DEF ParseHttpUrl
  <2> QED BY <1>1, <2>1, <2>2, <2>3, <2>4
<1>3. CASE parts.protocol # <<>>
  <2>1. HeadSlice(Text(parts), PROTOCOL_END) =
            Slice(parts.protocol, Rest(parts, port))
    BY <1>1, <1>3, ProtocolIsCut
  <2>2. ParseHttpUrl(Text(parts)).protocol =
            HeadSlice(Text(parts), PROTOCOL_END).output
    BY DEF ParseHttpUrl
  <2> QED BY <2>1, <2>2 DEF Slice
<1> QED BY <1>2, <1>3

NothingSet == [h \in Handles |-> NoAuth]

\* The inductive invariant: before the call of GetTransport there is a
\* connection or none yet; how it ended says what was asked for and is made.
Asked ==
    \/ /\ uri = NoUri
       /\ conn = NoConn
       /\ outcome = "none"
    \/ /\ uri \in UriParts
       /\ conn.host = Text(uri)
       /\ conn.dbVersion \in {1, 2}
       /\ conn.port \in Ports
       /\ conn.username \in Seq(Pieces) /\ conn.password \in Seq(Pieces)

AsksSocket ==
    /\ uri.protocol \in SocketProtocols
    /\ conn.dbVersion = 1
    /\ boost = TRUE

\* What both handles of a transport for HTTP have.
Authorized ==
    \A h \in Handles :
        /\ conn.dbVersion = 1 /\ conn.username # <<>> =>
              auth[h].userpwd = conn.username \o <<":">> \o conn.password
        /\ conn.dbVersion = 2 => auth[h].token = conn.token

Made ==
    \/ /\ outcome \in {"none", "InfluxDBException"}
       /\ transport = NoTransport
       /\ auth = NothingSet
    \/ /\ outcome = "system_error"
       /\ transport = NoTransport
       /\ AsksSocket
    \/ /\ outcome = "logic_error"
       /\ transport = NoTransport
       /\ uri.protocol \in HttpProtocols
       /\ conn.dbName # ""
    \/ /\ outcome = "returned"
       /\ uri.protocol \in HttpProtocols
       /\ conn.dbName # ""
       /\ transport.kind = "http"
       /\ transport.address = serviceUrl(conn)
       /\ Authorized
    \/ /\ outcome = "returned"
       /\ transport.kind \in {"udp", "unix"}
       /\ AsksSocket

IInv == boost \in BOOLEAN /\ Asked /\ Made

LEMMA InitIInv == Init => IInv
<1> SUFFICES ASSUME Init PROVE IInv
  OBVIOUS
<1> QED BY DEF Init, IInv, Asked, Made, NothingSet

LEMMA ConnectIInv ==
    ASSUME IInv, NEW parts \in Uris, NEW info, Connect(parts, info),
           info.host = Text(parts), info.dbVersion \in {1, 2},
           info.port \in Ports,
           info.username \in Seq(Pieces), info.password \in Seq(Pieces)
    PROVE  IInv'
<1>1. boost' \in BOOLEAN
  BY DEF IInv, Connect
<1>2. Asked'
  BY UrisAreUris DEF Asked, Connect
<1>3. Made'
  BY DEF IInv, Made, Connect
<1> QED BY <1>1, <1>2, <1>3 DEF IInv

LEMMA ThrowIInv ==
    ASSUME IInv, conn # NoConn, outcome = "none",
           \/ throw("InfluxDBException")
           \/ throw("system_error") /\ AsksSocket
           \/ /\ throw("logic_error")
              /\ uri.protocol \in HttpProtocols /\ conn.dbName # ""
    PROVE  IInv'
<1>1. boost' \in BOOLEAN
  BY DEF IInv, throw
<1>2. Asked'
  BY DEF IInv, Asked, throw
<1>3. Made'
  BY DEF IInv, Made, AsksSocket, throw
<1> QED BY <1>1, <1>2, <1>3 DEF IInv

\* Each of the two functions sets both handles.
LEMMA BothAreSet ==
    ASSUME auth = NothingSet, NEW x
    PROVE  /\ enableBasicAuth(x) => \A h \in Handles : auth'[h].userpwd = x
           /\ enableTokenAuth(x) => \A h \in Handles : auth'[h].token = x
<1>0. /\ auth["read"] = NoAuth /\ auth["write"] = NoAuth
      /\ auth = [h \in Handles |-> auth[h]]
      /\ "read" \in Handles /\ "write" \in Handles /\ "read" # "write"
  BY DEF NothingSet, Handles
<1>1. ASSUME enableBasicAuth(x)
      PROVE  \A h \in Handles : auth'[h].userpwd = x
  <2> DEFINE one == [NoAuth EXCEPT !.userpwd = x]
  <2>1. auth' = [[auth EXCEPT !["write"] = one] EXCEPT !["read"] = one]
    <3> DEFINE first == [auth EXCEPT !["write"] = one]
    <3>2. first["read"] = NoAuth
      BY <1>0
    <3>3. auth' = [first EXCEPT !["read"] = [first["read"] EXCEPT !.userpwd = x]]
      BY <1>0, <1>1 DEF enableBasicAuth
    <3> HIDE DEF first
    <3>4. auth' = [first EXCEPT !["read"] = one]
      BY <3>2, <3>3
    <3> QED BY <3>4 DEF first
  <2>2. one.userpwd = x
    BY DEF NoAuth
  <2> HIDE DEF one
  <2>3. \A h \in Handles : auth'[h] = one
    BY <1>0, <2>1 DEF Handles
  <2> QED BY <2>2, <2>3
<1>2. ASSUME enableTokenAuth(x)
      PROVE  \A h \in Handles : auth'[h].token = x
  <2> DEFINE one == [NoAuth EXCEPT !.token = x]
  <2>1. auth' = [[auth EXCEPT !["read"] = one] EXCEPT !["write"] = one]
    <3> DEFINE first == [auth EXCEPT !["read"] = one]
    <3>2. first["write"] = NoAuth
      BY <1>0
    <3>3. auth' = [first EXCEPT !["write"] = [first["write"] EXCEPT !.token = x]]
      BY <1>0, <1>2 DEF enableTokenAuth
    <3> HIDE DEF first
    <3>4. auth' = [first EXCEPT !["write"] = one]
      BY <3>2, <3>3
    <3> QED BY <3>4 DEF first
  <2>2. one.token = x
    BY DEF NoAuth
  <2> HIDE DEF one
  <2>3. \A h \in Handles : auth'[h] = one
    BY <1>0, <2>1 DEF Handles
  <2> QED BY <2>2, <2>3
<1> QED BY <1>1, <1>2

LEMMA GetTransportIInv ==
    ASSUME IInv, GetTransport
    PROVE  IInv'
<1> DEFINE protocol == ParseHttpUrl(conn.host).protocol
<1>1. /\ conn # NoConn /\ outcome = "none" /\ boost \in BOOLEAN
      /\ uri \in UriParts /\ conn.host = Text(uri)
      /\ conn.dbVersion \in {1, 2} /\ conn.port \in Ports
      /\ conn.username \in Seq(Pieces) /\ conn.password \in Seq(Pieces)
  BY DEF IInv, Asked, GetTransport
<1>2. transport = NoTransport /\ auth = NothingSet
  BY <1>1 DEF IInv, Made
<1>3. protocol \in HttpProtocols \cup SocketProtocols => uri.protocol = protocol
  BY <1>1, KnownProtocol
<1>4. \/ protocol \in HttpProtocols /\ withHttpTransport
      \/ /\ takesSocket(protocol)
         /\ protocol = <<"udp">>
         /\ withUdpTransport(ParseHttpUrl(conn.host).path, conn.port)
      \/ /\ takesSocket(protocol)
         /\ protocol = <<"unix">>
         /\ withUnixSocketTransport(ParseHttpUrl(conn.host).path)
      \/ throw("InfluxDBException")
  BY DEF GetTransport, HttpProtocols
<1>5. takesSocket(protocol) => protocol \in SocketProtocols /\ conn.dbVersion = 1
  BY DEF takesSocket, SocketProtocols
<1> HIDE DEF protocol
<1>6. CASE throw("InfluxDBException")
  BY <1>1, <1>6, ThrowIInv
<1>7. CASE protocol \in HttpProtocols /\ withHttpTransport /\ ~throw("InfluxDBException")
  <2>1. uri.protocol \in HttpProtocols
    BY <1>3, <1>7
  <2> DEFINE credentials == conn.username \o <<":">> \o conn.password
             hasLogin == conn.dbVersion = 1 /\ conn.username # <<>>
             hasToken == conn.dbVersion = 2 /\ conn.token # ""
  <2>2. /\ conn.dbName # ""
        /\ \/ throw("logic_error")
           \/ /\ transport' = [kind |-> "http", address |-> serviceUrl(conn),
                               port |-> conn.port]
              /\ outcome' = "returned"
              /\ UNCHANGED <<boost, uri, conn>>
              /\ \/ hasLogin /\ enableBasicAuth(credentials)
                 \/ ~hasLogin /\ hasToken /\ enableTokenAuth(conn.token)
                 \/ ~hasLogin /\ ~hasToken /\ UNCHANGED auth
    BY <1>7 DEF withHttpTransport
  <2>3. CASE throw("logic_error")
    BY <1>1, <2>1, <2>2, <2>3, ThrowIInv
  <2>4. CASE ~throw("logic_error")
    <3>1. \A h \in Handles :
              /\ hasLogin => auth'[h].userpwd = credentials
              /\ conn.dbVersion = 2 => auth'[h].token = conn.token
      <4> HIDE DEF credentials
      <4>3. CASE hasLogin /\ enableBasicAuth(credentials)
        <5>1. \A h \in Handles : auth'[h].userpwd = credentials
          BY <1>2, <4>3, BothAreSet
        <5>2. conn.dbVersion # 2
          BY <4>3
        <5> QED BY <5>1, <5>2
      <4>4. CASE ~hasLogin /\ hasToken /\ enableTokenAuth(conn.token)
        <5>1. \A h \in Handles : auth'[h].token = conn.token
          BY <1>2, <4>4, BothAreSet
        <5> QED BY <4>4, <5>1
      <4>5. CASE ~hasLogin /\ ~hasToken /\ UNCHANGED auth
        <5>1. conn.dbVersion = 2 => conn.token = ""
          BY <4>5
        <5>2. \A h \in Handles : auth'[h].token = ""
          BY <1>2, <4>5 DEF NothingSet, NoAuth
        <5> QED BY <4>5, <5>1, <5>2
      <4> QED BY <2>2, <2>4, <4>3, <4>4, <4>5
    <3>2. /\ conn' = conn /\ uri' = uri /\ boost' = boost /\ outcome' = "returned"
          /\ transport' = [kind |-> "http", address |-> serviceUrl(conn),
                           port |-> conn.port]
      BY <2>2, <2>4
    <3>3. Authorized'
      BY <3>1, <3>2 DEF Authorized
    <3>4. serviceUrl(conn)' = serviceUrl(conn)
      BY <3>2
    <3>5. transport'.kind = "http" /\ transport'.address = serviceUrl(conn)
      BY <3>2
    <3>6. Made'
      BY <2>1, <2>2, <3>2, <3>3, <3>4, <3>5 DEF Made
    <3>7. Asked' /\ boost' \in BOOLEAN
      BY <1>1, <3>2 DEF Asked
    <3> QED BY <3>6, <3>7 DEF IInv
  <2> QED BY <2>3, <2>4
<1>8. ASSUME NEW kind \in {"udp", "unix"}, NEW address, NEW port,
             noSocket \/ failedSocket \/ madeSocket(kind, address, port),
             protocol \in SocketProtocols, conn.dbVersion = 1
      PROVE  IInv'
  <2>1. uri.protocol \in SocketProtocols
    BY <1>3, <1>8
  <2>2. CASE noSocket
    <3>1. throw("InfluxDBException")
      BY <2>2 DEF noSocket
    <3> QED BY <1>1, <3>1, ThrowIInv
  <2>3. CASE failedSocket
    BY <1>1, <1>8, <2>1, <2>3, ThrowIInv DEF failedSocket, AsksSocket, IInv
  <2>4. CASE madeSocket(kind, address, port)
    <3>1. boost = TRUE
      BY <2>4 DEF madeSocket, IInv
    <3>2. /\ transport'.kind = kind /\ outcome' = "returned"
          /\ UNCHANGED <<boost, uri, conn>>
      BY <1>2, <2>4 DEF madeSocket
    <3>3. Made'
      BY <1>8, <2>1, <3>1, <3>2 DEF Made, AsksSocket
    <3>4. Asked' /\ boost' \in BOOLEAN
      BY <1>1, <3>2 DEF Asked
    <3> QED BY <3>3, <3>4 DEF IInv
  <2> QED BY <1>8, <2>2, <2>3, <2>4
<1>9. CASE /\ takesSocket(protocol)
           /\ withUdpTransport(ParseHttpUrl(conn.host).path, conn.port)
  BY <1>5, <1>8, <1>9 DEF withUdpTransport
<1>10. CASE /\ takesSocket(protocol)
            /\ withUnixSocketTransport(ParseHttpUrl(conn.host).path)
            /\ ~throw("InfluxDBException")
  BY <1>5, <1>8, <1>10 DEF withUnixSocketTransport
<1> QED BY <1>4, <1>6, <1>7, <1>9, <1>10

LEMMA NextIInv == IInv /\ [Next]_vars => IInv'
<1> SUFFICES ASSUME IInv, [Next]_vars PROVE IInv'
  OBVIOUS
<1>1. CASE GetV1
  <2>1. PICK parts \in Uris, port \in Ports, dbName \in Given,
             username \in Usernames, password \in Passwords :
            Connect(parts, [NoConn EXCEPT !.dbVersion = 1, !.host = Text(parts),
                               !.port = port, !.dbName = dbName,
                               !.username = username, !.password = password])
    BY <1>1 DEF GetV1
  <2> DEFINE info == [NoConn EXCEPT !.dbVersion = 1, !.host = Text(parts),
                         !.port = port, !.dbName = dbName,
                         !.username = username, !.password = password]
  <2>2. info.host = Text(parts) /\ info.dbVersion = 1 /\ info.port = port
        /\ info.username = username /\ info.password = password
    BY DEF NoConn
  <2>3. Connect(parts, info)
    BY <2>1
  <2> HIDE DEF info
  <2>4. username \in Seq(Pieces) /\ password \in Seq(Pieces)
    BY LoginsAreTexts
  <2> QED BY <2>2, <2>3, <2>4, ConnectIInv
<1>2. CASE GetV2
  <2>1. PICK parts \in Uris, port \in Ports, dbName \in Given,
             token \in Given, rp \in Given :
            Connect(parts, [NoConn EXCEPT !.dbVersion = 2, !.host = Text(parts),
                               !.port = port, !.dbName = dbName,
                               !.token = token, !.rp = rp])
    BY <1>2 DEF GetV2
  <2> DEFINE info == [NoConn EXCEPT !.dbVersion = 2, !.host = Text(parts),
                         !.port = port, !.dbName = dbName,
                         !.token = token, !.rp = rp]
  <2>2. info.host = Text(parts) /\ info.dbVersion = 2 /\ info.port = port
        /\ info.username = <<>> /\ info.password = <<>>
    BY DEF NoConn
  <2>3. Connect(parts, info)
    BY <2>1
  <2> HIDE DEF info
  <2> QED BY <2>2, <2>3, EmptySeq, ConnectIInv
<1>3. CASE GetTransport
  BY <1>3, GetTransportIInv
<1>4. CASE UNCHANGED vars
  <2>1. /\ boost' = boost /\ uri' = uri /\ conn' = conn
        /\ transport' = transport /\ auth' = auth /\ outcome' = outcome
    BY <1>4 DEF vars
  <2>2. boost' \in BOOLEAN
    BY <2>1 DEF IInv
  <2>3. Asked'
    BY <2>1 DEF IInv, Asked
  <2>4. AsksSocket' <=> AsksSocket
    BY <2>1 DEF AsksSocket
  <2>5. serviceUrl(conn)' = serviceUrl(conn) /\ (Authorized' <=> Authorized)
    BY <2>1 DEF Authorized
  <2>6. Made'
    BY <2>1, <2>4, <2>5 DEF IInv, Made
  <2> QED BY <2>2, <2>3, <2>6 DEF IInv
<1> QED BY <1>1, <1>2, <1>3, <1>4 DEF Next, Ended

LEMMA Invariance == Spec => []IInv
<1> QED BY InitIInv, NextIInv, PTL DEF Spec

-----------------------------------------------------------------------------
(* The invariants of the runs.                                             *)

\* Every URI with a protocol is read back into the parts it was written from,
\* whatever its delimiters: the invariant of the factory, for every set of URIs
\* with the delimiters RFC 3986 allows.
THEOREM ReadingBack == Spec => []UriReadsBack
<1>1. IInv => UriReadsBack
  <2> SUFFICES ASSUME IInv, uri.protocol # <<>>
               PROVE  /\ \A part \in {"protocol", "user", "password", "path", "search"} :
                            ParseHttpUrl(Text(uri))[part] = uri[part]
                      /\ ParseHttpUrl(Text(uri)) = uri <=> Plain(uri.host)
    BY DEF UriReadsBack
  <2>1. uri \in UriParts
    BY DEF IInv, Asked, NoUri
  <2>2. /\ PortText(uri) \in PortTexts
        /\ PortNumber(PortText(uri)) = uri.port
        /\ Text(uri) = Written(uri, PortText(uri))
    BY <2>1, PortTextIsOne
  <2>3. PICK host, number :
            /\ ParseHttpUrl(Written(uri, PortText(uri))) =
                  [protocol |-> uri.protocol, user |-> uri.user,
                   password |-> uri.password, host |-> host,
                   port |-> number, path |-> uri.path,
                   search |-> uri.search]
            /\ Plain(uri.host) =>
                  host = uri.host /\ number = PortNumber(PortText(uri))
            /\ ~Plain(uri.host) => host # uri.host
    BY <2>1, <2>2, WrittenReadsBack
  <2>4. uri = [protocol |-> uri.protocol, user |-> uri.user,
               password |-> uri.password, host |-> uri.host,
               port |-> uri.port, path |-> uri.path,
               search |-> uri.search]
    BY <2>1 DEF UriParts
  <2> DEFINE parsed == ParseHttpUrl(Text(uri))
  <2>5. /\ parsed.protocol = uri.protocol /\ parsed.user = uri.user
        /\ parsed.password = uri.password /\ parsed.path = uri.path
        /\ parsed.search = uri.search
    BY <2>2, <2>3
  <2>6. ASSUME Plain(uri.host)
        PROVE  parsed = uri
    <3>1. host = uri.host /\ number = uri.port
      BY <2>2, <2>3, <2>6
    <3> QED BY <2>2, <2>3, <2>4, <3>1
  <2>7. ASSUME ~Plain(uri.host)
        PROVE  parsed # uri
    <3>1. parsed.host = host
      BY <2>2, <2>3
    <3> QED BY <2>3, <2>7, <3>1
  <2> HIDE DEF parsed
  <2> QED BY <2>5, <2>6, <2>7 DEF parsed
<1> QED BY <1>1, Invariance, PTL

\* The factory makes a transport only for the protocols it knows, for the
\* sockets only with version 1 and boost; any other URI ends with an
\* InfluxDBException.
THEOREM KnownBackends == Spec => []OnlyKnownBackends
<1>1. IInv => OnlyKnownBackends
  BY DEF IInv, Made, AsksSocket, OnlyKnownBackends, HttpProtocols, SocketProtocols
<1> QED BY <1>1, Invariance, PTL

\* Both handles of a transport for HTTP tell the server the user name and the
\* password that were given, exactly when the user name has no ":", or the token.
THEOREM LoginReachesServer == Spec => []LoginIsAsGiven
<1>1. IInv => LoginIsAsGiven
  <2> SUFFICES ASSUME IInv, transport.kind = "http", NEW h \in Handles
               PROVE  /\ conn.dbVersion = 1 /\ conn.username # <<>> =>
                            (loginOf(auth[h].userpwd) =
                                [user |-> conn.username, password |-> conn.password]
                                <=> Plain(conn.username))
                      /\ conn.dbVersion = 2 => auth[h].token = conn.token
    BY DEF LoginIsAsGiven
  <2>1. Authorized /\ uri.protocol \in HttpProtocols
    <3>1. transport # NoTransport
      BY DEF NoTransport
    <3>2. transport.kind \notin {"udp", "unix"}
      OBVIOUS
    <3> QED BY <3>1, <3>2 DEF IInv, Made
  <2>2. conn.username \in Seq(Pieces) /\ conn.password \in Seq(Pieces)
    <3>1. uri # NoUri
      BY <2>1 DEF NoUri, HttpProtocols
    <3> QED BY <3>1 DEF IInv, Asked
  <2> DEFINE user == conn.username
             password == conn.password
             cut == TailSlice(user \o (<<":">> \o password), <<":">>, FALSE)
  <2>3. loginOf(user \o <<":">> \o password) = [user |-> cut.subject, password |-> cut.output]
    <3>1. user \o <<":">> \o password = user \o (<<":">> \o password)
      <4>1. <<":">> \in Seq(Pieces)
        BY DelimiterPieces, OneElement
      <4>2. \A x, y, z \in Seq(Pieces) : (x \o y) \o z = x \o (y \o z)
        BY ConcatAssociative
      <4> QED BY <2>2, <4>1, <4>2, Zenon
    <3> QED BY <3>1, Zenon DEF loginOf
  <2>4. Plain(user) => cut.subject = user /\ cut.output = password
    <3> SUFFICES ASSUME Plain(user) PROVE cut.subject = user /\ cut.output = password
      OBVIOUS
    <3>1. cut = Slice(password, user)
      BY <2>2, OneCut, DelimiterPieces DEF Plain
    <3> HIDE DEF cut
    <3> QED BY <3>1 DEF Slice
  <2>5. ~Plain(user) => cut.subject # user
    <3>1. <<":">> \o password \in Seq(Pieces)
      BY <2>2, DelimiterPieces, OneElement, ConcatProperties
    <3> QED BY <2>2, <3>1, CutInside, DelimiterPieces DEF Plain
  <2> HIDE DEF cut
  <2>6. [user |-> cut.subject, password |-> cut.output] = [user |-> user, password |-> password]
            <=> Plain(user)
    BY <2>4, <2>5
  <2> QED BY <2>1, <2>3, <2>6 DEF Authorized
<1> QED BY <1>1, Invariance, PTL

\* The text of a URI: what is in front of the port, the port, and what is behind.
LEMMA WrittenInThree ==
    ASSUME NEW parts \in UriParts, NEW port \in PortTexts
    PROVE  LET front == ProtocolText(parts) \o Userinfo(parts) \o parts.host
               back  == parts.path \o SearchText(parts)
           IN  /\ front \in Seq(Pieces) /\ back \in Seq(Pieces) /\ port \in Seq(Pieces)
               /\ Written(parts, port) = front \o (port \o back)
<1> DEFINE front == ProtocolText(parts) \o Userinfo(parts) \o parts.host
           q     == SearchText(parts)
           back  == parts.path \o q
<1>1. /\ ProtocolText(parts) \in Seq(Pieces) /\ Userinfo(parts) \in Seq(Pieces)
      /\ parts.host \in Seq(Pieces) /\ port \in Seq(Pieces)
      /\ parts.path \in Seq(Pieces) /\ q \in Seq(Pieces)
  BY PartsOfUri, WrittenByProtocol
<1>2. front \in Seq(Pieces)
  BY <1>1, ConcatProperties
<1>3. back \in Seq(Pieces)
  <2> HIDE DEF q
  <2> QED BY <1>1, ConcatProperties
<1>4. Written(parts, port) = ((front \o port) \o parts.path) \o q
  BY Zenon DEF Written, ProtocolText, SearchText
<1> HIDE DEF front, q
<1>5. \A x, y, z \in Seq(Pieces) : (x \o y) \o z = x \o (y \o z)
  BY ConcatAssociative
<1>6. front \o port \in Seq(Pieces)
  BY <1>1, <1>2, ConcatProperties
<1>7. ((front \o port) \o parts.path) \o q = (front \o port) \o back
  BY <1>1, <1>5, <1>6, Zenon
<1> HIDE DEF back
<1>8. (front \o port) \o back = front \o (port \o back)
  BY <1>1, <1>2, <1>3, <1>5, Zenon
<1> QED BY <1>1, <1>2, <1>3, <1>4, <1>7, <1>8, Zenon DEF front, back, q

\* A port appended to the text of a URI is its port exactly when the text ends
\* with the host.
THEOREM ServiceAddress == Spec => []ServiceIsHostAndPort
<1>1. ASSUME NEW parts \in UriParts, NEW number \in Ports
      PROVE  Text(parts) \o numbered(number) = Written(parts, numbered(number))
                <=> parts.port = 0 /\ parts.path = <<>> /\ parts.search = <<>>
  <2> DEFINE port  == numbered(number)
             own   == PortText(parts)
             front == ProtocolText(parts) \o Userinfo(parts) \o parts.host
             back  == parts.path \o SearchText(parts)
  <2>1. /\ port \in PortTexts /\ Len(port) = 2 /\ port[1] = ":"
    BY DEF numbered, PortTexts
  <2>2. /\ own \in PortTexts /\ Text(parts) = Written(parts, own)
        /\ (parts.port = 0 => own = <<>>) /\ (parts.port # 0 => Len(own) = 2)
    BY PortTextIsOne DEF PortText
  <2>3. /\ back # <<>> => back[1] \in {"/", "?"}
        /\ back = <<>> <=> parts.path = <<>> /\ parts.search = <<>>
    BY PathAndSearch, Zenon
  <2> HIDE DEF port, own
  <2>4. /\ front \in Seq(Pieces) /\ back \in Seq(Pieces) /\ port \in Seq(Pieces)
        /\ Written(parts, port) = front \o (port \o back)
    BY <2>1, WrittenInThree, Zenon
  <2>5. own \in Seq(Pieces) /\ Written(parts, own) = front \o (own \o back)
    BY <2>2, WrittenInThree, Zenon
  <2> HIDE DEF front, back
  <2> DEFINE text == front \o (own \o back)
  <2>6. /\ own \o back \in Seq(Pieces) /\ port \o back \in Seq(Pieces)
        /\ Len(own \o back) = Len(own) + Len(back)
        /\ Len(port \o back) = Len(port) + Len(back)
        /\ Len(own) \in Nat /\ Len(back) \in Nat /\ Len(front) \in Nat
    BY <2>4, <2>5, ConcatParts
  <2>7. /\ text \in Seq(Pieces) /\ Len(text) = Len(front) + Len(own \o back)
        /\ \A i \in 1..Len(own \o back) : text[Len(front) + i] = (own \o back)[i]
        /\ Len(front \o (port \o back)) = Len(front) + Len(port \o back)
        /\ \A i \in 1..Len(port \o back) :
              (front \o (port \o back))[Len(front) + i] = (port \o back)[i]
    <3>1. PICK ob \in Seq(Pieces) : ob = own \o back
      BY <2>6
    <3>2. PICK pb \in Seq(Pieces) : pb = port \o back
      BY <2>6
    <3>3. /\ front \o ob \in Seq(Pieces) /\ Len(front \o ob) = Len(front) + Len(ob)
          /\ \A i \in 1..Len(ob) : (front \o ob)[Len(front) + i] = ob[i]
      BY <2>4, ConcatParts
    <3>4. /\ Len(front \o pb) = Len(front) + Len(pb)
          /\ \A i \in 1..Len(pb) : (front \o pb)[Len(front) + i] = pb[i]
      BY <2>4, ConcatParts
    <3> QED BY <3>1, <3>2, <3>3, <3>4, Zenon DEF text
  <2> HIDE DEF text
  <2>8. /\ Len(text \o port) = Len(text) + Len(port)
        /\ \A i \in 1..Len(text) : (text \o port)[i] = text[i]
    <3>1. text \in Seq(Pieces) /\ port \in Seq(Pieces)
      BY <2>4, <2>7, Zenon
    <3> QED BY <3>1, ConcatParts
  <2>9. ASSUME parts.port = 0, back = <<>>
        PROVE  text \o port = front \o (port \o back)
    <3>1. own \o back = <<>>
      BY <2>2, <2>9
    <3>2. text = front
      BY <2>4, <3>1, ConcatEmptySeq DEF text
    <3>3. port \o back = port
      BY <2>4, <2>9, ConcatEmptySeq
    <3> QED BY <3>2, <3>3
  <2>10. ASSUME text \o port = front \o (port \o back)
         PROVE  parts.port = 0 /\ back = <<>>
    <3>1. Len(own) = 0
      BY <2>6, <2>7, <2>8, <2>10
    <3>2. parts.port = 0 /\ own = <<>>
      BY <2>2, <3>1
    <3>3. own \o back = back
      BY <2>4, <3>2, ConcatEmptySeq
    <3>4. ASSUME back # <<>>
          PROVE  FALSE
      <4>1. 1 \in 1..Len(back)
        <5>1. Len(back) # 0
          BY <2>4, <3>4, EmptySeq
        <5> QED BY <2>6, <5>1
      <4>2. text[Len(front) + 1] = back[1]
        BY <2>7, <3>3, <4>1
      <4>3. (text \o port)[Len(front) + 1] = text[Len(front) + 1]
        <5>1. Len(front) + 1 \in 1..Len(text)
          BY <2>6, <2>7, <3>3, <4>1
        <5> QED BY <2>8, <5>1
      <4>4. (front \o (port \o back))[Len(front) + 1] = (port \o back)[1]
        <5>1. 1 \in 1..Len(port \o back)
          BY <2>1, <2>6 DEF port
        <5> QED BY <2>7, <5>1
      <4>5. (port \o back)[1] = port[1]
        <5>1. 1 \in 1..Len(port)
          BY <2>1 DEF port
        <5> QED BY <2>4, <5>1, ConcatParts
      <4>6. port[1] = ":"
        BY <2>1 DEF port
      <4> QED BY <2>3, <2>10, <3>4, <4>2, <4>3, <4>4, <4>5, <4>6
    <3> QED BY <3>2, <3>4
  <2>11. text \o port = front \o (port \o back) <=> parts.port = 0 /\ back = <<>>
    BY <2>9, <2>10
  <2>12. Text(parts) = text
    BY <2>2, <2>5, Zenon DEF text
  <2>13. (back = <<>> <=> parts.path = <<>> /\ parts.search = <<>>)
    BY <2>3
  <2> QED BY <2>4, <2>11, <2>12, <2>13, Zenon DEF port
<1>2. IInv => ServiceIsHostAndPort
  <2> SUFFICES ASSUME IInv, transport.kind = "http"
               PROVE  transport.address = Written(uri, numbered(conn.port))
                         <=> uri.port = 0 /\ uri.path = <<>> /\ uri.search = <<>>
    BY DEF ServiceIsHostAndPort
  <2>1. uri.protocol \in HttpProtocols /\ transport.address = serviceUrl(conn)
    <3>1. transport # NoTransport
      BY DEF NoTransport
    <3>2. transport.kind \notin {"udp", "unix"}
      OBVIOUS
    <3> QED BY <3>1, <3>2 DEF IInv, Made
  <2>2. uri # NoUri
    <3>1. <<"http">> # <<>> /\ <<"https">> # <<>> /\ NoUri.protocol = <<>>
      BY DEF NoUri
    <3> QED BY <2>1, <3>1 DEF HttpProtocols
  <2>3. uri \in UriParts /\ conn.host = Text(uri) /\ conn.port \in Ports
    BY <2>2 DEF IInv, Asked
  <2>4. transport.address = Text(uri) \o numbered(conn.port)
    BY <2>1, <2>3, Zenon DEF serviceUrl
  <2> QED BY <1>1, <2>3, <2>4, Zenon
<1> QED BY <1>2, Invariance, PTL
=============================================================================
