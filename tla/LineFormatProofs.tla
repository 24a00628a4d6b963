-------------------------- MODULE LineFormatProofs --------------------------
(***************************************************************************)
(* Theorems about LineFormat, for texts of any length and characters: a    *)
(* line is read back as its point exactly under the conditions stated.     *)
(***************************************************************************)
EXTENDS LineFormat, Induction, SequenceTheorems, FiniteSetTheorems

-----------------------------------------------------------------------------
(* The server's reader.                                                    *)

Chars == STRING \union {"\\", "\"", ",", "=", " ", "54", "1", "nan"}

String == Seq(Chars)

Parts == {"measurement", "tagKey", "tagValue", "fieldKey", "fieldValue",
          "fieldValue", "quoted", "closed", "time", "wrong"}

Readers ==
    [at : Parts, back : BOOLEAN, text : String, key : String,
     measurement : String, tags : Seq(String \X String),
     fields : Seq(String \X String \X BOOLEAN)]

LEMMA LeadsToParts ==
    ASSUME NEW part, NEW c, LeadsTo(part, c) # "nothing"
    PROVE  LeadsTo(part, c) \in Parts
<1> QED BY DEF LeadsTo, Parts

LEMMA TakeType ==
    ASSUME NEW r \in Readers, NEW c \in Chars, NEW characters
    PROVE  Take(r, c, characters) \in Readers
<1>1. r.text \in String /\ r.at \in Parts
  BY DEF Readers
<1>2. Append(r.text, c) \in String
  BY <1>1, AppendProperties DEF String
<1>3. Front(r.text) \in String
  <2>1. Len(r.text) \in Nat
    BY <1>1, LenProperties DEF String
  <2>2. \A i \in 1..(Len(r.text) - 1) : r.text[i] \in Chars
    BY <1>1, <2>1, ElementOfSeq DEF String
  <2>3. SubSeq(r.text, 1, Len(r.text) - 1) \in Seq(Chars)
    BY <2>1, <2>2, SubSeqProperties
  <2> QED BY <2>3 DEF Front, String
<1>4. Append(Front(r.text), c) \in String
  BY <1>3, AppendProperties DEF String
<1>5. (c = "\\") \in BOOLEAN
  OBVIOUS
<1> HIDE DEF String, Parts
<1> QED BY <1>2, <1>4, <1>5 DEF Take, Readers

LEMMA ClosedType ==
    ASSUME NEW r \in Readers, NEW part \in Parts
    PROVE  Closed(r, part) \in Readers /\ Wrong(r) \in Readers
<1>1. /\ r.text \in String /\ r.key \in String /\ r.measurement \in String
      /\ r.tags \in Seq(String \X String)
      /\ r.fields \in Seq(String \X String \X BOOLEAN)
      /\ r.at \in Parts
  BY DEF Readers
<1>2. <<>> \in String
  BY EmptySeq DEF String
<1>3. Append(r.tags, <<r.key, r.text>>) \in Seq(String \X String)
  <2>1. <<r.key, r.text>> \in String \X String
    BY <1>1
  <2> QED BY <1>1, <2>1, AppendProperties
<1>4. Append(r.fields, <<r.key, r.text, r.at = "closed">>)
          \in Seq(String \X String \X BOOLEAN)
  <2>1. <<r.key, r.text, r.at = "closed">> \in String \X String \X BOOLEAN
    BY <1>1
  <2> QED BY <1>1, <2>1, AppendProperties
<1>5. Wrong(r) \in Readers
  BY DEF Wrong, Readers, Parts
<1> HIDE DEF String, Parts
<1> QED BY <1>1, <1>2, <1>3, <1>4, <1>5 DEF Closed, Readers

LEMMA ReadCharacterType ==
    ASSUME NEW r \in Readers, NEW c \in Chars
    PROVE  ReadCharacter(r, c) \in Readers
<1>1. Wrong(r) \in Readers
  BY ClosedType DEF Parts
<1>2. ReadQuoted(r, c) \in Readers
  <2>1. [r EXCEPT !.at = "closed"] \in Readers /\ [r EXCEPT !.back = FALSE] \in Readers
    BY DEF Readers, Parts
  <2> QED BY <2>1, TakeType DEF ReadQuoted
<1>3. ReadValue(r, c) \in Readers
  <2>1. [r EXCEPT !.at = "quoted"] \in Readers
    BY DEF Readers, Parts
  <2>2. Take(r, c, {}) \in Readers
    BY TakeType
  <2> QED BY <1>1, <2>1, <2>2 DEF ReadValue
<1>4. LeadsTo(r.at, c) # "nothing" => Closed(r, LeadsTo(r.at, c)) \in Readers
  BY LeadsToParts, ClosedType
<1>5. Take(r, c, Escaped(r.at)) \in Readers
  BY TakeType
<1> QED BY <1>1, <1>2, <1>3, <1>4, <1>5 DEF ReadCharacter

LEMMA StartType == Start \in Readers
<1>1. <<>> \in String /\ <<>> \in Seq(String \X String)
      /\ <<>> \in Seq(String \X String \X BOOLEAN)
  BY EmptySeq DEF String
<1> QED BY <1>1 DEF Start, Readers, Parts

-----------------------------------------------------------------------------
(* Reading many characters.                                                *)

\* The readers in front of and behind each character of a line.
IsReading(h, r, line) ==
    /\ h \in [0..Len(line) -> Readers]
    /\ h[0] = r
    /\ \A i \in 1..Len(line) : h[i] = ReadCharacter(h[i - 1], line[i])

LEMMA ReadDefined ==
    ASSUME NEW r \in Readers, NEW line \in String
    PROVE  \E h : IsReading(h, r, line) /\ ReadFrom(r, line) = h[Len(line)]
<1> DEFINE N == Len(line)
           step == [p \in Nat \X Readers |->
                       IF p[1] < N THEN ReadCharacter(p[2], line[p[1] + 1])
                                   ELSE p[2]]
<1>1. N \in Nat /\ \A i \in 1..N : line[i] \in Chars
  BY LenProperties, ElementOfSeq DEF String
<1>2. step \in [Nat \X Readers -> Readers]
  <2>1. ASSUME NEW p \in Nat \X Readers
        PROVE  (IF p[1] < N THEN ReadCharacter(p[2], line[p[1] + 1])
                            ELSE p[2]) \in Readers
    <3>1. p[1] \in Nat /\ p[2] \in Readers
      OBVIOUS
    <3>2. CASE p[1] < N
      <4>1. p[1] + 1 \in 1..N
        BY <1>1, <3>1, <3>2
      <4>2. line[p[1] + 1] \in Chars
        BY <1>1, <4>1
      <4>3. ReadCharacter(p[2], line[p[1] + 1]) \in Readers
        BY <3>1, <4>2, ReadCharacterType
      <4> QED BY <3>2, <4>3
    <3>3. CASE ~(p[1] < N)
      BY <3>1, <3>3
    <3> QED BY <3>2, <3>3
  <2> QED BY <2>1
<1>3. \A n \in Nat, q \in Readers :
          n < N => step[<<n, q>>] = ReadCharacter(q, line[n + 1])
  <2>1. ASSUME NEW n \in Nat, NEW q \in Readers, n < N
        PROVE  step[<<n, q>>] = ReadCharacter(q, line[n + 1])
    <3>1. <<n, q>> \in Nat \X Readers /\ <<n, q>>[1] = n /\ <<n, q>>[2] = q
      OBVIOUS
    <3>2. step[<<n, q>>] =
              IF <<n, q>>[1] < N THEN ReadCharacter(<<n, q>>[2], line[<<n, q>>[1] + 1])
                                 ELSE <<n, q>>[2]
      BY <3>1
    <3> HIDE DEF step, N
    <3> QED BY <2>1, <3>1, <3>2
  <2> QED BY <2>1
<1> HIDE DEF step, N
<1>4. PICK g : g \in Steps(N, Readers, r, step)
  BY <1>1, <1>2, StepsExist
<1>5. /\ g \in [0..N -> Readers] /\ g[0] = r
      /\ \A i \in 0..(N - 1) : g[i + 1] = step[<<i, g[i]>>]
  BY <1>4 DEF Steps
<1>6. ASSUME NEW i \in 1..N
      PROVE  g[i] = ReadCharacter(g[i - 1], line[i])
  <2>1. i - 1 \in 0..(N - 1) /\ i - 1 \in Nat /\ i - 1 < N /\ i - 1 + 1 = i
    BY <1>1
  <2>2. g[i - 1] \in Readers
    BY <1>1, <1>5, <2>1
  <2>3. g[i - 1 + 1] = step[<<i - 1, g[i - 1]>>]
    BY <1>5, <2>1
  <2>4. step[<<i - 1, g[i - 1]>>] = ReadCharacter(g[i - 1], line[i - 1 + 1])
    BY <1>3, <2>1, <2>2
  <2> QED BY <2>1, <2>3, <2>4
<1> DEFINE IsRead(h) == h = [n \in 0..N |->
                               IF n = 0 THEN r ELSE ReadCharacter(h[n - 1], line[n])]
<1>7. IsRead(g)
  <2>1. g = [n \in 0..N |-> g[n]]
    BY <1>5
  <2>2. \A n \in 0..N : g[n] = IF n = 0 THEN r ELSE ReadCharacter(g[n - 1], line[n])
    <3>1. \A n \in 0..N : n # 0 => n \in 1..N
      BY <1>1
    <3> QED BY <1>5, <1>6, <3>1
  <2> QED BY <2>1, <2>2
<1>8. ReadFrom(r, line) = (CHOOSE h : IsRead(h))[N]
  BY DEF ReadFrom, N
<1> DEFINE k == CHOOSE h : IsRead(h)
<1>9. IsRead(k)
  <2> HIDE DEF IsRead
  <2> QED BY <1>7
<1> HIDE DEF k
<1>10. k = [n \in 0..N |-> k[n]]
  BY <1>9
<1>11. \A n \in 0..N : k[n] = IF n = 0 THEN r ELSE ReadCharacter(k[n - 1], line[n])
  BY <1>9
<1> HIDE DEF IsRead
<1>12. k[0] = r /\ \A n \in 1..N : k[n] = ReadCharacter(k[n - 1], line[n])
  <2>1. 0 \in 0..N /\ \A n \in 1..N : n \in 0..N /\ n # 0
    BY <1>1
  <2> QED BY <1>11, <2>1
<1>13. \A n \in 0..N : k[n] \in Readers
  <2> DEFINE T == {n \in Nat : n <= N => k[n] \in Readers}
  <2>1. 0 \in T
    BY <1>12
  <2>2. ASSUME NEW n \in Nat, n \in T
        PROVE  n + 1 \in T
    <3>1. PICK m \in Nat : m = n + 1
      OBVIOUS
    <3> SUFFICES ASSUME m <= N
                 PROVE  k[m] \in Readers
      BY <3>1
    <3>2. m \in 1..N /\ m - 1 = n /\ n <= N
      BY <1>1, <3>1
    <3>3. k[n] \in Readers /\ line[m] \in Chars
      BY <1>1, <2>2, <3>2
    <3>4. k[m] = ReadCharacter(k[m - 1], line[m])
      BY <1>12, <3>2
    <3> QED BY <3>2, <3>3, <3>4, ReadCharacterType
  <2> HIDE DEF T
  <2>3. Nat \subseteq T
    BY <2>1, <2>2, SetInduction
  <2> QED BY <2>3 DEF T
<1>14. k \in [0..N -> Readers]
  BY <1>10, <1>13
<1>15. IsReading(k, r, line)
  BY <1>12, <1>14 DEF IsReading, N
<1> QED BY <1>8, <1>15 DEF k, N

\* Reading nothing, and one character more.
LEMMA ReadAppend ==
    ASSUME NEW r \in Readers, NEW line \in String, NEW c \in Chars
    PROVE  /\ ReadFrom(r, <<>>) = r
           /\ ReadFrom(r, line) \in Readers
           /\ ReadFrom(r, Append(line, c)) = ReadCharacter(ReadFrom(r, line), c)
<1>1. <<>> \in String /\ Len(<<>>) = 0
  BY EmptySeq DEF String
<1>2. PICK g : IsReading(g, r, <<>>) /\ ReadFrom(r, <<>>) = g[Len(<<>>)]
  BY <1>1, ReadDefined
<1>3. ReadFrom(r, <<>>) = r
  BY <1>1, <1>2 DEF IsReading
<1>4. PICK h : IsReading(h, r, line) /\ ReadFrom(r, line) = h[Len(line)]
  BY ReadDefined
<1> DEFINE more == Append(line, c)
<1>5. /\ more \in String /\ Len(line) \in Nat /\ Len(more) = Len(line) + 1
      /\ \A i \in 1..Len(line) : more[i] = line[i]
      /\ more[Len(line) + 1] = c
  BY AppendProperties, LenProperties DEF String
<1> HIDE DEF more
<1>6. PICK k : IsReading(k, r, more) /\ ReadFrom(r, more) = k[Len(more)]
  BY <1>5, ReadDefined
<1> DEFINE E == {n \in Nat : n <= Len(line) => h[n] = k[n]}
<1>7. 0 \in E
  BY <1>4, <1>6 DEF IsReading
<1>8. ASSUME NEW n \in Nat, n \in E
      PROVE  n + 1 \in E
  <2>1. PICK m \in Nat : m = n + 1
    OBVIOUS
  <2> SUFFICES ASSUME m <= Len(line)
               PROVE  h[m] = k[m]
    BY <2>1
  <2>2. /\ m \in 1..Len(line) /\ m \in 1..Len(more) /\ m - 1 = n
        /\ n <= Len(line)
    BY <1>5, <2>1
  <2>3. h[n] = k[n] /\ more[m] = line[m]
    BY <1>5, <1>8, <2>2
  <2>4. /\ h[m] = ReadCharacter(h[m - 1], line[m])
        /\ k[m] = ReadCharacter(k[m - 1], more[m])
    BY <1>4, <1>6, <2>2 DEF IsReading
  <2> QED BY <2>2, <2>3, <2>4
<1> HIDE DEF E
<1>9. Nat \subseteq E
  BY <1>7, <1>8, SetInduction
<1>10. h[Len(line)] = k[Len(line)]
  BY <1>5, <1>9 DEF E
<1>11. h[Len(line)] \in Readers
  BY <1>4, <1>5 DEF IsReading
<1>12. PICK m \in Nat : m = Len(line) + 1
  BY <1>5
<1>13. m \in 1..Len(more) /\ m - 1 = Len(line) /\ m = Len(more) /\ more[m] = c
  BY <1>5, <1>12
<1>14. k[m] = ReadCharacter(k[m - 1], more[m])
  BY <1>6, <1>13 DEF IsReading
<1>15. ReadFrom(r, more) = ReadCharacter(ReadFrom(r, line), c)
  BY <1>4, <1>6, <1>10, <1>13, <1>14
<1> QED BY <1>3, <1>4, <1>11, <1>15 DEF more

\* Reading one text and then another.
LEMMA ReadConcat ==
    ASSUME NEW r \in Readers, NEW line \in String, NEW next \in String
    PROVE  /\ ReadFrom(r, line) \in Readers
           /\ ReadFrom(r, line \o next) = ReadFrom(ReadFrom(r, line), next)
<1> DEFINE P == {s \in String :
                   ReadFrom(r, line \o s) = ReadFrom(ReadFrom(r, line), s)}
<1>1. PICK c : c \in Chars
  BY DEF Chars
<1>2. ReadFrom(r, line) \in Readers
  BY <1>1, ReadAppend
<1>3. <<>> \in P
  <2>1. line \o <<>> = line /\ <<>> \in String
    BY ConcatEmptySeq, EmptySeq DEF String
  <2> QED BY <1>1, <1>2, <2>1, ReadAppend
<1>4. ASSUME NEW s \in Seq(Chars), NEW e \in Chars, s \in P
      PROVE  Append(s, e) \in P
  <2>1. s \in String /\ Append(s, e) \in String /\ line \o s \in String
    BY AppendProperties, ConcatProperties DEF String
  <2>2. line \o Append(s, e) = Append(line \o s, e)
    BY ConcatAppend DEF String
  <2>3. /\ ReadFrom(r, Append(line \o s, e)) = ReadCharacter(ReadFrom(r, line \o s), e)
        /\ ReadFrom(ReadFrom(r, line), Append(s, e))
               = ReadCharacter(ReadFrom(ReadFrom(r, line), s), e)
    BY <1>2, <2>1, ReadAppend
  <2> QED BY <1>4, <2>1, <2>2, <2>3
<1> HIDE DEF P
<1>5. Seq(Chars) \subseteq P
  BY <1>3, <1>4, SequenceInduction
<1> QED BY <1>2, <1>5 DEF P, String

-----------------------------------------------------------------------------
(* Escaping.                                                               *)

\* A sequence that goes one element beyond another.
LEMMA OneMore ==
    ASSUME NEW R, NEW u \in Seq(R), NEW v \in Seq(R), Len(v) = Len(u) + 1,
           \A i \in 1..Len(u) : v[i] = u[i]
    PROVE  v = Append(u, v[Len(u) + 1])
<1>1. Len(u) \in Nat
  BY LenProperties
<1>2. v[Len(u) + 1] \in R
  <2>1. Len(u) + 1 \in 1..Len(v)
    BY <1>1
  <2> QED BY <2>1, ElementOfSeq
<1> DEFINE w == Append(u, v[Len(u) + 1])
<1>3. /\ w \in Seq(R) /\ Len(w) = Len(u) + 1 /\ w[Len(u) + 1] = v[Len(u) + 1]
      /\ \A i \in 1..Len(u) : w[i] = u[i]
  BY <1>2, AppendProperties
<1> HIDE DEF w
<1>4. \A i \in 1..Len(v) : v[i] = w[i]
  <2>1. \A i \in 1..Len(v) : i \in 1..Len(u) \/ i = Len(u) + 1
    BY <1>1
  <2> QED BY <1>3, <2>1
<1>5. v = w
  BY <1>3, <1>4, SeqEqual
<1> QED BY <1>5 DEF w

LEMMA FrontAppend ==
    ASSUME NEW S, NEW s \in Seq(S), NEW e \in S
    PROVE  Front(Append(s, e)) = s /\ Last(Append(s, e)) = e
<1> DEFINE t == Append(s, e)
<1>1. /\ t \in Seq(S) /\ Len(s) \in Nat /\ Len(t) = Len(s) + 1
      /\ \A i \in 1..Len(s) : t[i] = s[i]
      /\ t[Len(s) + 1] = e
  BY AppendProperties, LenProperties
<1> HIDE DEF t
<1>2. \A i \in 1..Len(s) : t[i] \in S
  BY <1>1, ElementOfSeq
<1> DEFINE n == Len(t) - 1
           f == SubSeq(t, 1, n)
<1>3. n = Len(s)
  BY <1>1
<1> HIDE DEF n
<1>4. /\ f \in Seq(S)
      /\ Len(f) = IF 1 <= n THEN n - 1 + 1 ELSE 0
      /\ \A i \in 1..(n - 1 + 1) : f[i] = t[1 + i - 1]
  BY <1>1, <1>2, <1>3, SubSeqProperties
<1> HIDE DEF f
<1>5. Len(f) = Len(s)
  BY <1>1, <1>3, <1>4
<1>6. \A i \in 1..Len(s) : f[i] = s[i]
  <2>1. ASSUME NEW i \in 1..Len(s)
        PROVE  f[i] = s[i]
    <3>1. i \in 1..(n - 1 + 1) /\ 1 + i - 1 = i
      BY <1>1, <1>3
    <3> QED BY <1>1, <1>4, <3>1
  <2> QED BY <2>1
<1>7. f = s
  BY <1>4, <1>5, <1>6, SeqEqual
<1> QED BY <1>1, <1>7 DEF Front, Last, f, n, t

\* What is written of one character.
Written(c, characters) == IF c \in characters THEN <<"\\", c>> ELSE <<c>>

LEMMA WrittenType ==
    ASSUME NEW c \in Chars, NEW characters
    PROVE  /\ Written(c, characters) \in String
           /\ <<c>> \in String /\ <<>> \in String
           /\ <<"\\">> \in String
           /\ "\\" \in Chars
           /\ <<c>> = Append(<<>>, c)
           /\ <<"\\", c>> = Append(Append(<<>>, "\\"), c)
           /\ <<"\\", c>> = <<"\\">> \o <<c>>
<1>1. "\\" \in Chars
  BY DEF Chars
<1>2. <<c>> \in String /\ <<"\\">> \in String /\ <<"\\", c>> \in String /\ <<>> \in String
  BY <1>1 DEF String
<1> QED BY <1>1, <1>2 DEF Written

LEMMA EscapeAppend ==
    ASSUME NEW t \in String, NEW c \in Chars, NEW characters
    PROVE  /\ escape(<<>>, characters) = <<>>
           /\ escape(t, characters) \in String
           /\ escape(Append(t, c), characters)
                  = escape(t, characters) \o Written(c, characters)
<1> DEFINE pieces(s) == [i \in DOMAIN s |-> Written(s[i], characters)]
           more == Append(t, c)
<1>1. \A s \in String : pieces(s) \in Seq(String) /\ Len(pieces(s)) = Len(s)
  <2>1. ASSUME NEW s \in String
        PROVE  pieces(s) \in Seq(String) /\ Len(pieces(s)) = Len(s)
    <3>1. DOMAIN s = 1..Len(s) /\ Len(s) \in Nat /\ \A i \in 1..Len(s) : s[i] \in Chars
      BY LenProperties, ElementOfSeq DEF String
    <3>2. \A i \in 1..Len(s) : Written(s[i], characters) \in String
      BY <3>1, WrittenType
    <3>3. pieces(s) \in [1..Len(s) -> String]
      BY <3>1, <3>2
    <3> HIDE DEF String
    <3> QED BY <3>1, <3>3
  <2> QED BY <2>1
<1>2. \A s \in String : escape(s, characters) = FlattenSeq(pieces(s))
  BY DEF escape, Written
<1>3. /\ more \in String /\ Len(t) \in Nat /\ Len(more) = Len(t) + 1
      /\ \A i \in 1..Len(t) : more[i] = t[i]
      /\ more[Len(t) + 1] = c
      /\ DOMAIN t = 1..Len(t) /\ DOMAIN more = 1..Len(more)
  BY AppendProperties, LenProperties DEF String
<1> HIDE DEF more
<1>4. /\ \A i \in 1..Len(t) : pieces(more)[i] = pieces(t)[i]
      /\ pieces(more)[Len(t) + 1] = Written(c, characters)
  BY <1>3
<1>5. <<>> \in String /\ pieces(<<>>) = <<>>
  BY EmptySeq DEF String
<1> HIDE DEF pieces
<1>6. pieces(more) = Append(pieces(t), Written(c, characters))
  BY <1>1, <1>3, <1>4, OneMore
<1>7. escape(<<>>, characters) = <<>>
  BY <1>2, <1>5, FlattenEmpty
<1>8. pieces(t) \in Seq(Seq(Chars)) /\ Written(c, characters) \in Seq(Chars)
  BY <1>1, WrittenType DEF String
<1>9. /\ FlattenSeq(pieces(t)) \in String
      /\ FlattenSeq(pieces(more)) = FlattenSeq(pieces(t)) \o Written(c, characters)
  BY <1>6, <1>8, FlattenAppend DEF String
<1> QED BY <1>2, <1>3, <1>7, <1>9 DEF more

LEMMA EscapeType ==
    ASSUME NEW t \in String, NEW characters
    PROVE  escape(t, characters) \in String
<1>1. "\\" \in Chars
  BY DEF Chars
<1> QED BY <1>1, EscapeAppend

\* None of these characters is in this text.
IsPlain(t, characters) == \A i \in 1..Len(t) : t[i] \notin characters

LEMMA PlainAppend ==
    ASSUME NEW S, NEW t \in Seq(S), NEW c \in S, NEW characters
    PROVE  IsPlain(Append(t, c), characters)
               <=> IsPlain(t, characters) /\ c \notin characters
<1> DEFINE more == Append(t, c)
<1>1. /\ Len(t) \in Nat /\ Len(more) = Len(t) + 1
      /\ \A i \in 1..Len(t) : more[i] = t[i]
      /\ more[Len(t) + 1] = c
  BY AppendProperties, LenProperties
<1> HIDE DEF more
<1>2. /\ \A i \in 1..Len(more) : i \in 1..Len(t) \/ i = Len(t) + 1
      /\ \A i \in 1..Len(t) : i \in 1..Len(more)
      /\ Len(t) + 1 \in 1..Len(more)
  BY <1>1
<1>3. IsPlain(more, characters) <=> IsPlain(t, characters) /\ c \notin characters
  BY <1>1, <1>2 DEF IsPlain
<1> QED BY <1>3 DEF more

\* A text without characters to escape is written as it is.
LEMMA EscapePlain ==
    ASSUME NEW t \in String, NEW characters, IsPlain(t, characters)
    PROVE  escape(t, characters) = t
<1> DEFINE P == {s \in String : IsPlain(s, characters) => escape(s, characters) = s}
<1>1. <<>> \in P
  <2>1. <<>> \in String /\ "\\" \in Chars
    BY EmptySeq DEF String, Chars
  <2> QED BY <2>1, EscapeAppend
<1>2. ASSUME NEW s \in Seq(Chars), NEW e \in Chars, s \in P
      PROVE  Append(s, e) \in P
  <2>1. s \in String /\ Append(s, e) \in String
    BY AppendProperties DEF String
  <2>2. SUFFICES ASSUME IsPlain(Append(s, e), characters)
                 PROVE  escape(Append(s, e), characters) = Append(s, e)
    BY <2>1
  <2>3. IsPlain(s, characters) /\ e \notin characters
    BY <2>2, PlainAppend
  <2>4. escape(s, characters) = s
    BY <1>2, <2>3
  <2>5. Written(e, characters) = <<e>>
    BY <2>3 DEF Written
  <2> HIDE DEF P
  <2>6. escape(Append(s, e), characters) = escape(s, characters) \o Written(e, characters)
    BY <2>1, EscapeAppend
  <2>7. Append(s, e) = s \o <<e>>
    BY AppendIsConcat
  <2> QED BY <2>4, <2>5, <2>6, <2>7
<1> HIDE DEF P
<1>3. Seq(Chars) \subseteq P
  BY <1>1, <1>2, SequenceInduction
<1> QED BY <1>3 DEF P, String

LEMMA Associative ==
    ASSUME NEW s \in String, NEW t \in String, NEW u \in String
    PROVE  (s \o t) \o u = s \o (t \o u)
<1> QED BY ConcatAssociative DEF String

LEMMA ConcatNonempty ==
    ASSUME NEW s \in String, NEW t \in String, s # <<>> \/ t # <<>>
    PROVE  s \o t # <<>>
<1> QED BY ConcatEqualIffEmpty DEF String

\* Texts one behind the other.
LEMMA Concatenation ==
    /\ <<>> \in String
    /\ \A s \in String : s \o <<>> = s /\ <<>> \o s = s
    /\ \A s, t \in String : s \o t \in String /\ Len(s \o t) = Len(s) + Len(t)
    /\ \A s, t, u \in String : (s \o t) \o u = s \o (t \o u)
    /\ \A s, t, u \in String : s \o t = s \o u => t = u
<1>1. <<>> \in String
  BY EmptySeq DEF String
<1>2. \A s \in String : s \o <<>> = s /\ <<>> \o s = s
  BY ConcatEmptySeq DEF String
<1>3. \A s, t \in String : s \o t \in String /\ Len(s \o t) = Len(s) + Len(t)
  BY ConcatProperties DEF String
<1>4. \A s, t, u \in String : (s \o t) \o u = s \o (t \o u)
  BY Associative
<1>5. \A s, t, u \in String : s \o t = s \o u => t = u
  BY ConcatSimplifications DEF String
<1> QED BY <1>1, <1>2, <1>3, <1>4, <1>5, Zenon

\* When a text goes on like its escaped form, there was nothing to escape.
LEMMA EscapeUnlike ==
    ASSUME NEW t \in String, NEW characters, "\\" \notin characters,
           NEW x \in String, NEW y \in String,
           escape(t, characters) \o x = t \o y
    PROVE  IsPlain(t, characters) /\ x = y
<1> DEFINE P == {s \in String : \A v, w \in String :
                   escape(s, characters) \o v = s \o w
                       => IsPlain(s, characters) /\ v = w}
<1>1. <<>> \in P
  <2>1. <<>> \in String /\ "\\" \in Chars /\ Len(<<>>) = 0
    BY EmptySeq DEF String, Chars
  <2>2. escape(<<>>, characters) = <<>>
    BY <2>1, EscapeAppend
  <2>3. \A v \in String : <<>> \o v = v
    BY ConcatEmptySeq DEF String
  <2>4. IsPlain(<<>>, characters)
    BY <2>1 DEF IsPlain
  <2> QED BY <2>1, <2>2, <2>3, <2>4
<1>2. ASSUME NEW s \in Seq(Chars), NEW e \in Chars, s \in P
      PROVE  Append(s, e) \in P
  <2>1. s \in String /\ Append(s, e) \in String /\ Append(s, e) = s \o <<e>>
    BY AppendProperties, AppendIsConcat DEF String
  <2>2. SUFFICES ASSUME NEW v \in String, NEW w \in String,
                        escape(Append(s, e), characters) \o v = Append(s, e) \o w
                 PROVE  IsPlain(Append(s, e), characters) /\ v = w
    BY <2>1
  <2>3. \A a, b \in String : escape(s, characters) \o a = s \o b
                                 => IsPlain(s, characters) /\ a = b
    BY <1>2
  <2> HIDE DEF P
  <2> DEFINE k == Written(e, characters)
             q == escape(s, characters)
  <2>4. /\ k \in String /\ <<e>> \in String /\ q \in String
        /\ escape(Append(s, e), characters) = q \o k
    BY <2>1, WrittenType, EscapeAppend
  <2> HIDE DEF k, q
  <2>5. (q \o k) \o v = (s \o <<e>>) \o w
    BY <2>1, <2>2, <2>4
  <2>6. q \o (k \o v) = s \o (<<e>> \o w)
    <3>1. (q \o k) \o v = q \o (k \o v)
      <4>1. q \in String /\ k \in String
        BY <2>4
      <4> QED BY <4>1, Associative
    <3>2. (s \o <<e>>) \o w = s \o (<<e>> \o w)
      BY <2>1, <2>4, Associative
    <3> QED BY <2>5, <3>1, <3>2
  <2>7. k \o v \in String /\ <<e>> \o w \in String
    BY <2>4, ConcatProperties DEF String
  <2>8. IsPlain(s, characters) /\ k \o v = <<e>> \o w
    BY <2>3, <2>6, <2>7 DEF q
  <2>9. e \notin characters
    <3> SUFFICES ASSUME e \in characters
                 PROVE  FALSE
      OBVIOUS
    <3>1. k = <<"\\", e>>
      BY DEF k, Written
    <3>2. Len(<<"\\", e>>) = 2 /\ Len(<<e>>) = 1 /\ Len(v) \in Nat /\ Len(w) \in Nat
      BY LenProperties DEF String
    <3>3. (k \o v)[1] = "\\"
      BY <2>4, <3>1, <3>2, ConcatProperties DEF String
    <3>4. (<<e>> \o w)[1] = e
      BY <2>4, <3>2, ConcatProperties DEF String
    <3> QED BY <2>8, <3>3, <3>4
  <2>10. k = <<e>>
    BY <2>9 DEF k, Written
  <2>11. v = w
    BY <2>4, <2>8, <2>10, ConcatSimplifications DEF String
  <2>12. IsPlain(Append(s, e), characters)
    BY <2>8, <2>9, PlainAppend
  <2> QED BY <2>11, <2>12
<1> HIDE DEF P
<1>3. Seq(Chars) \subseteq P
  BY <1>1, <1>2, SequenceInduction
<1>4. t \in P
  BY <1>3 DEF String
<1> QED BY <1>4 DEF P

-----------------------------------------------------------------------------
(* Reading names.                                                          *)

NameParts == {"measurement", "tagKey", "tagValue", "fieldKey"}

\* Some of these are spelled by more than one operator of the model.
LEMMA EscapedNames ==
    /\ \A part \in NameParts : /\ part \in Parts
                               /\ "\\" \notin Escaped(part)
                               /\ "\n" \notin Escaped(part)
                               /\ "#" \notin Escaped(part)
                               /\ \A c \in Chars : LeadsTo(part, c) # "nothing"
                                                      => c \in Escaped(part)
    /\ Escaped("measurement") = {",", " "}
    /\ Escaped("tagKey") = {",", "=", " "}
    /\ Escaped("tagValue") = {",", "=", " "}
    /\ Escaped("fieldKey") = {",", "=", " "}
<1> QED BY DEF NameParts, Parts, Escaped, LeadsTo

\* Reading one character, and two.
LEMMA ReadOne ==
    ASSUME NEW r \in Readers, NEW c \in Chars, NEW d \in Chars
    PROVE  /\ ReadFrom(r, <<c>>) = ReadCharacter(r, c)
           /\ ReadFrom(r, <<c, d>>) = ReadCharacter(ReadCharacter(r, c), d)
<1>1. \A q \in Readers, e \in Chars : ReadFrom(q, <<e>>) = ReadCharacter(q, e)
  <2>1. ASSUME NEW q \in Readers, NEW e \in Chars
        PROVE  ReadFrom(q, <<e>>) = ReadCharacter(q, e)
    <3>1. <<>> \in String /\ <<e>> = Append(<<>>, e)
      BY WrittenType
    <3>2. /\ ReadFrom(q, Append(<<>>, e)) = ReadCharacter(ReadFrom(q, <<>>), e)
          /\ ReadFrom(q, <<>>) = q
      BY <3>1, ReadAppend
    <3> QED BY <3>1, <3>2, Zenon
  <2> QED BY <2>1
<1>2. <<c>> \in String /\ <<d>> \in String /\ <<c, d>> = <<c>> \o <<d>>
  <2>1. <<c>> \in String /\ <<d>> \in String
    BY DEF String
  <2>2. <<c, d>> = Append(<<c>>, d)
    OBVIOUS
  <2>3. Append(<<c>>, d) = <<c>> \o <<d>>
    BY <2>1, AppendIsConcat DEF String
  <2> QED BY <2>1, <2>2, <2>3
<1>3. /\ ReadFrom(r, <<c>>) \in Readers
      /\ ReadFrom(r, <<c>> \o <<d>>) = ReadFrom(ReadFrom(r, <<c>>), <<d>>)
  BY <1>2, ReadConcat
<1>4. ReadFrom(r, <<c>>) = ReadCharacter(r, c)
  BY <1>1
<1>5. ReadFrom(ReadFrom(r, <<c>>), <<d>>) = ReadCharacter(ReadFrom(r, <<c>>), d)
  BY <1>1, <1>3
<1> QED BY <1>2, <1>3, <1>4, <1>5, Zenon

EndsInBackslash(t) == t # <<>> /\ Last(t) = "\\"

LEMMA ReadNameCharacter ==
    ASSUME NEW r \in Readers, r.at \in NameParts, NEW c \in Chars,
           c # "\n", c = "#" => r # Start
    PROVE  ReadFrom(r, Written(c, Escaped(r.at)))
               = [r EXCEPT !.text = Append(r.text, c), !.back = (c = "\\")]
<1>1. "\\" \in Chars
  BY DEF Chars
<1>2. r.at \notin {"wrong", "quoted", "closed", "time", "fieldValue"}
  BY DEF NameParts
<1>3. CASE c \notin Escaped(r.at)
  <2>1. Written(c, Escaped(r.at)) = <<c>>
    BY <1>3 DEF Written
  <2>2. ReadFrom(r, <<c>>) = ReadCharacter(r, c)
    BY ReadOne
  <2>3. LeadsTo(r.at, c) = "nothing"
    BY <1>3, EscapedNames
  <2>4. ~IsWrong(r, c)
    BY <1>2, <1>3, <2>3 DEF IsWrong
  <2>5. ReadCharacter(r, c) = Take(r, c, Escaped(r.at))
    BY <1>2, <2>3, <2>4 DEF ReadCharacter
  <2>6. Take(r, c, Escaped(r.at))
            = [r EXCEPT !.text = Append(r.text, c), !.back = (c = "\\")]
    BY <1>3 DEF Take
  <2> QED BY <2>1, <2>2, <2>5, <2>6
<1>4. CASE c \in Escaped(r.at)
  <2>1. Written(c, Escaped(r.at)) = <<"\\", c>>
    BY <1>4 DEF Written
  <2>2. "\\" \notin Escaped(r.at) /\ LeadsTo(r.at, "\\") = "nothing"
    BY <1>1, EscapedNames
  <2>3. ~IsWrong(r, "\\")
    BY <1>2, <2>2 DEF IsWrong
  <2> DEFINE q == [r EXCEPT !.text = Append(r.text, "\\"), !.back = TRUE]
  <2>4. ReadCharacter(r, "\\") = Take(r, "\\", Escaped(r.at))
    BY <1>2, <2>2, <2>3 DEF ReadCharacter
  <2>5. Take(r, "\\", Escaped(r.at)) = q
    BY <2>2 DEF Take
  <2>6. ReadCharacter(r, "\\") = q
    BY <2>4, <2>5
  <2>7. ReadFrom(r, <<"\\", c>>) = ReadCharacter(q, c)
    <3>1. ReadFrom(r, <<"\\", c>>) = ReadCharacter(ReadCharacter(r, "\\"), c)
      BY <1>1, ReadOne
    <3> HIDE DEF q
    <3> QED BY <2>6, <3>1
  <2>8. /\ q.at = r.at /\ q.back = TRUE /\ q.text = Append(r.text, "\\")
        /\ r.text \in String /\ q # Start
    BY DEF Readers, Start
  <2>9. c # "#" /\ c # "\\"
    BY <1>4, EscapedNames
  <2>10. IsEscaped(q, c) /\ ~IsWrong(q, c)
    BY <1>2, <1>4, <2>8, <2>9 DEF IsEscaped, IsWrong
  <2>11. ReadCharacter(q, c) = Take(q, c, Escaped(q.at))
    BY <1>2, <2>8, <2>10 DEF ReadCharacter
  <2>12. Front(q.text) = r.text
    BY <1>1, <2>8, FrontAppend DEF String
  <2>13. Take(q, c, Escaped(q.at))
             = [q EXCEPT !.text = Append(r.text, c), !.back = FALSE]
    BY <1>4, <2>8, <2>9, <2>12 DEF Take
  <2>14. [q EXCEPT !.text = Append(r.text, c), !.back = FALSE]
             = [r EXCEPT !.text = Append(r.text, c), !.back = (c = "\\")]
    BY <2>9 DEF Readers
  <2> QED BY <2>1, <2>7, <2>11, <2>13, <2>14
<1> QED BY <1>3, <1>4

\* A text that is written in a name is read back, wherever it is read.
LEMMA ReadText ==
    ASSUME NEW r \in Readers, r.at \in NameParts, r.text = <<>>, ~r.back,
           NEW t \in String, "\n" \notin ToSet(t),
           r = Start => t = <<>> \/ t[1] # "#"
    PROVE  ReadFrom(r, escape(t, Escaped(r.at)))
               = [r EXCEPT !.text = t, !.back = EndsInBackslash(t)]
<1> DEFINE read(s) == [r EXCEPT !.text = s, !.back = EndsInBackslash(s)]
           Fits(s) == IsPlain(s, {"\n"}) /\ (r = Start => s = <<>> \/ s[1] # "#")
           P == {s \in String :
                   Fits(s) => ReadFrom(r, escape(s, Escaped(r.at))) = read(s)}
<1>1. <<>> \in P
  <2>1. <<>> \in String /\ "\\" \in Chars
    BY EmptySeq DEF String, Chars
  <2>2. ReadFrom(r, escape(<<>>, Escaped(r.at))) = r
    BY <2>1, EscapeAppend, ReadAppend
  <2>3. read(<<>>) = r
    BY DEF EndsInBackslash, Readers
  <2> QED BY <2>1, <2>2, <2>3
<1>2. ASSUME NEW s \in Seq(Chars), NEW e \in Chars, s \in P
      PROVE  Append(s, e) \in P
  <2>1. s \in String /\ Append(s, e) \in String
    BY AppendProperties DEF String
  <2>2. SUFFICES ASSUME Fits(Append(s, e))
                 PROVE  ReadFrom(r, escape(Append(s, e), Escaped(r.at)))
                            = read(Append(s, e))
    BY <2>1
  <2>3. Fits(s) => ReadFrom(r, escape(s, Escaped(r.at))) = read(s)
    BY <1>2
  <2> HIDE DEF P
  <2>4. IsPlain(s, {"\n"}) /\ e # "\n"
    BY <2>2, PlainAppend
  <2>5. s # <<>> => Append(s, e)[1] = s[1]
    <3>1. s # <<>> => 1 \in 1..Len(s)
      BY EmptySeq
    <3> QED BY <3>1, AppendProperties
  <2>6. s = <<>> => Append(s, e)[1] = e
    OBVIOUS
  <2>7. Append(s, e) # <<>>
    BY AppendProperties
  <2>8. Fits(s)
    BY <2>2, <2>4, <2>5, <2>7
  <2>9. ReadFrom(r, escape(s, Escaped(r.at))) = read(s)
    BY <2>3, <2>8
  <2>10. /\ read(s) \in Readers /\ read(s).at = r.at
         /\ read(s).text = s
    BY <2>1 DEF Readers, EndsInBackslash
  <2>11. e = "#" => read(s) # Start
    BY <2>2, <2>6, <2>10, <2>7, r.text = <<>>, ~r.back DEF Start, EndsInBackslash, Readers
  <2>12. ReadFrom(read(s), Written(e, Escaped(r.at)))
            = [read(s) EXCEPT !.text = Append(s, e), !.back = (e = "\\")]
    <3>1. PICK q \in Readers : q = read(s)
      BY <2>10
    <3>2. q.at = r.at /\ q.text = s
      BY <2>10, <3>1
    <3> HIDE DEF read
    <3>3. ReadFrom(q, Written(e, Escaped(q.at)))
              = [q EXCEPT !.text = Append(q.text, e), !.back = (e = "\\")]
      BY <2>4, <2>11, <3>1, <3>2, ReadNameCharacter
    <3> QED BY <3>1, <3>2, <3>3
  <2>13. EndsInBackslash(Append(s, e)) = (e = "\\")
    BY <2>7, FrontAppend DEF EndsInBackslash
  <2>14. [read(s) EXCEPT !.text = Append(s, e), !.back = (e = "\\")]
             = read(Append(s, e))
    BY <2>13 DEF Readers
  <2>15. ReadFrom(r, escape(Append(s, e), Escaped(r.at)))
             = ReadFrom(read(s), Written(e, Escaped(r.at)))
    <3>1. escape(s, Escaped(r.at)) \in String /\ Written(e, Escaped(r.at)) \in String
      BY <2>1, EscapeType, WrittenType
    <3>2. escape(Append(s, e), Escaped(r.at))
              = escape(s, Escaped(r.at)) \o Written(e, Escaped(r.at))
      BY <2>1, EscapeAppend
    <3> HIDE DEF read
    <3> QED BY <2>9, <3>1, <3>2, ReadConcat
  <2> QED BY <2>12, <2>14, <2>15
<1>3. Fits(t)
  <2>1. IsPlain(t, {"\n"})
    BY LenProperties DEF IsPlain, ToSet, String
  <2> QED BY <2>1
<1> HIDE DEF P
<1>4. Seq(Chars) \subseteq P
  BY <1>1, <1>2, SequenceInduction
<1>5. t \in P
  BY <1>4 DEF String
<1> QED BY <1>3, <1>5 DEF P

\* A text that a separator behind it ends.
Name == {t \in String : t # <<>> /\ Closes(t)}

LEMMA ReadName ==
    ASSUME NEW r \in Readers, r.at \in NameParts, r.text = <<>>, ~r.back,
           NEW t \in Name, r = Start => t[1] # "#"
    PROVE  ReadFrom(r, escape(t, Escaped(r.at))) = [r EXCEPT !.text = t]
<1>1. /\ t \in String /\ "\n" \notin ToSet(t) /\ EndsInBackslash(t) = FALSE
  BY DEF Name, Closes, EndsInBackslash
<1>2. ReadFrom(r, escape(t, Escaped(r.at)))
          = [r EXCEPT !.text = t, !.back = EndsInBackslash(t)]
  BY <1>1, ReadText
<1>3. [r EXCEPT !.text = t, !.back = FALSE] = [r EXCEPT !.text = t]
  BY DEF Readers
<1> QED BY <1>1, <1>2, <1>3

LEMMA ReadSeparator ==
    ASSUME NEW r \in Readers, ~r.back, NEW c \in Chars,
           r.at \in NameParts \union {"fieldValue", "closed"},
           LeadsTo(r.at, c) # "nothing"
    PROVE  ReadFrom(r, <<c>>) = Closed(r, LeadsTo(r.at, c))
<1>1. ReadFrom(r, <<c>>) = ReadCharacter(r, c)
  BY ReadOne
<1>2. r.at \notin {"wrong", "quoted", "time"} /\ c \in {",", " ", "="}
  BY DEF NameParts, LeadsTo
<1>3. ~IsEscaped(r, c)
  BY DEF IsEscaped
<1>4. ~IsWrong(r, c)
  BY <1>2 DEF IsWrong
<1> QED BY <1>1, <1>2, <1>3, <1>4 DEF ReadCharacter

\* A name and the equals sign behind it.
LEMMA ReadKey ==
    ASSUME NEW r \in Readers, r.at \in {"tagKey", "fieldKey"}, r.text = <<>>,
           ~r.back, NEW k \in Name
    PROVE  ReadFrom(r, escapeKey(k) \o <<"=">>)
               = [r EXCEPT !.key = k,
                           !.at = IF r.at = "tagKey" THEN "tagValue"
                                                     ELSE "fieldValue"]
<1>1. /\ r.at \in NameParts /\ r # Start
      /\ escapeKey(k) = escape(k, Escaped(r.at))
      /\ LeadsTo(r.at, "=") = IF r.at = "tagKey" THEN "tagValue" ELSE "fieldValue"
      /\ "=" \in Chars
  <2>1. Escaped(r.at) = {",", "=", " "}
    BY EscapedNames
  <2>2. escapeKey(k) = escape(k, Escaped(r.at))
    BY <2>1 DEF escapeKey
  <2>3. r.at \in NameParts /\ r # Start /\ "=" \in Chars
    BY DEF NameParts, Start, Chars
  <2>4. LeadsTo(r.at, "=") = IF r.at = "tagKey" THEN "tagValue" ELSE "fieldValue"
    BY DEF LeadsTo
  <2> QED BY <2>2, <2>3, <2>4
<1> DEFINE q == [r EXCEPT !.text = k]
<1>2. ReadFrom(r, escapeKey(k)) = q
  BY <1>1, ReadName
<1>3. k \in String /\ k # <<>>
  BY DEF Name
<1>4. /\ q \in Readers /\ q.at = r.at /\ ~q.back /\ q.text = k
      /\ q.at \in NameParts \union {"fieldValue", "closed"}
      /\ q.at \in {"tagKey", "fieldKey"}
  BY <1>1, <1>3 DEF Readers
<1>5. escapeKey(k) \in String /\ <<"=">> \in String
  BY <1>1, <1>3, EscapeType, WrittenType
<1>6. ReadFrom(r, escapeKey(k) \o <<"=">>) = ReadFrom(q, <<"=">>)
  BY <1>2, <1>5, ReadConcat
<1>7. LeadsTo(q.at, "=") # "nothing" /\ LeadsTo(q.at, "=") = LeadsTo(r.at, "=")
  BY <1>1, <1>4
<1>8. ReadFrom(q, <<"=">>) = Closed(q, LeadsTo(q.at, "="))
  <2> HIDE DEF q
  <2> QED BY <1>1, <1>4, <1>7, ReadSeparator
<1>9. Closed(q, LeadsTo(q.at, "="))
          = [q EXCEPT !.at = LeadsTo(q.at, "="), !.back = FALSE, !.text = <<>>,
                      !.key = k]
  <2> HIDE DEF q
  <2> QED BY <1>3, <1>4 DEF Closed
<1>10. [q EXCEPT !.at = LeadsTo(r.at, "="), !.back = FALSE, !.text = <<>>, !.key = k]
           = [r EXCEPT !.key = k, !.at = LeadsTo(r.at, "=")]
  <2> PICK part : part = LeadsTo(r.at, "=")
    OBVIOUS
  <2> QED BY DEF Readers
<1> QED BY <1>1, <1>6, <1>7, <1>8, <1>9, <1>10

\* The reader behind a tag.
TagRead(r, k, v) == [r EXCEPT !.key = k, !.at = "tagValue", !.text = v]

\* A tag in line protocol, its key and value as they are written.
LEMMA ReadTag ==
    ASSUME NEW r \in Readers, r.at = "tagKey", r.text = <<>>, ~r.back,
           NEW k \in Name, NEW v \in Name
    PROVE  ReadFrom(r, escapeKey(k) \o <<"=">> \o escapeKey(v)) = TagRead(r, k, v)
<1> DEFINE q == [r EXCEPT !.key = k, !.at = "tagValue"]
<1>1. ReadFrom(r, escapeKey(k) \o <<"=">>) = q
  BY ReadKey
<1>2. k \in String /\ v \in String /\ "=" \in Chars
  BY DEF Name, Chars
<1>3. /\ q \in Readers /\ q.at = "tagValue" /\ q.text = <<>> /\ ~q.back
      /\ q.at \in NameParts /\ q # Start
  BY <1>2 DEF Readers, Parts, NameParts, Start
<1>4. escapeKey(v) = escape(v, Escaped(q.at))
  BY <1>3, EscapedNames DEF escapeKey
<1>5. ReadFrom(q, escapeKey(v)) = [q EXCEPT !.text = v]
  <2> HIDE DEF q
  <2> QED BY <1>3, <1>4, ReadName
<1>6. escapeKey(k) \o <<"=">> \in String /\ escapeKey(v) \in String
  <2>1. escapeKey(k) \in String /\ escapeKey(v) \in String /\ <<"=">> \in String
    BY <1>2, EscapeType, WrittenType DEF escapeKey
  <2> QED BY <2>1, Concatenation
<1>7. ReadFrom(r, (escapeKey(k) \o <<"=">>) \o escapeKey(v))
          = ReadFrom(ReadFrom(r, escapeKey(k) \o <<"=">>), escapeKey(v))
  BY <1>6, ReadConcat
<1>8. [q EXCEPT !.text = v] = TagRead(r, k, v)
  BY DEF Readers, TagRead
<1> QED BY <1>1, <1>5, <1>7, <1>8

-----------------------------------------------------------------------------
(* Reading values.                                                         *)

LEMMA ReadQuotedCharacter ==
    ASSUME NEW r \in Readers, r.at = "quoted", ~r.back, NEW c \in Chars
    PROVE  ReadFrom(r, Written(c, {"\\", "\""})) = [r EXCEPT !.text = Append(r.text, c)]
<1>1. "\\" \in Chars /\ r.text \in String
  BY DEF Chars, Readers
<1>2. \A q \in Readers, d \in Chars :
          q.at = "quoted" => ReadCharacter(q, d) = ReadQuoted(q, d)
  BY DEF ReadCharacter
<1>3. CASE c \notin {"\\", "\""}
  <2>1. Written(c, {"\\", "\""}) = <<c>>
    BY <1>3 DEF Written
  <2>2. ReadFrom(r, <<c>>) = ReadQuoted(r, c)
    BY <1>2, ReadOne
  <2>3. ReadQuoted(r, c) = Take(r, c, {"\""})
    BY <1>3 DEF ReadQuoted
  <2>4. Take(r, c, {"\""}) = [r EXCEPT !.text = Append(r.text, c), !.back = FALSE]
    BY <1>3 DEF Take
  <2>5. [r EXCEPT !.text = Append(r.text, c), !.back = FALSE]
            = [r EXCEPT !.text = Append(r.text, c)]
    BY DEF Readers
  <2> QED BY <2>1, <2>2, <2>3, <2>4, <2>5
<1>4. CASE c \in {"\\", "\""}
  <2> DEFINE q == [r EXCEPT !.text = Append(r.text, "\\"), !.back = TRUE]
  <2>1. Written(c, {"\\", "\""}) = <<"\\", c>>
    BY <1>4 DEF Written
  <2>2. ReadFrom(r, <<"\\", c>>) = ReadCharacter(ReadCharacter(r, "\\"), c)
    BY <1>1, ReadOne
  <2>3. ReadCharacter(r, "\\") = q
    <3>1. ReadCharacter(r, "\\") = ReadQuoted(r, "\\")
      BY <1>1, <1>2
    <3>2. ReadQuoted(r, "\\") = Take(r, "\\", {"\""})
      BY DEF ReadQuoted
    <3>3. Take(r, "\\", {"\""}) = q
      BY DEF Take
    <3> QED BY <3>1, <3>2, <3>3
  <2>4. /\ q \in Readers /\ q.at = "quoted" /\ q.back = TRUE
        /\ q.text = Append(r.text, "\\")
    <3>1. Append(r.text, "\\") \in String
      BY <1>1, AppendProperties DEF String
    <3> QED BY <3>1 DEF Readers
  <2>5. ReadCharacter(q, c) = ReadQuoted(q, c)
    BY <1>2, <2>4
  <2>6. CASE c = "\\"
    <3>1. ReadQuoted(q, c) = [q EXCEPT !.back = FALSE]
      BY <2>4, <2>6 DEF ReadQuoted
    <3>2. [q EXCEPT !.back = FALSE] = [r EXCEPT !.text = Append(r.text, c)]
      BY <2>6 DEF Readers
    <3> QED BY <2>1, <2>2, <2>3, <2>5, <3>1, <3>2
  <2>7. CASE c = "\""
    <3>1. ReadQuoted(q, c) = Take(q, c, {"\""})
      BY <2>4, <2>7 DEF ReadQuoted
    <3>2. Front(q.text) = r.text
      BY <1>1, <2>4, FrontAppend DEF String
    <3>3. Take(q, c, {"\""}) = [q EXCEPT !.text = Append(r.text, c), !.back = FALSE]
      BY <2>4, <2>7, <3>2 DEF Take
    <3>4. [q EXCEPT !.text = Append(r.text, c), !.back = FALSE]
              = [r EXCEPT !.text = Append(r.text, c)]
      BY DEF Readers
    <3> QED BY <2>1, <2>2, <2>3, <2>5, <3>1, <3>3, <3>4
  <2> QED BY <1>4, <2>6, <2>7
<1> QED BY <1>3, <1>4

\* Every text is read back between quotes, whatever is in it.
LEMMA ReadQuotedText ==
    ASSUME NEW r \in Readers, r.at = "quoted", r.text = <<>>, ~r.back,
           NEW t \in String
    PROVE  ReadFrom(r, escape(t, {"\\", "\""})) = [r EXCEPT !.text = t]
<1> DEFINE read(s) == [r EXCEPT !.text = s]
           P == {s \in String : ReadFrom(r, escape(s, {"\\", "\""})) = read(s)}
<1>1. <<>> \in P
  <2>1. <<>> \in String /\ "\\" \in Chars
    BY EmptySeq DEF String, Chars
  <2>2. ReadFrom(r, escape(<<>>, {"\\", "\""})) = r
    BY <2>1, EscapeAppend, ReadAppend
  <2>3. read(<<>>) = r
    BY DEF Readers
  <2> QED BY <2>1, <2>2, <2>3
<1>2. ASSUME NEW s \in Seq(Chars), NEW e \in Chars, s \in P
      PROVE  Append(s, e) \in P
  <2>1. s \in String /\ Append(s, e) \in String
    BY AppendProperties DEF String
  <2>2. ReadFrom(r, escape(s, {"\\", "\""})) = read(s)
    BY <1>2
  <2>3. PICK q \in Readers : q = read(s)
    BY <2>1 DEF Readers
  <2>4. q.at = "quoted" /\ ~q.back /\ q.text = s
    BY <2>3 DEF Readers
  <2>5. ReadFrom(q, Written(e, {"\\", "\""})) = [q EXCEPT !.text = Append(s, e)]
    BY <2>4, ReadQuotedCharacter
  <2>6. [q EXCEPT !.text = Append(s, e)] = read(Append(s, e))
    BY <2>3 DEF Readers
  <2> HIDE DEF read, P
  <2>7. /\ escape(s, {"\\", "\""}) \in String /\ Written(e, {"\\", "\""}) \in String
        /\ escape(Append(s, e), {"\\", "\""})
               = escape(s, {"\\", "\""}) \o Written(e, {"\\", "\""})
    BY <2>1, EscapeAppend, WrittenType
  <2>8. ReadFrom(r, escape(Append(s, e), {"\\", "\""})) = read(Append(s, e))
    <3>1. ReadFrom(r, escape(s, {"\\", "\""}) \o Written(e, {"\\", "\""}))
              = ReadFrom(ReadFrom(r, escape(s, {"\\", "\""})), Written(e, {"\\", "\""}))
      BY <2>7, ReadConcat
    <3> QED BY <2>2, <2>3, <2>5, <2>6, <2>7, <3>1
  <2> QED BY <2>1, <2>8 DEF P
<1> HIDE DEF P
<1>3. Seq(Chars) \subseteq P
  BY <1>1, <1>2, SequenceInduction
<1>4. t \in P
  BY <1>3 DEF String
<1> QED BY <1>4 DEF P

\* A text field is read up to the quote that closes it.
LEMMA ReadString ==
    ASSUME NEW r \in Readers, r.at = "fieldValue", r.text = <<>>, ~r.back,
           NEW t \in String
    PROVE  /\ escapeStringValue(t) \in String
           /\ ReadFrom(r, escapeStringValue(t)) = [r EXCEPT !.at = "closed", !.text = t]
<1> DEFINE inside == escape(t, {"\\", "\""})
<1>1. "\"" \in Chars /\ <<"\"">> \in String /\ inside \in String
  <2>1. "\"" \in Chars
    BY DEF Chars
  <2> QED BY <2>1, WrittenType, EscapeType
<1>2. PICK q \in Readers : q = [r EXCEPT !.at = "quoted"]
  BY DEF Readers, Parts
<1>3. q.at = "quoted" /\ q.text = <<>> /\ ~q.back
  BY <1>2 DEF Readers
<1>4. ReadFrom(r, <<"\"">>) = q
  <2>1. LeadsTo(r.at, "\"") = "nothing" /\ ~IsWrong(r, "\"")
    BY DEF LeadsTo, IsWrong, Escaped
  <2>2. ReadCharacter(r, "\"") = ReadValue(r, "\"")
    BY <2>1 DEF ReadCharacter
  <2>3. ReadValue(r, "\"") = q
    BY <1>2 DEF ReadValue
  <2> QED BY <1>1, <2>2, <2>3, ReadOne
<1>5. PICK p \in Readers : p = [q EXCEPT !.text = t]
  BY DEF Readers
<1>6. p.at = "quoted" /\ ~p.back
  BY <1>3, <1>5 DEF Readers
<1>7. ReadFrom(q, inside) = p
  BY <1>3, <1>5, ReadQuotedText
<1>8. ReadFrom(p, <<"\"">>) = [p EXCEPT !.at = "closed"]
  <2>1. ReadCharacter(p, "\"") = ReadQuoted(p, "\"")
    BY <1>6 DEF ReadCharacter
  <2>2. ReadQuoted(p, "\"") = [p EXCEPT !.at = "closed"]
    BY <1>6 DEF ReadQuoted
  <2> QED BY <1>1, <2>1, <2>2, ReadOne
<1>9. [p EXCEPT !.at = "closed"] = [r EXCEPT !.at = "closed", !.text = t]
  BY <1>2, <1>5 DEF Readers
<1> HIDE DEF inside
<1>10. <<"\"">> \o inside \in String
  BY <1>1, Concatenation
<1>11. (<<"\"">> \o inside) \o <<"\"">> \in String
  BY <1>1, <1>10, Concatenation
<1>12. ReadFrom(r, <<"\"">> \o inside) = p
  BY <1>1, <1>4, <1>7, ReadConcat
<1>13. ReadFrom(r, (<<"\"">> \o inside) \o <<"\"">>) = ReadFrom(p, <<"\"">>)
  BY <1>1, <1>10, <1>12, ReadConcat
<1> QED BY <1>8, <1>9, <1>11, <1>13 DEF escapeStringValue, inside

LEMMA ReadNumber ==
    ASSUME NEW r \in Readers, r.at = "fieldValue", r.text = <<>>, ~r.back
    PROVE  /\ <<"1">> \in String
           /\ ReadFrom(r, <<"1">>) = [r EXCEPT !.text = <<"1">>]
<1>1. "1" \in Chars /\ <<"1">> \in String /\ <<"1">> = Append(<<>>, "1")
  <2>1. "1" \in Chars
    BY DEF Chars
  <2> QED BY <2>1, WrittenType
<1>2. LeadsTo(r.at, "1") = "nothing" /\ ~IsWrong(r, "1")
  BY DEF LeadsTo, IsWrong, Escaped
<1>3. ReadCharacter(r, "1") = ReadValue(r, "1")
  BY <1>2 DEF ReadCharacter
<1>4. ReadValue(r, "1") = Take(r, "1", {})
  BY DEF ReadValue
<1>5. Take(r, "1", {}) = [r EXCEPT !.text = Append(<<>>, "1"), !.back = FALSE]
  BY DEF Take
<1>6. [r EXCEPT !.text = Append(<<>>, "1"), !.back = FALSE] = [r EXCEPT !.text = <<"1">>]
  BY <1>1 DEF Readers
<1> QED BY <1>1, <1>3, <1>4, <1>5, <1>6, ReadOne

-----------------------------------------------------------------------------
(* Lists.                                                                  *)

LEMMA JoinedAppend ==
    ASSUME NEW ps \in Seq(String), NEW p \in String
    PROVE  /\ Joined(<<>>) = <<>>
           /\ Joined(ps) \in String
           /\ Joined(Append(ps, p))
                  = IF ps = <<>> THEN p ELSE Joined(ps) \o (<<",">> \o p)
<1> DEFINE at(qs, i) == IF i = 1 THEN qs[i] ELSE <<",">> \o qs[i]
           pieces(qs) == [i \in DOMAIN qs |-> at(qs, i)]
           more == Append(ps, p)
<1>1. <<",">> \in String
  <2>1. "," \in Chars
    BY DEF Chars
  <2> QED BY <2>1, WrittenType
<1>2. \A qs \in Seq(String) : pieces(qs) \in Seq(String) /\ Len(pieces(qs)) = Len(qs)
  <2>1. ASSUME NEW qs \in Seq(String)
        PROVE  pieces(qs) \in Seq(String) /\ Len(pieces(qs)) = Len(qs)
    <3>1. DOMAIN qs = 1..Len(qs) /\ Len(qs) \in Nat /\ \A i \in 1..Len(qs) : qs[i] \in String
      BY LenProperties, ElementOfSeq
    <3>2. \A i \in 1..Len(qs) : at(qs, i) \in String
      BY <1>1, <3>1, Concatenation
    <3> HIDE DEF at
    <3>3. pieces(qs) \in [1..Len(qs) -> String]
      BY <3>1, <3>2
    <3> QED BY <3>1, <3>3
  <2> QED BY <2>1
<1>3. \A qs \in Seq(String) : Joined(qs) = FlattenSeq(pieces(qs))
  BY DEF Joined
<1>4. /\ more \in Seq(String) /\ Len(ps) \in Nat /\ Len(more) = Len(ps) + 1
      /\ \A i \in 1..Len(ps) : more[i] = ps[i]
      /\ more[Len(ps) + 1] = p
      /\ DOMAIN ps = 1..Len(ps) /\ DOMAIN more = 1..Len(more)
  BY AppendProperties, LenProperties
<1> HIDE DEF more
<1> DEFINE new == IF ps = <<>> THEN p ELSE <<",">> \o p
<1>5. new \in String
  BY <1>1, Concatenation
<1>6. ps = <<>> <=> Len(ps) = 0
  BY EmptySeq
<1>7. pieces(more)[Len(ps) + 1] = new
  <2>1. Len(ps) + 1 \in 1..Len(more) /\ (Len(ps) + 1 = 1 <=> ps = <<>>)
    BY <1>4, <1>6
  <2> QED BY <1>4, <2>1
<1>8. \A i \in 1..Len(ps) : pieces(more)[i] = pieces(ps)[i]
  <2>1. ASSUME NEW i \in 1..Len(ps)
        PROVE  pieces(more)[i] = pieces(ps)[i]
    <3>1. i \in DOMAIN ps /\ i \in DOMAIN more /\ more[i] = ps[i]
      BY <1>4
    <3>2. at(more, i) = at(ps, i)
      BY <3>1
    <3> HIDE DEF at
    <3> QED BY <3>1, <3>2
  <2> QED BY <2>1
<1>9. pieces(<<>>) = <<>> /\ <<>> \in Seq(String)
  BY EmptySeq
<1> HIDE DEF pieces, new
<1>10. pieces(more) = Append(pieces(ps), new)
  BY <1>2, <1>4, <1>7, <1>8, OneMore
<1>11. Joined(<<>>) = <<>>
  BY <1>3, <1>9, FlattenEmpty
<1>12. pieces(ps) \in Seq(Seq(Chars)) /\ new \in Seq(Chars)
  BY <1>2, <1>5 DEF String
<1>13. /\ FlattenSeq(pieces(ps)) \in String
       /\ FlattenSeq(pieces(more)) = FlattenSeq(pieces(ps)) \o new
  BY <1>10, <1>12, FlattenAppend DEF String
<1>14. Joined(ps) \in String /\ Joined(more) = Joined(ps) \o new
  BY <1>3, <1>4, <1>13
<1>15. CASE ps = <<>>
  <2>1. new = p /\ Joined(ps) = <<>>
    BY <1>11, <1>15 DEF new
  <2>2. <<>> \o p = p
    BY Concatenation
  <2> QED BY <1>11, <1>14, <1>15, <2>1, <2>2 DEF more
<1>16. CASE ps # <<>>
  <2>1. new = <<",">> \o p
    BY <1>16 DEF new
  <2> QED BY <1>11, <1>14, <1>16, <2>1 DEF more
<1> QED BY <1>15, <1>16

LEMMA CommaText == "," \in Chars /\ <<",">> \in String
<1>1. "," \in Chars
  BY DEF Chars
<1> QED BY <1>1, WrittenType

\* There is nothing in a list of parts only when there is no part.
LEMMA JoinedEmpty ==
    ASSUME NEW ps \in Seq(String \ {<<>>})
    PROVE  ps \in Seq(String) /\ (Joined(ps) = <<>> <=> ps = <<>>)
<1>1. ps \in Seq(String)
  BY SeqMonotonic
<1>2. ps = <<>> => Joined(ps) = <<>>
  <2>1. <<>> \in Seq(String) /\ <<>> \in String
    BY EmptySeq, Concatenation
  <2> QED BY <2>1, JoinedAppend
<1>3. ASSUME ps # <<>>
      PROVE  Joined(ps) # <<>>
  <2>1. PICK qs \in Seq(String \ {<<>>}), p \in String \ {<<>>} : ps = Append(qs, p)
    BY <1>3, SequenceEmptyOrAppend
  <2>2. qs \in Seq(String)
    BY SeqMonotonic
  <2>3. Joined(ps) = IF qs = <<>> THEN p ELSE Joined(qs) \o (<<",">> \o p)
    BY <2>1, <2>2, JoinedAppend
  <2>4. ASSUME qs # <<>>
        PROVE  Joined(ps) # <<>>
    <3>1. PICK jq \in String : jq = Joined(qs)
      BY <2>1, <2>2, JoinedAppend
    <3>2. PICK c \in String : c = <<",">>
      BY CommaText
    <3>3. PICK cp \in String : cp = c \o p
      BY Concatenation
    <3>4. cp # <<>>
      BY <3>3, ConcatNonempty
    <3>5. jq \o cp # <<>>
      BY <3>4, ConcatNonempty
    <3> QED BY <2>3, <2>4, <3>1, <3>2, <3>3, <3>5
  <2> QED BY <2>3, <2>4
<1> QED BY <1>1, <1>2, <1>3

\* Nor is there nothing in a part with an equals sign.
LEMMA AroundEquals ==
    ASSUME NEW a \in String, NEW b \in String
    PROVE  (a \o <<"=">>) \o b \in String \ {<<>>}
<1>1. PICK e \in String : e = <<"=">> /\ e # <<>>
  <2>1. "=" \in Chars
    BY DEF Chars
  <2>2. <<"=">> \in String
    BY <2>1, WrittenType
  <2>3. <<"=">> # <<>>
    OBVIOUS
  <2> QED BY <2>2, <2>3
<1>2. PICK ae \in String : ae = a \o e
  BY Concatenation
<1>3. ae # <<>>
  BY <1>1, <1>2, ConcatNonempty
<1>4. ae \o b \in String /\ ae \o b # <<>>
  BY <1>3, Concatenation, ConcatNonempty
<1> QED BY <1>1, <1>2, <1>4

\* These parts with a comma in front of each.
Behind(parts) == IF parts = <<>> THEN <<>> ELSE <<",">> \o Joined(parts)

LEMMA BehindAppend ==
    ASSUME NEW ps \in Seq(String), NEW p \in String
    PROVE  /\ Behind(<<>>) = <<>>
           /\ Behind(ps) \in String
           /\ Behind(Append(ps, p)) = Behind(ps) \o (<<",">> \o p)
<1>1. Joined(ps) \in String /\ <<",">> \o p \in String /\ <<>> \in String
  BY JoinedAppend, CommaText, Concatenation
<1>2. Append(ps, p) # <<>>
  BY AppendProperties
<1>3. Behind(ps) \in String
  BY <1>1, CommaText, Concatenation DEF Behind
<1>4. CASE ps = <<>>
  <2>1. Joined(Append(ps, p)) = p
    BY <1>4, JoinedAppend
  <2>2. <<>> \o (<<",">> \o p) = <<",">> \o p
    BY <1>1, Concatenation
  <2> QED BY <1>2, <1>3, <1>4, <2>1, <2>2 DEF Behind
<1>5. CASE ps # <<>>
  <2>1. Joined(Append(ps, p)) = Joined(ps) \o (<<",">> \o p)
    BY <1>5, JoinedAppend
  <2>2. (<<",">> \o Joined(ps)) \o (<<",">> \o p) = <<",">> \o (Joined(ps) \o (<<",">> \o p))
    BY <1>1, CommaText, Associative
  <2> QED BY <1>2, <1>3, <1>5, <2>1, <2>2 DEF Behind
<1> QED BY <1>4, <1>5

\* A tag as it is written, and a list of them.
Entry(tag) == escapeKey(tag[1]) \o <<"=">> \o escapeKey(tag[2])

Entries(list) == [i \in DOMAIN list |-> Entry(list[i])]

TagsText(list) == Behind(Entries(list))

LEMMA EntryType ==
    ASSUME NEW tag \in String \X String
    PROVE  /\ Entry(tag) \in String
           /\ tag[1] \in String /\ tag[2] \in String
           /\ escapeKey(tag[1]) \in String /\ escapeKey(tag[2]) \in String
           /\ <<"=">> \in String /\ escapeKey(tag[1]) \o <<"=">> \in String
<1>1. "=" \in Chars
  BY DEF Chars
<1>2. tag[1] \in String /\ tag[2] \in String
  OBVIOUS
<1>3. escapeKey(tag[1]) \in String /\ escapeKey(tag[2]) \in String /\ <<"=">> \in String
  BY <1>1, <1>2, EscapeType, WrittenType DEF escapeKey
<1>4. escapeKey(tag[1]) \o <<"=">> \in String
  BY <1>3, Concatenation
<1>5. Entry(tag) \in String
  BY <1>3, <1>4, Concatenation DEF Entry
<1> QED BY <1>2, <1>3, <1>4, <1>5

LEMMA EntriesAppend ==
    ASSUME NEW list \in Seq(String \X String), NEW tag \in String \X String
    PROVE  /\ Entries(<<>>) = <<>>
           /\ Entries(list) \in Seq(String)
           /\ Entries(Append(list, tag)) = Append(Entries(list), Entry(tag))
<1> DEFINE more == Append(list, tag)
<1>1. \A l \in Seq(String \X String) :
          Entries(l) \in Seq(String) /\ Len(Entries(l)) = Len(l)
  <2>1. ASSUME NEW l \in Seq(String \X String)
        PROVE  Entries(l) \in Seq(String) /\ Len(Entries(l)) = Len(l)
    <3>1. DOMAIN l = 1..Len(l) /\ Len(l) \in Nat
          /\ \A i \in 1..Len(l) : l[i] \in String \X String
      BY LenProperties, ElementOfSeq
    <3>2. \A i \in 1..Len(l) : Entry(l[i]) \in String
      BY <3>1, EntryType
    <3>3. Entries(l) \in [1..Len(l) -> String]
      BY <3>1, <3>2 DEF Entries
    <3>4. DOMAIN Entries(l) = 1..Len(l)
      BY <3>1 DEF Entries
    <3> QED BY <3>1, <3>3, <3>4
  <2> QED BY <2>1
<1>2. /\ more \in Seq(String \X String) /\ Len(list) \in Nat /\ Len(more) = Len(list) + 1
      /\ \A i \in 1..Len(list) : more[i] = list[i]
      /\ more[Len(list) + 1] = tag
      /\ DOMAIN list = 1..Len(list) /\ DOMAIN more = 1..Len(more)
  BY AppendProperties, LenProperties
<1> HIDE DEF more
<1>3. /\ \A i \in 1..Len(list) : Entries(more)[i] = Entries(list)[i]
      /\ Entries(more)[Len(list) + 1] = Entry(tag)
  BY <1>2 DEF Entries
<1>4. Entries(more) = Append(Entries(list), Entry(tag))
  BY <1>1, <1>2, <1>3, OneMore
<1>5. Entries(<<>>) = <<>>
  BY DEF Entries
<1> QED BY <1>1, <1>4, <1>5 DEF more

LEMMA TagsTextAppend ==
    ASSUME NEW list \in Seq(String \X String), NEW tag \in String \X String
    PROVE  /\ TagsText(<<>>) = <<>>
           /\ TagsText(list) \in String
           /\ TagsText(Append(list, tag)) = TagsText(list) \o (<<",">> \o Entry(tag))
<1>1. Entry(tag) \in String
  BY EntryType
<1>2. /\ Entries(<<>>) = <<>> /\ Entries(list) \in Seq(String)
      /\ Entries(Append(list, tag)) = Append(Entries(list), Entry(tag))
  BY EntriesAppend
<1>3. /\ Behind(<<>>) = <<>> /\ Behind(Entries(list)) \in String
      /\ Behind(Append(Entries(list), Entry(tag)))
             = Behind(Entries(list)) \o (<<",">> \o Entry(tag))
  BY <1>1, <1>2, BehindAppend
<1> QED BY <1>2, <1>3 DEF TagsText

LEMMA PairExists == <<<<>>, <<>>>> \in String \X String
<1> QED BY Concatenation

LEMMA TagsTextNone == TagsText(<<>>) = <<>>
<1>1. <<>> \in Seq(String \X String)
  BY EmptySeq
<1> QED BY <1>1, PairExists, TagsTextAppend

LEMMA TagsTextType ==
    ASSUME NEW list \in Seq(String \X String)
    PROVE  TagsText(list) \in String
<1> QED BY PairExists, TagsTextAppend

\* The tags of one list are written behind those of another.
LEMMA TagsTextConcat ==
    ASSUME NEW a \in Seq(String \X String), NEW b \in Seq(String \X String)
    PROVE  TagsText(a \o b) = TagsText(a) \o TagsText(b)
<1> DEFINE P == {s \in Seq(String \X String) :
                   TagsText(a \o s) = TagsText(a) \o TagsText(s)}
<1>1. <<>> \in P
  <2>1. a \o <<>> = a /\ <<>> \in Seq(String \X String)
    BY ConcatEmptySeq, EmptySeq
  <2>2. TagsText(<<>>) = <<>> /\ TagsText(a) \in String
    BY PairExists, TagsTextAppend
  <2>3. TagsText(a) \o <<>> = TagsText(a)
    BY <2>2, Concatenation
  <2> QED BY <2>1, <2>2, <2>3
<1>2. ASSUME NEW s \in Seq(String \X String), NEW e \in String \X String, s \in P
      PROVE  Append(s, e) \in P
  <2>1. Append(s, e) \in Seq(String \X String) /\ a \o s \in Seq(String \X String)
    BY AppendProperties, ConcatProperties
  <2>2. a \o Append(s, e) = Append(a \o s, e)
    BY ConcatAppend
  <2>3. TagsText(a \o s) = TagsText(a) \o TagsText(s)
    BY <1>2
  <2> HIDE DEF P
  <2>4. PICK x \in String : x = <<",">> \o Entry(e)
    BY EntryType, CommaText, Concatenation
  <2>5. TagsText(Append(a \o s, e)) = TagsText(a \o s) \o x
    BY <2>1, <2>4, TagsTextAppend
  <2>6. TagsText(Append(s, e)) = TagsText(s) \o x
    BY <2>4, TagsTextAppend
  <2>7. TagsText(a) \in String /\ TagsText(s) \in String
    BY TagsTextType
  <2>8. (TagsText(a) \o TagsText(s)) \o x = TagsText(a) \o (TagsText(s) \o x)
    BY <2>7, Associative
  <2>9. TagsText(a \o Append(s, e)) = TagsText(a) \o TagsText(Append(s, e))
    BY <2>2, <2>3, <2>5, <2>6, <2>8
  <2> QED BY <2>1, <2>9 DEF P
<1> HIDE DEF P
<1>3. Seq(String \X String) \subseteq P
  BY <1>1, <1>2, SequenceInduction
<1>4. b \in P
  BY <1>3
<1> QED BY <1>4 DEF P

-----------------------------------------------------------------------------
(* Reading the line of a point.                                            *)

\* The reader behind the measurement and these tags, before a separator.
AfterTags(s, m, list) ==
    /\ s \in Readers /\ ~s.back /\ s.fields = <<>>
    /\ \/ s.at = "measurement" /\ s.text = m /\ s.tags = <<>> /\ list = <<>>
       \/ /\ s.at = "tagValue" /\ s.measurement = m /\ s.text # <<>>
          /\ Append(s.tags, <<s.key, s.text>>) = list

\* The reader behind these tags and this separator.
TagsEnded(q, s, c, m, list) ==
    /\ q = ReadFrom(s, <<c>>)
    /\ q.at = IF c = "," THEN "tagKey" ELSE "fieldKey"
    /\ q.text = <<>> /\ ~q.back
    /\ q.measurement = m /\ q.tags = list /\ q.fields = <<>>

LEMMA AfterTagsEnds ==
    ASSUME NEW s, NEW m, NEW list, AfterTags(s, m, list), m # <<>>,
           NEW c \in {",", " "}
    PROVE  \E q \in Readers : TagsEnded(q, s, c, m, list)
<1>1. s \in Readers /\ ~s.back /\ s.fields = <<>> /\ s.at \in {"measurement", "tagValue"}
  BY DEF AfterTags
<1>2. c \in Chars
  BY DEF Chars
<1>3. LeadsTo(s.at, c) = IF c = "," THEN "tagKey" ELSE "fieldKey"
  BY <1>1 DEF LeadsTo
<1>4. s.at \in NameParts \union {"fieldValue", "closed"} /\ LeadsTo(s.at, c) # "nothing"
  BY <1>1, <1>3 DEF NameParts
<1>5. ReadFrom(s, <<c>>) = Closed(s, LeadsTo(s.at, c))
  BY <1>1, <1>2, <1>4, ReadSeparator
<1>6. ReadFrom(s, <<c>>) \in Readers
  <2>1. <<c>> \in String
    BY <1>2, WrittenType
  <2> QED BY <1>1, <2>1, ReadConcat
<1>7. s.text # <<>>
  BY DEF AfterTags
<1>8. PICK part : part = LeadsTo(s.at, c)
  OBVIOUS
<1> PICK q \in Readers : q = ReadFrom(s, <<c>>)
  BY <1>6
<1> SUFFICES /\ q.at = part /\ q.text = <<>> /\ ~q.back
             /\ q.measurement = m /\ q.tags = list /\ q.fields = <<>>
  BY <1>3, <1>8 DEF TagsEnded
<1>9. CASE s.at = "measurement"
  <2>1. Closed(s, part) = [s EXCEPT !.at = part, !.back = FALSE, !.text = <<>>,
                                    !.measurement = s.text]
    BY <1>7, <1>9 DEF Closed
  <2>2. s.text = m /\ s.tags = list
    BY <1>9 DEF AfterTags
  <2>3. q = Closed(s, part)
    BY <1>5, <1>8
  <2> QED BY <1>1, <2>1, <2>2, <2>3 DEF Readers
<1>10. CASE s.at = "tagValue"
  <2>1. Closed(s, part) = [s EXCEPT !.at = part, !.back = FALSE, !.text = <<>>,
                                    !.tags = Append(s.tags, <<s.key, s.text>>)]
    BY <1>7, <1>10 DEF Closed
  <2>2. s.measurement = m /\ Append(s.tags, <<s.key, s.text>>) = list
    BY <1>10 DEF AfterTags
  <2>3. q = Closed(s, part)
    BY <1>5, <1>8
  <2> QED BY <1>1, <2>1, <2>2, <2>3 DEF Readers
<1> QED BY <1>1, <1>9, <1>10

LEMMA NamePairs ==
    /\ \A t \in Name : t \in String /\ t # <<>>
    /\ Name \X Name \subseteq String \X String
    /\ Seq(Name \X Name) \subseteq Seq(String \X String)
<1>1. \A t \in Name : t \in String /\ t # <<>>
  BY DEF Name
<1>2. Name \X Name \subseteq String \X String
  BY <1>1
<1>3. Seq(Name \X Name) \subseteq Seq(String \X String)
  BY <1>2, SeqMonotonic
<1> QED BY <1>1, <1>2, <1>3

LEMMA ReadMeasurement ==
    ASSUME NEW m \in Name, m[1] # "#"
    PROVE  /\ escapeMeasurement(m) \in String
           /\ AfterTags(ReadFrom(Start, escapeMeasurement(m)), m, <<>>)
<1>1. m \in String /\ Start \in Readers
  BY NamePairs, StartType
<1>2. /\ Start.at = "measurement" /\ Start.text = <<>> /\ ~Start.back
      /\ Start.tags = <<>> /\ Start.fields = <<>> /\ Start.at \in NameParts
  BY DEF Start, NameParts
<1>3. escapeMeasurement(m) = escape(m, Escaped(Start.at))
  BY <1>2, EscapedNames DEF escapeMeasurement
<1> PICK r \in Readers : r = Start
  BY <1>1
<1>4. ReadFrom(r, escape(m, Escaped(r.at))) = [r EXCEPT !.text = m]
  BY <1>2, ReadName
<1>5. escapeMeasurement(m) \in String
  BY <1>1, <1>3, EscapeType
<1>6. AfterTags([r EXCEPT !.text = m], m, <<>>)
  BY <1>1, <1>2 DEF AfterTags, Readers
<1> QED BY <1>3, <1>4, <1>5, <1>6

LEMMA ReadTags ==
    ASSUME NEW m \in Name, m[1] # "#", NEW list \in Seq(Name \X Name)
    PROVE  AfterTags(ReadFrom(Start, escapeMeasurement(m) \o TagsText(list)), m, list)
<1> DEFINE head == escapeMeasurement(m)
           P == {l \in Seq(Name \X Name) :
                   AfterTags(ReadFrom(Start, head \o TagsText(l)), m, l)}
<1>1. head \in String /\ AfterTags(ReadFrom(Start, head), m, <<>>)
  BY ReadMeasurement
<1>2. m # <<>> /\ Start \in Readers
  BY NamePairs, StartType
<1> HIDE DEF head
<1>3. <<>> \in P
  <2>1. TagsText(<<>>) = <<>> /\ head \o <<>> = head
    <3>1. TagsText(<<>>) = <<>>
      BY TagsTextNone
    <3>2. head \o <<>> = head
      BY <1>1, Concatenation
    <3> QED BY <3>1, <3>2
  <2>2. <<>> \in Seq(Name \X Name)
    BY EmptySeq
  <2> QED BY <1>1, <2>1, <2>2
<1>4. ASSUME NEW l \in Seq(Name \X Name), NEW tag \in Name \X Name, l \in P
      PROVE  Append(l, tag) \in P
  <2>1. /\ Append(l, tag) \in Seq(Name \X Name)
        /\ l \in Seq(String \X String) /\ tag \in String \X String
    BY AppendProperties, NamePairs
  <2>2. AfterTags(ReadFrom(Start, head \o TagsText(l)), m, l)
    BY <1>4
  <2> HIDE DEF P
  <2>3. TagsText(l) \in String /\ head \o TagsText(l) \in String /\ Entry(tag) \in String
        /\ <<",">> \o Entry(tag) \in String
    BY <1>1, <2>1, TagsTextType, EntryType, CommaText, Concatenation
  <2>4. TagsText(Append(l, tag)) = TagsText(l) \o (<<",">> \o Entry(tag))
    BY <2>1, TagsTextAppend
  <2>5. head \o TagsText(Append(l, tag))
            = (head \o TagsText(l)) \o (<<",">> \o Entry(tag))
    <3>1. PICK x \in String : x = <<",">> \o Entry(tag)
      BY <2>3
    <3>2. (head \o TagsText(l)) \o x = head \o (TagsText(l) \o x)
      BY <1>1, <2>3, Associative
    <3> QED BY <2>4, <3>1, <3>2
  <2>6. PICK s \in Readers : s = ReadFrom(Start, head \o TagsText(l))
    BY <2>2 DEF AfterTags
  <2>7. PICK q \in Readers : TagsEnded(q, s, ",", m, l)
    BY <1>2, <2>2, <2>6, AfterTagsEnds
  <2>8. /\ q.at = "tagKey" /\ q.text = <<>> /\ ~q.back /\ q.measurement = m
        /\ q.tags = l /\ q.fields = <<>>
        /\ q = ReadFrom(s, <<",">>)
    BY <2>7 DEF TagsEnded
  <2>9. ReadFrom(q, Entry(tag)) = TagRead(q, tag[1], tag[2])
    <3>1. tag[1] \in Name /\ tag[2] \in Name
      OBVIOUS
    <3>2. PICK k \in Name, v \in Name : k = tag[1] /\ v = tag[2]
      BY <3>1
    <3>3. ReadFrom(q, escapeKey(k) \o <<"=">> \o escapeKey(v))
              = TagRead(q, k, v)
      <4>1. q.at = "tagKey" /\ q.text = <<>> /\ ~q.back
        BY <2>8
      <4> QED BY <4>1, ReadTag
    <3> QED BY <3>2, <3>3 DEF Entry
  <2>10. ReadFrom(Start, head \o TagsText(Append(l, tag))) = ReadFrom(q, Entry(tag))
    <3>1. ReadFrom(Start, head \o TagsText(Append(l, tag)))
              = ReadFrom(s, <<",">> \o Entry(tag))
      <4>1. PICK x \in String : x = <<",">> \o Entry(tag)
        BY <2>3
      <4>2. PICK y \in String : y = head \o TagsText(l)
        BY <2>3
      <4>3. ReadFrom(Start, y \o x) = ReadFrom(ReadFrom(Start, y), x)
        BY <1>2, ReadConcat
      <4> QED BY <2>5, <2>6, <4>1, <4>2, <4>3
    <3>2. ReadFrom(s, <<",">> \o Entry(tag)) = ReadFrom(ReadFrom(s, <<",">>), Entry(tag))
      BY <2>3, CommaText, ReadConcat
    <3> QED BY <2>8, <3>1, <3>2
  <2>11. AfterTags(TagRead(q, tag[1], tag[2]), m, Append(l, tag))
    <3>1. /\ tag = <<tag[1], tag[2]>> /\ tag[1] \in String /\ tag[2] \in String
          /\ tag[2] # <<>>
      BY NamePairs
    <3>2. TagRead(q, tag[1], tag[2]) \in Readers
      BY <3>1 DEF Readers, Parts, TagRead
    <3> QED BY <2>8, <3>1, <3>2 DEF AfterTags, Readers, TagRead
  <2>12. AfterTags(ReadFrom(Start, head \o TagsText(Append(l, tag))), m, Append(l, tag))
    BY <2>9, <2>10, <2>11
  <2> QED BY <2>1, <2>12 DEF P
<1> HIDE DEF P
<1>5. Seq(Name \X Name) \subseteq P
  BY <1>3, <1>4, SequenceInduction
<1>6. list \in P
  BY <1>5
<1> QED BY <1>6 DEF P, head

\* A field as it is read: its name, its value and whether this is a text.
Field == {f \in Name \X String \X BOOLEAN : ~f[3] => f[2] = <<"1">>}

\* One as it is written, and a list of them.
FieldEntry(f) ==
    escapeKey(f[1]) \o <<"=">> \o (IF f[3] THEN escapeStringValue(f[2]) ELSE <<"1">>)

FieldEntries(list) == [i \in DOMAIN list |-> FieldEntry(list[i])]

\* The reader behind a field.
FieldRead(r, f) ==
    [r EXCEPT !.key = f[1], !.text = f[2],
              !.at = IF f[3] THEN "closed" ELSE "fieldValue"]

LEMMA FieldParts ==
    ASSUME NEW f \in Field
    PROVE  /\ f = <<f[1], f[2], f[3]>> /\ f[1] \in Name /\ f[1] \in String
           /\ f[2] \in String /\ f[3] \in BOOLEAN
           /\ ~f[3] => f[2] = <<"1">>
           /\ <<"1">> \in String
           /\ escapeKey(f[1]) \in String /\ <<"=">> \in String
           /\ escapeStringValue(f[2]) \in String
<1>1. /\ f = <<f[1], f[2], f[3]>> /\ f[1] \in Name
      /\ f[2] \in String /\ f[3] \in BOOLEAN
      /\ ~f[3] => f[2] = <<"1">>
  BY DEF Field
<1>2. f[1] \in String
  BY <1>1, NamePairs
<1>3. escapeKey(f[1]) \in String
  BY <1>2, EscapeType DEF escapeKey
<1>4. <<"=">> \in String /\ <<"1">> \in String /\ <<"\"">> \in String
  <2>1. "=" \in Chars /\ "1" \in Chars /\ "\"" \in Chars
    BY DEF Chars
  <2> QED BY <2>1, WrittenType
<1>5. escapeStringValue(f[2]) \in String
  <2>1. PICK x \in String : x = escape(f[2], {"\\", "\""})
    BY <1>1, EscapeType
  <2>2. <<"\"">> \o x \in String
    BY <1>4, Concatenation
  <2>3. (<<"\"">> \o x) \o <<"\"">> \in String
    BY <1>4, <2>2, Concatenation
  <2> QED BY <2>1, <2>3 DEF escapeStringValue
<1> QED BY <1>1, <1>2, <1>3, <1>4, <1>5

LEMMA FieldEntryType ==
    ASSUME NEW f \in Field
    PROVE  FieldEntry(f) \in String
<1>1. escapeKey(f[1]) \o <<"=">> \in String
  BY FieldParts, Concatenation
<1>2. (IF f[3] THEN escapeStringValue(f[2]) ELSE <<"1">>) \in String
  BY FieldParts
<1>3. PICK x \in String : x = escapeKey(f[1]) \o <<"=">>
  BY <1>1
<1>4. PICK y \in String : y = IF f[3] THEN escapeStringValue(f[2]) ELSE <<"1">>
  BY <1>2
<1>5. x \o y \in String
  BY Concatenation
<1> QED BY <1>3, <1>4, <1>5 DEF FieldEntry

LEMMA FieldEntriesAppend ==
    ASSUME NEW list \in Seq(Field), NEW f \in Field
    PROVE  /\ FieldEntries(<<>>) = <<>>
           /\ FieldEntries(list) \in Seq(String)
           /\ Len(FieldEntries(list)) = Len(list)
           /\ FieldEntries(Append(list, f)) = Append(FieldEntries(list), FieldEntry(f))
<1> DEFINE more == Append(list, f)
<1>1. \A l \in Seq(Field) :
          FieldEntries(l) \in Seq(String) /\ Len(FieldEntries(l)) = Len(l)
  <2>1. ASSUME NEW l \in Seq(Field)
        PROVE  FieldEntries(l) \in Seq(String) /\ Len(FieldEntries(l)) = Len(l)
    <3>1. DOMAIN l = 1..Len(l) /\ Len(l) \in Nat
          /\ \A i \in 1..Len(l) : l[i] \in Field
      BY LenProperties, ElementOfSeq
    <3>2. \A i \in 1..Len(l) : FieldEntry(l[i]) \in String
      BY <3>1, FieldEntryType
    <3>3. FieldEntries(l) \in [1..Len(l) -> String]
      BY <3>1, <3>2 DEF FieldEntries
    <3>4. DOMAIN FieldEntries(l) = 1..Len(l)
      BY <3>1 DEF FieldEntries
    <3> QED BY <3>1, <3>3, <3>4
  <2> QED BY <2>1
<1>2. /\ more \in Seq(Field) /\ Len(list) \in Nat /\ Len(more) = Len(list) + 1
      /\ \A i \in 1..Len(list) : more[i] = list[i]
      /\ more[Len(list) + 1] = f
      /\ DOMAIN list = 1..Len(list) /\ DOMAIN more = 1..Len(more)
  BY AppendProperties, LenProperties
<1> HIDE DEF more
<1>3. /\ \A i \in 1..Len(list) : FieldEntries(more)[i] = FieldEntries(list)[i]
      /\ FieldEntries(more)[Len(list) + 1] = FieldEntry(f)
  BY <1>2 DEF FieldEntries
<1>4. FieldEntries(more) = Append(FieldEntries(list), FieldEntry(f))
  BY <1>1, <1>2, <1>3, OneMore
<1>5. FieldEntries(<<>>) = <<>>
  BY DEF FieldEntries
<1> QED BY <1>1, <1>4, <1>5 DEF more

LEMMA ReadField ==
    ASSUME NEW r \in Readers, r.at = "fieldKey", r.text = <<>>, ~r.back,
           NEW f \in Field
    PROVE  ReadFrom(r, FieldEntry(f)) = FieldRead(r, f)
<1>1. PICK k \in Name : k = f[1]
  BY FieldParts
<1>2. ReadFrom(r, escapeKey(k) \o <<"=">>) = [r EXCEPT !.key = k, !.at = "fieldValue"]
  BY ReadKey
<1>3. k \in String
  BY NamePairs
<1>4. PICK q \in Readers : q = [r EXCEPT !.key = k, !.at = "fieldValue"]
  BY <1>3 DEF Readers, Parts
<1>5. q.at = "fieldValue" /\ q.text = <<>> /\ ~q.back
  BY <1>4 DEF Readers
<1>6. PICK head \in String : head = escapeKey(k) \o <<"=">>
  BY <1>1, FieldParts, Concatenation
<1>7. ReadFrom(r, head) = q
  BY <1>2, <1>4, <1>6
<1>8. PICK value \in String : value = IF f[3] THEN escapeStringValue(f[2]) ELSE <<"1">>
  BY FieldParts
<1>9. ReadFrom(r, head \o value) = ReadFrom(q, value)
  BY <1>7, ReadConcat
<1>10. FieldEntry(f) = head \o value
  BY <1>1, <1>6, <1>8 DEF FieldEntry
<1>11. CASE f[3]
  <2>1. PICK t \in String : t = f[2]
    BY FieldParts
  <2>2. ReadFrom(q, escapeStringValue(t)) = [q EXCEPT !.at = "closed", !.text = t]
    BY <1>5, ReadString
  <2>3. [q EXCEPT !.at = "closed", !.text = t] = FieldRead(r, f)
    BY <1>1, <1>4, <1>11, <2>1 DEF FieldRead, Readers
  <2> QED BY <1>8, <1>9, <1>10, <1>11, <2>1, <2>2, <2>3
<1>12. CASE ~f[3]
  <2>1. ReadFrom(q, <<"1">>) = [q EXCEPT !.text = <<"1">>]
    BY <1>5, ReadNumber
  <2>2. f[2] = <<"1">>
    BY <1>12, FieldParts
  <2>3. [q EXCEPT !.text = <<"1">>] = FieldRead(r, f)
    BY <1>1, <1>4, <1>12, <2>2 DEF FieldRead, Readers
  <2> QED BY <1>8, <1>9, <1>10, <1>12, <2>1, <2>3
<1> QED BY <1>11, <1>12

\* The reader behind these fields, before a separator.
AfterFields(s, q, list) ==
    /\ s \in Readers /\ ~s.back
    /\ s.measurement = q.measurement /\ s.tags = q.tags
    /\ s.at \in {"fieldValue", "closed"}
    /\ s.at = "fieldValue" => s.text # <<>>
    /\ Append(s.fields, <<s.key, s.text, s.at = "closed">>) = list

\* The reader behind these fields and this separator.
FieldsEnded(p, s, c, q, list) ==
    /\ p = ReadFrom(s, <<c>>)
    /\ p.at = IF c = "," THEN "fieldKey" ELSE "time"
    /\ p.text = <<>> /\ ~p.back
    /\ p.measurement = q.measurement /\ p.tags = q.tags
    /\ p.fields = list

\* A list of fields goes on behind a comma, or ends with a blank.
LEMMA AfterFieldsEnds ==
    ASSUME NEW q, NEW list, NEW s, AfterFields(s, q, list), NEW c \in {",", " "}
    PROVE  \E p \in Readers : FieldsEnded(p, s, c, q, list)
<1>1. /\ s \in Readers /\ ~s.back /\ s.at \in {"fieldValue", "closed"}
      /\ s.measurement = q.measurement /\ s.tags = q.tags
      /\ Append(s.fields, <<s.key, s.text, s.at = "closed">>) = list
      /\ s.text # <<>> \/ s.at = "closed"
  BY DEF AfterFields
<1>2. c \in Chars
  BY DEF Chars
<1>3. LeadsTo(s.at, c) = IF c = "," THEN "fieldKey" ELSE "time"
  BY <1>1 DEF LeadsTo
<1>4. s.at \in NameParts \union {"fieldValue", "closed"} /\ LeadsTo(s.at, c) # "nothing"
  BY <1>1, <1>3
<1>5. ReadFrom(s, <<c>>) = Closed(s, LeadsTo(s.at, c))
  BY <1>1, <1>2, <1>4, ReadSeparator
<1>6. PICK p \in Readers : p = ReadFrom(s, <<c>>)
  <2>1. <<c>> \in String
    BY <1>2, WrittenType
  <2> QED BY <1>1, <2>1, ReadConcat
<1>7. PICK part : part = LeadsTo(s.at, c)
  OBVIOUS
<1>8. PICK new : new = Append(s.fields, <<s.key, s.text, s.at = "closed">>)
  OBVIOUS
<1>9. Closed(s, part) = [s EXCEPT !.at = part, !.back = FALSE, !.text = <<>>,
                                  !.fields = new]
  BY <1>1, <1>8 DEF Closed
<1>10. p = Closed(s, part)
  BY <1>5, <1>6, <1>7
<1>11. /\ p.at = part /\ p.text = <<>> /\ ~p.back
       /\ p.measurement = s.measurement /\ p.tags = s.tags /\ p.fields = new
  BY <1>1, <1>9, <1>10 DEF Readers
<1>12. FieldsEnded(p, s, c, q, list)
  BY <1>1, <1>3, <1>6, <1>7, <1>8, <1>11 DEF FieldsEnded
<1> QED BY <1>12

LEMMA FieldReadEnds ==
    ASSUME NEW r \in Readers, r.at = "fieldKey", ~r.back, NEW f \in Field
    PROVE  AfterFields(FieldRead(r, f), r, Append(r.fields, f))
<1> PICK s : s = FieldRead(r, f)
  OBVIOUS
<1>1. s \in Readers
  BY FieldParts DEF FieldRead, Readers, Parts
<1>2. /\ ~s.back /\ s.measurement = r.measurement /\ s.tags = r.tags
      /\ s.fields = r.fields /\ s.key = f[1] /\ s.text = f[2]
      /\ s.at = IF f[3] THEN "closed" ELSE "fieldValue"
  BY DEF FieldRead, Readers
<1>3. (s.at = "closed") = f[3]
  BY <1>2, FieldParts
<1>4. f = <<s.key, s.text, s.at = "closed">>
  BY <1>2, <1>3, FieldParts
<1>5. s.at = "fieldValue" => s.text # <<>>
  BY <1>2, FieldParts
<1> QED BY <1>1, <1>2, <1>4, <1>5 DEF AfterFields

LEMMA ReadFields ==
    ASSUME NEW q \in Readers, q.at = "fieldKey", q.text = <<>>, ~q.back,
           q.fields = <<>>, NEW list \in Seq(Field), list # <<>>
    PROVE  AfterFields(ReadFrom(q, Joined(FieldEntries(list))), q, list)
<1> DEFINE P == {l \in Seq(Field) : l # <<>> =>
                   AfterFields(ReadFrom(q, Joined(FieldEntries(l))), q, l)}
<1>1. <<>> \in P
  BY EmptySeq
<1>2. ASSUME NEW l \in Seq(Field), NEW f \in Field, l \in P
      PROVE  Append(l, f) \in P
  <2>1. Append(l, f) \in Seq(Field)
    BY AppendProperties
  <2>2. l # <<>> => AfterFields(ReadFrom(q, Joined(FieldEntries(l))), q, l)
    BY <1>2
  <2> HIDE DEF P
  <2>3. PICK e \in String : e = FieldEntry(f)
    BY FieldEntryType
  <2>4. PICK es \in Seq(String) : es = FieldEntries(l)
    BY FieldEntriesAppend
  <2>5. FieldEntries(Append(l, f)) = Append(es, e)
    BY <2>3, <2>4, FieldEntriesAppend
  <2>6. es = <<>> <=> l = <<>>
    <3>1. Len(es) = Len(l)
      BY <2>4, FieldEntriesAppend
    <3>2. (es = <<>> <=> Len(es) = 0) /\ (l = <<>> <=> Len(l) = 0)
      BY EmptySeq
    <3> QED BY <3>1, <3>2
  <2>7. CASE l = <<>>
    <3>1. Joined(Append(es, e)) = e
      BY <2>6, <2>7, JoinedAppend
    <3>2. ReadFrom(q, e) = FieldRead(q, f)
      BY <2>3, ReadField
    <3>3. AfterFields(FieldRead(q, f), q, Append(l, f))
      BY <2>7, FieldReadEnds
    <3> QED BY <2>1, <2>5, <3>1, <3>2, <3>3 DEF P
  <2>8. CASE l # <<>>
    <3>1. Joined(es) \in String /\ Joined(Append(es, e)) = Joined(es) \o (<<",">> \o e)
      BY <2>6, <2>8, JoinedAppend
    <3>2. PICK s \in Readers : s = ReadFrom(q, Joined(es))
      BY <3>1, ReadConcat
    <3>3. AfterFields(s, q, l)
      BY <2>2, <2>4, <2>8, <3>2
    <3>4. PICK p \in Readers : FieldsEnded(p, s, ",", q, l)
      BY <3>3, AfterFieldsEnds
    <3> /\ p = ReadFrom(s, <<",">>)
        /\ p.at = "fieldKey" /\ p.text = <<>> /\ ~p.back
        /\ p.measurement = q.measurement /\ p.tags = q.tags
        /\ p.fields = l
      BY <3>4 DEF FieldsEnded
    <3>5. PICK x \in String : x = <<",">> \o e
      BY CommaText, Concatenation
    <3>6. ReadFrom(q, Joined(es) \o x) = ReadFrom(s, x)
      BY <3>1, <3>2, ReadConcat
    <3>7. ReadFrom(s, x) = ReadFrom(p, e)
      BY <3>5, CommaText, ReadConcat
    <3>8. ReadFrom(p, e) = FieldRead(p, f)
      BY <2>3, ReadField
    <3>9. AfterFields(FieldRead(p, f), p, Append(l, f))
      BY FieldReadEnds
    <3>10. AfterFields(FieldRead(p, f), q, Append(l, f))
      BY <3>9 DEF AfterFields
    <3>11. ReadFrom(q, Joined(FieldEntries(Append(l, f)))) = FieldRead(p, f)
      BY <2>5, <3>1, <3>5, <3>6, <3>7, <3>8
    <3> QED BY <2>1, <3>10, <3>11 DEF P
  <2> QED BY <2>7, <2>8
<1> HIDE DEF P
<1>3. Seq(Field) \subseteq P
  BY <1>1, <1>2, SequenceInduction
<1>4. list \in P
  BY <1>3
<1> QED BY <1>4 DEF P

\* The line with these tags and fields.
LineText(m, list, values) ==
    (escapeMeasurement(m) \o TagsText(list))
        \o (<<" ">> \o Joined(FieldEntries(values)))
        \o <<" ", "54">>

\* The point that has been read behind a line.
HasRead(r, m, list, values) ==
    r.at = "time" /\ r.measurement = m /\ r.tags = list /\ r.fields = values

\* A line is read back as the point it was made of.
LEMMA LineIsRead ==
    ASSUME NEW m \in Name, m[1] # "#", NEW list \in Seq(Name \X Name),
           NEW values \in Seq(Field), values # <<>>
    PROVE  HasRead(ReadLine(LineText(m, list, values)), m, list, values)
<1>1. " " \in Chars /\ "54" \in Chars /\ <<" ">> \in String /\ <<" ", "54">> \in String
  <2>1. " " \in Chars /\ "54" \in Chars
    BY DEF Chars
  <2>2. <<" ">> \in String
    BY <2>1, WrittenType
  <2>3. PICK b \in Chars, n \in Chars : b = " " /\ n = "54"
    BY <2>1
  <2>4. <<b>> \in String
    BY WrittenType
  <2>5. <<b, n>> = Append(<<b>>, n)
    OBVIOUS
  <2>6. Append(<<b>>, n) \in String
    BY <2>4, AppendProperties DEF String
  <2> QED BY <2>1, <2>2, <2>3, <2>5, <2>6
<1>2. m # <<>> /\ escapeMeasurement(m) \in String /\ TagsText(list) \in String
      /\ Start \in Readers
  BY NamePairs, ReadMeasurement, TagsTextType, StartType
<1>3. PICK head \in String : head = escapeMeasurement(m) \o TagsText(list)
  BY <1>2, Concatenation
<1>4. PICK s \in Readers : s = ReadFrom(Start, head)
  BY <1>2, ReadConcat
<1>5. AfterTags(s, m, list)
  BY <1>3, <1>4, ReadTags
<1>6. PICK q \in Readers : TagsEnded(q, s, " ", m, list)
  BY <1>2, <1>5, AfterTagsEnds
<1>7. /\ q.at = "fieldKey" /\ q.text = <<>> /\ ~q.back
      /\ q.measurement = m /\ q.tags = list /\ q.fields = <<>>
      /\ q = ReadFrom(s, <<" ">>)
  BY <1>6 DEF TagsEnded
<1>8. PICK middle \in String : middle = Joined(FieldEntries(values))
  <2>1. PICK f : f \in Field
    <3>1. PICK k \in Name : k = m
      OBVIOUS
    <3>2. <<k, <<>>, TRUE>> \in Field
      BY Concatenation DEF Field
    <3> QED BY <3>2
  <2>2. FieldEntries(values) \in Seq(String)
    BY <2>1, FieldEntriesAppend
  <2>3. <<>> \in String
    BY Concatenation
  <2> QED BY <2>2, <2>3, JoinedAppend
<1>9. PICK p \in Readers : p = ReadFrom(q, middle)
  BY <1>7, ReadConcat
<1>10. AfterFields(p, q, values)
  BY <1>7, <1>8, <1>9, ReadFields
<1>11. PICK t \in Readers : FieldsEnded(t, p, " ", q, values)
  BY <1>10, AfterFieldsEnds
<1>12. HasRead(t, m, list, values) /\ t = ReadFrom(p, <<" ">>)
  BY <1>7, <1>11 DEF FieldsEnded, HasRead
<1>13. ReadFrom(p, <<" ", "54">>) = ReadCharacter(t, "54")
  <2>1. ReadFrom(p, <<" ">>) = ReadCharacter(p, " ")
    BY <1>1, ReadOne
  <2>2. ReadFrom(p, <<" ", "54">>) = ReadCharacter(ReadCharacter(p, " "), "54")
    BY <1>1, ReadOne
  <2> QED BY <1>12, <2>1, <2>2
<1>14. HasRead(ReadCharacter(t, "54"), m, list, values)
  <2>1. t.at = "time"
    BY <1>12 DEF HasRead
  <2>2. LeadsTo(t.at, "54") = "nothing" /\ ~IsWrong(t, "54")
    BY <2>1 DEF LeadsTo, IsWrong, Escaped
  <2>3. ReadCharacter(t, "54") = Take(t, "54", Escaped(t.at))
    BY <2>1, <2>2 DEF ReadCharacter
  <2>4. PICK x : x = Take(t, "54", Escaped(t.at))
    OBVIOUS
  <2>5. /\ x.at = t.at /\ x.measurement = t.measurement /\ x.tags = t.tags
        /\ x.fields = t.fields
    BY <2>4 DEF Take, Readers
  <2> QED BY <1>12, <2>3, <2>4, <2>5 DEF HasRead
<1>15. PICK body \in String : body = <<" ">> \o middle
  BY <1>1, Concatenation
<1>16. PICK line \in String : line = head \o body
  BY Concatenation
<1>17. ReadFrom(s, body) = p
  BY <1>1, <1>7, <1>9, <1>15, ReadConcat
<1>18. ReadFrom(Start, line) = p
  BY <1>2, <1>4, <1>16, <1>17, ReadConcat
<1>19. ReadFrom(Start, line \o <<" ", "54">>) = ReadFrom(p, <<" ", "54">>)
  BY <1>1, <1>2, <1>18, ReadConcat
<1>20. LineText(m, list, values) = line \o <<" ", "54">>
  BY <1>3, <1>8, <1>15, <1>16 DEF LineText
<1> QED BY <1>13, <1>14, <1>19, <1>20 DEF ReadLine

-----------------------------------------------------------------------------
(* The calls on a point.                                                   *)

LEMMA TextsType ==
    /\ \A text \in Texts : text \in String
    /\ <<"1">> \in String /\ <<"nan">> \in String
    /\ \A value \in FieldValues : value.text \in String
    /\ memory \in Texts => \A value \in Values : value \in FieldValues
<1>1. STRING \subseteq Chars
  BY DEF Chars
<1>2. \A text \in Texts : text \in String
  BY <1>1, TextsAreTexts, SeqMonotonic DEF String
<1>3. "1" \in Chars /\ "nan" \in Chars
  BY DEF Chars
<1>4. <<"1">> \in String /\ <<"nan">> \in String
  BY <1>3, WrittenType
<1>5. \A value \in FieldValues : value.text \in String
  BY <1>2, <1>4 DEF FieldValues, Value
<1> QED BY <1>2, <1>4, <1>5 DEF Values

\* A global tag as it is written, and all of them.
GlobalEntry(tag) == tag[1] \o <<"=">> \o tag[2]

GlobalEntries(list) == [i \in DOMAIN list |-> GlobalEntry(list[i])]

LEMMA GlobalEntryType ==
    ASSUME NEW tag \in String \X String
    PROVE  GlobalEntry(tag) \in String /\ tag[1] \o <<"=">> \in String
<1>1. tag[1] \in String /\ tag[2] \in String /\ <<"=">> \in String
  BY EntryType
<1>2. tag[1] \o <<"=">> \in String
  BY <1>1, Concatenation
<1> QED BY <1>1, <1>2, Concatenation DEF GlobalEntry

LEMMA GlobalEntriesAppend ==
    ASSUME NEW list \in Seq(String \X String), NEW tag \in String \X String
    PROVE  /\ GlobalEntries(<<>>) = <<>>
           /\ GlobalEntries(list) \in Seq(String)
           /\ Len(GlobalEntries(list)) = Len(list)
           /\ GlobalEntries(Append(list, tag)) = Append(GlobalEntries(list), GlobalEntry(tag))
<1> DEFINE more == Append(list, tag)
<1>1. \A l \in Seq(String \X String) :
          GlobalEntries(l) \in Seq(String) /\ Len(GlobalEntries(l)) = Len(l)
  <2>1. ASSUME NEW l \in Seq(String \X String)
        PROVE  GlobalEntries(l) \in Seq(String) /\ Len(GlobalEntries(l)) = Len(l)
    <3>1. DOMAIN l = 1..Len(l) /\ Len(l) \in Nat
          /\ \A i \in 1..Len(l) : l[i] \in String \X String
      BY LenProperties, ElementOfSeq
    <3>2. \A i \in 1..Len(l) : GlobalEntry(l[i]) \in String
      BY <3>1, GlobalEntryType
    <3>3. GlobalEntries(l) \in [1..Len(l) -> String]
      BY <3>1, <3>2 DEF GlobalEntries
    <3>4. DOMAIN GlobalEntries(l) = 1..Len(l)
      BY <3>1 DEF GlobalEntries
    <3> QED BY <3>1, <3>3, <3>4
  <2> QED BY <2>1
<1>2. /\ more \in Seq(String \X String) /\ Len(list) \in Nat /\ Len(more) = Len(list) + 1
      /\ \A i \in 1..Len(list) : more[i] = list[i]
      /\ more[Len(list) + 1] = tag
      /\ DOMAIN list = 1..Len(list) /\ DOMAIN more = 1..Len(more)
  BY AppendProperties, LenProperties
<1> HIDE DEF more
<1>3. /\ \A i \in 1..Len(list) : GlobalEntries(more)[i] = GlobalEntries(list)[i]
      /\ GlobalEntries(more)[Len(list) + 1] = GlobalEntry(tag)
  BY <1>2 DEF GlobalEntries
<1>4. GlobalEntries(more) = Append(GlobalEntries(list), GlobalEntry(tag))
  BY <1>1, <1>2, <1>3, OneMore
<1>5. GlobalEntries(<<>>) = <<>>
  BY DEF GlobalEntries
<1> QED BY <1>1, <1>4, <1>5 DEF more

\* There is something in every entry of a list of them.
LEMMA GlobalEntriesFilled ==
    ASSUME NEW list \in Seq(String \X String)
    PROVE  /\ GlobalEntries(list) \in Seq(String \ {<<>>})
           /\ Entries(list) \in Seq(String \ {<<>>})
<1>1. DOMAIN list = 1..Len(list) /\ Len(list) \in Nat
      /\ \A i \in 1..Len(list) : list[i] \in String \X String
  BY LenProperties, ElementOfSeq
<1>2. ASSUME NEW tag \in String \X String
      PROVE  /\ GlobalEntry(tag) \in String \ {<<>>}
             /\ Entry(tag) \in String \ {<<>>}
  <2>1. PICK a \in String, b \in String : a = tag[1] /\ b = tag[2]
    BY EntryType
  <2>2. PICK c \in String, d \in String : c = escapeKey(tag[1]) /\ d = escapeKey(tag[2])
    BY EntryType
  <2>3. (a \o <<"=">>) \o b \in String \ {<<>>} /\ (c \o <<"=">>) \o d \in String \ {<<>>}
    BY AroundEquals
  <2> QED BY <2>1, <2>2, <2>3 DEF GlobalEntry, Entry
<1> DEFINE Filled == String \ {<<>>}
<1>3. \A i \in 1..Len(list) :
          GlobalEntry(list[i]) \in Filled /\ Entry(list[i]) \in Filled
  BY <1>1, <1>2
<1> HIDE DEF Filled
<1>4. GlobalEntries(list) \in [1..Len(list) -> Filled] /\ Entries(list) \in [1..Len(list) -> Filled]
  BY <1>1, <1>3 DEF GlobalEntries, Entries
<1>5. ASSUME NEW n \in Nat, NEW u \in [1..n -> Filled]
      PROVE  u \in Seq(Filled)
  OBVIOUS
<1>6. GlobalEntries(list) \in Seq(Filled) /\ Entries(list) \in Seq(Filled)
  BY <1>1, <1>4, <1>5
<1> QED BY <1>6 DEF Filled

LEMMA SelectedAppend ==
    ASSUME NEW S, NEW s \in Seq(S), NEW e \in S, NEW chosen
    PROVE  /\ Selected(<<>>, chosen) = <<>>
           /\ Selected(s, chosen) \in Seq(S)
           /\ Selected(Append(s, e), chosen)
                  = IF e \in chosen THEN Append(Selected(s, chosen), e)
                                    ELSE Selected(s, chosen)
<1> DEFINE one(x) == IF x \in chosen THEN <<x>> ELSE <<>>
           pieces(l) == [i \in DOMAIN l |-> one(l[i])]
           more == Append(s, e)
<1>1. \A x \in S : one(x) \in Seq(S)
  BY EmptySeq
<1>2. \A l \in Seq(S) : pieces(l) \in Seq(Seq(S)) /\ Len(pieces(l)) = Len(l)
  <2> HIDE DEF one
  <2>1. ASSUME NEW l \in Seq(S)
        PROVE  pieces(l) \in Seq(Seq(S)) /\ Len(pieces(l)) = Len(l)
    <3>1. DOMAIN l = 1..Len(l) /\ Len(l) \in Nat /\ \A i \in 1..Len(l) : l[i] \in S
      BY LenProperties, ElementOfSeq
    <3>2. pieces(l) \in [1..Len(l) -> Seq(S)] /\ DOMAIN pieces(l) = 1..Len(l)
      BY <1>1, <3>1
    <3> HIDE DEF pieces
    <3> QED BY <3>1, <3>2
  <2> QED BY <2>1
<1>3. \A l : Selected(l, chosen) = FlattenSeq(pieces(l))
  BY DEF Selected
<1> HIDE DEF one
<1>4. /\ more \in Seq(S) /\ Len(s) \in Nat /\ Len(more) = Len(s) + 1
      /\ \A i \in 1..Len(s) : more[i] = s[i]
      /\ more[Len(s) + 1] = e
      /\ DOMAIN s = 1..Len(s) /\ DOMAIN more = 1..Len(more)
  BY AppendProperties, LenProperties
<1> HIDE DEF more
<1>5. /\ \A i \in 1..Len(s) : pieces(more)[i] = pieces(s)[i]
      /\ pieces(more)[Len(s) + 1] = one(e)
  BY <1>4
<1>6. pieces(<<>>) = <<>>
  OBVIOUS
<1> HIDE DEF pieces
<1>7. pieces(more) = Append(pieces(s), one(e))
  BY <1>2, <1>4, <1>5, OneMore
<1>8. Selected(<<>>, chosen) = <<>>
  BY <1>3, <1>6, FlattenEmpty
<1>9. pieces(s) \in Seq(Seq(S)) /\ one(e) \in Seq(S)
  BY <1>1, <1>2
<1>10. FlattenSeq(pieces(s)) \in Seq(S)
       /\ FlattenSeq(pieces(more)) = FlattenSeq(pieces(s)) \o one(e)
  BY <1>7, <1>9, FlattenAppend
<1>11. Selected(s, chosen) \in Seq(S) /\ Selected(more, chosen) = Selected(s, chosen) \o one(e)
  BY <1>3, <1>10
<1>12. CASE e \in chosen
  <2>1. one(e) = <<e>>
    BY <1>12 DEF one
  <2>2. Append(Selected(s, chosen), e) = Selected(s, chosen) \o <<e>>
    BY <1>11, AppendIsConcat
  <2> QED BY <1>8, <1>11, <1>12, <2>1, <2>2 DEF more
<1>13. CASE e \notin chosen
  <2>1. one(e) = <<>>
    BY <1>13 DEF one
  <2>2. Selected(s, chosen) \o <<>> = Selected(s, chosen)
    BY <1>11, ConcatEmptySeq
  <2> QED BY <1>8, <1>11, <1>13, <2>1, <2>2 DEF more
<1> QED BY <1>12, <1>13

\* A text counts once at most.
LEMMA CostBounds ==
    ASSUME NEW texts, NEW n \in Nat, DOMAIN texts = 1..n
    PROVE  Cost(texts) \in 0..n
<1> DEFINE others == {i \in DOMAIN texts : texts[i] # Common}
<1>1. IsFiniteSet(1..n) /\ Cardinality(1..n) = n
  BY FS_Interval
<1>2. others \subseteq 1..n
  OBVIOUS
<1> HIDE DEF others
<1>3. IsFiniteSet(others) /\ Cardinality(others) <= Cardinality(1..n)
  BY <1>1, <1>2, FS_Subset
<1>4. Cardinality(others) \in Nat
  BY <1>3, FS_CardinalityType
<1> QED BY <1>1, <1>3, <1>4 DEF Cost, others

\* The history of the calls has a type, and what the point has of it is what
\* it has not dropped.
GivenOK ==
    given \in [globals : Seq(Texts \X Texts), tags : Seq(Texts \X Texts),
               fields : Seq(Texts \X FieldValues)]

KeptOfGiven ==
    /\ tags = Selected(given.tags, NotEmpty \X NotEmpty)
    /\ fields = Selected(given.fields, NotEmpty \X FieldValues)
    /\ globalTags = Joined(GlobalEntries(given.globals))

IInv == TypeOK /\ GivenOK /\ KeptOfGiven

LEMMA InitInv == Init => IInv
<1> SUFFICES ASSUME Init
             PROVE  IInv
  OBVIOUS
<1>1. /\ measurement \in Texts /\ tags = <<>> /\ fields = <<>> /\ globalTags = <<>>
      /\ memory = Common /\ calls = 0 /\ special = Cost(<<measurement>>)
      /\ given = [globals |-> <<>>, tags |-> <<>>, fields |-> <<>>]
  BY DEF Init
<1>2. special \in 0..MaxSpecial
  <2>1. DOMAIN <<measurement>> = 1..1
    OBVIOUS
  <2>2. special \in 0..1
    BY <1>1, <2>1, CostBounds
  <2> QED BY <2>2, BoundsAreNaturals
<1>3. \A S : <<>> \in Seq(S)
  BY EmptySeq
<1>4. TypeOK
  BY <1>1, <1>2, <1>3, TextsHaveCommon, BoundsAreNaturals DEF TypeOK
<1>5. GivenOK
  BY <1>1, <1>3 DEF GivenOK
<1>6. KeptOfGiven
  <2>1. \A chosen : Selected(<<>>, chosen) = <<>>
    <3>1. <<>> \in Seq({0})
      BY EmptySeq
    <3> QED BY <3>1, SelectedAppend
  <2>2. GlobalEntries(<<>>) = <<>>
    BY DEF GlobalEntries
  <2>3. Joined(<<>>) = <<>>
    <3>1. <<>> \in Seq(String) /\ <<>> \in String
      BY <1>3, Concatenation
    <3> QED BY <3>1, JoinedAppend
  <2> QED BY <1>1, <2>1, <2>2, <2>3 DEF KeptOfGiven
<1> QED BY <1>4, <1>5, <1>6 DEF IInv

\* The counters stay within their bounds.
LEMMA CalledBounds ==
    ASSUME TypeOK, NEW texts, NEW n \in Nat, DOMAIN texts = 1..n, Called(texts)
    PROVE  calls' \in 0..MaxCalls /\ special' \in 0..MaxSpecial
<1>1. Cost(texts) \in Nat
  BY CostBounds
<1>2. /\ calls \in 0..MaxCalls /\ special \in 0..MaxSpecial
      /\ MaxCalls \in Nat /\ MaxSpecial \in Nat
  BY BoundsAreNaturals DEF TypeOK
<1> PICK cost \in Nat : cost = Cost(texts)
  BY <1>1
<1>3. /\ calls < MaxCalls /\ special + cost <= MaxSpecial
      /\ calls' = calls + 1 /\ special' = special + cost
  BY DEF Called
<1> QED BY <1>2, <1>3

LEMMA AddTagInv == IInv /\ addTag => IInv'
<1> SUFFICES ASSUME IInv, addTag
             PROVE  IInv'
  OBVIOUS
<1>1. TypeOK /\ GivenOK /\ KeptOfGiven
  BY DEF IInv
<1>2. PICK key \in Texts, value \in Texts :
          /\ Called(<<key, value>>)
          /\ tags' = tagsWith(key, value)
          /\ given' = [given EXCEPT !.tags = Append(@, <<key, value>>)]
          /\ UNCHANGED <<measurement, fields, globalTags, memory>>
  BY DEF addTag
<1>3. calls' \in 0..MaxCalls /\ special' \in 0..MaxSpecial
  <2>1. DOMAIN <<key, value>> = 1..2
    OBVIOUS
  <2> QED BY <1>1, <1>2, <2>1, CalledBounds
<1> PICK pair \in Texts \X Texts : pair = <<key, value>>
  OBVIOUS
<1>4. given.tags \in Seq(Texts \X Texts)
  BY <1>1 DEF GivenOK
<1>5. tags' = IF pair \in NotEmpty \X NotEmpty THEN Append(tags, pair) ELSE tags
  BY <1>2 DEF tagsWith, NotEmpty
<1>6. tags' \in Seq((Texts \ {<<>>}) \X (Texts \ {<<>>}))
  <2>1. tags \in Seq(NotEmpty \X NotEmpty)
    BY <1>1 DEF TypeOK, NotEmpty
  <2>2. tags' \in Seq(NotEmpty \X NotEmpty)
    BY <1>5, <2>1, AppendProperties
  <2> QED BY <2>2 DEF NotEmpty
<1>7. TypeOK'
  BY <1>1, <1>2, <1>3, <1>6 DEF TypeOK
<1>8. Append(given.tags, pair) \in Seq(Texts \X Texts)
  BY <1>4, AppendProperties
<1>9. /\ given'.tags = Append(given.tags, pair) /\ given'.fields = given.fields
      /\ given'.globals = given.globals
  BY <1>1, <1>2 DEF GivenOK
<1>10. GivenOK'
  BY <1>1, <1>2, <1>8 DEF GivenOK
<1>11. tags = Selected(given.tags, NotEmpty \X NotEmpty)
  BY <1>1 DEF KeptOfGiven
<1>12. Selected(Append(given.tags, pair), NotEmpty \X NotEmpty)
           = IF pair \in NotEmpty \X NotEmpty
               THEN Append(Selected(given.tags, NotEmpty \X NotEmpty), pair)
               ELSE Selected(given.tags, NotEmpty \X NotEmpty)
  <2>1. PICK S, kept : S = Texts \X Texts /\ kept = NotEmpty \X NotEmpty
    OBVIOUS
  <2>2. PICK before \in Seq(S), new \in S : before = given.tags /\ new = pair
    BY <1>4, <2>1
  <2>3. Selected(Append(before, new), kept)
            = IF new \in kept THEN Append(Selected(before, kept), new)
                             ELSE Selected(before, kept)
    BY SelectedAppend
  <2> QED BY <2>1, <2>2, <2>3
<1>13. tags' = Selected(given'.tags, NotEmpty \X NotEmpty)
  BY <1>5, <1>9, <1>11, <1>12
<1>14. KeptOfGiven'
  BY <1>1, <1>2, <1>9, <1>13 DEF KeptOfGiven
<1> QED BY <1>7, <1>10, <1>14 DEF IInv

LEMMA AddFieldInv == IInv /\ addField => IInv'
<1> SUFFICES ASSUME IInv, addField
             PROVE  IInv'
  OBVIOUS
<1>1. TypeOK /\ GivenOK /\ KeptOfGiven
  BY DEF IInv
<1>2. PICK name \in Texts, value \in Values :
          /\ Called(IF value.type = "string" THEN <<name, value.text>> ELSE <<name>>)
          /\ fields' = IF name = <<>> THEN fields ELSE Append(fields, <<name, value>>)
          /\ given' = [given EXCEPT !.fields = Append(@, <<name, value>>)]
          /\ UNCHANGED <<measurement, tags, globalTags, memory>>
  BY DEF addField
<1>3. calls' \in 0..MaxCalls /\ special' \in 0..MaxSpecial
  <2>1. DOMAIN <<name, value.text>> = 1..2 /\ DOMAIN <<name>> = 1..1
    OBVIOUS
  <2>2. CASE value.type = "string"
    BY <1>1, <1>2, <2>1, <2>2, CalledBounds
  <2>3. CASE value.type # "string"
    BY <1>1, <1>2, <2>1, <2>3, CalledBounds
  <2> QED BY <2>2, <2>3
<1> value \in FieldValues
  BY DEF Values
<1> PICK pair \in Texts \X FieldValues : pair = <<name, value>>
  OBVIOUS
<1>4. given.fields \in Seq(Texts \X FieldValues)
  BY <1>1 DEF GivenOK
<1>5. fields' = IF pair \in NotEmpty \X FieldValues THEN Append(fields, pair) ELSE fields
  BY <1>2 DEF NotEmpty
<1>6. fields' \in Seq((Texts \ {<<>>}) \X FieldValues)
  <2>1. fields \in Seq(NotEmpty \X FieldValues)
    BY <1>1 DEF TypeOK, NotEmpty
  <2>2. fields' \in Seq(NotEmpty \X FieldValues)
    BY <1>5, <2>1, AppendProperties
  <2> QED BY <2>2 DEF NotEmpty
<1>7. TypeOK'
  BY <1>1, <1>2, <1>3, <1>6 DEF TypeOK
<1>8. Append(given.fields, pair) \in Seq(Texts \X FieldValues)
  BY <1>4, AppendProperties
<1>9. /\ given'.fields = Append(given.fields, pair) /\ given'.tags = given.tags
      /\ given'.globals = given.globals
  BY <1>1, <1>2 DEF GivenOK
<1>10. GivenOK'
  BY <1>1, <1>2, <1>8 DEF GivenOK
<1>11. fields = Selected(given.fields, NotEmpty \X FieldValues)
  BY <1>1 DEF KeptOfGiven
<1>12. Selected(Append(given.fields, pair), NotEmpty \X FieldValues)
           = IF pair \in NotEmpty \X FieldValues
               THEN Append(Selected(given.fields, NotEmpty \X FieldValues), pair)
               ELSE Selected(given.fields, NotEmpty \X FieldValues)
  <2>1. PICK S, kept : S = Texts \X FieldValues /\ kept = NotEmpty \X FieldValues
    OBVIOUS
  <2>2. PICK before \in Seq(S), new \in S : before = given.fields /\ new = pair
    BY <1>4, <2>1
  <2>3. Selected(Append(before, new), kept)
            = IF new \in kept THEN Append(Selected(before, kept), new)
                             ELSE Selected(before, kept)
    BY SelectedAppend
  <2> QED BY <2>1, <2>2, <2>3
<1>13. fields' = Selected(given'.fields, NotEmpty \X FieldValues)
  BY <1>5, <1>9, <1>11, <1>12
<1>14. KeptOfGiven'
  BY <1>1, <1>2, <1>9, <1>13 DEF KeptOfGiven
<1> QED BY <1>7, <1>10, <1>14 DEF IInv

\* The global tags grow by what JoinedAppend says of one part more.
LEMMA GlobalTagsGrow ==
    ASSUME NEW list \in Seq(Texts \X Texts), NEW pair \in Texts \X Texts
    PROVE  Joined(GlobalEntries(Append(list, pair)))
               = Joined(GlobalEntries(list))
                 \o (IF Joined(GlobalEntries(list)) = <<>> THEN <<>> ELSE <<",">>)
                 \o pair[1] \o <<"=">> \o pair[2]
<1>1. list \in Seq(String \X String) /\ pair \in String \X String
  <2>1. Texts \X Texts \subseteq String \X String
    BY TextsType
  <2> QED BY <2>1, SeqMonotonic
<1>2. PICK es \in Seq(String) : es = GlobalEntries(list) /\ Len(es) = Len(list)
  BY <1>1, GlobalEntriesAppend
<1>3. PICK x \in String, y \in String : x = pair[1] /\ y = pair[2]
  BY <1>1, EntryType
<1>4. PICK eq \in String : eq = <<"=">> /\ Len(eq) = 1
  BY <1>1, EntryType
<1>5. x \o eq \in String /\ (x \o eq) \o y \in String
  <2>1. x \o eq \in String
    BY Concatenation
  <2> QED BY <2>1, Concatenation
<1>6. PICK e \in String : e = (x \o eq) \o y
  BY <1>5
<1>7. GlobalEntries(Append(list, pair)) = Append(es, e)
  BY <1>1, <1>2, <1>3, <1>4, <1>6, GlobalEntriesAppend DEF GlobalEntry
<1>8. PICK j \in String : j = Joined(es)
  BY JoinedAppend, <1>6
<1>9. j = <<>> <=> es = <<>>
  <2>1. es \in Seq(String \ {<<>>})
    BY <1>1, <1>2, GlobalEntriesFilled
  <2> QED BY <1>8, <2>1, JoinedEmpty
<1>10. CASE es = <<>>
  <2>1. Joined(Append(es, e)) = e
    BY <1>10, JoinedAppend
  <2>2. ((((j \o <<>>) \o x) \o eq) \o y) = e
    <3>1. j = <<>> /\ j \o <<>> = j /\ <<>> \o x = x
      BY <1>9, <1>10, Concatenation
    <3> QED BY <1>6, <3>1
  <2> QED BY <1>2, <1>3, <1>4, <1>7, <1>8, <1>9, <1>10, <2>1, <2>2
<1>11. CASE es # <<>>
  <2>1. PICK c \in String : c = <<",">>
    BY CommaText
  <2>2. Joined(Append(es, e)) = j \o (c \o e)
    BY <1>8, <1>11, <2>1, JoinedAppend
  <2>3. PICK jc \in String : jc = j \o c
    BY Concatenation
  <2>4. j \o (c \o e) = jc \o e
    BY <2>3, Associative
  <2>5. PICK xe \in String : xe = x \o eq
    BY <1>5
  <2>6. jc \o (xe \o y) = (jc \o xe) \o y
    BY Associative
  <2>7. jc \o (x \o eq) = (jc \o x) \o eq
    BY Associative
  <2>8. Joined(Append(es, e)) = (((j \o c) \o x) \o eq) \o y
    BY <1>6, <2>2, <2>3, <2>4, <2>5, <2>6, <2>7
  <2> QED BY <1>2, <1>3, <1>4, <1>7, <1>8, <1>9, <1>11, <2>1, <2>8
<1> QED BY <1>10, <1>11

LEMMA AddGlobalTagInv == IInv /\ addGlobalTag => IInv'
<1> SUFFICES ASSUME IInv, addGlobalTag
             PROVE  IInv'
  OBVIOUS
<1>1. TypeOK /\ GivenOK /\ KeptOfGiven
  BY DEF IInv
<1>2. PICK name \in Texts, value \in Texts :
          /\ Called(<<name, value>>)
          /\ globalTags' = globalTags
                           \o (IF globalTags = <<>> THEN <<>> ELSE <<",">>)
                           \o name \o <<"=">> \o value
          /\ given' = [given EXCEPT !.globals = Append(@, <<name, value>>)]
          /\ UNCHANGED <<measurement, tags, fields, memory>>
  BY DEF addGlobalTag
<1>3. calls' \in 0..MaxCalls /\ special' \in 0..MaxSpecial
  <2>1. DOMAIN <<name, value>> = 1..2
    OBVIOUS
  <2> QED BY <1>1, <1>2, <2>1, CalledBounds
<1> PICK pair \in Texts \X Texts : pair = <<name, value>>
  OBVIOUS
<1>4. given.globals \in Seq(Texts \X Texts)
  BY <1>1 DEF GivenOK
<1>5. TypeOK'
  BY <1>1, <1>2, <1>3 DEF TypeOK
<1>6. Append(given.globals, pair) \in Seq(Texts \X Texts)
  BY <1>4, AppendProperties
<1>7. /\ given'.globals = Append(given.globals, pair) /\ given'.tags = given.tags
      /\ given'.fields = given.fields
  BY <1>1, <1>2 DEF GivenOK
<1>8. GivenOK'
  BY <1>1, <1>2, <1>6 DEF GivenOK
<1>9. globalTags' = Joined(GlobalEntries(given'.globals))
  <2>1. PICK list \in Seq(Texts \X Texts) : list = given.globals
    BY <1>4
  <2>2. Joined(GlobalEntries(Append(list, pair)))
            = Joined(GlobalEntries(list))
              \o (IF Joined(GlobalEntries(list)) = <<>> THEN <<>> ELSE <<",">>)
              \o pair[1] \o <<"=">> \o pair[2]
    BY GlobalTagsGrow
  <2>3. globalTags = Joined(GlobalEntries(list))
    BY <1>1, <2>1 DEF KeptOfGiven
  <2>4. pair[1] = name /\ pair[2] = value
    OBVIOUS
  <2>5. globalTags' = Joined(GlobalEntries(Append(list, pair)))
    BY <1>2, <2>2, <2>3, <2>4
  <2> QED BY <1>7, <2>1, <2>5
<1>10. KeptOfGiven'
  BY <1>1, <1>2, <1>7, <1>9 DEF KeptOfGiven
<1> QED BY <1>5, <1>8, <1>10 DEF IInv

LEMMA OverwriteInv == IInv /\ overwrite => IInv'
<1> SUFFICES ASSUME IInv, overwrite
             PROVE  IInv'
  OBVIOUS
<1>1. TypeOK /\ GivenOK /\ KeptOfGiven
  BY DEF IInv
<1>2. PICK text \in Texts \ {memory} :
          /\ Called(<<text>>)
          /\ memory' = text
          /\ UNCHANGED <<measurement, tags, fields, globalTags, given>>
  BY DEF overwrite
<1>3. calls' \in 0..MaxCalls /\ special' \in 0..MaxSpecial
  <2>1. DOMAIN <<text>> = 1..1
    OBVIOUS
  <2> QED BY <1>1, <1>2, <2>1, CalledBounds
<1>4. TypeOK'
  BY <1>1, <1>2, <1>3 DEF TypeOK
<1>5. GivenOK'
  BY <1>1, <1>2 DEF GivenOK
<1>6. KeptOfGiven'
  BY <1>1, <1>2 DEF KeptOfGiven
<1> QED BY <1>4, <1>5, <1>6 DEF IInv

\* What a point keeps is what it has been given, but for what has no name.
LEMMA Invariance == Spec => []IInv
<1>1. IInv /\ [Next]_vars => IInv'
  <2> SUFFICES ASSUME IInv, [Next]_vars
               PROVE  IInv'
    OBVIOUS
  <2>1. CASE addTag
    BY <2>1, AddTagInv
  <2>2. CASE addField
    BY <2>2, AddFieldInv
  <2>3. CASE addGlobalTag
    BY <2>3, AddGlobalTagInv
  <2>4. CASE overwrite
    BY <2>4, OverwriteInv
  <2>5. CASE UNCHANGED vars
    <3>1. TypeOK' /\ GivenOK' /\ KeptOfGiven'
      BY <2>5 DEF vars, IInv, TypeOK, GivenOK, KeptOfGiven
    <3> QED BY <3>1 DEF IInv
  <2> QED BY <2>1, <2>2, <2>3, <2>4, <2>5 DEF Next
<1> QED BY InitInv, <1>1, PTL DEF Spec

\* Whatever the application calls, and whatever it writes where a pointer
\* points, the point keeps no tag without key or value and no field without
\* name (Point.cxx, addTag and addField).
THEOREM TypeCorrect == Spec => []TypeOK
<1>1. IInv => TypeOK
  BY DEF IInv
<1> QED BY Invariance, <1>1, PTL

-----------------------------------------------------------------------------
(* The line of a point is read back when its names and values allow it.    *)

\* A point with this line; what a pointer points to may have changed.
Writable ==
    /\ measurement # <<>> /\ measurement[1] # "#"
    /\ \A name \in Names : Closes(name)
    /\ fields # <<>>
    /\ \A field \in ToSet(fields) : field[2].type # "notFinite"

IsText(value) == value.type \in {"string", "pointer"}

\* A field as a server reads it now.
FieldAsRead(field) ==
    <<field[1], IF field[2].type = "pointer" THEN memory ELSE field[2].text,
      IsText(field[2])>>

FieldsAsRead == [i \in DOMAIN fields |-> FieldAsRead(fields[i])]

LEMMA NamesHaveAll ==
    /\ measurement \in Names
    /\ \A tag \in ToSet(tags) : tag[1] \in Names /\ tag[2] \in Names
    /\ \A field \in ToSet(fields) : field[1] \in Names
<1> DEFINE ofTags == UNION {{tag[1], tag[2]} : tag \in ToSet(tags)}
           ofFields == {field[1] : field \in ToSet(fields)}
<1>1. \A tag \in ToSet(tags) : tag[1] \in ofTags /\ tag[2] \in ofTags
  <2>1. ASSUME NEW tag \in ToSet(tags)
        PROVE  tag[1] \in ofTags /\ tag[2] \in ofTags
    <3>1. PICK both : both = {tag[1], tag[2]}
      OBVIOUS
    <3>2. both \in {{t[1], t[2]} : t \in ToSet(tags)}
      BY <3>1
    <3> QED BY <3>1, <3>2
  <2> QED BY <2>1
<1>2. \A field \in ToSet(fields) : field[1] \in ofFields
  OBVIOUS
<1>3. Names = {measurement} \union ofTags \union ofFields
  BY DEF Names
<1> HIDE DEF ofTags, ofFields
<1> QED BY <1>1, <1>2, <1>3

LEMMA NamesOfPoint ==
    ASSUME IInv, \A name \in Names : Closes(name)
    PROVE  /\ measurement \in String /\ Closes(measurement)
           /\ tags \in Seq(Name \X Name)
           /\ \A i \in DOMAIN fields : fields[i][1] \in Name
<1>1. /\ measurement \in Texts /\ tags \in Seq(NotEmpty \X NotEmpty)
      /\ fields \in Seq(NotEmpty \X FieldValues)
  BY DEF IInv, TypeOK, NotEmpty
<1>2. \A text \in NotEmpty : text \in String /\ text # <<>>
  BY TextsType DEF NotEmpty
<1>3. measurement \in String /\ Closes(measurement)
  BY <1>1, TextsType DEF Names
<1>4. ASSUME NEW i \in 1..Len(tags)
      PROVE  tags[i] \in Name \X Name
  <2>1. tags[i] \in NotEmpty \X NotEmpty /\ tags[i] \in ToSet(tags)
    BY <1>1, LenProperties, ElementOfSeq DEF ToSet
  <2>2. tags[i][1] \in Names /\ tags[i][2] \in Names
    BY <2>1, NamesHaveAll
  <2>3. tags[i][1] \in Name /\ tags[i][2] \in Name
    BY <1>2, <2>1, <2>2 DEF Name
  <2> QED BY <2>1, <2>3
<1>5. tags \in Seq(Name \X Name)
  <2>1. Len(tags) \in Nat /\ tags \in [1..Len(tags) -> NotEmpty \X NotEmpty]
    BY <1>1, LenProperties
  <2>2. tags \in [1..Len(tags) -> Name \X Name]
    BY <1>4, <2>1
  <2>3. ASSUME NEW S, NEW n \in Nat, NEW u \in [1..n -> S]
        PROVE  u \in Seq(S)
    OBVIOUS
  <2> QED BY <2>1, <2>2, <2>3
<1>6. ASSUME NEW i \in DOMAIN fields
      PROVE  fields[i][1] \in Name
  <2>1. fields[i] \in NotEmpty \X FieldValues /\ fields[i] \in ToSet(fields)
    BY <1>1, LenProperties, ElementOfSeq DEF ToSet
  <2>2. fields[i][1] \in Names /\ fields[i][1] \in NotEmpty
    BY <2>1, NamesHaveAll
  <2> QED BY <1>2, <2>2 DEF Name
<1> QED BY <1>3, <1>5, <1>6

LEMMA FieldsOfPoint ==
    ASSUME IInv, Writable
    PROVE  /\ FieldsAsRead \in Seq(Field) /\ FieldsAsRead # <<>>
           /\ \A i \in DOMAIN fields :
                  escapeKey(fields[i][1]) \o <<"=">> \o valueText(fields[i][2])
                      = FieldEntry(FieldAsRead(fields[i]))
<1>1. fields \in Seq(NotEmpty \X FieldValues) /\ memory \in Texts
  BY DEF IInv, TypeOK, NotEmpty
<1>2. Len(fields) \in Nat /\ DOMAIN fields = 1..Len(fields)
  BY <1>1, LenProperties
<1>3. ASSUME NEW i \in DOMAIN fields
      PROVE  /\ FieldAsRead(fields[i]) \in Field
             /\ escapeKey(fields[i][1]) \o <<"=">> \o valueText(fields[i][2])
                    = FieldEntry(FieldAsRead(fields[i]))
  <2>1. fields[i] \in NotEmpty \X FieldValues /\ fields[i] \in ToSet(fields)
    BY <1>1, <1>2, ElementOfSeq DEF ToSet
  <2>2. PICK name \in Name : name = fields[i][1]
    BY NamesOfPoint DEF Writable
  <2>3. PICK value \in FieldValues : value = fields[i][2] /\ value.type # "notFinite"
    BY <2>1 DEF Writable
  <2>4. value.text \in String /\ memory \in String
    BY <1>1, TextsType
  <2>5. ~IsText(value) => value.text = <<"1">>
    BY <2>3 DEF FieldValues, Value, IsText
  <2>6. PICK text \in String : text = IF value.type = "pointer" THEN memory ELSE value.text
    BY <2>4
  <2>7. PICK f : f = <<name, text, IsText(value)>>
    OBVIOUS
  <2>8. FieldAsRead(fields[i]) = f
    BY <2>2, <2>3, <2>6, <2>7 DEF FieldAsRead
  <2>9. IsText(value) \in BOOLEAN
    BY DEF IsText
  <2>10. f \in Field
    BY <2>5, <2>6, <2>7, <2>9 DEF Field, IsText
  <2>11. valueText(value) = IF f[3] THEN escapeStringValue(f[2]) ELSE <<"1">>
    <3>1. CASE value.type = "string"
      BY <2>6, <2>7, <3>1 DEF valueText, IsText
    <3>2. CASE value.type = "pointer"
      BY <2>6, <2>7, <3>2 DEF valueText, IsText
    <3>3. CASE value.type \notin {"string", "pointer"}
      BY <2>5, <2>7, <3>3 DEF valueText, IsText
    <3> QED BY <3>1, <3>2, <3>3
  <2>12. FieldEntry(f) = escapeKey(name) \o <<"=">> \o valueText(value)
    BY <2>7, <2>11 DEF FieldEntry
  <2> QED BY <2>2, <2>3, <2>8, <2>10, <2>12
<1>4. FieldsAsRead \in [1..Len(fields) -> Field]
  BY <1>2, <1>3 DEF FieldsAsRead
<1>5. FieldsAsRead \in Seq(Field)
  BY <1>2, <1>4
<1>6. FieldsAsRead # <<>>
  <2>1. Len(fields) # 0
    BY <1>1, EmptySeq DEF Writable
  <2>2. 1 \in DOMAIN FieldsAsRead
    BY <1>2, <2>1 DEF FieldsAsRead
  <2> QED BY <2>2
<1> QED BY <1>3, <1>5, <1>6

\* Global tags that need no escape are written like the tags of a point.
LEMMA PlainGlobals ==
    ASSUME IInv, PlainGlobalTags
    PROVE  /\ given.globals \in Seq(Name \X Name)
           /\ GlobalEntries(given.globals) = Entries(given.globals)
<1>1. PICK list : list = given.globals
  OBVIOUS
<1>2. list \in Seq(Texts \X Texts)
  BY <1>1 DEF IInv, GivenOK
<1>3. Len(list) \in Nat /\ DOMAIN list = 1..Len(list)
  BY <1>2, LenProperties
<1>4. ASSUME NEW i \in 1..Len(list)
      PROVE  list[i] \in Name \X Name /\ GlobalEntry(list[i]) = Entry(list[i])
  <2>1. list[i] \in Texts \X Texts /\ list[i] \in ToSet(list)
    BY <1>2, <1>3, ElementOfSeq DEF ToSet
  <2>2. NeedsNoEscape(list[i][1]) /\ NeedsNoEscape(list[i][2])
    BY <1>1, <2>1 DEF PlainGlobalTags
  <2>3. ASSUME NEW t \in Texts, NeedsNoEscape(t)
        PROVE  t \in Name /\ escapeKey(t) = t
    <3>1. t \in String /\ t # <<>> /\ Closes(t)
      BY <2>3, TextsType DEF NeedsNoEscape
    <3>2. {",", "=", " "} \intersect ToSet(t) = {}
      BY <2>3 DEF NeedsNoEscape
    <3>3. IsPlain(t, {",", "=", " "})
      BY <3>1, <3>2, LenProperties DEF IsPlain, ToSet, String
    <3> QED BY <3>1, <3>3, EscapePlain DEF escapeKey, Name
  <2>4. list[i][1] \in Texts /\ list[i][2] \in Texts /\ list[i] = <<list[i][1], list[i][2]>>
    BY <2>1
  <2> QED BY <2>2, <2>3, <2>4 DEF GlobalEntry, Entry
<1>5. list \in Seq(Name \X Name)
  <2>1. list \in [1..Len(list) -> Name \X Name]
    <3>1. list \in [1..Len(list) -> Texts \X Texts]
      BY <1>2, LenProperties
    <3> QED BY <1>4, <3>1
  <2>2. ASSUME NEW S, NEW n \in Nat, NEW u \in [1..n -> S]
        PROVE  u \in Seq(S)
    OBVIOUS
  <2> QED BY <1>3, <2>1, <2>2
<1>6. GlobalEntries(list) = Entries(list)
  BY <1>3, <1>4 DEF GlobalEntries, Entries
<1> QED BY <1>1, <1>5, <1>6

\* The tags of a point are written behind the global ones.
LEMMA TagsWritten ==
    ASSUME NEW list \in Seq(String \X String)
    PROVE  /\ appendIfNotEmpty(Joined(Entries(list)), ",") = TagsText(list)
           /\ appendIfNotEmpty(Joined(GlobalEntries(list)), ",")
                  = Behind(GlobalEntries(list))
           /\ TagsText(list) \in String /\ Behind(GlobalEntries(list)) \in String
<1>1. /\ GlobalEntries(list) \in Seq(String \ {<<>>})
      /\ Entries(list) \in Seq(String \ {<<>>})
  BY GlobalEntriesFilled
<1>2. ASSUME NEW ps \in Seq(String \ {<<>>})
      PROVE  appendIfNotEmpty(Joined(ps), ",") = Behind(ps) /\ Behind(ps) \in String
  <2>1. ps \in Seq(String) /\ (Joined(ps) = <<>> <=> ps = <<>>)
    BY JoinedEmpty
  <2>2. Behind(ps) \in String
    BY <2>1, CommaText, BehindAppend
  <2>3. appendIfNotEmpty(Joined(ps), ",") = Behind(ps)
    BY <2>1 DEF appendIfNotEmpty, Behind
  <2> QED BY <2>2, <2>3
<1> QED BY <1>1, <1>2 DEF TagsText

LEMMA FormatText ==
    ASSUME IInv, Writable, PlainGlobalTags
    PROVE  format = LineText(measurement, given.globals \o tags, FieldsAsRead)
<1>1. /\ given.globals \in Seq(Name \X Name) /\ tags \in Seq(Name \X Name)
      /\ GlobalEntries(given.globals) = Entries(given.globals)
      /\ measurement \in String
  BY PlainGlobals, NamesOfPoint DEF Writable
<1>2. PICK gs \in Seq(String \X String) : gs = given.globals
  BY <1>1, NamePairs
<1>3. PICK ts \in Seq(String \X String) : ts = tags
  BY <1>1, NamePairs
<1>4. PICK mt \in String : mt = escapeMeasurement(measurement)
  BY <1>1, EscapeType DEF escapeMeasurement
<1>5. PICK gt \in String : gt = TagsText(gs)
  BY TagsWritten
<1>6. PICK tt \in String : tt = TagsText(ts)
  BY TagsWritten
<1>7. appendIfNotEmpty(globalTags, ",") = gt
  <2>1. globalTags = Joined(GlobalEntries(gs))
    BY <1>2 DEF IInv, KeptOfGiven
  <2>2. globalTags = Joined(Entries(gs))
    BY <1>1, <1>2, <2>1
  <2> QED BY <1>5, <2>2, TagsWritten
<1>8. appendIfNotEmpty(getTags, ",") = tt
  <2>1. getTags = Joined(Entries(ts))
    BY <1>3 DEF getTags, Entries, Entry
  <2> QED BY <1>6, <2>1, TagsWritten
<1>9. appendIfNotEmpty(getFields, " ") = <<" ">> \o Joined(FieldEntries(FieldsAsRead))
  <2>1. fields \in Seq(NotEmpty \X FieldValues)
    BY DEF IInv, TypeOK, NotEmpty
  <2>2. DOMAIN fields = 1..Len(fields) /\ Len(fields) \in Nat
    BY <2>1, LenProperties
  <2>3. DOMAIN FieldsAsRead = DOMAIN fields
        /\ \A i \in DOMAIN fields : FieldsAsRead[i] = FieldAsRead(fields[i])
    BY DEF FieldsAsRead
  <2>4. [i \in DOMAIN fields |->
            escapeKey(fields[i][1]) \o <<"=">> \o valueText(fields[i][2])]
            = FieldEntries(FieldsAsRead)
    BY <2>3, FieldsOfPoint DEF FieldEntries
  <2>5. getFields = Joined(FieldEntries(FieldsAsRead))
    BY <2>4 DEF getFields
  <2>6. FieldEntries(FieldsAsRead) \in Seq(String \ {<<>>})
    <3>1. FieldsAsRead \in Seq(Field)
      BY FieldsOfPoint
    <3>2. ASSUME NEW f \in Field
          PROVE  FieldEntry(f) \in String \ {<<>>}
      <4>1. PICK a \in String, b \in String :
                a = escapeKey(f[1]) /\ b = IF f[3] THEN escapeStringValue(f[2]) ELSE <<"1">>
        BY FieldParts
      <4>2. (a \o <<"=">>) \o b \in String \ {<<>>}
        BY AroundEquals
      <4> QED BY <4>1, <4>2 DEF FieldEntry
    <3> DEFINE Filled == String \ {<<>>}
    <3>3. Len(FieldsAsRead) \in Nat /\ DOMAIN FieldsAsRead = 1..Len(FieldsAsRead)
          /\ \A i \in 1..Len(FieldsAsRead) : FieldsAsRead[i] \in Field
      BY <3>1, LenProperties, ElementOfSeq
    <3>4. \A f \in Field : FieldEntry(f) \in Filled
      BY <3>2
    <3> HIDE DEF Filled
    <3>5. FieldEntries(FieldsAsRead) \in [1..Len(FieldsAsRead) -> Filled]
      BY <3>3, <3>4 DEF FieldEntries
    <3>6. ASSUME NEW n \in Nat, NEW u \in [1..n -> Filled]
          PROVE  u \in Seq(Filled)
      OBVIOUS
    <3>7. FieldEntries(FieldsAsRead) \in Seq(Filled)
      BY <3>3, <3>5, <3>6
    <3> QED BY <3>7 DEF Filled
  <2>7. FieldEntries(FieldsAsRead) # <<>>
    <3>1. 1 \in DOMAIN fields
      <4>1. Len(fields) # 0
        BY <2>1, EmptySeq DEF Writable
      <4> QED BY <2>2, <4>1
    <3>2. 1 \in DOMAIN FieldEntries(FieldsAsRead)
      BY <2>3, <3>1 DEF FieldEntries
    <3> QED BY <3>2
  <2>8. Joined(FieldEntries(FieldsAsRead)) # <<>>
    BY <2>6, <2>7, JoinedEmpty
  <2> QED BY <2>5, <2>8 DEF appendIfNotEmpty
<1>10. TagsText(given.globals \o tags) = gt \o tt
  BY <1>2, <1>3, <1>5, <1>6, TagsTextConcat
<1>11. (mt \o gt) \o tt = mt \o (gt \o tt)
  BY Associative
<1>12. format = (((mt \o gt) \o tt) \o (<<" ">> \o Joined(FieldEntries(FieldsAsRead))))
                    \o <<" ", "54">>
  BY <1>4, <1>7, <1>8, <1>9 DEF format
<1> QED BY <1>4, <1>10, <1>11, <1>12 DEF LineText

\* A line with all that it takes is read as the point, with what its pointers
\* point to now.
LEMMA WritableIsRead ==
    ASSUME IInv, Writable, PlainGlobalTags
    PROVE  HasRead(Understood, measurement, given.globals \o tags, FieldsAsRead)
<1>1. measurement \in Name /\ measurement[1] # "#"
  BY NamesOfPoint DEF Writable, Name
<1>2. given.globals \o tags \in Seq(Name \X Name)
  <2>1. given.globals \in Seq(Name \X Name) /\ tags \in Seq(Name \X Name)
    BY PlainGlobals, NamesOfPoint DEF Writable
  <2> QED BY <2>1, ConcatProperties
<1>3. FieldsAsRead \in Seq(Field) /\ FieldsAsRead # <<>>
  BY FieldsOfPoint
<1>4. PICK m \in Name, list \in Seq(Name \X Name), values \in Seq(Field) :
          m = measurement /\ list = given.globals \o tags /\ values = FieldsAsRead
  BY <1>1, <1>2, <1>3
<1>5. HasRead(ReadLine(LineText(m, list, values)), m, list, values)
  BY <1>1, <1>3, <1>4, LineIsRead
<1> QED BY <1>4, <1>5, FormatText DEF Understood

\* What the application asked for, in terms of the point.
LEMMA ExpectedOfPoint ==
    ASSUME IInv
    PROVE  /\ DOMAIN Expected = {"measurement", "tags", "fields"}
           /\ Expected.measurement = measurement
           /\ Expected.tags = given.globals \o tags
           /\ Expected.fields = [i \in DOMAIN fields |->
                                    <<fields[i][1], fields[i][2].text, IsText(fields[i][2])>>]
<1>1. /\ tags = Selected(given.tags, NotEmpty \X NotEmpty)
      /\ fields = Selected(given.fields, NotEmpty \X FieldValues)
  BY DEF IInv, KeptOfGiven
<1>2. Expected = [measurement |-> measurement, tags |-> given.globals \o tags,
                  fields |-> [i \in DOMAIN fields |->
                                 <<fields[i][1], fields[i][2].text,
                                   fields[i][2].type \in {"string", "pointer"}>>]]
  BY <1>1 DEF Expected
<1> QED BY <1>2 DEF IsText

LEMMA SoundIsUnderstood ==
    ASSUME IInv, Sound, PlainGlobalTags
    PROVE  IsUnderstood
<1>1. Writable
  BY DEF Writable, Sound
<1>2. HasRead(Understood, measurement, given.globals \o tags, FieldsAsRead)
  BY <1>1, WritableIsRead
<1>3. FieldsAsRead = [i \in DOMAIN fields |->
                         <<fields[i][1], fields[i][2].text, IsText(fields[i][2])>>]
  <2>1. ASSUME NEW i \in DOMAIN fields
        PROVE  FieldAsRead(fields[i])
                   = <<fields[i][1], fields[i][2].text, IsText(fields[i][2])>>
    <3>1. fields[i] \in ToSet(fields)
      BY DEF ToSet
    <3>2. fields[i][2].type = "pointer" => fields[i][2].text = memory
      BY <3>1 DEF Sound
    <3> QED BY <3>2 DEF FieldAsRead
  <2> QED BY <2>1 DEF FieldsAsRead
<1> QED BY <1>2, <1>3, ExpectedOfPoint DEF IsUnderstood, HasRead

-----------------------------------------------------------------------------
(* What a line must have been, from what has been read in it.              *)

\* What goes in front of a tag or of the fields that are being read.
Opening(r) == escapeMeasurement(r.measurement) \o TagsText(r.tags)

\* The parts of a point that have been read.
Known(r) ==
    /\ r.measurement \in Name /\ r.measurement[1] # "#"
    /\ r.tags \in Seq(Name \X Name)
    /\ r.fields \in Seq(Field)

\* A name that is being read.
Clean(r) == IsPlain(r.text, {"\n"}) /\ r.back = EndsInBackslash(r.text)

BehindBlank(r, line) ==
    \E rest \in String : line = Opening(r) \o (<<" ">> \o rest)

InMeasurement(r, line) ==
    /\ r.at = "measurement" /\ Clean(r) /\ r.tags = <<>> /\ r.fields = <<>>
    /\ r.text = <<>> => r = Start
    /\ r.text # <<>> => r.text[1] # "#"
    /\ line = escapeMeasurement(r.text)

InTagKey(r, line) ==
    /\ r.at = "tagKey" /\ Clean(r) /\ Known(r)
    /\ line = Opening(r) \o (<<",">> \o escapeKey(r.text))

InTagValue(r, line) ==
    /\ r.at = "tagValue" /\ Clean(r) /\ Known(r) /\ r.key \in Name
    /\ line = Opening(r) \o (<<",">> \o Entry(<<r.key, r.text>>))

InFieldKey(r, line) ==
    r.at = "fieldKey" /\ Clean(r) /\ Known(r) /\ BehindBlank(r, line)

InValue(r, line) ==
    /\ r.at \in {"fieldValue", "quoted", "closed"} /\ Known(r) /\ r.key \in Name
    /\ BehindBlank(r, line)
    /\ r.at = "fieldValue" => r.text \in {<<>>, <<"1">>}

InTime(r, line) ==
    r.at = "time" /\ Known(r) /\ r.fields # <<>> /\ BehindBlank(r, line)

\* The reader behind this line.
Fits(r, line) ==
    \/ r.at = "wrong"
    \/ InMeasurement(r, line) \/ InTagKey(r, line) \/ InTagValue(r, line)
    \/ InFieldKey(r, line) \/ InValue(r, line) \/ InTime(r, line)

\* What has been read with one character more of a name.
Taken(q, r, c) ==
    /\ q \in Readers /\ q.at = r.at /\ Clean(q) /\ q.text # <<>>
    /\ q.key = r.key /\ q.measurement = r.measurement
    /\ q.tags = r.tags /\ q.fields = r.fields
    /\ escape(q.text, Escaped(r.at)) = escape(r.text, Escaped(r.at)) \o <<c>>
    /\ r.text # <<>> /\ r.text[1] # "#" => q.text[1] # "#"
    /\ r.text = <<>> /\ c # "#" => q.text[1] # "#"

\* A character of a name is one of the text, or makes it one of those to
\* escape that the text has behind a backslash.
LEMMA TakeName ==
    ASSUME NEW r \in Readers, r.at \in NameParts, Clean(r),
           NEW c \in Chars, c # "\n", c \in Escaped(r.at) => r.back,
           NEW q, q = Take(r, c, Escaped(r.at))
    PROVE  Taken(q, r, c)
<1>1. r.text \in String
  BY DEF Readers
<1>2. q \in Readers
  BY TakeType
<1>3. PICK E : E = Escaped(r.at)
  OBVIOUS
<1>4. "\\" \notin E /\ "#" \notin E /\ "\\" \in Chars
  BY <1>3, EscapedNames DEF Chars
<1>5. r.back = EndsInBackslash(r.text) /\ IsPlain(r.text, {"\n"})
  BY DEF Clean
<1>6. /\ q.at = r.at /\ q.key = r.key /\ q.measurement = r.measurement
      /\ q.tags = r.tags /\ q.fields = r.fields /\ q.back = (c = "\\")
      /\ q.text = IF r.back /\ c \in E THEN Append(Front(r.text), c)
                                       ELSE Append(r.text, c)
  BY <1>3 DEF Take, Readers
<1>7. CASE c \notin E
  <2>1. q.text = Append(r.text, c)
    BY <1>6, <1>7
  <2>2. Written(c, E) = <<c>>
    BY <1>7 DEF Written
  <2>3. escape(q.text, E) = escape(r.text, E) \o <<c>>
    <3>1. escape(Append(r.text, c), E) = escape(r.text, E) \o Written(c, E)
      BY <1>1, EscapeAppend
    <3> QED BY <2>1, <2>2, <3>1
  <2>4. q.text # <<>> /\ Last(q.text) = c
    BY <1>1, <2>1, AppendProperties, FrontAppend DEF String
  <2>5. IsPlain(q.text, {"\n"})
    <3>1. IsPlain(Append(r.text, c), {"\n"}) <=> IsPlain(r.text, {"\n"}) /\ c \notin {"\n"}
      BY <1>1, PlainAppend DEF String
    <3> QED BY <1>5, <2>1, <3>1
  <2>6. Clean(q)
    BY <1>6, <2>4, <2>5 DEF Clean, EndsInBackslash
  <2>7. q.text[1] = IF r.text = <<>> THEN c ELSE r.text[1]
    <3>1. /\ Len(r.text) \in Nat /\ (r.text = <<>> <=> Len(r.text) = 0)
          /\ \A i \in 1..Len(r.text) : Append(r.text, c)[i] = r.text[i]
          /\ Append(r.text, c)[Len(r.text) + 1] = c
      BY <1>1, EmptySeq, LenProperties, AppendProperties DEF String
    <3> QED BY <2>1, <3>1
  <2> QED BY <1>2, <1>3, <1>6, <2>3, <2>4, <2>6, <2>7 DEF Taken
<1>8. CASE c \in E
  <2>1. r.text # <<>> /\ Last(r.text) = "\\" /\ r.back
    BY <1>3, <1>5, <1>8 DEF EndsInBackslash
  <2>2. PICK s \in String, e \in Chars : r.text = Append(s, e)
    BY <1>1, <2>1, SequenceEmptyOrAppend DEF String
  <2>3. Front(r.text) = s /\ e = "\\"
    BY <2>1, <2>2, FrontAppend DEF String
  <2>4. q.text = Append(s, c)
    BY <1>6, <1>8, <2>1, <2>3
  <2>5. escape(q.text, E) = escape(r.text, E) \o <<c>>
    <3>1. /\ escape(Append(s, c), E) = escape(s, E) \o Written(c, E)
          /\ escape(Append(s, e), E) = escape(s, E) \o Written(e, E)
      BY EscapeAppend
    <3>2. Written(e, E) = <<"\\">> /\ Written(c, E) = <<"\\", c>>
      BY <1>4, <1>8, <2>3 DEF Written
    <3>3. PICK u \in String : u = escape(s, E)
      BY EscapeType
    <3>4. PICK b \in String, d \in String : b = <<"\\">> /\ d = <<c>>
      BY WrittenType
    <3>5. <<"\\", c>> = b \o d
      BY <3>4, WrittenType
    <3>6. (u \o b) \o d = u \o (b \o d)
      BY Associative
    <3> QED BY <2>2, <2>4, <3>1, <3>2, <3>3, <3>4, <3>5, <3>6
  <2>6. q.text # <<>> /\ Last(q.text) = c
    BY <2>4, AppendProperties, FrontAppend DEF String
  <2>7. IsPlain(q.text, {"\n"})
    <3>1. /\ IsPlain(Append(s, c), {"\n"}) <=> IsPlain(s, {"\n"}) /\ c \notin {"\n"}
          /\ IsPlain(Append(s, e), {"\n"}) <=> IsPlain(s, {"\n"}) /\ e \notin {"\n"}
      BY PlainAppend DEF String
    <3> QED BY <1>5, <2>2, <2>4, <3>1
  <2>8. Clean(q)
    BY <1>6, <2>6, <2>7 DEF Clean, EndsInBackslash
  <2>9. /\ s = <<>> => q.text[1] = c
        /\ s # <<>> => q.text[1] = s[1] /\ r.text[1] = s[1]
    <3>1. /\ Len(s) \in Nat /\ (s = <<>> <=> Len(s) = 0)
          /\ \A i \in 1..Len(s) : Append(s, c)[i] = s[i] /\ Append(s, e)[i] = s[i]
          /\ Append(s, c)[Len(s) + 1] = c
      BY EmptySeq, LenProperties, AppendProperties DEF String
    <3> QED BY <2>2, <2>4, <3>1
  <2>10. c # "#"
    BY <1>4, <1>8
  <2> QED BY <1>2, <1>3, <1>6, <2>1, <2>5, <2>6, <2>8, <2>9, <2>10 DEF Taken
<1> QED BY <1>7, <1>8

\* A name that ends is one, and what is read next begins anew.
LEMMA NameEnds ==
    ASSUME NEW r \in Readers, r.at \in NameParts, Clean(r), r.text # <<>>, ~r.back
    PROVE  r.text \in Name
<1>1. r.text \in String /\ IsPlain(r.text, {"\n"}) /\ ~EndsInBackslash(r.text)
  BY DEF Readers, Clean
<1>2. "\n" \notin ToSet(r.text)
  BY <1>1, LenProperties DEF IsPlain, ToSet, String
<1> QED BY <1>1, <1>2 DEF Name, Closes, EndsInBackslash

\* Behind the blank that ends the tags, a line goes on.
LEMMA BlankMore ==
    ASSUME NEW r, NEW q, NEW line, NEW c \in Chars, Known(r), BehindBlank(r, line),
           q.measurement = r.measurement, q.tags = r.tags
    PROVE  BehindBlank(q, Append(line, c))
<1>1. PICK rest \in String : line = Opening(r) \o (<<" ">> \o rest)
  BY DEF BehindBlank
<1>2. PICK o \in String : o = Opening(r)
  <2>1. r.measurement \in String /\ r.tags \in Seq(String \X String)
    BY NamePairs DEF Known
  <2>2. escapeMeasurement(r.measurement) \in String
    BY <2>1, EscapeType DEF escapeMeasurement
  <2> QED BY <2>1, <2>2, TagsTextType, Concatenation DEF Opening
<1>3. " " \in Chars /\ <<" ">> \in String
  <2>1. " " \in Chars
    BY DEF Chars
  <2> QED BY <2>1, WrittenType
<1>4. PICK b \in String : b = <<" ">>
  BY <1>3
<1>5. PICK br \in String : br = b \o rest
  BY Concatenation
<1>6. Append(rest, c) \in String
  BY AppendProperties DEF String
<1>7. \A s, t \in String : s \o Append(t, c) = Append(s \o t, c)
  BY ConcatAppend DEF String
<1>8. Append(line, c) = o \o (b \o Append(rest, c))
  BY <1>1, <1>2, <1>4, <1>5, <1>7
<1>9. Opening(q) = o
  BY <1>2 DEF Opening
<1> QED BY <1>4, <1>6, <1>8, <1>9 DEF BehindBlank

\* Behind a text, a character.
LEMMA OneBehind ==
    ASSUME NEW c \in Chars
    PROVE  /\ <<c>> \in String
           /\ \A s \in String : s \o <<c>> = Append(s, c) /\ Append(s, c) \in String
           /\ \A s, t \in String : Append(s \o t, c) = s \o (t \o <<c>>)
<1>1. <<c>> \in String
  BY WrittenType
<1>2. \A s \in String : s \o <<c>> = Append(s, c) /\ Append(s, c) \in String
  BY AppendIsConcat, AppendProperties DEF String
<1>3. \A s, t \in String : Append(s \o t, c) = s \o (t \o <<c>>)
  <2>1. \A s, t \in String : s \o Append(t, c) = Append(s \o t, c)
    BY ConcatAppend DEF String
  <2> QED BY <1>2, <2>1
<1> QED BY <1>1, <1>2, <1>3

LEMMA ThreeBehind ==
    ASSUME NEW c \in Chars, NEW s \in String, NEW t \in String, NEW u \in String
    PROVE  Append(s \o (t \o u), c) = s \o (t \o (u \o <<c>>))
<1>1. PICK w \in String : w = t \o u
  BY Concatenation
<1>2. Append(s \o w, c) = s \o (w \o <<c>>)
  BY OneBehind
<1>3. w \o <<c>> = Append(w, c)
  BY OneBehind
<1>4. Append(t \o u, c) = t \o (u \o <<c>>)
  BY OneBehind
<1> QED BY <1>1, <1>2, <1>3, <1>4

\* In a name a character is taken, or ends it.
LEMMA NameStep ==
    ASSUME NEW r \in Readers, r.at \in NameParts, Clean(r), NEW c \in Chars,
           NEW q, q = ReadCharacter(r, c), q.at # "wrong"
    PROVE  \/ /\ c # "\n" /\ (c = "#" => r # Start)
              /\ c \in Escaped(r.at) => r.back
              /\ q = Take(r, c, Escaped(r.at))
           \/ /\ LeadsTo(r.at, c) # "nothing" /\ r.text \in Name
              /\ q = Closed(r, LeadsTo(r.at, c))
<1>1. Wrong(r).at = "wrong"
  BY DEF Wrong, Readers
<1>2. r.at \notin {"wrong", "quoted", "fieldValue"}
  BY DEF NameParts
<1>3. ~IsWrong(r, c)
  BY <1>1, <1>2 DEF ReadCharacter
<1>4. c # "\n" /\ (c = "#" => r # Start)
  BY <1>3 DEF IsWrong
<1>5. c \in Escaped(r.at) /\ LeadsTo(r.at, c) = "nothing" => IsEscaped(r, c)
  BY <1>3 DEF IsWrong
<1>6. CASE LeadsTo(r.at, c) # "nothing" /\ ~IsEscaped(r, c)
  <2>1. q = Closed(r, LeadsTo(r.at, c))
    BY <1>2, <1>3, <1>6 DEF ReadCharacter
  <2>2. r.text # <<>>
    <3>1. r.at # "closed"
      BY DEF NameParts
    <3>2. ASSUME r.text = <<>>
          PROVE  Closed(r, LeadsTo(r.at, c)) = Wrong(r)
      BY <3>1, <3>2 DEF Closed
    <3> QED BY <1>1, <2>1, <3>2
  <2>3. ~r.back
    BY <1>6, EscapedNames DEF IsEscaped
  <2> QED BY <1>6, <2>1, <2>2, <2>3, NameEnds
<1>7. CASE ~(LeadsTo(r.at, c) # "nothing" /\ ~IsEscaped(r, c))
  <2>1. q = Take(r, c, Escaped(r.at))
    BY <1>2, <1>3, <1>7 DEF ReadCharacter
  <2>2. c \in Escaped(r.at) => r.back
    BY <1>5, <1>7 DEF IsEscaped
  <2> QED BY <1>4, <2>1, <2>2
<1> QED BY <1>6, <1>7

LEMMA OpeningType ==
    ASSUME NEW r, Known(r)
    PROVE  Opening(r) \in String /\ escapeMeasurement(r.measurement) \in String
           /\ TagsText(r.tags) \in String
<1>1. r.measurement \in String /\ r.tags \in Seq(String \X String)
  BY NamePairs DEF Known
<1>2. escapeMeasurement(r.measurement) \in String
  BY <1>1, EscapeType DEF escapeMeasurement
<1> QED BY <1>1, <1>2, TagsTextType, Concatenation DEF Opening

\* Nothing has been read of a part that begins.
LEMMA NothingRead ==
    ASSUME NEW r, r.text = <<>>, r.back = FALSE
    PROVE  Clean(r) /\ escapeKey(r.text) = <<>>
<1>1. escapeKey(<<>>) = <<>>
  <2>1. <<>> \in String /\ "\\" \in Chars
    BY Concatenation DEF Chars
  <2> QED BY <2>1, EscapeAppend DEF escapeKey
<1>2. IsPlain(<<>>, {"\n"})
  <2>1. Len(<<>>) = 0
    BY EmptySeq
  <2> QED BY <2>1 DEF IsPlain
<1>3. ~EndsInBackslash(<<>>)
  BY DEF EndsInBackslash
<1>4. EndsInBackslash(r.text) = FALSE
  <2>1. EndsInBackslash(r.text) \in BOOLEAN
    BY DEF EndsInBackslash
  <2> QED BY <1>3, <2>1
<1> QED BY <1>1, <1>2, <1>4 DEF Clean

LEMMA ReadInMeasurement ==
    ASSUME NEW r \in Readers, NEW line \in String, InMeasurement(r, line),
           NEW c \in Chars, NEW q, q = ReadCharacter(r, c), q.at # "wrong"
    PROVE  Fits(q, Append(line, c))
<1>1. /\ r.at = "measurement" /\ r.at \in NameParts /\ Clean(r)
      /\ r.tags = <<>> /\ r.fields = <<>> /\ r.text \in String
      /\ r.text = <<>> => r = Start
      /\ r.text # <<>> => r.text[1] # "#"
      /\ line = escapeMeasurement(r.text)
  BY DEF InMeasurement, NameParts, Readers
<1>2. \A t : escapeMeasurement(t) = escape(t, Escaped(r.at))
  BY <1>1, EscapedNames DEF escapeMeasurement
<1>3. Append(line, c) = line \o <<c>>
  BY OneBehind
<1>4. CASE /\ c # "\n" /\ (c = "#" => r # Start)
           /\ c \in Escaped(r.at) => r.back
           /\ q = Take(r, c, Escaped(r.at))
  <2>1. /\ q.at = r.at /\ Clean(q) /\ q.text # <<>>
        /\ q.tags = r.tags /\ q.fields = r.fields
        /\ escape(q.text, Escaped(r.at)) = escape(r.text, Escaped(r.at)) \o <<c>>
        /\ r.text # <<>> /\ r.text[1] # "#" => q.text[1] # "#"
        /\ r.text = <<>> /\ c # "#" => q.text[1] # "#"
    <3>1. Taken(q, r, c)
      BY <1>1, <1>4, TakeName
    <3> QED BY <3>1 DEF Taken
  <2>2. q.text[1] # "#"
    BY <1>1, <1>4, <2>1
  <2>3. Append(line, c) = escapeMeasurement(q.text)
    BY <1>1, <1>2, <1>3, <2>1
  <2> QED BY <1>1, <2>1, <2>2, <2>3 DEF Fits, InMeasurement
<1>5. CASE /\ LeadsTo(r.at, c) # "nothing" /\ r.text \in Name
           /\ q = Closed(r, LeadsTo(r.at, c))
  <2>1. r.text # <<>>
    BY <1>5 DEF Name
  <2>2. \/ c = "," /\ LeadsTo(r.at, c) = "tagKey"
        \/ c = " " /\ LeadsTo(r.at, c) = "fieldKey"
    BY <1>1, <1>5 DEF LeadsTo
  <2>3. /\ q.at = LeadsTo(r.at, c) /\ q.back = FALSE /\ q.text = <<>>
        /\ q.measurement = r.text /\ q.tags = <<>> /\ q.fields = <<>>
    BY <1>1, <1>5, <2>1 DEF Closed, Readers
  <2>4. Known(q)
    <3>1. <<>> \in Seq(Name \X Name) /\ <<>> \in Seq(Field)
      BY EmptySeq
    <3> QED BY <1>1, <1>5, <2>1, <2>3, <3>1 DEF Known
  <2>5. Clean(q) /\ escapeKey(q.text) = <<>>
    BY <2>3, NothingRead
  <2>6. Opening(q) = line
    <3>1. Opening(q) = line \o <<>>
      BY <1>1, <2>3, TagsTextNone DEF Opening
    <3> QED BY <3>1, Concatenation
  <2>7. Append(line, c) = Opening(q) \o (<<c>> \o <<>>)
    BY <1>3, <2>6, OneBehind, Concatenation
  <2>8. CASE c = ","
    BY <2>2, <2>3, <2>4, <2>5, <2>7, <2>8 DEF Fits, InTagKey
  <2>9. CASE c = " "
    <3>1. BehindBlank(q, Append(line, c))
      BY <2>7, <2>9, Concatenation DEF BehindBlank
    <3> QED BY <2>2, <2>3, <2>4, <2>5, <2>9, <3>1 DEF Fits, InFieldKey
  <2> QED BY <2>2, <2>8, <2>9
<1> QED BY <1>1, <1>4, <1>5, NameStep

LEMMA ReadInTagKey ==
    ASSUME NEW r \in Readers, NEW line \in String, InTagKey(r, line),
           NEW c \in Chars, NEW q, q = ReadCharacter(r, c), q.at # "wrong"
    PROVE  Fits(q, Append(line, c))
<1>1. /\ r.at = "tagKey" /\ r.at \in NameParts /\ Clean(r) /\ Known(r)
      /\ r.text \in String
      /\ line = Opening(r) \o (<<",">> \o escapeKey(r.text))
  BY DEF InTagKey, NameParts, Readers
<1>2. \A t : escapeKey(t) = escape(t, Escaped(r.at))
  BY <1>1, EscapedNames DEF escapeKey
<1>3. PICK o \in String, k \in String, b \in String :
          o = Opening(r) /\ k = escapeKey(r.text) /\ b = <<",">>
  BY <1>1, <1>2, OpeningType, EscapeType, CommaText
<1>4. Append(line, c) = o \o (b \o (k \o <<c>>))
  <2>1. Append(o \o (b \o k), c) = o \o (b \o (k \o <<c>>))
    BY ThreeBehind
  <2> QED BY <1>1, <1>3, <2>1
<1>5. CASE /\ c # "\n" /\ (c = "#" => r # Start)
           /\ c \in Escaped(r.at) => r.back
           /\ q = Take(r, c, Escaped(r.at))
  <2>1. /\ q.at = r.at /\ Clean(q)
        /\ q.measurement = r.measurement /\ q.tags = r.tags /\ q.fields = r.fields
        /\ escape(q.text, Escaped(r.at)) = escape(r.text, Escaped(r.at)) \o <<c>>
    <3>1. Taken(q, r, c)
      BY <1>1, <1>5, TakeName
    <3> QED BY <3>1 DEF Taken
  <2>2. Known(q) /\ Opening(q) = o
    BY <1>1, <1>3, <2>1 DEF Known, Opening
  <2>3. Append(line, c) = Opening(q) \o (<<",">> \o escapeKey(q.text))
    BY <1>2, <1>3, <1>4, <2>1, <2>2
  <2> QED BY <1>1, <2>1, <2>2, <2>3 DEF Fits, InTagKey
<1>6. CASE /\ LeadsTo(r.at, c) # "nothing" /\ r.text \in Name
           /\ q = Closed(r, LeadsTo(r.at, c))
  <2>1. r.text # <<>>
    BY <1>6 DEF Name
  <2>2. c = "=" /\ LeadsTo(r.at, c) = "tagValue"
    BY <1>1, <1>6 DEF LeadsTo
  <2>3. /\ q.at = "tagValue" /\ q.back = FALSE /\ q.text = <<>> /\ q.key = r.text
        /\ q.measurement = r.measurement /\ q.tags = r.tags /\ q.fields = r.fields
    BY <1>1, <1>6, <2>1, <2>2 DEF Closed, Readers
  <2>4. Known(q) /\ Opening(q) = o
    BY <1>1, <1>3, <2>3 DEF Known, Opening
  <2>5. Clean(q) /\ escapeKey(q.text) = <<>>
    BY <2>3, NothingRead
  <2>6. Entry(<<q.key, q.text>>) = k \o <<c>>
    <3>1. Entry(<<q.key, q.text>>) = (k \o <<c>>) \o <<>>
      BY <1>3, <2>2, <2>3, <2>5 DEF Entry
    <3>2. <<c>> \in String
      BY OneBehind
    <3>3. k \o <<c>> \in String
      BY <3>2, Concatenation
    <3> QED BY <3>1, <3>3, Concatenation
  <2>7. Append(line, c) = Opening(q) \o (<<",">> \o Entry(<<q.key, q.text>>))
    BY <1>3, <1>4, <2>4, <2>6
  <2> QED BY <1>6, <2>3, <2>4, <2>5, <2>7 DEF Fits, InTagValue
<1> QED BY <1>1, <1>5, <1>6, NameStep

LEMMA OneTagMore ==
    ASSUME NEW m \in String, NEW list \in Seq(String \X String),
           NEW tag \in String \X String
    PROVE  escapeMeasurement(m) \o TagsText(Append(list, tag))
               = (escapeMeasurement(m) \o TagsText(list)) \o (<<",">> \o Entry(tag))
<1>1. PICK e \in String : e = escapeMeasurement(m)
  BY EscapeType DEF escapeMeasurement
<1>2. PICK t \in String : t = TagsText(list)
  BY TagsTextType
<1>3. PICK u \in String : u = <<",">> \o Entry(tag)
  BY CommaText, EntryType, Concatenation
<1>4. TagsText(Append(list, tag)) = t \o u
  BY <1>2, <1>3, TagsTextAppend
<1>5. (e \o t) \o u = e \o (t \o u)
  BY Associative, Zenon
<1> QED BY <1>1, <1>2, <1>3, <1>4, <1>5

LEMMA ReadInTagValue ==
    ASSUME NEW r \in Readers, NEW line \in String, InTagValue(r, line),
           NEW c \in Chars, NEW q, q = ReadCharacter(r, c), q.at # "wrong"
    PROVE  Fits(q, Append(line, c))
<1>1. /\ r.at = "tagValue" /\ r.at \in NameParts /\ Clean(r) /\ Known(r)
      /\ r.text \in String /\ r.key \in Name /\ r.key \in String
      /\ line = Opening(r) \o (<<",">> \o Entry(<<r.key, r.text>>))
  BY DEF InTagValue, NameParts, Readers
<1>2. \A t : escapeKey(t) = escape(t, Escaped(r.at))
  BY <1>1, EscapedNames DEF escapeKey
<1>3. PICK o \in String, k \in String, v \in String, b \in String :
          /\ o = Opening(r) /\ b = <<",">>
          /\ k = escapeKey(r.key) \o <<"=">> /\ v = escapeKey(r.text)
  <2>1. escapeKey(r.key) \in String /\ escapeKey(r.text) \in String /\ <<"=">> \in String
    <3>1. "=" \in Chars
      BY DEF Chars
    <3> QED BY <1>1, <1>2, <3>1, EscapeType, WrittenType
  <2>2. escapeKey(r.key) \o <<"=">> \in String
    BY <2>1, Concatenation
  <2> QED BY <1>1, <2>1, <2>2, OpeningType, CommaText
<1>4. PICK e \in String : e = k \o v /\ e = Entry(<<r.key, r.text>>)
  BY <1>3, Concatenation DEF Entry
<1>5. Append(line, c) = o \o (b \o (e \o <<c>>)) /\ Append(line, c) = line \o <<c>>
  <2>1. Append(o \o (b \o e), c) = o \o (b \o (e \o <<c>>))
    BY ThreeBehind
  <2>2. line = o \o (b \o e)
    BY <1>1, <1>3, <1>4
  <2>3. line \o <<c>> = Append(line, c)
    BY OneBehind
  <2> QED BY <2>1, <2>2, <2>3
<1>6. e \o <<c>> = k \o (v \o <<c>>)
  <2>1. <<c>> \in String
    BY OneBehind
  <2>2. (k \o v) \o <<c>> = k \o (v \o <<c>>)
    BY <2>1, Concatenation
  <2> QED BY <1>4, <2>2
<1>7. CASE /\ c # "\n" /\ (c = "#" => r # Start)
           /\ c \in Escaped(r.at) => r.back
           /\ q = Take(r, c, Escaped(r.at))
  <2>1. /\ q.at = r.at /\ Clean(q) /\ q.key = r.key
        /\ q.measurement = r.measurement /\ q.tags = r.tags /\ q.fields = r.fields
        /\ escape(q.text, Escaped(r.at)) = escape(r.text, Escaped(r.at)) \o <<c>>
    <3>1. Taken(q, r, c)
      BY <1>1, <1>7, TakeName
    <3> QED BY <3>1 DEF Taken
  <2>2. Known(q) /\ Opening(q) = o
    BY <1>1, <1>3, <2>1 DEF Known, Opening
  <2>3. Entry(<<q.key, q.text>>) = e \o <<c>>
    BY <1>2, <1>3, <1>6, <2>1 DEF Entry
  <2>4. Append(line, c) = Opening(q) \o (<<",">> \o Entry(<<q.key, q.text>>))
    BY <1>3, <1>5, <2>2, <2>3
  <2> QED BY <1>1, <2>1, <2>2, <2>4 DEF Fits, InTagValue
<1>8. CASE /\ LeadsTo(r.at, c) # "nothing" /\ r.text \in Name
           /\ q = Closed(r, LeadsTo(r.at, c))
  <2>1. r.text # <<>>
    BY <1>8 DEF Name
  <2>2. \/ c = "," /\ LeadsTo(r.at, c) = "tagKey"
        \/ c = " " /\ LeadsTo(r.at, c) = "fieldKey"
    BY <1>1, <1>8 DEF LeadsTo
  <2>3. /\ q.at = LeadsTo(r.at, c) /\ q.back = FALSE /\ q.text = <<>>
        /\ q.measurement = r.measurement /\ q.tags = Append(r.tags, <<r.key, r.text>>)
        /\ q.fields = r.fields
    BY <1>1, <1>8, <2>1 DEF Closed, Readers
  <2>4. Known(q)
    <3>1. <<r.key, r.text>> \in Name \X Name
      BY <1>1, <1>8
    <3>2. Append(r.tags, <<r.key, r.text>>) \in Seq(Name \X Name)
      BY <1>1, <3>1, AppendProperties DEF Known
    <3> QED BY <1>1, <2>3, <3>2 DEF Known
  <2>5. Clean(q) /\ escapeKey(q.text) = <<>>
    BY <2>3, NothingRead
  <2>6. Opening(q) = line
    <3>1. r.tags \in Seq(String \X String) /\ <<r.key, r.text>> \in String \X String
      BY <1>1, NamePairs DEF Known
    <3>2. r.measurement \in String
      BY <1>1, NamePairs DEF Known
    <3>3. escapeMeasurement(r.measurement) \o TagsText(Append(r.tags, <<r.key, r.text>>))
              = (escapeMeasurement(r.measurement) \o TagsText(r.tags))
                    \o (<<",">> \o Entry(<<r.key, r.text>>))
      BY <3>1, <3>2, OneTagMore
    <3> QED BY <1>1, <2>3, <3>3 DEF Opening
  <2>7. Append(line, c) = Opening(q) \o (<<c>> \o <<>>)
    BY <1>5, <2>6, OneBehind, Concatenation
  <2>8. CASE c = ","
    BY <2>2, <2>3, <2>4, <2>5, <2>7, <2>8 DEF Fits, InTagKey
  <2>9. CASE c = " "
    <3>1. BehindBlank(q, Append(line, c))
      BY <2>7, <2>9, Concatenation DEF BehindBlank
    <3> QED BY <2>2, <2>3, <2>4, <2>5, <2>9, <3>1 DEF Fits, InFieldKey
  <2> QED BY <2>2, <2>8, <2>9
<1> QED BY <1>1, <1>7, <1>8, NameStep

LEMMA ReadInFieldKey ==
    ASSUME NEW r \in Readers, NEW line \in String, InFieldKey(r, line),
           NEW c \in Chars, NEW q, q = ReadCharacter(r, c), q.at # "wrong"
    PROVE  Fits(q, Append(line, c))
<1>1. /\ r.at = "fieldKey" /\ r.at \in NameParts /\ Clean(r) /\ Known(r)
      /\ BehindBlank(r, line)
  BY DEF InFieldKey, NameParts
<1>2. CASE /\ c # "\n" /\ (c = "#" => r # Start)
           /\ c \in Escaped(r.at) => r.back
           /\ q = Take(r, c, Escaped(r.at))
  <2>1. /\ q.at = r.at /\ Clean(q)
        /\ q.measurement = r.measurement /\ q.tags = r.tags /\ q.fields = r.fields
    <3>1. Taken(q, r, c)
      BY <1>1, <1>2, TakeName
    <3> QED BY <3>1 DEF Taken
  <2>2. Known(q) /\ BehindBlank(q, Append(line, c))
    BY <1>1, <2>1, BlankMore DEF Known
  <2> QED BY <1>1, <2>1, <2>2 DEF Fits, InFieldKey
<1>3. CASE /\ LeadsTo(r.at, c) # "nothing" /\ r.text \in Name
           /\ q = Closed(r, LeadsTo(r.at, c))
  <2>1. r.text # <<>>
    BY <1>3 DEF Name
  <2>2. LeadsTo(r.at, c) = "fieldValue"
    BY <1>1, <1>3 DEF LeadsTo
  <2>3. /\ q.at = "fieldValue" /\ q.text = <<>> /\ q.key = r.text
        /\ q.measurement = r.measurement /\ q.tags = r.tags /\ q.fields = r.fields
    BY <1>1, <1>3, <2>1, <2>2 DEF Closed, Readers
  <2>4. Known(q) /\ BehindBlank(q, Append(line, c))
    BY <1>1, <2>3, BlankMore DEF Known
  <2> QED BY <1>3, <2>3, <2>4 DEF Fits, InValue
<1> QED BY <1>1, <1>2, <1>3, NameStep

\* What is read in a field's value.
LEMMA ReadInValue ==
    ASSUME NEW r \in Readers, NEW line \in String, InValue(r, line),
           NEW c \in Chars, NEW q, q = ReadCharacter(r, c), q.at # "wrong"
    PROVE  Fits(q, Append(line, c))
<1>1. /\ r.at \in {"fieldValue", "quoted", "closed"} /\ Known(r) /\ r.key \in Name
      /\ BehindBlank(r, line) /\ r.text \in String
      /\ r.at = "fieldValue" => r.text \in {<<>>, <<"1">>}
  BY DEF InValue, Readers
<1>2. Wrong(r).at = "wrong"
  BY DEF Wrong, Readers
<1>3. ASSUME q.measurement = r.measurement, q.tags = r.tags, q.fields = r.fields,
             q.key = r.key, q.at \in {"fieldValue", "quoted", "closed"},
             q.at = "fieldValue" => q.text \in {<<>>, <<"1">>}
      PROVE  Fits(q, Append(line, c))
  <2>1. Known(q) /\ BehindBlank(q, Append(line, c))
    BY <1>1, <1>3, BlankMore DEF Known
  <2> QED BY <1>1, <1>3, <2>1 DEF Fits, InValue
<1>4. CASE r.at = "quoted"
  <2>1. q = ReadQuoted(r, c)
    BY <1>4 DEF ReadCharacter
  <2>2. /\ q.measurement = r.measurement /\ q.tags = r.tags /\ q.fields = r.fields
        /\ q.key = r.key /\ q.at \in {"quoted", "closed"}
    BY <1>4, <2>1 DEF ReadQuoted, Take, Readers
  <2> QED BY <1>3, <2>2
<1>5. CASE r.at # "quoted" /\ LeadsTo(r.at, c) # "nothing"
  <2>1. r.at \in {"fieldValue", "closed"}
    BY <1>1, <1>5
  <2>2. ~IsEscaped(r, c)
    BY <2>1 DEF IsEscaped, Escaped
  <2>3. q = Closed(r, LeadsTo(r.at, c))
    BY <1>2, <1>5, <2>1, <2>2 DEF ReadCharacter
  <2>4. r.text # <<>> \/ r.at = "closed"
    <3>1. ASSUME r.text = <<>>, r.at # "closed"
          PROVE  Closed(r, LeadsTo(r.at, c)) = Wrong(r)
      BY <3>1 DEF Closed
    <3> QED BY <1>2, <2>3, <3>1
  <2>5. LeadsTo(r.at, c) \in {"fieldKey", "time"}
    BY <1>5, <2>1 DEF LeadsTo
  <2> DEFINE f == <<r.key, r.text, r.at = "closed">>
  <2>6. /\ q.at = LeadsTo(r.at, c) /\ q.text = <<>> /\ q.back = FALSE
        /\ q.measurement = r.measurement /\ q.tags = r.tags
        /\ q.fields = Append(r.fields, f)
    BY <2>1, <2>3, <2>4 DEF Closed, Readers
  <2>7. f \in Field
    <3>1. r.at # "closed" => r.text = <<"1">>
      BY <1>1, <2>1, <2>4
    <3> QED BY <1>1, <3>1 DEF Field
  <2> HIDE DEF f
  <2>8. Append(r.fields, f) \in Seq(Field) /\ Append(r.fields, f) # <<>>
    <3>1. r.fields \in Seq(Field)
      BY <1>1 DEF Known
    <3> QED BY <2>7, <3>1, AppendProperties
  <2>9. Known(q) /\ BehindBlank(q, Append(line, c))
    BY <1>1, <2>6, <2>8, BlankMore DEF Known
  <2>10. Clean(q)
    BY <2>6, NothingRead
  <2> QED BY <2>5, <2>6, <2>8, <2>9, <2>10 DEF Fits, InFieldKey, InTime
<1>6. CASE r.at # "quoted" /\ LeadsTo(r.at, c) = "nothing"
  <2>1. ~IsWrong(r, c)
    BY <1>1, <1>2, <1>6 DEF ReadCharacter
  <2>2. r.at = "fieldValue"
    BY <1>1, <1>6, <2>1 DEF IsWrong
  <2>3. q = ReadValue(r, c)
    BY <1>6, <2>1, <2>2 DEF ReadCharacter
  <2>4. CASE c = "\"" /\ r.text = <<>>
    <3>1. q = [r EXCEPT !.at = "quoted"]
      BY <2>3, <2>4 DEF ReadValue
    <3> QED BY <1>3, <3>1 DEF Readers
  <2>5. CASE c = "1" /\ r.text = <<>>
    <3>1. q = Take(r, c, {})
      BY <2>3, <2>5 DEF ReadValue
    <3>2. /\ q.measurement = r.measurement /\ q.tags = r.tags /\ q.fields = r.fields
          /\ q.key = r.key /\ q.at = "fieldValue" /\ q.text = Append(r.text, c)
      BY <2>2, <3>1 DEF Take, Readers
    <3>3. Append(<<>>, c) = <<c>>
      BY WrittenType
    <3> QED BY <1>3, <2>5, <3>2, <3>3
  <2> QED BY <1>2, <2>3, <2>4, <2>5 DEF ReadValue
<1> QED BY <1>4, <1>5, <1>6

LEMMA ReadInTime ==
    ASSUME NEW r \in Readers, NEW line \in String, InTime(r, line),
           NEW c \in Chars, NEW q, q = ReadCharacter(r, c), q.at # "wrong"
    PROVE  Fits(q, Append(line, c))
<1>1. r.at = "time" /\ Known(r) /\ r.fields # <<>> /\ BehindBlank(r, line)
  BY DEF InTime
<1>2. LeadsTo(r.at, c) = "nothing"
  BY <1>1 DEF LeadsTo
<1>3. Wrong(r).at = "wrong"
  BY DEF Wrong, Readers
<1>4. ~IsWrong(r, c)
  BY <1>1, <1>3 DEF ReadCharacter
<1>5. q = Take(r, c, Escaped(r.at))
  BY <1>1, <1>2, <1>4 DEF ReadCharacter
<1>6. /\ q.at = "time" /\ q.measurement = r.measurement /\ q.tags = r.tags
      /\ q.fields = r.fields
  BY <1>1, <1>5 DEF Take, Readers
<1>7. Known(q) /\ BehindBlank(q, Append(line, c))
  BY <1>1, <1>6, BlankMore DEF Known
<1> QED BY <1>1, <1>6, <1>7 DEF Fits, InTime

\* Whatever the line, the reader behind it is one that fits it.
LEMMA ReaderFits ==
    ASSUME NEW line \in String
    PROVE  Fits(ReadLine(line), line)
<1>1. ASSUME NEW r \in Readers, NEW s \in String, Fits(r, s), NEW c \in Chars
      PROVE  Fits(ReadCharacter(r, c), Append(s, c))
  <2>1. PICK q : q = ReadCharacter(r, c)
    OBVIOUS
  <2>2. CASE q.at = "wrong"
    BY <2>1, <2>2 DEF Fits
  <2>3. CASE q.at # "wrong"
    <3>1. r.at # "wrong"
      BY <2>1, <2>3 DEF ReadCharacter
    <3>2. \/ InMeasurement(r, s) \/ InTagKey(r, s) \/ InTagValue(r, s)
          \/ InFieldKey(r, s) \/ InValue(r, s) \/ InTime(r, s)
      BY <1>1, <3>1 DEF Fits
    <3>3. Fits(q, Append(s, c))
      BY <2>1, <2>3, <3>2, ReadInMeasurement, ReadInTagKey, ReadInTagValue,
         ReadInFieldKey, ReadInValue, ReadInTime
    <3> QED BY <2>1, <3>3
  <2> QED BY <2>2, <2>3
<1> DEFINE P == {s \in String : Fits(ReadFrom(Start, s), s)}
<1>2. <<>> \in P
  <2>1. <<>> \in String /\ "," \in Chars
    BY Concatenation, CommaText
  <2>2. ReadFrom(Start, <<>>) = Start
    BY <2>1, StartType, ReadAppend
  <2>3. escapeMeasurement(<<>>) = <<>>
    BY <2>1, EscapeAppend DEF escapeMeasurement
  <2>4. /\ Start.at = "measurement" /\ Start.text = <<>> /\ Start.back = FALSE
        /\ Start.tags = <<>> /\ Start.fields = <<>>
    BY DEF Start
  <2>5. Clean(Start)
    BY <2>4, NothingRead
  <2>6. InMeasurement(Start, <<>>)
    BY <2>3, <2>4, <2>5 DEF InMeasurement
  <2> QED BY <2>1, <2>2, <2>6 DEF Fits
<1>3. ASSUME NEW s \in Seq(Chars), NEW c \in Chars, s \in P
      PROVE  Append(s, c) \in P
  <2>1. s \in String /\ Append(s, c) \in String
    BY AppendProperties DEF String
  <2>2. PICK r \in Readers : r = ReadFrom(Start, s)
    BY <2>1, StartType, ReadAppend
  <2>3. ReadFrom(Start, Append(s, c)) = ReadCharacter(r, c)
    BY <2>1, <2>2, StartType, ReadAppend
  <2>4. Fits(r, s)
    BY <1>3, <2>2
  <2>5. Fits(ReadCharacter(r, c), Append(s, c))
    BY <1>1, <2>1, <2>4
  <2> QED BY <2>1, <2>3, <2>5
<1> HIDE DEF P
<1>4. Seq(Chars) \subseteq P
  BY <1>2, <1>3, SequenceInduction
<1>5. line \in P
  BY <1>4 DEF String
<1> QED BY <1>5 DEF P, ReadLine

-----------------------------------------------------------------------------
(* What is understood has been sound.                                      *)

\* Nothing in these tags is to be escaped.
NeedNoEscape(list) ==
    \A i \in 1..Len(list) : /\ IsPlain(list[i][1], {",", "=", " "})
                            /\ IsPlain(list[i][2], {",", "=", " "})

LEMMA CancelLeft ==
    ASSUME NEW s \in String, NEW t \in String, NEW u \in String, s \o t = s \o u
    PROVE  t = u
<1> QED BY Concatenation

AreTexts(s, t, u, v) == s \in String /\ t \in String /\ u \in String /\ v \in String

LEMMA Regroup ==
    ASSUME NEW s, NEW t, NEW u, NEW v, AreTexts(s, t, u, v)
    PROVE  /\ ((s \o t) \o u) \o v = s \o (t \o (u \o v))
           /\ (s \o (t \o u)) \o v = s \o (t \o (u \o v))
           /\ t \o (u \o v) \in String /\ u \o v \in String
<1>1. s \in String /\ t \in String /\ u \in String /\ v \in String
  BY DEF AreTexts
<1>2. PICK st \in String : st = s \o t
  BY <1>1, Concatenation
<1>3. PICK uv \in String : uv = u \o v
  BY <1>1, Concatenation
<1>4. (st \o u) \o v = st \o (u \o v)
  BY <1>1, Associative
<1>5. (s \o t) \o uv = s \o (t \o uv)
  BY <1>1, Associative
<1>6. (s \o t) \o u = s \o (t \o u)
  BY <1>1, Associative
<1>7. t \o uv \in String
  BY <1>1, Concatenation
<1> QED BY <1>2, <1>3, <1>4, <1>5, <1>6, <1>7

\* One text goes on behind another like behind that with its escapes.
GoesOnAlike(t, x, y) ==
    /\ t \in String /\ x \in String /\ y \in String
    /\ escape(t, {",", "=", " "}) \o x = t \o y

LEMMA NotEscaped ==
    ASSUME NEW t, NEW x, NEW y, GoesOnAlike(t, x, y)
    PROVE  IsPlain(t, {",", "=", " "}) /\ x = y
<1>1. PICK E : E = {",", "=", " "}
  OBVIOUS
<1>2. t \in String /\ x \in String /\ y \in String /\ escape(t, E) \o x = t \o y
  BY <1>1 DEF GoesOnAlike
<1>3. "\\" \notin E
  BY <1>1
<1>4. IsPlain(t, E) /\ x = y
  BY <1>2, <1>3, EscapeUnlike
<1> QED BY <1>1, <1>4

\* What goes on behind a tag, and behind one not escaped.
LEMMA EntryBefore ==
    ASSUME NEW tag \in String \X String, NEW x \in String
    PROVE  /\ Entry(tag) \o x = escapeKey(tag[1]) \o (<<"=">> \o (escapeKey(tag[2]) \o x))
           /\ escapeKey(tag[2]) \o x \in String
<1>1. PICK k \in String, b \in String, v \in String :
          k = escapeKey(tag[1]) /\ b = <<"=">> /\ v = escapeKey(tag[2])
  BY EntryType
<1>2. ((k \o b) \o v) \o x = k \o (b \o (v \o x)) /\ v \o x \in String
  <2>1. AreTexts(k, b, v, x)
    BY DEF AreTexts
  <2> QED BY <2>1, Regroup
<1> QED BY <1>1, <1>2 DEF Entry

LEMMA GlobalEntryBefore ==
    ASSUME NEW tag \in String \X String, NEW y \in String
    PROVE  /\ GlobalEntry(tag) \o y = tag[1] \o (<<"=">> \o (tag[2] \o y))
           /\ tag[2] \o y \in String
<1>1. PICK k \in String, b \in String, v \in String :
          k = tag[1] /\ b = <<"=">> /\ v = tag[2]
  BY EntryType
<1>2. ((k \o b) \o v) \o y = k \o (b \o (v \o y)) /\ v \o y \in String
  <2>1. AreTexts(k, b, v, y)
    BY DEF AreTexts
  <2> QED BY <2>1, Regroup
<1> QED BY <1>1, <1>2 DEF GlobalEntry

\* When a text goes on behind a tag like behind the same one not escaped, the
\* tag had nothing to escape.
LEMMA EntryUnlike ==
    ASSUME NEW tag \in String \X String, NEW x \in String, NEW y \in String,
           Entry(tag) \o x = GlobalEntry(tag) \o y
    PROVE  /\ IsPlain(tag[1], {",", "=", " "})
           /\ IsPlain(tag[2], {",", "=", " "})
           /\ x = y
<1>1. PICK k \in String, b \in String : k = tag[1] /\ b = <<"=">>
  BY EntryType
<1>2. PICK p \in String, q \in String : p = escapeKey(tag[2]) \o x /\ q = tag[2] \o y
  BY EntryBefore, GlobalEntryBefore
<1>3. GoesOnAlike(k, b \o p, b \o q)
  <2>1. escape(k, {",", "=", " "}) \o (b \o p) = k \o (b \o q)
    BY <1>1, <1>2, EntryBefore, GlobalEntryBefore DEF escapeKey
  <2>2. b \o p \in String /\ b \o q \in String
    BY Concatenation
  <2> QED BY <2>1, <2>2 DEF GoesOnAlike
<1>4. IsPlain(k, {",", "=", " "}) /\ b \o p = b \o q
  BY <1>3, NotEscaped
<1>5. p = q
  BY <1>4, CancelLeft
<1>6. GoesOnAlike(tag[2], x, y)
  <2>1. tag[2] \in String
    BY EntryType
  <2> QED BY <1>2, <1>5, <2>1 DEF GoesOnAlike, escapeKey
<1>7. IsPlain(tag[2], {",", "=", " "}) /\ x = y
  BY <1>6, NotEscaped
<1> QED BY <1>1, <1>4, <1>7

\* What goes on behind a list and the separator of one tag more.
OnesGoOn(s, tag, u, w) ==
    \E x, y \in String :
        /\ TagsText(s) \o (<<",">> \o x) = Behind(GlobalEntries(s)) \o (<<",">> \o y)
        /\ x = Entry(tag) \o u /\ y = GlobalEntry(tag) \o w

LEMMA OneUnlike ==
    ASSUME NEW s \in Seq(String \X String), NEW tag \in String \X String,
           NEW u \in String, NEW w \in String,
           TagsText(Append(s, tag)) \o u = Behind(GlobalEntries(Append(s, tag))) \o w
    PROVE  OnesGoOn(s, tag, u, w)
<1>1. TagsText(Append(s, tag)) \o u = TagsText(s) \o (<<",">> \o (Entry(tag) \o u))
  <2>1. PICK t \in String, b \in String, e \in String :
            t = TagsText(s) /\ b = <<",">> /\ e = Entry(tag)
    BY TagsTextType, CommaText, EntryType
  <2>2. TagsText(Append(s, tag)) = t \o (b \o e)
    BY <2>1, TagsTextAppend
  <2>3. (t \o (b \o e)) \o u = t \o (b \o (e \o u))
    <3>1. AreTexts(t, b, e, u)
      BY DEF AreTexts
    <3> QED BY <3>1, Regroup
  <2> QED BY <2>1, <2>2, <2>3
<1>2. Behind(GlobalEntries(Append(s, tag))) \o w
          = Behind(GlobalEntries(s)) \o (<<",">> \o (GlobalEntry(tag) \o w))
  <2>1. PICK t \in String, b \in String, e \in String :
            t = Behind(GlobalEntries(s)) /\ b = <<",">> /\ e = GlobalEntry(tag)
    BY TagsWritten, CommaText, GlobalEntryType
  <2>2. Behind(GlobalEntries(Append(s, tag))) = t \o (b \o e)
    <3>1. /\ GlobalEntries(s) \in Seq(String)
          /\ GlobalEntries(Append(s, tag)) = Append(GlobalEntries(s), e)
      BY <2>1, GlobalEntriesAppend
    <3>2. Behind(Append(GlobalEntries(s), e)) = Behind(GlobalEntries(s)) \o (<<",">> \o e)
      BY <3>1, BehindAppend
    <3> QED BY <2>1, <3>1, <3>2
  <2>3. (t \o (b \o e)) \o w = t \o (b \o (e \o w))
    <3>1. AreTexts(t, b, e, w)
      BY DEF AreTexts
    <3> QED BY <3>1, Regroup
  <2> QED BY <2>1, <2>2, <2>3
<1>3. PICK x \in String, y \in String : x = Entry(tag) \o u /\ y = GlobalEntry(tag) \o w
  BY EntryType, GlobalEntryType, Concatenation
<1>4. TagsText(s) \o (<<",">> \o x) = Behind(GlobalEntries(s)) \o (<<",">> \o y)
  BY <1>1, <1>2, <1>3
<1> QED BY <1>3, <1>4 DEF OnesGoOn

LEMMA GlobalsUnlike ==
    ASSUME NEW list \in Seq(String \X String), NEW x \in String, NEW y \in String,
           TagsText(list) \o x = Behind(GlobalEntries(list)) \o y
    PROVE  NeedNoEscape(list)
<1> DEFINE P == {s \in Seq(String \X String) :
                    \A u, w \in String :
                        TagsText(s) \o u = Behind(GlobalEntries(s)) \o w
                            => NeedNoEscape(s) /\ u = w}
<1>1. <<>> \in P
  <2>1. <<>> \in Seq(String \X String) /\ Len(<<>>) = 0
    BY EmptySeq
  <2>2. TagsText(<<>>) = <<>>
    BY TagsTextNone
  <2>3. Behind(GlobalEntries(<<>>)) = <<>>
    BY <2>1, PairExists, GlobalEntriesAppend, BehindAppend, Concatenation
  <2>4. NeedNoEscape(<<>>)
    <3>1. 1..Len(<<>>) = {}
      BY <2>1
    <3> QED BY <3>1 DEF NeedNoEscape
  <2>5. ASSUME NEW u \in String, NEW w \in String, <<>> \o u = <<>> \o w
        PROVE  u = w
    BY <2>5, Concatenation
  <2> QED BY <2>1, <2>2, <2>3, <2>4, <2>5
<1>2. ASSUME NEW s \in Seq(String \X String), NEW tag \in String \X String, s \in P
      PROVE  Append(s, tag) \in P
  <2>1. Append(s, tag) \in Seq(String \X String)
    BY AppendProperties
  <2>2. ASSUME NEW u \in String, NEW w \in String,
               TagsText(Append(s, tag)) \o u = Behind(GlobalEntries(Append(s, tag))) \o w
        PROVE  NeedNoEscape(Append(s, tag)) /\ u = w
    <3>1. PICK p \in String, q \in String :
              /\ TagsText(s) \o (<<",">> \o p) = Behind(GlobalEntries(s)) \o (<<",">> \o q)
              /\ p = Entry(tag) \o u /\ q = GlobalEntry(tag) \o w
      <4>1. OnesGoOn(s, tag, u, w)
        BY <2>2, OneUnlike
      <4> QED BY <4>1 DEF OnesGoOn
    <3>2. <<",">> \in String
      BY CommaText
    <3>3. <<",">> \o p \in String /\ <<",">> \o q \in String
      BY <3>2, Concatenation
    <3>4. NeedNoEscape(s) /\ <<",">> \o p = <<",">> \o q
      BY <1>2, <3>1, <3>3
    <3>5. p = q
      BY <3>2, <3>4, CancelLeft
    <3>6. Entry(tag) \o u = GlobalEntry(tag) \o w
      BY <3>1, <3>5
    <3>7. /\ IsPlain(tag[1], {",", "=", " "}) /\ IsPlain(tag[2], {",", "=", " "})
          /\ u = w
      BY <3>6, EntryUnlike
    <3>8. NeedNoEscape(Append(s, tag))
      <4>1. /\ Len(s) \in Nat /\ Len(Append(s, tag)) = Len(s) + 1
            /\ \A i \in 1..Len(s) : Append(s, tag)[i] = s[i]
            /\ Append(s, tag)[Len(s) + 1] = tag
        BY LenProperties, AppendProperties
      <4>2. ASSUME NEW i \in 1..Len(Append(s, tag))
            PROVE  /\ IsPlain(Append(s, tag)[i][1], {",", "=", " "})
                   /\ IsPlain(Append(s, tag)[i][2], {",", "=", " "})
        <5>1. CASE i = Len(s) + 1
          BY <3>7, <4>1, <5>1
        <5>2. CASE i # Len(s) + 1
          <6>1. i \in 1..Len(s)
            BY <4>1, <5>2
          <6> QED BY <3>4, <4>1, <6>1 DEF NeedNoEscape
        <5> QED BY <5>1, <5>2
      <4> QED BY <4>2 DEF NeedNoEscape
    <3> QED BY <3>7, <3>8
  <2> QED BY <2>1, <2>2
<1> HIDE DEF P
<1>3. Seq(String \X String) \subseteq P
  BY <1>1, <1>2, SequenceInduction
<1>4. list \in P
  BY <1>3
<1> QED BY <1>4 DEF P

LEMMA SeqMore ==
    ASSUME NEW S, NEW T, S \subseteq T, NEW s \in Seq(S)
    PROVE  s \in Seq(T)
<1>1. Len(s) \in Nat /\ s \in [1..Len(s) -> S]
  BY LenProperties
<1>2. s \in [1..Len(s) -> T]
  BY <1>1
<1>3. ASSUME NEW n \in Nat, NEW u \in [1..n -> T]
      PROVE  u \in Seq(T)
  OBVIOUS
<1> QED BY <1>1, <1>2, <1>3

LEMMA RegroupFive ==
    ASSUME NEW s \in String, NEW t \in String, NEW u \in String, NEW v \in String,
           NEW w \in String
    PROVE  /\ (((s \o t) \o u) \o v) \o w = s \o (t \o (u \o (v \o w)))
           /\ u \o (v \o w) \in String /\ s \o (t \o (u \o (v \o w))) \in String
<1>1. (((s \o t) \o u) \o v) \o w = (s \o t) \o (u \o (v \o w))
  <2>1. PICK st \in String : st = s \o t
    BY Concatenation
  <2>2. AreTexts(st, u, v, w)
    BY DEF AreTexts
  <2>3. ((st \o u) \o v) \o w = st \o (u \o (v \o w))
    BY <2>2, Regroup
  <2> QED BY <2>1, <2>3
<1>2. PICK uvw \in String : uvw = u \o (v \o w)
  <2>1. AreTexts(s, u, v, w)
    BY DEF AreTexts
  <2> QED BY <2>1, Regroup
<1>3. (s \o t) \o uvw = s \o (t \o uvw)
  BY Associative
<1>4. s \o (t \o uvw) \in String
  BY Concatenation
<1> QED BY <1>1, <1>2, <1>3, <1>4

\* A line begins with the measurement and the global tags.
LEMMA FormatBegins ==
    ASSUME IInv
    PROVE  /\ format \in String
           /\ \E rest \in String :
                  format = escapeMeasurement(measurement)
                               \o (Behind(GlobalEntries(given.globals)) \o rest)
<1>1. /\ measurement \in Texts /\ memory \in Texts
      /\ given.globals \in Seq(Texts \X Texts)
      /\ tags \in Seq(NotEmpty \X NotEmpty)
      /\ fields \in Seq(NotEmpty \X FieldValues)
      /\ globalTags = Joined(GlobalEntries(given.globals))
  BY DEF IInv, TypeOK, GivenOK, KeptOfGiven, NotEmpty
<1>2. PICK mt \in String : mt = escapeMeasurement(measurement)
  BY <1>1, TextsType, EscapeType DEF escapeMeasurement
<1>3. Texts \X Texts \subseteq String \X String
      /\ NotEmpty \X NotEmpty \subseteq String \X String
  BY TextsType DEF NotEmpty
<1>4. given.globals \in Seq(String \X String) /\ tags \in Seq(String \X String)
  BY <1>1, <1>3, SeqMore
<1>5. PICK gt \in String : /\ gt = Behind(GlobalEntries(given.globals))
                           /\ gt = appendIfNotEmpty(globalTags, ",")
  BY <1>1, <1>4, TagsWritten
<1>6. PICK tt \in String : tt = appendIfNotEmpty(getTags, ",")
  <2>1. getTags = Joined(Entries(tags))
    BY DEF getTags, Entries, Entry
  <2> QED BY <1>4, <2>1, TagsWritten
<1>7. PICK ft \in String : ft = appendIfNotEmpty(getFields, " ")
  <2> DEFINE parts == [i \in DOMAIN fields |->
                          escapeKey(fields[i][1]) \o <<"=">> \o valueText(fields[i][2])]
  <2>1. Len(fields) \in Nat /\ DOMAIN fields = 1..Len(fields)
    BY <1>1, LenProperties
  <2>2. ASSUME NEW i \in DOMAIN fields
        PROVE  parts[i] \in String
    <3>1. fields[i] \in NotEmpty \X FieldValues
      BY <1>1, <2>1, ElementOfSeq
    <3>2. PICK name \in String : name = fields[i][1]
      BY <3>1, TextsType DEF NotEmpty
    <3>3. PICK value \in FieldValues : value = fields[i][2] /\ value.text \in String
      BY <3>1, TextsType
    <3>4. "\"" \in Chars /\ <<"\"">> \in String
      <4>1. "\"" \in Chars
        BY DEF Chars
      <4> QED BY <4>1, WrittenType
    <3>5. ASSUME NEW t \in String
          PROVE  escapeStringValue(t) \in String
      <4>1. PICK e \in String : e = escape(t, {"\\", "\""})
        BY EscapeType
      <4> QED BY <3>4, <4>1, Concatenation DEF escapeStringValue
    <3>6. valueText(value) \in String
      <4>1. memory \in String
        BY <1>1, TextsType
      <4> QED BY <3>3, <3>5, <4>1 DEF valueText
    <3>7. escapeKey(name) \in String
      BY EscapeType DEF escapeKey
    <3>8. (escapeKey(name) \o <<"=">>) \o valueText(value) \in String
      BY <3>6, <3>7, AroundEquals
    <3> QED BY <3>2, <3>3, <3>8
  <2>3. parts \in [1..Len(fields) -> String]
    BY <2>1, <2>2
  <2> HIDE DEF parts
  <2>4. parts \in Seq(String)
    <3>1. ASSUME NEW S, NEW n \in Nat, NEW u \in [1..n -> S]
          PROVE  u \in Seq(S)
      OBVIOUS
    <3> QED BY <2>1, <2>3, <3>1
  <2>5. Joined(parts) \in String
    BY <2>4, Concatenation, JoinedAppend
  <2>6. getFields = Joined(parts)
    BY DEF getFields, parts
  <2>7. <<" ">> \in String
    <3>1. " " \in Chars
      BY DEF Chars
    <3> QED BY <3>1, WrittenType
  <2> QED BY <2>5, <2>6, <2>7, Concatenation DEF appendIfNotEmpty
<1>8. PICK end \in String : end = <<" ", "54">>
  <2>1. PICK b \in Chars, n \in Chars : b = " " /\ n = "54"
    BY DEF Chars
  <2>2. <<b>> \in String
    BY WrittenType
  <2>3. <<b, n>> = Append(<<b>>, n)
    OBVIOUS
  <2>4. Append(<<b>>, n) \in String
    BY <2>2, AppendProperties DEF String
  <2> QED BY <2>1, <2>3, <2>4
<1>9. format = (((mt \o gt) \o tt) \o ft) \o end
  BY <1>2, <1>5, <1>6, <1>7, <1>8 DEF format
<1>10. /\ (((mt \o gt) \o tt) \o ft) \o end = mt \o (gt \o (tt \o (ft \o end)))
       /\ tt \o (ft \o end) \in String /\ mt \o (gt \o (tt \o (ft \o end))) \in String
  BY RegroupFive
<1> QED BY <1>2, <1>5, <1>9, <1>10

\* What is understood is a point whose parts could all be read.
LEMMA UnderstoodParts ==
    ASSUME IInv, IsUnderstood
    PROVE  /\ measurement \in Name /\ measurement[1] # "#"
           /\ given.globals \o tags \in Seq(Name \X Name)
           /\ Expected.fields \in Seq(Field) /\ Expected.fields # <<>>
           /\ Expected.fields = Understood.fields
           /\ \E rest \in String :
                  format = (escapeMeasurement(measurement)
                                \o TagsText(given.globals \o tags)) \o (<<" ">> \o rest)
<1>1. /\ Understood.at = "time" /\ Understood.measurement = measurement
      /\ Understood.tags = given.globals \o tags
      /\ Understood.fields = Expected.fields
  BY ExpectedOfPoint DEF IsUnderstood
<1>2. Fits(Understood, format)
  BY FormatBegins, ReaderFits DEF Understood
<1>3. InTime(Understood, format)
  BY <1>1, <1>2 DEF Fits, InMeasurement, InTagKey, InTagValue, InFieldKey, InValue
<1>4. Known(Understood) /\ Understood.fields # <<>> /\ BehindBlank(Understood, format)
  BY <1>3 DEF InTime
<1>5. /\ measurement \in Name /\ measurement[1] # "#"
      /\ given.globals \o tags \in Seq(Name \X Name)
      /\ Expected.fields \in Seq(Field) /\ Expected.fields # <<>>
  BY <1>1, <1>4 DEF Known
<1>6. \E rest \in String :
          format = (escapeMeasurement(measurement)
                        \o TagsText(given.globals \o tags)) \o (<<" ">> \o rest)
  BY <1>1, <1>4 DEF BehindBlank, Opening
<1> QED BY <1>1, <1>5, <1>6

\* The names of tags one behind the other.
LEMMA NamesBehind ==
    ASSUME NEW a \in Seq(String \X String), NEW b \in Seq(String \X String),
           a \o b \in Seq(Name \X Name)
    PROVE  /\ \A i \in 1..Len(a) : a[i] \in Name \X Name
           /\ \A i \in 1..Len(b) : b[i] \in Name \X Name
<1>1. /\ Len(a) \in Nat /\ Len(b) \in Nat /\ Len(a \o b) = Len(a) + Len(b)
      /\ \A i \in 1..Len(a) : (a \o b)[i] = a[i]
      /\ \A i \in 1..Len(b) : (a \o b)[Len(a) + i] = b[i]
  <2>1. Len(a) \in Nat /\ Len(b) \in Nat
    BY LenProperties
  <2>2. Len(a \o b) = Len(a) + Len(b)
    BY ConcatProperties
  <2>3. \A i \in 1..(Len(a) + Len(b)) :
            (a \o b)[i] = IF i <= Len(a) THEN a[i] ELSE b[i - Len(a)]
    BY ConcatProperties
  <2>4. ASSUME NEW i \in 1..Len(a)
        PROVE  (a \o b)[i] = a[i]
    BY <2>1, <2>3
  <2>5. ASSUME NEW i \in 1..Len(b)
        PROVE  (a \o b)[Len(a) + i] = b[i]
    <3>1. PICK j \in Nat : j = Len(a) + i
      BY <2>1
    <3>2. j \in 1..(Len(a) + Len(b)) /\ ~(j <= Len(a)) /\ j - Len(a) = i
      BY <2>1, <3>1
    <3>3. (a \o b)[j] = b[j - Len(a)]
      BY <2>3, <3>2
    <3> QED BY <3>1, <3>2, <3>3
  <2> QED BY <2>1, <2>2, <2>4, <2>5
<1>2. \A i \in 1..Len(a \o b) : (a \o b)[i] \in Name \X Name
  BY LenProperties, ElementOfSeq
<1>3. ASSUME NEW i \in 1..Len(a)
      PROVE  a[i] \in Name \X Name
  BY <1>1, <1>2
<1>4. ASSUME NEW i \in 1..Len(b)
      PROVE  b[i] \in Name \X Name
  <2>1. Len(a) + i \in 1..Len(a \o b)
    BY <1>1
  <2> QED BY <1>1, <1>2, <2>1
<1> QED BY <1>3, <1>4

LEMMA UnderstoodGlobals ==
    ASSUME IInv, IsUnderstood
    PROVE  PlainGlobalTags
<1>1. PICK gs \in Seq(String \X String), ts \in Seq(String \X String) :
          gs = given.globals /\ ts = tags
  <2>1. /\ given.globals \in Seq(Texts \X Texts) /\ tags \in Seq(NotEmpty \X NotEmpty)
    BY DEF IInv, TypeOK, GivenOK, NotEmpty
  <2>2. Texts \X Texts \subseteq String \X String
        /\ NotEmpty \X NotEmpty \subseteq String \X String
    BY TextsType DEF NotEmpty
  <2>3. given.globals \in Seq(String \X String) /\ tags \in Seq(String \X String)
    BY <2>1, <2>2, SeqMore
  <2> QED BY <2>3
<1>2. NeedNoEscape(gs)
  <2>1. PICK mt \in String : mt = escapeMeasurement(measurement)
    <3>1. measurement \in String
      BY UnderstoodParts DEF Name
    <3> QED BY <3>1, EscapeType DEF escapeMeasurement
  <2>2. PICK y \in String : format = mt \o (Behind(GlobalEntries(gs)) \o y)
    BY <1>1, <2>1, FormatBegins
  <2>3. PICK x \in String : format = mt \o (TagsText(gs) \o x)
    <3>1. PICK rest \in String : format = (mt \o TagsText(gs \o ts)) \o (<<" ">> \o rest)
      BY <1>1, <2>1, UnderstoodParts
    <3>2. PICK g \in String, t \in String : g = TagsText(gs) /\ t = TagsText(ts)
      BY TagsTextType
    <3>3. PICK b \in String : b = <<" ">> \o rest
      <4>1. " " \in Chars
        BY DEF Chars
      <4>2. <<" ">> \in String
        BY <4>1, WrittenType
      <4> QED BY <4>2, Concatenation
    <3>4. TagsText(gs \o ts) = g \o t
      BY <3>2, TagsTextConcat
    <3>5. AreTexts(mt, g, t, b)
      BY DEF AreTexts
    <3>6. (mt \o (g \o t)) \o b = mt \o (g \o (t \o b)) /\ t \o b \in String
      BY <3>5, Regroup
    <3> QED BY <3>1, <3>2, <3>3, <3>4, <3>6
  <2>4. TagsText(gs) \o x \in String /\ Behind(GlobalEntries(gs)) \o y \in String
    BY TagsWritten, Concatenation
  <2>5. TagsText(gs) \o x = Behind(GlobalEntries(gs)) \o y
    BY <2>2, <2>3, <2>4, CancelLeft
  <2> QED BY <2>5, GlobalsUnlike
<1>3. \A i \in 1..Len(gs) : gs[i] \in Name \X Name
  BY <1>1, UnderstoodParts, NamesBehind
<1>4. ASSUME NEW text \in Name, IsPlain(text, {",", "=", " "})
      PROVE  NeedsNoEscape(text)
  <2>1. DOMAIN text = 1..Len(text)
    BY LenProperties DEF Name, String
  <2>2. {",", "=", " "} \intersect ToSet(text) = {}
    BY <1>4, <2>1 DEF IsPlain, ToSet
  <2> QED BY <2>2 DEF NeedsNoEscape, Name
<1>5. ASSUME NEW tag \in ToSet(given.globals)
      PROVE  NeedsNoEscape(tag[1]) /\ NeedsNoEscape(tag[2])
  <2>1. PICK i \in 1..Len(gs) : tag = gs[i]
    <3>1. DOMAIN gs = 1..Len(gs)
      BY LenProperties
    <3> QED BY <1>1, <3>1 DEF ToSet
  <2>2. tag[1] \in Name /\ tag[2] \in Name
    BY <1>3, <2>1
  <2>3. IsPlain(tag[1], {",", "=", " "}) /\ IsPlain(tag[2], {",", "=", " "})
    BY <1>2, <2>1 DEF NeedNoEscape
  <2> QED BY <1>4, <2>2, <2>3
<1> QED BY <1>5 DEF PlainGlobalTags

LEMMA UnderstoodIsWritable ==
    ASSUME IInv, IsUnderstood
    PROVE  Writable
<1>1. /\ given.globals \in Seq(Texts \X Texts) /\ tags \in Seq(NotEmpty \X NotEmpty)
      /\ fields \in Seq(NotEmpty \X FieldValues)
  BY DEF IInv, TypeOK, GivenOK, NotEmpty
<1>2. /\ Len(tags) \in Nat /\ DOMAIN tags = 1..Len(tags)
      /\ Len(fields) \in Nat /\ DOMAIN fields = 1..Len(fields)
  BY <1>1, LenProperties
<1>3. measurement \in Name /\ measurement[1] # "#"
  BY UnderstoodParts
<1>4. \A i \in 1..Len(tags) : tags[i] \in Name \X Name
  <2>1. Texts \X Texts \subseteq String \X String
        /\ NotEmpty \X NotEmpty \subseteq String \X String
    BY TextsType DEF NotEmpty
  <2>2. given.globals \in Seq(String \X String) /\ tags \in Seq(String \X String)
    BY <1>1, <2>1, SeqMore
  <2>3. given.globals \o tags \in Seq(Name \X Name)
    BY UnderstoodParts
  <2> QED BY <2>2, <2>3, NamesBehind
<1>5. \A i \in DOMAIN fields :
          <<fields[i][1], fields[i][2].text, IsText(fields[i][2])>> \in Field
  <2>1. PICK all \in Seq(Field) : all = Expected.fields
    BY UnderstoodParts
  <2>2. /\ DOMAIN all = DOMAIN fields
        /\ \A i \in DOMAIN fields :
               all[i] = <<fields[i][1], fields[i][2].text, IsText(fields[i][2])>>
    BY <2>1, ExpectedOfPoint
  <2>3. \A i \in DOMAIN all : all[i] \in Field
    BY <2>1, LenProperties, ElementOfSeq
  <2> QED BY <2>2, <2>3
<1>6. \A i \in DOMAIN fields : fields[i][1] \in Name /\ fields[i][2].type # "notFinite"
  <2>1. ASSUME NEW i \in DOMAIN fields
        PROVE  fields[i][1] \in Name /\ fields[i][2].type # "notFinite"
    <3>1. PICK f \in Field : f = <<fields[i][1], fields[i][2].text, IsText(fields[i][2])>>
      BY <1>5
    <3>2. f[1] = fields[i][1] /\ f[2] = fields[i][2].text /\ f[3] = IsText(fields[i][2])
      BY <3>1
    <3>3. f[1] \in Name /\ (~f[3] => f[2] = <<"1">>)
      BY FieldParts
    <3>4. fields[i][2] \in FieldValues
      BY <1>1, <1>2, ElementOfSeq
    <3>5. fields[i][2].type = "notFinite"
              => fields[i][2].text = <<"nan">> /\ ~IsText(fields[i][2])
      BY <3>4 DEF FieldValues, Value, IsText
    <3>6. <<"nan">> # <<"1">>
      OBVIOUS
    <3> QED BY <3>2, <3>3, <3>5, <3>6
  <2> QED BY <2>1
<1>7. ASSUME NEW name \in Names
      PROVE  Closes(name)
  <2>1. \A n \in Name : Closes(n)
    BY DEF Name
  <2>2. CASE name = measurement
    BY <1>3, <2>1, <2>2
  <2>3. CASE \E tag \in ToSet(tags) : name = tag[1] \/ name = tag[2]
    <3>1. PICK i \in 1..Len(tags) : name = tags[i][1] \/ name = tags[i][2]
      BY <1>2, <2>3 DEF ToSet
    <3>2. tags[i][1] \in Name /\ tags[i][2] \in Name
      BY <1>4
    <3> QED BY <2>1, <3>1, <3>2
  <2>4. CASE \E field \in ToSet(fields) : name = field[1]
    <3>1. PICK i \in DOMAIN fields : name = fields[i][1]
      BY <2>4 DEF ToSet
    <3> QED BY <1>6, <2>1, <3>1
  <2>5. \/ name = measurement
        \/ \E tag \in ToSet(tags) : name = tag[1] \/ name = tag[2]
        \/ \E field \in ToSet(fields) : name = field[1]
    BY DEF Names
  <2> QED BY <2>2, <2>3, <2>4, <2>5
<1>8. fields # <<>>
  <2>1. PICK all \in Seq(Field) : all = Expected.fields /\ all # <<>>
    BY UnderstoodParts
  <2>2. Len(all) # 0 /\ Len(all) \in Nat /\ DOMAIN all = 1..Len(all)
    BY <2>1, EmptySeq, LenProperties
  <2>3. DOMAIN all = DOMAIN fields
    BY <2>1, ExpectedOfPoint
  <2>4. 1 \in DOMAIN fields
    BY <2>2, <2>3
  <2> QED BY <2>4
<1>9. \A field \in ToSet(fields) : field[2].type # "notFinite"
  BY <1>6 DEF ToSet
<1>10. measurement # <<>>
  BY <1>3 DEF Name
<1> QED BY <1>3, <1>7, <1>8, <1>9, <1>10 DEF Writable

LEMMA UnderstoodIsSound ==
    ASSUME IInv, IsUnderstood
    PROVE  Sound /\ PlainGlobalTags
<1>1. PlainGlobalTags
  BY UnderstoodGlobals
<1>2. Writable
  BY UnderstoodIsWritable
<1>3. Understood.fields = FieldsAsRead
  BY <1>1, <1>2, WritableIsRead DEF HasRead
<1>4. Understood.fields = Expected.fields
  BY UnderstoodParts
<1>5. ASSUME NEW field \in ToSet(fields), field[2].type = "pointer"
      PROVE  field[2].text = memory
  <2>1. PICK i \in DOMAIN fields : field = fields[i]
    BY DEF ToSet
  <2>2. FieldsAsRead[i] = FieldAsRead(field)
    BY <2>1 DEF FieldsAsRead
  <2>3. Expected.fields[i] = <<field[1], field[2].text, IsText(field[2])>>
    BY <2>1, ExpectedOfPoint
  <2>4. FieldAsRead(field) = <<field[1], memory, IsText(field[2])>>
    BY <1>5 DEF FieldAsRead
  <2> QED BY <1>3, <1>4, <2>2, <2>3, <2>4
<1> QED BY <1>1, <1>2, <1>5 DEF Writable, Sound

\* A server reads in the line of a point exactly what the application has
\* asked for, separators, quotes and backslashes included, when and only when
\* the line has what it takes for granted: Point.cxx escapes the names and the
\* texts of fields, LineProtocol.cxx the measurement but not the global tags,
\* and neither looks at an empty measurement, a line break, a backslash that
\* ends a name, a number that is not finite or a point without fields.
THEOREM LineIsReadBack == Spec => []LineReadsBack
<1>1. IInv => LineReadsBack
  BY SoundIsUnderstood, UnderstoodIsSound DEF LineReadsBack
<1> QED BY <1>1, Invariance, PTL
=============================================================================
