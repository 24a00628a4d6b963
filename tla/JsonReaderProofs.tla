-------------------------- MODULE JsonReaderProofs --------------------------
(***************************************************************************)
(* Theorems about JsonReader: its stack follows the recursion, an error    *)
(* has a code that its message can be told by, and a text that denotes a   *)
(* value is read as that value, whatever the texts.                        *)
(*                                                                         *)
(* A guide is a set of texts with what they denote, closed the way JSON is *)
(* made: a text of it is made of shorter ones of it as the grammar says.   *)
(* The reader is followed through such a text: at every place of the       *)
(* recursion, what is ahead is what is left of the texts it is inside of,  *)
(* and its stack has the values of what is behind. Nothing here is an      *)
(* induction over texts: a step of the reader takes the text ahead apart   *)
(* by one element.                                                         *)
(***************************************************************************)
EXTENDS JsonReader, JsonGrammar, Induction, SequenceTheorems

-----------------------------------------------------------------------------
(* Sequences as stacks.                                                    *)

IsStack(s) == s \in Seq(Range(s))

LEMMA EmptyStack == IsStack(<<>>)
<1> QED BY EmptySeq DEF IsStack

LEMMA SeqIsStack ==
    ASSUME NEW S, NEW s \in Seq(S)
    PROVE  IsStack(s)
<1> QED BY SeqOfRange DEF IsStack

\* An entry more on top.
LEMMA PushedStack ==
    ASSUME NEW s, IsStack(s), NEW v
    PROVE  IsStack(Append(s, v)) /\ Len(s) \in Nat /\ Len(Append(s, v)) = Len(s) + 1
<1> DEFINE S == Range(s) \union {v}
<1>1. s \in Seq(S) /\ v \in S
  BY SeqMonotonic DEF IsStack
<1> HIDE DEF S
<1>2. Append(s, v) \in Seq(S) /\ Len(Append(s, v)) = Len(s) + 1
  BY <1>1, AppendProperties
<1>3. Len(s) \in Nat
  BY <1>1, LenProperties
<1> QED BY <1>2, <1>3, SeqIsStack

\* The lowest n entries of a stack.
LEMMA LowestStack ==
    ASSUME NEW s, IsStack(s), NEW n \in Nat, n <= Len(s)
    PROVE  IsStack(SubSeq(s, 1, n)) /\ Len(SubSeq(s, 1, n)) = n
<1> DEFINE S == Range(s)
<1>1. s \in Seq(S) /\ Len(s) \in Nat
  BY LenProperties DEF IsStack
<1> HIDE DEF S
<1>2. \A i \in 1..n : s[i] \in S
  BY <1>1, ElementOfSeq
<1>3. SubSeq(s, 1, n) \in Seq(S) /\ Len(SubSeq(s, 1, n)) = IF 1 <= n THEN n - 1 + 1 ELSE 0
  BY <1>2, SubSeqProperties
<1>4. Len(SubSeq(s, 1, n)) = n
  BY <1>3
<1> QED BY <1>3, <1>4, SeqIsStack

-----------------------------------------------------------------------------
(* What the containers hold.                                               *)

Frames == [kind : {"object", "array"}, count : Nat]

LEMMA HeldIsNatural ==
    ASSUME NEW f \in Frames
    PROVE  Held(f) \in Nat /\ HeldAround(f) \in Nat
<1>1. f.count \in Nat
  BY DEF Frames
<1>2. Held(f) \in Nat
  BY <1>1 DEF Held
<1> QED BY <1>2 DEF HeldAround

\* Heights is the function it is defined by.
LEMMA HeightsDefined ==
    ASSUME NEW s \in Seq(Frames)
    PROVE  Heights(s) = [n \in 0..Len(s) |->
                            IF n = 0 THEN 0
                            ELSE Heights(s)[n - 1] + HeldAround(s[n])]
<1>1. Len(s) \in Nat /\ \A n \in 1..Len(s) : HeldAround(s[n]) \in Nat
  BY LenProperties, ElementOfSeq, HeldIsNatural
<1> DEFINE step == [p \in Nat \X Nat |->
                       IF p[1] < Len(s) THEN p[2] + HeldAround(s[p[1] + 1]) ELSE 0]
<1>2. step \in [Nat \X Nat -> Nat]
  <2>1. ASSUME NEW p \in Nat \X Nat
        PROVE  (IF p[1] < Len(s) THEN p[2] + HeldAround(s[p[1] + 1]) ELSE 0) \in Nat
    <3>1. p[1] \in Nat /\ p[2] \in Nat
      OBVIOUS
    <3>2. CASE p[1] < Len(s)
      <4>1. p[1] + 1 \in 1..Len(s)
        BY <1>1, <3>1, <3>2
      <4>2. HeldAround(s[p[1] + 1]) \in Nat
        BY <1>1, <4>1
      <4> QED BY <3>1, <3>2, <4>2
    <3>3. CASE ~(p[1] < Len(s))
      BY <3>3
    <3> QED BY <3>2, <3>3
  <2> QED BY <2>1
<1>3. \A n \in Nat, v \in Nat :
          n < Len(s) => step[<<n, v>>] = v + HeldAround(s[n + 1])
  <2>1. ASSUME NEW n \in Nat, NEW v \in Nat, n < Len(s)
        PROVE  step[<<n, v>>] = v + HeldAround(s[n + 1])
    <3>1. <<n, v>> \in Nat \X Nat
      OBVIOUS
    <3>2. <<n, v>>[1] = n /\ <<n, v>>[2] = v
      OBVIOUS
    <3>3. step[<<n, v>>] = IF <<n, v>>[1] < Len(s)
                             THEN <<n, v>>[2] + HeldAround(s[<<n, v>>[1] + 1]) ELSE 0
      BY <3>1
    <3> HIDE DEF step
    <3> QED BY <2>1, <3>2, <3>3
  <2> QED BY <2>1
<1> HIDE DEF step
<1>4. PICK g \in [Nat -> Nat] :
          g[0] = 0 /\ \A n \in Nat : g[n + 1] = step[<<n, g[n]>>]
  <2>1. PICK g : IsIteration(g, Nat, 0, step)
    BY <1>2, Iteration
  <2> QED BY <2>1 DEF IsIteration
<1> DEFINE IsHeight(h) ==
        h = [n \in 0..Len(s) |->
                IF n = 0 THEN 0 ELSE h[n - 1] + HeldAround(s[n])]
           h0 == [n \in 0..Len(s) |-> g[n]]
<1>5. IsHeight(h0)
  <2>1. ASSUME NEW n \in 0..Len(s)
        PROVE  h0[n] = IF n = 0 THEN 0 ELSE h0[n - 1] + HeldAround(s[n])
    <3>1. CASE n = 0
      BY <1>4, <3>1
    <3>2. CASE n # 0
      <4>1. n - 1 \in Nat /\ n - 1 < Len(s) /\ n - 1 \in 0..Len(s) /\ n - 1 + 1 = n
        BY <1>1, <3>2
      <4>2. g[n - 1 + 1] = g[n - 1] + HeldAround(s[n - 1 + 1])
        BY <1>3, <1>4, <4>1
      <4> QED BY <3>2, <4>1, <4>2
    <3> QED BY <3>1, <3>2
  <2> QED BY <2>1
<1>6. \E h : IsHeight(h)
  BY <1>5
<1>7. Heights(s) = CHOOSE h : IsHeight(h)
  BY DEF Heights
<1> HIDE DEF IsHeight
<1>8. IsHeight(Heights(s))
  BY <1>6, <1>7
<1> QED BY <1>8 DEF IsHeight

LEMMA HeightsValues ==
    ASSUME NEW s \in Seq(Frames)
    PROVE  /\ Heights(s)[0] = 0
           /\ \A n \in 1..Len(s) :
                 Heights(s)[n] = Heights(s)[n - 1] + HeldAround(s[n])
<1>1. Len(s) \in Nat
  BY LenProperties
<1>2. Heights(s) = [n \in 0..Len(s) |->
                        IF n = 0 THEN 0
                        ELSE Heights(s)[n - 1] + HeldAround(s[n])]
  BY HeightsDefined
<1> DEFINE h == Heights(s)
<1> HIDE DEF h
<1>3. \A n \in 0..Len(s) : h[n] = IF n = 0 THEN 0 ELSE h[n - 1] + HeldAround(s[n])
  BY <1>2 DEF h
<1>4. h[0] = 0
  BY <1>1, <1>3
<1>5. \A n \in 1..Len(s) : h[n] = h[n - 1] + HeldAround(s[n])
  <2>1. \A n \in 1..Len(s) : n \in 0..Len(s) /\ n # 0
    BY <1>1
  <2> QED BY <1>3, <2>1
<1> QED BY <1>4, <1>5 DEF h

\* The height of no container, and of one more.
LEMMA HeightOfEmpty == Height(<<>>) = 0
<1>1. <<>> \in Seq(Frames) /\ Len(<<>>) = 0
  BY EmptySeq
<1> QED BY <1>1, HeightsValues DEF Height

LEMMA HeightOfAppended ==
    ASSUME NEW s \in Seq(Frames), NEW f \in Frames
    PROVE  /\ Height(s) \in Nat
           /\ Height(Append(s, f)) = Height(s) + HeldAround(f)
<1> DEFINE t == Append(s, f)
<1>1. /\ t \in Seq(Frames) /\ Len(s) \in Nat /\ Len(t) = Len(s) + 1
      /\ \A i \in 1..Len(s) : t[i] = s[i]
      /\ t[Len(s) + 1] = f
  BY AppendProperties, LenProperties
<1> HIDE DEF t
<1>2. /\ Heights(s)[0] = 0 /\ Heights(t)[0] = 0
      /\ \A n \in 1..Len(s) : Heights(s)[n] = Heights(s)[n - 1] + HeldAround(s[n])
      /\ \A n \in 1..Len(t) : Heights(t)[n] = Heights(t)[n - 1] + HeldAround(t[n])
  BY <1>1, HeightsValues
<1> DEFINE E == {n \in Nat : n <= Len(s) =>
                    Heights(s)[n] \in Nat /\ Heights(t)[n] = Heights(s)[n]}
<1>3. 0 \in E
  BY <1>2
<1>4. ASSUME NEW n \in Nat, n \in E
      PROVE  n + 1 \in E
  <2> SUFFICES ASSUME n + 1 <= Len(s)
               PROVE  /\ Heights(s)[n + 1] \in Nat
                      /\ Heights(t)[n + 1] = Heights(s)[n + 1]
    OBVIOUS
  <2>1. n + 1 \in 1..Len(s) /\ n + 1 \in 1..Len(t) /\ n + 1 - 1 = n /\ n <= Len(s)
    BY <1>1
  <2>2. Heights(s)[n] \in Nat /\ Heights(t)[n] = Heights(s)[n]
    BY <1>4, <2>1
  <2>3. s[n + 1] \in Frames /\ t[n + 1] = s[n + 1]
    BY <1>1, <2>1, ElementOfSeq
  <2>4. HeldAround(s[n + 1]) \in Nat
    BY <2>3, HeldIsNatural
  <2> HIDE DEF E
  <2>5. /\ Heights(s)[n + 1] = Heights(s)[n] + HeldAround(s[n + 1])
        /\ Heights(t)[n + 1] = Heights(t)[n] + HeldAround(t[n + 1])
    BY <1>2, <2>1
  <2> QED BY <2>2, <2>3, <2>4, <2>5
<1> HIDE DEF E
<1>5. Nat \subseteq E
  BY <1>3, <1>4, SetInduction
<1>6. Heights(s)[Len(s)] \in Nat /\ Heights(t)[Len(s)] = Heights(s)[Len(s)]
  BY <1>1, <1>5 DEF E
<1>7. Heights(t)[Len(s) + 1] = Heights(t)[Len(s)] + HeldAround(f)
  <2>1. Len(s) + 1 \in 1..Len(t) /\ Len(s) + 1 - 1 = Len(s)
    BY <1>1
  <2> QED BY <1>1, <1>2, <2>1
<1>8. Height(t) = Heights(t)[Len(s) + 1]
  BY <1>1 DEF Height
<1> QED BY <1>6, <1>7, <1>8 DEF Height, t

\* What all containers hold, the innermost one without its present value.
Base(s) == IF s = <<>> THEN 0 ELSE Height(Front(s)) + Held(Last(s))

LEMMA FrontAndLast ==
    ASSUME NEW s \in Seq(Frames), NEW f \in Frames
    PROVE  /\ Append(s, f) \in Seq(Frames) /\ Append(s, f) # <<>>
           /\ Front(Append(s, f)) = s /\ Last(Append(s, f)) = f
<1> DEFINE t == Append(s, f)
<1>1. /\ t \in Seq(Frames) /\ t # <<>> /\ Len(s) \in Nat /\ Len(t) = Len(s) + 1
      /\ \A i \in 1..Len(s) : t[i] = s[i]
      /\ t[Len(s) + 1] = f
  BY AppendProperties, LenProperties
<1> HIDE DEF t
<1>2. Last(t) = f
  BY <1>1 DEF Last
<1>3. Front(t) = SubSeq(t, 1, Len(s))
  BY <1>1 DEF Front
<1>4. Front(t) = s
  <2>1. \A i \in 1..Len(s) : t[i] \in Frames
    BY <1>1, ElementOfSeq
  <2>2. /\ SubSeq(t, 1, Len(s)) \in Seq(Frames)
        /\ Len(SubSeq(t, 1, Len(s))) = IF 1 <= Len(s) THEN Len(s) - 1 + 1 ELSE 0
        /\ \A i \in 1..(Len(s) - 1 + 1) : SubSeq(t, 1, Len(s))[i] = t[1 + i - 1]
    BY <1>1, <2>1, SubSeqProperties
  <2>3. Len(SubSeq(t, 1, Len(s))) = Len(s)
    BY <1>1, <2>2
  <2>4. \A i \in 1..Len(s) : i \in 1..(Len(s) - 1 + 1) /\ 1 + i - 1 = i
    BY <1>1
  <2>5. \A i \in 1..Len(s) : SubSeq(t, 1, Len(s))[i] = s[i]
    BY <1>1, <2>2, <2>4
  <2>6. SubSeq(t, 1, Len(s)) = s
    BY <2>2, <2>3, <2>5, SeqEqual
  <2> QED BY <1>3, <2>6
<1> QED BY <1>1, <1>2, <1>4 DEF t

\* A frame more, and the frames around the innermost one.
LEMMA BaseOfAppended ==
    ASSUME NEW s \in Seq(Frames), NEW f \in Frames
    PROVE  /\ Base(s) \in Nat
           /\ Base(Append(s, f)) = Height(s) + Held(f)
           /\ Height(s) = IF s = <<>> THEN 0
                          ELSE Base(s) + (IF Last(s).kind = "object" THEN 1 ELSE 0)
<1>1. Height(s) \in Nat /\ Held(f) \in Nat
  BY HeightOfAppended, HeldIsNatural
<1>2. Base(Append(s, f)) = Height(s) + Held(f)
  BY FrontAndLast DEF Base
<1>3. CASE s = <<>>
  <2>1. Height(s) = 0 /\ Base(s) = 0
    BY <1>3, HeightOfEmpty DEF Base
  <2> QED BY <1>2, <1>3, <2>1
<1>4. CASE s # <<>>
  <2>1. PICK u \in Seq(Frames), e \in Frames : s = Append(u, e)
    BY <1>4, SequenceEmptyOrAppend
  <2>2. Front(s) = u /\ Last(s) = e
    BY <2>1, FrontAndLast
  <2>3. Height(u) \in Nat /\ Height(s) = Height(u) + HeldAround(e)
    BY <2>1, HeightOfAppended
  <2>4. Base(s) = Height(u) + Held(e) /\ Held(e) \in Nat
    BY <1>4, <2>2, HeldIsNatural DEF Base
  <2>5. Height(s) = Base(s) + (IF e.kind = "object" THEN 1 ELSE 0)
    BY <2>3, <2>4 DEF HeldAround
  <2>6. Base(s) \in Nat
    BY <2>3, <2>4
  <2> QED BY <1>2, <1>4, <2>2, <2>5, <2>6
<1> QED BY <1>3, <1>4

-----------------------------------------------------------------------------
(* The invariant.                                                          *)

\* Where the reader is inside of a string, and where it is at a value that is
\* not one.
StringPlaces == {"string", "escape", "surrogate", "lowSurrogate"}

ValuePlaces ==
    {"value", "minus", "integer", "digits32", "digits64", "digitsDouble",
     "fraction", "fractionFirst", "fractionDigits", "exponent", "exponentSign",
     "exponentFirst", "exponentDigits", "numberEnd"}

ContainerPlaces == {"firstMember", "member", "colon", "firstElement"}

Places ==
    StringPlaces \union ValuePlaces \union ContainerPlaces
    \union {"document", "behindValue", "done"}

\* What kind of container is the innermost one.
Inside(kind) == frames # <<>> /\ Last(frames).kind = kind

StreamOK ==
    /\ alphabet \in Alphabets
    /\ text \in Seq(STRING)
    /\ complete \in BOOLEAN
    /\ src \in 1..(Len(text) + 1)

FramesOK ==
    /\ frames \in Seq(Frames)
    /\ \A i \in DOMAIN frames : frames[i].count < src

\* Where the reader may be with these frames.
Placed ==
    /\ pc \in Places
    /\ isKey \in BOOLEAN
    /\ pc \in {"document", "done"} => frames = <<>>
    /\ pc \in {"firstMember", "member", "colon"} => Inside("object")
    /\ pc = "firstElement" => Inside("array")
    /\ pc \in {"firstMember", "firstElement"} => Last(frames).count = 0
    /\ pc \in StringPlaces /\ isKey => Inside("object")

IInv ==
    /\ StreamOK
    /\ FramesOK
    /\ Placed
    /\ IsStack(stack)
    /\ error \in 0..15
    /\ Len(stack) = Pending + Base(frames)

\* Pending, place by place.
PendingPlace ==
    /\ pc = "behindValue" => Pending = IF Inside("object") THEN 2 ELSE 1
    /\ pc \in {"document", "done", "firstMember", "firstElement", "member"} =>
          Pending = 0
    /\ pc = "colon" => Pending = 1
    /\ pc \in ValuePlaces => Pending = IF Inside("object") THEN 1 ELSE 0
    /\ pc \in StringPlaces =>
          Pending = IF Inside("object") /\ ~isKey THEN 1 ELSE 0

LEMMA PendingPlaces == PendingPlace
<1>1. pc = "behindValue" => Pending = IF Inside("object") THEN 2 ELSE 1
  BY DEF Pending, Inside
<1>2. pc \in {"document", "done", "firstMember", "firstElement", "member"} =>
          Pending = 0
  BY DEF Pending
<1>3. pc = "colon" => Pending = 1
  BY DEF Pending
<1>4. pc \in ValuePlaces => Pending = IF Inside("object") THEN 1 ELSE 0
  BY DEF Pending, Inside, ValuePlaces
<1>5. pc \in StringPlaces =>
          Pending = IF Inside("object") /\ ~isKey THEN 1 ELSE 0
  BY DEF Pending, Inside, StringPlaces
<1> QED BY <1>1, <1>2, <1>3, <1>4, <1>5 DEF PendingPlace

\* The codes of the errors.
Codes == 1..15

LEMMA CodesOfErrors ==
    /\ kParseErrorDocumentEmpty \in Codes
    /\ kParseErrorDocumentRootNotSingular \in Codes
    /\ kParseErrorValueInvalid \in Codes
    /\ kParseErrorObjectMissName \in Codes
    /\ kParseErrorObjectMissColon \in Codes
    /\ kParseErrorObjectMissCommaOrCurlyBracket \in Codes
    /\ kParseErrorArrayMissCommaOrSquareBracket \in Codes
    /\ kParseErrorStringUnicodeEscapeInvalidHex \in Codes
    /\ kParseErrorStringUnicodeSurrogateInvalid \in Codes
    /\ kParseErrorStringEscapeInvalid \in Codes
    /\ kParseErrorStringMissQuotationMark \in Codes
    /\ kParseErrorStringInvalidEncoding \in Codes
    /\ kParseErrorNumberTooBig \in Codes
    /\ kParseErrorNumberMissFraction \in Codes
    /\ kParseErrorNumberMissExponent \in Codes
<1> QED BY DEF Codes, kParseErrorDocumentEmpty, kParseErrorDocumentRootNotSingular,
           kParseErrorValueInvalid, kParseErrorObjectMissName,
           kParseErrorObjectMissColon, kParseErrorObjectMissCommaOrCurlyBracket,
           kParseErrorArrayMissCommaOrSquareBracket,
           kParseErrorStringUnicodeEscapeInvalidHex,
           kParseErrorStringUnicodeSurrogateInvalid,
           kParseErrorStringEscapeInvalid, kParseErrorStringMissQuotationMark,
           kParseErrorStringInvalidEncoding, kParseErrorNumberTooBig,
           kParseErrorNumberMissFraction, kParseErrorNumberMissExponent

-----------------------------------------------------------------------------
(* Kinds of steps.                                                         *)

\* The stream stays as it is, or goes on by one element that is there.
LEMMA TakeAdvances ==
    ASSUME StreamOK, alphabet' = alphabet, Take, Peek # "end"
    PROVE  StreamOK' /\ src' = src + 1
<1>1. Len(text) \in Nat /\ src \in 1..Len(text) + 1
  BY LenProperties DEF StreamOK
<1>2. src <= Len(text)
  BY <1>1 DEF Peek
<1>3. src' = src + 1
  BY DEF Take
<1>4. CASE UNCHANGED <<text, complete>> /\ (complete \/ src < Len(text))
  BY <1>1, <1>2, <1>3, <1>4 DEF StreamOK
<1>5. CASE complete' = TRUE /\ UNCHANGED text
  BY <1>1, <1>2, <1>3, <1>5 DEF StreamOK
<1>6. CASE (\E c \in alphabet : text' = Append(text, c)) /\ UNCHANGED complete
  <2>1. PICK c \in alphabet : text' = Append(text, c)
    BY <1>6
  <2>2. c \in STRING
    BY AlphabetsAreStrings DEF StreamOK
  <2>3. text' \in Seq(STRING) /\ Len(text') = Len(text) + 1
    BY <2>1, <2>2, AppendProperties DEF StreamOK
  <2>4. src' \in 1..(Len(text') + 1)
    BY <1>1, <1>2, <1>3, <2>3
  <2> QED BY <1>3, <1>6, <2>3, <2>4 DEF StreamOK
<1> QED BY <1>4, <1>5, <1>6 DEF Take

Advances ==
    /\ alphabet' = alphabet
    /\ \/ UNCHANGED stream
       \/ Take /\ Peek # "end"

LEMMA StreamAdvances ==
    ASSUME StreamOK, Advances
    PROVE  StreamOK' /\ src' >= src
<1>1. CASE UNCHANGED stream
  BY <1>1 DEF stream, StreamOK, Advances
<1>2. CASE Take /\ Peek # "end"
  BY <1>2, TakeAdvances DEF StreamOK, Advances
<1> QED BY <1>1, <1>2 DEF Advances

LEMMA FramesStay ==
    ASSUME StreamOK, FramesOK, StreamOK', src' >= src, frames' = frames
    PROVE  FramesOK'
<1>1. src \in Int /\ src' \in Int
  BY DEF StreamOK
<1>2. ASSUME NEW i \in DOMAIN frames
      PROVE  frames[i].count < src'
  <2>1. frames[i].count < src
    BY DEF FramesOK
  <2>2. i \in 1..Len(frames)
    BY LenProperties DEF FramesOK
  <2>3. frames[i] \in Frames
    BY <2>2, ElementOfSeq DEF FramesOK
  <2>4. frames[i].count \in Nat
    BY <2>3 DEF Frames
  <2> QED BY <1>1, <2>1, <2>4
<1> QED BY <1>2 DEF FramesOK

LEMMA BaseIsNatural ==
    ASSUME FramesOK
    PROVE  Base(frames) \in Nat
<1>1. [kind |-> "object", count |-> 0] \in Frames
  BY DEF Frames
<1> QED BY <1>1, BaseOfAppended DEF FramesOK

\* The frames and the stack stay; the value is as far as before.
LEMMA QuietIInv ==
    ASSUME IInv, Advances, UNCHANGED <<frames, stack, error>>, Placed',
           Pending' = Pending
    PROVE  IInv'
<1>1. StreamOK' /\ src' >= src
  BY StreamAdvances DEF IInv
<1>2. FramesOK'
  BY <1>1, FramesStay DEF IInv
<1>3. Base(frames)' = Base(frames) /\ Len(stack)' = Len(stack)
  BY DEF Base
<1> QED BY <1>1, <1>2, <1>3 DEF IInv

\* A value is put on the stack, and is the present one's from now on.
LEMMA PushIInv ==
    ASSUME IInv, Advances, NEW v, stack' = Append(stack, v),
           UNCHANGED <<frames, error>>, Placed', Pending' = Pending + 1
    PROVE  IInv'
<1>1. StreamOK' /\ src' >= src
  BY StreamAdvances DEF IInv
<1>2. FramesOK'
  BY <1>1, FramesStay DEF IInv
<1>3. IsStack(stack') /\ Len(stack) \in Nat /\ Len(stack') = Len(stack) + 1
  BY PushedStack DEF IInv
<1>4. Base(frames)' = Base(frames)
  BY DEF Base
<1>5. Pending \in Nat
  BY DEF Pending
<1>6. Base(frames) \in Nat
  BY BaseIsNatural DEF IInv
<1>7. Len(stack') = Pending' + Base(frames')
  BY <1>3, <1>4, <1>5, <1>6 DEF IInv
<1> QED BY <1>1, <1>2, <1>3, <1>7 DEF IInv

\* An error.
LEMMA FailIInv ==
    ASSUME IInv, Advances, isKey' = isKey, frames' = <<>>, stack' = <<>>,
           pc' = "done", error' \in Codes
    PROVE  IInv'
<1>1. StreamOK'
  BY StreamAdvances DEF IInv
<1>2. FramesOK'
  BY EmptySeq DEF FramesOK
<1>3. Placed'
  BY DEF IInv, Placed, Places, StringPlaces
<1>4. Pending' = 0
  BY DEF Pending
<1>5. Base(frames)' = 0
  BY DEF Base
<1>6. IsStack(stack)' /\ Len(stack') = 0
  BY EmptyStack, EmptySeq
<1> QED BY <1>1, <1>2, <1>3, <1>4, <1>5, <1>6 DEF IInv, Codes

LEMMA failIInv ==
    ASSUME IInv, NEW code \in Codes, fail(code)
    PROVE  IInv'
<1>1. Advances
  BY DEF fail, Advances
<1>2. /\ isKey' = isKey /\ frames' = <<>> /\ stack' = <<>>
      /\ pc' = "done" /\ error' \in Codes
  BY DEF fail
<1> QED BY <1>1, <1>2, FailIInv

\* Places that are as far in the present value, and where one is put.
Moves ==
    \/ pc \in ValuePlaces /\ pc' \in ValuePlaces /\ isKey' = isKey
    \/ pc \in StringPlaces /\ pc' \in StringPlaces /\ isKey' = isKey
    \/ pc = "value" /\ pc' = "string" /\ isKey' = FALSE
    \/ pc = "member" /\ pc' = "string" /\ isKey' = TRUE
    \/ pc = "document" /\ pc' = "value" /\ isKey' = isKey
    \/ pc = "firstMember" /\ pc' = "member" /\ isKey' = isKey
    \/ pc = "firstElement" /\ pc' = "value" /\ isKey' = isKey
    \/ pc = "colon" /\ pc' = "value" /\ isKey' = isKey

PutMoves ==
    /\ isKey' = isKey
    /\ \/ pc \in ValuePlaces /\ pc' = "behindValue"
       \/ pc = "string" /\ pc' = IF isKey THEN "colon" ELSE "behindValue"
       \/ pc = "member" /\ pc' = "colon"

LEMMA PlaceSets ==
    /\ "value" \in ValuePlaces /\ "string" \in StringPlaces
    /\ StringPlaces \subseteq Places /\ ValuePlaces \subseteq Places
    /\ ContainerPlaces \subseteq Places
    /\ "behindValue" \in Places /\ "done" \in Places
    /\ StringPlaces \intersect {"document", "done", "behindValue"} = {}
    /\ StringPlaces \intersect ContainerPlaces = {}
    /\ ValuePlaces \intersect {"document", "done", "behindValue"} = {}
    /\ ValuePlaces \intersect ContainerPlaces = {}
    /\ ValuePlaces \intersect StringPlaces = {}
<1> QED BY DEF StringPlaces, ValuePlaces, ContainerPlaces, Places

LEMMA MoveIInv ==
    ASSUME IInv, Advances, UNCHANGED <<frames, stack, error>>, Moves
    PROVE  IInv'
<1>1. Inside("object")' = Inside("object")
  BY DEF Inside
<1>2. PendingPlace /\ PendingPlace'
  BY PendingPlaces, PTL
<1>3. /\ isKey \in BOOLEAN
      /\ pc \in {"firstMember", "member", "colon"} => Inside("object")
      /\ pc = "firstElement" => Inside("array")
      /\ pc \in StringPlaces /\ isKey => Inside("object")
      /\ pc \in {"document", "done"} => frames = <<>>
  BY DEF IInv, Placed
<1>4. Inside("array") => ~Inside("object")
  BY DEF Inside
<1>5. frames = <<>> => ~Inside("object")
  BY DEF Inside
<1>6. CASE pc \in ValuePlaces /\ pc' \in ValuePlaces /\ isKey' = isKey
  <2>1. Placed'
    BY <1>3, <1>6, PlaceSets DEF Placed, ContainerPlaces
  <2>2. Pending' = Pending
    BY <1>1, <1>2, <1>6 DEF PendingPlace
  <2> QED BY <2>1, <2>2, QuietIInv
<1>7. CASE pc \in StringPlaces /\ pc' \in StringPlaces /\ isKey' = isKey
  <2>1. Placed'
    BY <1>1, <1>3, <1>7, PlaceSets DEF Placed, ContainerPlaces
  <2>2. Pending' = Pending
    BY <1>1, <1>2, <1>7 DEF PendingPlace
  <2> QED BY <2>1, <2>2, QuietIInv
<1>8. CASE pc = "value" /\ pc' = "string" /\ isKey' = FALSE
  <2>1. Placed'
    BY <1>8, PlaceSets DEF Placed, ContainerPlaces
  <2>2. Pending' = Pending
    BY <1>1, <1>2, <1>8, PlaceSets DEF PendingPlace
  <2> QED BY <2>1, <2>2, QuietIInv
<1>9. CASE pc = "member" /\ pc' = "string" /\ isKey' = TRUE
  <2>1. Placed'
    BY <1>1, <1>3, <1>9, PlaceSets DEF Placed, ContainerPlaces
  <2>2. Pending' = Pending
    BY <1>1, <1>2, <1>9, PlaceSets DEF PendingPlace
  <2> QED BY <2>1, <2>2, QuietIInv
<1>10. CASE /\ pc \in {"document", "firstElement", "colon"} /\ pc' = "value"
            /\ isKey' = isKey
  <2>1. Placed'
    BY <1>3, <1>10, PlaceSets DEF Placed, ContainerPlaces
  <2>2. Pending' = Pending
    BY <1>1, <1>2, <1>3, <1>4, <1>5, <1>10, PlaceSets DEF PendingPlace
  <2> QED BY <2>1, <2>2, QuietIInv
<1>11. CASE pc = "firstMember" /\ pc' = "member" /\ isKey' = isKey
  <2>1. Placed'
    BY <1>1, <1>3, <1>11, PlaceSets DEF Placed, ContainerPlaces
  <2>2. Pending' = Pending
    BY <1>1, <1>2, <1>3, <1>11 DEF PendingPlace
  <2> QED BY <2>1, <2>2, QuietIInv
<1> QED BY <1>6, <1>7, <1>8, <1>9, <1>10, <1>11 DEF Moves

LEMMA PutMoveIInv ==
    ASSUME IInv, Advances, NEW v, stack' = Append(stack, v),
           UNCHANGED <<frames, error>>, PutMoves
    PROVE  IInv'
<1>1. Inside("object")' = Inside("object")
  BY DEF Inside
<1>2. PendingPlace /\ PendingPlace'
  BY PendingPlaces, PTL
<1>3. /\ isKey \in BOOLEAN
      /\ pc \in {"firstMember", "member", "colon"} => Inside("object")
      /\ pc \in StringPlaces /\ isKey => Inside("object")
  BY DEF IInv, Placed
<1>4. CASE pc \in ValuePlaces /\ pc' = "behindValue" /\ isKey' = isKey
  <2>1. Placed'
    BY <1>3, <1>4, PlaceSets DEF Placed, ContainerPlaces
  <2>2. Pending' = Pending + 1
    BY <1>1, <1>2, <1>4 DEF PendingPlace
  <2> QED BY <2>1, <2>2, PushIInv
<1>5. CASE pc = "string" /\ isKey /\ pc' = "colon" /\ isKey' = isKey
  <2>1. Placed'
    BY <1>1, <1>3, <1>5, PlaceSets DEF Placed, ContainerPlaces
  <2>2. Pending' = Pending + 1
    BY <1>1, <1>2, <1>3, <1>5, PlaceSets DEF PendingPlace
  <2> QED BY <2>1, <2>2, PushIInv
<1>6. CASE pc = "string" /\ ~isKey /\ pc' = "behindValue" /\ isKey' = isKey
  <2>1. Placed'
    BY <1>3, <1>6, PlaceSets DEF Placed, ContainerPlaces
  <2>2. Pending' = Pending + 1
    BY <1>1, <1>2, <1>6, PlaceSets DEF PendingPlace
  <2> QED BY <2>1, <2>2, PushIInv
<1>7. CASE pc = "member" /\ pc' = "colon" /\ isKey' = isKey
  <2>1. Placed'
    BY <1>1, <1>3, <1>7, PlaceSets DEF Placed, ContainerPlaces
  <2>2. Pending' = Pending + 1
    BY <1>1, <1>2, <1>7 DEF PendingPlace
  <2> QED BY <2>1, <2>2, PushIInv
<1> QED BY <1>4, <1>5, <1>6, <1>7 DEF PutMoves

\* The container behind a bracket.
LEMMA BeginIInv ==
    ASSUME IInv, pc = "value", NEW kind, NEW bracket, NEW place,
           bracket # "end", begin(kind, bracket, place),
           \/ kind = "object" /\ place = "firstMember"
           \/ kind = "array" /\ place = "firstElement"
    PROVE  IInv'
<1> DEFINE f == [kind |-> kind, count |-> 0]
<1>1. /\ Take /\ Peek # "end" /\ alphabet' = alphabet
      /\ stack' = Append(stack, <<kind, <<>>>>) /\ pc' = place
      /\ frames' = Append(frames, f)
      /\ isKey' = isKey /\ error' = error
  BY DEF begin, event
<1>2. StreamOK' /\ src' = src + 1
  BY <1>1, TakeAdvances DEF IInv
<1>3. f \in Frames /\ f.kind = kind /\ f.count = 0 /\ Held(f) = 1
  <2>1. f.kind = kind /\ f.count = 0
    OBVIOUS
  <2>2. f \in Frames
    BY DEF Frames
  <2>3. Held(f) = 1
    BY <2>1 DEF Held
  <2> QED BY <2>1, <2>2, <2>3
<1> HIDE DEF f
<1>4. /\ frames \in Seq(Frames) /\ frames' \in Seq(Frames) /\ frames' # <<>>
      /\ Last(frames') = f
  BY <1>1, <1>3, FrontAndLast DEF IInv, FramesOK
<1>5. FramesOK'
  <2>1. src \in Int /\ src >= 1
    BY DEF IInv, StreamOK
  <2>2. ASSUME NEW i \in DOMAIN frames'
        PROVE  frames'[i].count < src'
    <3>1. /\ Len(frames) \in Nat /\ Len(frames') = Len(frames) + 1
          /\ \A j \in 1..Len(frames) : frames'[j] = frames[j]
          /\ frames'[Len(frames) + 1] = f
          /\ DOMAIN frames' = 1..Len(frames') /\ DOMAIN frames = 1..Len(frames)
      BY <1>1, <1>3, <1>4, AppendProperties, LenProperties
    <3>2. CASE i = Len(frames) + 1
      BY <1>2, <1>3, <2>1, <3>1, <3>2
    <3>3. CASE i # Len(frames) + 1
      <4>1. i \in 1..Len(frames)
        BY <3>1, <3>3
      <4>2. frames'[i] = frames[i] /\ frames[i].count < src
        BY <3>1, <4>1 DEF IInv, FramesOK
      <4>3. frames[i] \in Frames
        BY <1>4, <4>1, ElementOfSeq
      <4>4. frames[i].count \in Nat
        BY <4>3 DEF Frames
      <4> QED BY <1>2, <2>1, <4>2, <4>4
    <3> QED BY <3>2, <3>3
  <2> QED BY <1>4, <2>2 DEF FramesOK
<1>6. Inside(kind)' /\ Last(frames)'.count = 0
  BY <1>3, <1>4 DEF Inside
<1>7. Placed'
  BY <1>1, <1>6, PlaceSets DEF IInv, Placed, ContainerPlaces, Places
<1>8. Pending' = 0
  <2>1. PendingPlace'
    BY PendingPlaces, PTL
  <2> QED BY <1>1, <2>1 DEF PendingPlace
<1>9. /\ Base(frames) \in Nat
      /\ Base(frames') = Height(frames) + 1
      /\ Height(frames) = IF frames = <<>> THEN 0
                          ELSE Base(frames) + (IF Last(frames).kind = "object" THEN 1 ELSE 0)
  BY <1>1, <1>3, <1>4, BaseOfAppended
<1>10. Pending = IF Inside("object") THEN 1 ELSE 0
  BY PendingPlaces, PlaceSets DEF PendingPlace
<1>11. Height(frames) = Pending + Base(frames)
  <2>1. CASE frames = <<>>
    <3>1. Base(frames) = 0
      BY <2>1 DEF Base
    <3> QED BY <1>9, <1>10, <2>1, <3>1 DEF Inside
  <2>2. CASE frames # <<>>
    BY <1>9, <1>10, <2>2 DEF Inside
  <2> QED BY <2>1, <2>2
<1>12. IsStack(stack') /\ Len(stack) \in Nat /\ Len(stack') = Len(stack) + 1
  BY <1>1, PushedStack DEF IInv
<1>13. Len(stack') = Pending' + Base(frames')
  BY <1>8, <1>9, <1>11, <1>12 DEF IInv
<1> QED BY <1>1, <1>2, <1>5, <1>7, <1>12, <1>13 DEF IInv

\* The frame of the innermost container, and those around it.
LEMMA Innermost ==
    ASSUME FramesOK, frames # <<>>
    PROVE  \E u \in Seq(Frames), f \in Frames :
              /\ frames = Append(u, f) /\ Front(frames) = u /\ Last(frames) = f
              /\ Len(u) \in Nat /\ Len(frames) = Len(u) + 1
              /\ \A i \in 1..Len(u) : frames[i] = u[i]
              /\ f.count < src /\ f.count \in Nat
              /\ Base(frames) = Height(u) + Held(f)
              /\ Height(u) \in Nat
<1>1. PICK u \in Seq(Frames), f \in Frames : frames = Append(u, f)
  BY SequenceEmptyOrAppend DEF FramesOK
<1>2. Front(frames) = u /\ Last(frames) = f
  BY <1>1, FrontAndLast
<1>3. /\ Len(u) \in Nat /\ Len(frames) = Len(u) + 1
      /\ \A i \in 1..Len(u) : frames[i] = u[i]
      /\ frames[Len(u) + 1] = f
  BY <1>1, AppendProperties, LenProperties
<1>4. f.count \in Nat
  BY DEF Frames
<1>5. f.count < src
  <2>1. Len(u) + 1 \in DOMAIN frames
    BY <1>3, LenProperties DEF FramesOK
  <2> QED BY <1>3, <2>1 DEF FramesOK
<1>6. Base(frames) = Height(u) + Held(f) /\ Height(u) \in Nat
  BY <1>1, BaseOfAppended, HeightOfAppended
<1> QED BY <1>1, <1>2, <1>3, <1>4, <1>5, <1>6

\* The end of a container: its values are on the stack, above the entry it is
\* made in.
LEMMA EndIInv ==
    ASSUME IInv, frames # <<>>, NEW bracket, bracket # "end", NEW count \in Nat,
           end(bracket, count),
           Pending + Held(Last(frames)) =
              1 + (IF Last(frames).kind = "object" THEN 2 * count ELSE count)
    PROVE  IInv'
<1> DEFINE size == IF Last(frames).kind = "object" THEN 2 * count ELSE count
<1>1. PICK u \in Seq(Frames), f \in Frames :
              /\ frames = Append(u, f) /\ Front(frames) = u /\ Last(frames) = f
              /\ Len(u) \in Nat /\ Len(frames) = Len(u) + 1
              /\ \A i \in 1..Len(u) : frames[i] = u[i]
              /\ f.count < src /\ f.count \in Nat
              /\ Base(frames) = Height(u) + Held(f)
              /\ Height(u) \in Nat
  BY Innermost DEF IInv
<1>2. /\ Take /\ Peek # "end" /\ alphabet' = alphabet
      /\ isKey' = isKey /\ error' = error
      /\ frames' = Front(frames) /\ pc' = "behindValue"
      /\ \E made : stack' = Append(SubSeq(stack, 1, Len(stack) - size - 1), made)
  <2>1. /\ Take /\ Peek # "end" /\ alphabet' = alphabet
        /\ isKey' = isKey /\ error' = error
        /\ endContainer(Last(frames).kind, count)
    BY DEF end
  <2>2. /\ frames' = Front(frames) /\ pc' = "behindValue"
        /\ \E made : stack' = Append(SubSeq(stack, 1, Len(stack) - size - 1), made)
    BY <2>1 DEF endContainer
  <2> QED BY <2>1, <2>2
<1>3. StreamOK' /\ src' = src + 1
  BY <1>2, TakeAdvances DEF IInv
<1>4. frames' = u
  BY <1>1, <1>2
<1>5. FramesOK'
  <2>1. src \in Int
    BY DEF IInv, StreamOK
  <2>2. ASSUME NEW i \in DOMAIN u
        PROVE  u[i].count < src'
    <3>1. i \in 1..Len(u) /\ i \in DOMAIN frames
      BY <1>1, LenProperties DEF IInv, FramesOK
    <3>2. u[i].count < src
      BY <1>1, <3>1 DEF IInv, FramesOK
    <3>3. u[i] \in Frames
      BY <3>1, ElementOfSeq
    <3>4. u[i].count \in Nat
      BY <3>3 DEF Frames
    <3> QED BY <1>3, <2>1, <3>2, <3>4
  <2> QED BY <1>4, <2>2 DEF FramesOK
<1>6. Placed'
  BY <1>2, PlaceSets DEF IInv, Placed, StringPlaces, Places
<1>7. size \in Nat
  OBVIOUS
<1>8. Pending + Held(f) = 1 + size
  BY <1>1
<1> HIDE DEF size
<1>9. Pending \in Nat /\ Held(f) \in Nat
  BY HeldIsNatural DEF Pending
<1>10. Len(stack) = Height(u) + 1 + size
  <2>1. Len(stack) = Pending + (Height(u) + Held(f)) /\ Height(u) \in Nat
    BY <1>1 DEF IInv
  <2> QED BY <1>7, <1>8, <1>9, <2>1
<1>11. PICK made : stack' = Append(SubSeq(stack, 1, Len(stack) - size - 1), made)
  BY <1>2
<1>12. Len(stack) - size - 1 = Height(u)
  BY <1>1, <1>7, <1>10
<1>13. IsStack(stack') /\ Len(stack') = Height(u) + 1
  <2>1. Height(u) <= Len(stack)
    BY <1>1, <1>7, <1>10
  <2>2. IsStack(SubSeq(stack, 1, Height(u))) /\ Len(SubSeq(stack, 1, Height(u))) = Height(u)
    BY <1>1, <2>1, LowestStack DEF IInv
  <2>3. stack' = Append(SubSeq(stack, 1, Height(u)), made)
    BY <1>11, <1>12
  <2> QED BY <2>2, <2>3, PushedStack
<1>14. Pending' = IF Inside("object")' THEN 2 ELSE 1
  <2>1. PendingPlace'
    BY PendingPlaces, PTL
  <2> QED BY <1>2, <2>1 DEF PendingPlace
<1>15. Height(u) = IF u = <<>> THEN 0
                   ELSE Base(u) + (IF Last(u).kind = "object" THEN 1 ELSE 0)
  BY BaseOfAppended
<1>16. Inside("object")' <=> u # <<>> /\ Last(u).kind = "object"
  BY <1>4 DEF Inside
<1>17. Base(u) \in Nat /\ (u = <<>> => Base(u) = 0)
  BY BaseOfAppended DEF Base
<1>18. Len(stack') = Pending' + Base(frames')
  BY <1>4, <1>13, <1>14, <1>15, <1>16, <1>17
<1> QED BY <1>2, <1>3, <1>5, <1>6, <1>13, <1>18 DEF IInv

\* A comma: the value has become one of the container's.
LEMMA ContinueIInv ==
    ASSUME IInv, pc = "behindValue", frames # <<>>, NEW place, continue(place),
           \/ Last(frames).kind = "object" /\ place = "member"
           \/ Last(frames).kind = "array" /\ place = "value"
    PROVE  IInv'
<1>1. PICK u \in Seq(Frames), f \in Frames :
              /\ frames = Append(u, f) /\ Front(frames) = u /\ Last(frames) = f
              /\ Len(u) \in Nat /\ Len(frames) = Len(u) + 1
              /\ \A i \in 1..Len(u) : frames[i] = u[i]
              /\ f.count < src /\ f.count \in Nat
              /\ Base(frames) = Height(u) + Held(f)
              /\ Height(u) \in Nat
  BY Innermost DEF IInv
<1> DEFINE g == [f EXCEPT !.count = f.count + 1]
<1>2. /\ Take /\ Peek # "end" /\ alphabet' = alphabet
      /\ isKey' = isKey /\ error' = error /\ stack' = stack /\ pc' = place
      /\ frames' = [frames EXCEPT ![Len(frames)].count = f.count + 1]
  BY <1>1 DEF continue, counted
<1>3. StreamOK' /\ src' = src + 1
  BY <1>2, TakeAdvances DEF IInv
<1>4. /\ g \in Frames /\ g.kind = f.kind /\ g.count = f.count + 1
      /\ f.kind \in {"object", "array"}
  BY <1>1 DEF Frames
<1>5. frames \in Seq(Frames) /\ Len(frames) \in 1..Len(frames) /\ frames[Len(frames)] = f
  <2>1. frames \in Seq(Frames)
    BY DEF IInv, FramesOK
  <2>2. Last(frames) = frames[Len(frames)]
    BY DEF Last
  <2> QED BY <1>1, <2>1, <2>2
<1>6. frames' = [frames EXCEPT ![Len(frames)] = g]
  BY <1>2, <1>5
<1> HIDE DEF g
<1>7. frames' = Append(u, g)
  <2>1. /\ frames' \in Seq(Frames) /\ Len(frames') = Len(frames)
        /\ \A j \in 1..Len(frames) :
              frames'[j] = IF j = Len(frames) THEN g ELSE frames[j]
    BY <1>4, <1>5, <1>6, ExceptSeq
  <2>2. /\ Append(u, g) \in Seq(Frames) /\ Len(Append(u, g)) = Len(u) + 1
        /\ \A j \in 1..Len(u) : Append(u, g)[j] = u[j]
        /\ Append(u, g)[Len(u) + 1] = g
    BY <1>4, AppendProperties
  <2>3. \A j \in 1..Len(frames') : frames'[j] = Append(u, g)[j]
    <3>1. ASSUME NEW j \in 1..Len(frames')
          PROVE  frames'[j] = Append(u, g)[j]
      <4>1. CASE j = Len(frames)
        BY <1>1, <2>1, <2>2, <4>1
      <4>2. CASE j # Len(frames)
        <5>1. j \in 1..Len(u) /\ j \in 1..Len(frames)
          BY <1>1, <2>1, <4>2
        <5> QED BY <1>1, <2>1, <2>2, <4>2, <5>1
      <4> QED BY <4>1, <4>2
    <3> QED BY <3>1
  <2>4. Len(frames') = Len(Append(u, g))
    BY <1>1, <2>1, <2>2
  <2> QED BY <2>1, <2>2, <2>3, <2>4, SeqEqual
<1>8. frames' \in Seq(Frames) /\ frames' # <<>> /\ Last(frames') = g
  BY <1>4, <1>7, FrontAndLast
<1>9. FramesOK'
  <2>1. src \in Int
    BY DEF IInv, StreamOK
  <2>2. ASSUME NEW i \in DOMAIN frames'
        PROVE  frames'[i].count < src'
    <3>1. /\ Len(frames') = Len(u) + 1 /\ DOMAIN frames' = 1..Len(frames')
          /\ \A j \in 1..Len(u) : frames'[j] = u[j]
          /\ frames'[Len(u) + 1] = g
          /\ DOMAIN frames = 1..Len(frames)
      BY <1>4, <1>5, <1>7, <1>8, AppendProperties, LenProperties
    <3>2. CASE i = Len(u) + 1
      BY <1>1, <1>3, <1>4, <2>1, <3>1, <3>2
    <3>3. CASE i # Len(u) + 1
      <4>1. i \in 1..Len(u) /\ i \in DOMAIN frames
        BY <1>1, <3>1, <3>3
      <4>2. frames'[i] = u[i] /\ u[i].count < src
        BY <1>1, <3>1, <4>1 DEF IInv, FramesOK
      <4>3. u[i] \in Frames
        BY <4>1, ElementOfSeq
      <4>4. u[i].count \in Nat
        BY <4>3 DEF Frames
      <4> QED BY <1>3, <2>1, <4>2, <4>4
    <3> QED BY <3>2, <3>3
  <2> QED BY <1>8, <2>2 DEF FramesOK
<1>10. Inside(f.kind)' /\ (f.kind = "array" => ~Inside("object")')
  BY <1>4, <1>8 DEF Inside
<1>11. Placed'
  BY <1>1, <1>2, <1>10, PlaceSets DEF IInv, Placed, ContainerPlaces
<1>12. PendingPlace /\ PendingPlace'
  BY PendingPlaces, PTL
<1>13. Base(frames') = Height(u) + Held(g)
  BY <1>4, <1>7, BaseOfAppended
<1>14. Len(stack') = Pending' + Base(frames')
  <2>1. CASE f.kind = "object"
    <3>1. Pending = 2 /\ Pending' = 0
      BY <1>1, <1>2, <1>12, <2>1 DEF PendingPlace, Inside
    <3>2. Held(f) = 1 + 2 * f.count /\ Held(g) = 1 + 2 * (f.count + 1)
      BY <1>4, <2>1 DEF Held
    <3> QED BY <1>1, <1>2, <1>13, <3>1, <3>2 DEF IInv
  <2>2. CASE f.kind = "array"
    <3>1. Pending = 1 /\ Pending' = 0
      BY <1>1, <1>2, <1>10, <1>12, <2>2, PlaceSets DEF PendingPlace, Inside
    <3>2. Held(f) = 1 + f.count /\ Held(g) = 1 + (f.count + 1)
      BY <1>4, <2>2 DEF Held
    <3> QED BY <1>1, <1>2, <1>13, <3>1, <3>2 DEF IInv
  <2> QED BY <1>4, <2>1, <2>2
<1> QED BY <1>2, <1>3, <1>9, <1>11, <1>14 DEF IInv

LEMMA parseEndIInv ==
    ASSUME IInv, parseEnd
    PROVE  IInv'
<1>1. pc = "behindValue" /\ frames = <<>>
  BY DEF parseEnd, at
<1>2. CASE Peek # "end"
  BY <1>2, failIInv, CodesOfErrors DEF parseEnd
<1>3. CASE Peek = "end"
  <2>1. /\ stack' = Front(stack) /\ pc' = "done"
        /\ UNCHANGED <<alphabet, stream, frames, isKey, error>>
    BY <1>3 DEF parseEnd
  <2>2. Len(stack) = 1
    <3>1. Pending = 1
      BY <1>1, PendingPlaces DEF PendingPlace, Inside
    <3>2. Base(frames) = 0
      BY <1>1 DEF Base
    <3> QED BY <3>1, <3>2 DEF IInv
  <2>3. IsStack(stack') /\ Len(stack') = 0
    <3>1. stack' = SubSeq(stack, 1, 0)
      BY <2>1, <2>2 DEF Front
    <3> QED BY <2>2, <3>1, LowestStack DEF IInv
  <2>4. StreamOK' /\ FramesOK'
    BY <2>1 DEF IInv, StreamOK, FramesOK, stream
  <2>5. Placed'
    BY <1>1, <2>1, PlaceSets DEF IInv, Placed, StringPlaces
  <2>6. Pending' = 0 /\ Base(frames') = 0
    BY <1>1, <2>1 DEF Pending, Base
  <2> QED BY <2>1, <2>3, <2>4, <2>5, <2>6 DEF IInv
<1> QED BY <1>2, <1>3

-----------------------------------------------------------------------------
(* The actions.                                                            *)

LEMMA gotoIInv ==
    ASSUME IInv, NEW place, goto(place),
           \/ pc \in ValuePlaces /\ place \in ValuePlaces
           \/ pc = "document" /\ place = "value"
           \/ pc = "firstMember" /\ place = "member"
           \/ pc = "firstElement" /\ place = "value"
    PROVE  IInv'
<1>1. Advances /\ UNCHANGED <<frames, stack, error>> /\ pc' = place /\ isKey' = isKey
  BY DEF goto, Advances
<1>2. Moves
  BY <1>1 DEF Moves
<1> QED BY <1>1, <1>2, MoveIInv

\* Within a string or a value of another kind, an element is taken.
LEMMA takeIInv ==
    ASSUME IInv, NEW place, NEW c, takePut(c, place) \/ takeOnly(place),
           Peek # "end",
           \/ pc \in ValuePlaces /\ place \in ValuePlaces
           \/ pc \in StringPlaces /\ place \in StringPlaces
    PROVE  IInv'
<1>1. Advances /\ UNCHANGED <<frames, stack, error>> /\ pc' = place /\ isKey' = isKey
  BY DEF takePut, takeOnly, Advances, number
<1>2. Moves
  BY <1>1 DEF Moves
<1> QED BY <1>1, <1>2, MoveIInv

LEMMA SkipWhitespaceIInv ==
    ASSUME IInv, SkipWhitespace
    PROVE  IInv'
<1>1. /\ Advances /\ UNCHANGED <<frames, stack, error>> /\ pc' = pc /\ isKey' = isKey
  BY DEF SkipWhitespace, Advances
<1>2. Placed'
  BY <1>1 DEF IInv, Placed, Inside
<1>3. Pending' = Pending
  BY <1>1 DEF Pending
<1> QED BY <1>1, <1>2, <1>3, QuietIInv

LEMMA ParseIInv ==
    ASSUME IInv, Parse
    PROVE  IInv'
<1>1. pc = "document"
  BY DEF Parse, at
<1>2. CASE fail(kParseErrorDocumentEmpty)
  BY <1>2, failIInv, CodesOfErrors
<1>3. CASE goto("value")
  BY <1>1, <1>3, gotoIInv
<1> QED BY <1>2, <1>3 DEF Parse

LEMMA ParseLiteralIInv ==
    ASSUME IInv, ParseLiteral
    PROVE  IInv'
<1>1. /\ Advances /\ stack' = Append(stack, <<Peek, <<>>>>)
      /\ UNCHANGED <<frames, error>> /\ pc = "value" /\ pc' = "behindValue"
      /\ isKey' = isKey
  BY DEF ParseLiteral, at, event, Advances, Literals
<1>2. PutMoves
  BY <1>1, PlaceSets DEF PutMoves
<1> QED BY <1>1, <1>2, PutMoveIInv

LEMMA StringIInv ==
    ASSUME IInv,
           \/ pc = "value" /\ (beginString(FALSE) \/ wholeString(FALSE))
           \/ pc = "member" /\ (beginString(TRUE) \/ wholeString(TRUE))
    PROVE  IInv'
<1>1. ASSUME NEW key \in BOOLEAN, beginString(key),
             pc = IF key THEN "member" ELSE "value"
      PROVE  IInv'
  <2>1. /\ Advances /\ UNCHANGED <<frames, stack, error>>
        /\ pc' = "string" /\ isKey' = key
    BY <1>1 DEF beginString, Advances
  <2>2. Moves
    BY <1>1, <2>1 DEF Moves
  <2> QED BY <2>1, <2>2, MoveIInv
<1>2. ASSUME NEW key \in BOOLEAN, wholeString(key),
             pc = IF key THEN "member" ELSE "value"
      PROVE  IInv'
  <2>1. /\ Advances /\ stack' = Append(stack, Token) /\ UNCHANGED <<frames, error>>
        /\ pc' = (IF key THEN "colon" ELSE "behindValue") /\ isKey' = isKey
    BY <1>2 DEF wholeString, event, Advances
  <2>2. PutMoves
    BY <1>2, <2>1, PlaceSets DEF PutMoves
  <2> QED BY <2>1, <2>2, PutMoveIInv
<1>3. CASE pc = "value" /\ beginString(FALSE)
  BY <1>1, <1>3
<1>4. CASE pc = "value" /\ wholeString(FALSE)
  BY <1>2, <1>4
<1>5. CASE pc = "member" /\ beginString(TRUE)
  BY <1>1, <1>5
<1>6. CASE pc = "member" /\ wholeString(TRUE)
  BY <1>2, <1>6
<1> QED BY <1>3, <1>4, <1>5, <1>6

LEMMA ParseValueIInv ==
    ASSUME IInv, ParseValue
    PROVE  IInv'
<1>1. pc = "value"
  BY DEF ParseValue, at
<1>2. CASE beginString(FALSE) \/ wholeString(FALSE)
  BY <1>1, <1>2, StringIInv
<1>3. CASE begin("object", "{", "firstMember")
  BY <1>1, <1>3, BeginIInv
<1>4. CASE begin("array", "[", "firstElement")
  BY <1>1, <1>4, BeginIInv
<1>5. CASE goto("minus")
  <2>1. "value" \in ValuePlaces /\ "minus" \in ValuePlaces
    BY DEF ValuePlaces
  <2> QED BY <1>1, <1>5, <2>1, gotoIInv
<1> QED BY <1>2, <1>3, <1>4, <1>5 DEF ParseValue

LEMMA ParseObjectIInv ==
    ASSUME IInv, ParseObject
    PROVE  IInv'
<1>1. CASE at("firstMember") /\ (end("}", 0) \/ goto("member"))
  <2>1. pc = "firstMember" /\ Inside("object") /\ Last(frames).count = 0
    BY <1>1 DEF at, IInv, Placed
  <2>2. Pending + Held(Last(frames)) = 1 + 2 * 0
    BY <2>1, PendingPlaces DEF PendingPlace, Inside, Held
  <2>3. CASE end("}", 0)
    <3>1. frames # <<>> /\ Last(frames).kind = "object" /\ 0 \in Nat /\ "}" # "end"
      BY <2>1 DEF Inside
    <3>2. Pending + Held(Last(frames)) =
             1 + (IF Last(frames).kind = "object" THEN 2 * 0 ELSE 0)
      BY <2>2, <3>1
    <3> QED BY <2>3, <3>1, <3>2, EndIInv
  <2>4. CASE goto("member")
    BY <2>1, <2>4, gotoIInv
  <2> QED BY <1>1, <2>3, <2>4
<1>2. CASE at("member") /\ (beginString(TRUE) \/ wholeString(TRUE))
  BY <1>2, StringIInv DEF at
<1>3. CASE fail(kParseErrorObjectMissName)
  BY <1>3, failIInv, CodesOfErrors
<1>4. CASE /\ at("colon") /\ Peek = ":" /\ Take /\ pc' = "value"
           /\ UNCHANGED <<alphabet, frames, number, isKey, stack, error, root>>
  <2>1. Advances /\ UNCHANGED <<frames, stack, error>>
    BY <1>4 DEF Advances
  <2>2. Moves
    BY <1>4 DEF Moves, at
  <2> QED BY <2>1, <2>2, MoveIInv
<1>5. CASE fail(kParseErrorObjectMissColon)
  BY <1>5, failIInv, CodesOfErrors
<1>6. CASE /\ at("behindValue") /\ frames # <<>> /\ Last(frames).kind = "object"
           /\ continue("member")
  BY <1>6, ContinueIInv DEF at
<1>7. CASE /\ at("behindValue") /\ frames # <<>> /\ Last(frames).kind = "object"
           /\ end("}", counted(Last(frames)))
  <2>1. pc = "behindValue" /\ Inside("object")
    BY <1>7 DEF at, Inside
  <2>2. Last(frames).count \in Nat
    BY <1>7, Innermost DEF IInv
  <2> DEFINE count == Last(frames).count + 1
  <2>3. count \in Nat /\ counted(Last(frames)) = count
    BY <2>2 DEF counted
  <2>4. Pending + Held(Last(frames)) = 1 + 2 * count
    <3>1. Pending = 2 /\ Held(Last(frames)) = 1 + 2 * Last(frames).count
      BY <2>1, PendingPlaces DEF PendingPlace, Inside, Held
    <3> QED BY <2>2, <3>1
  <2> HIDE DEF count
  <2> QED BY <1>7, <2>3, <2>4, EndIInv
<1>8. CASE fail(kParseErrorObjectMissCommaOrCurlyBracket)
  BY <1>8, failIInv, CodesOfErrors
<1> QED BY <1>1, <1>2, <1>3, <1>4, <1>5, <1>6, <1>7, <1>8 DEF ParseObject

LEMMA ParseArrayIInv ==
    ASSUME IInv, ParseArray
    PROVE  IInv'
<1>1. CASE at("firstElement") /\ (end("]", 0) \/ goto("value"))
  <2>1. pc = "firstElement" /\ Inside("array") /\ Last(frames).count = 0
    BY <1>1 DEF at, IInv, Placed
  <2>2. Pending + Held(Last(frames)) = 1 + 0
    BY <2>1, PendingPlaces DEF PendingPlace, Inside, Held
  <2>3. CASE end("]", 0)
    BY <2>1, <2>2, <2>3, EndIInv DEF Inside
  <2>4. CASE goto("value")
    BY <2>1, <2>4, gotoIInv
  <2> QED BY <1>1, <2>3, <2>4
<1>2. CASE /\ at("behindValue") /\ frames # <<>> /\ Last(frames).kind = "array"
           /\ continue("value")
  BY <1>2, ContinueIInv DEF at
<1>3. CASE /\ at("behindValue") /\ frames # <<>> /\ Last(frames).kind = "array"
           /\ end("]", counted(Last(frames)))
  <2>1. pc = "behindValue" /\ Inside("array") /\ ~Inside("object")
    BY <1>3 DEF at, Inside
  <2>2. Last(frames).count \in Nat
    BY <1>3, Innermost DEF IInv
  <2> DEFINE count == Last(frames).count + 1
  <2>3. count \in Nat /\ counted(Last(frames)) = count
    BY <2>2 DEF counted
  <2>4. Pending + Held(Last(frames)) = 1 + count
    <3>1. Pending = 1
      BY <2>1, PendingPlaces DEF PendingPlace
    <3>2. Held(Last(frames)) = 1 + Last(frames).count
      BY <1>3 DEF Held
    <3> QED BY <2>2, <3>1, <3>2
  <2> HIDE DEF count
  <2> QED BY <1>3, <2>3, <2>4, EndIInv
<1>4. CASE fail(kParseErrorArrayMissCommaOrSquareBracket)
  BY <1>4, failIInv, CodesOfErrors
<1> QED BY <1>1, <1>2, <1>3, <1>4 DEF ParseArray

LEMMA ParseStringIInv ==
    ASSUME IInv, parseCharacter \/ parseEscape \/ parseSurrogate
    PROVE  IInv'
<1>1. ASSUME pc \in StringPlaces, Peek # "end", NEW place \in StringPlaces,
             takeOnly(place) \/ \E c : takePut(c, place)
      PROVE  IInv'
  BY <1>1, takeIInv
<1>2. CASE parseCharacter
  <2>1. pc = "string"
    BY <1>2 DEF parseCharacter, at
  <2>2. CASE Peek = "backslash" /\ takeOnly("escape")
    BY <1>1, <2>1, <2>2 DEF StringPlaces
  <2>3. CASE /\ Peek = "quote" /\ Take
             /\ event(<<"string", chars>>, IF isKey THEN "colon" ELSE "behindValue")
             /\ UNCHANGED <<alphabet, frames, number, isKey, error, root>>
    <3>1. /\ Advances /\ stack' = Append(stack, <<"string", chars>>)
          /\ UNCHANGED <<frames, error>>
      BY <2>3 DEF event, Advances
    <3>2. PutMoves
      BY <2>1, <2>3 DEF event, PutMoves
    <3> QED BY <3>1, <3>2, PutMoveIInv
  <2>4. CASE \/ fail(kParseErrorStringMissQuotationMark)
             \/ fail(kParseErrorStringInvalidEncoding)
    BY <2>4, failIInv, CodesOfErrors
  <2>5. CASE ~atEnd /\ takePut(Peek, "string")
    BY <1>1, <2>1, <2>5 DEF StringPlaces, atEnd
  <2> QED BY <1>2, <2>2, <2>3, <2>4, <2>5 DEF parseCharacter
<1>3. CASE parseEscape
  <2>1. pc = "escape"
    BY <1>3 DEF parseEscape, at
  <2>2. CASE Peek \in {"quote", "backslash"} /\ takePut(Peek, "string")
    BY <1>1, <2>1, <2>2 DEF StringPlaces
  <2>3. CASE Peek = "n" /\ takePut("newline", "string")
    BY <1>1, <2>1, <2>3 DEF StringPlaces
  <2>4. CASE Peek = "u0000" /\ takePut("nul", "string")
    BY <1>1, <2>1, <2>4 DEF StringPlaces
  <2>5. CASE Peek = "uD83D" /\ takeOnly("surrogate")
    BY <1>1, <2>1, <2>5 DEF StringPlaces
  <2>6. CASE \/ fail(kParseErrorStringUnicodeSurrogateInvalid)
             \/ fail(kParseErrorStringUnicodeEscapeInvalidHex)
             \/ fail(kParseErrorStringEscapeInvalid)
    BY <2>6, failIInv, CodesOfErrors
  <2> QED BY <1>3, <2>2, <2>3, <2>4, <2>5, <2>6 DEF parseEscape
<1>4. CASE parseSurrogate
  <2>1. CASE at("surrogate") /\ Peek = "backslash" /\ takeOnly("lowSurrogate")
    BY <1>1, <2>1 DEF StringPlaces, at
  <2>2. CASE at("lowSurrogate") /\ Peek = "uDE00" /\ takePut("wide", "string")
    BY <1>1, <2>2 DEF StringPlaces, at
  <2>3. CASE \/ fail(kParseErrorStringUnicodeSurrogateInvalid)
             \/ fail(kParseErrorStringUnicodeEscapeInvalidHex)
    BY <2>3, failIInv, CodesOfErrors
  <2> QED BY <1>4, <2>1, <2>2, <2>3 DEF parseSurrogate
<1> QED BY <1>2, <1>3, <1>4

LEMMA ParseNumberIInv ==
    ASSUME IInv, ParseNumber
    PROVE  IInv'
<1>1. ASSUME pc \in ValuePlaces, pc' \in ValuePlaces, Peek # "end", Take,
             UNCHANGED <<alphabet, frames, stack, error, isKey>>
      PROVE  IInv'
  <2>1. Advances /\ UNCHANGED <<frames, stack, error>>
    BY <1>1 DEF Advances
  <2>2. Moves
    BY <1>1 DEF Moves
  <2> QED BY <2>1, <2>2, MoveIInv
<1>2. ASSUME pc \in ValuePlaces, NEW place \in ValuePlaces, Peek # "end", NEW c,
             takePut(c, place)
      PROVE  IInv'
  BY <1>2, takeIInv
<1>3. ASSUME pc \in ValuePlaces, NEW place \in ValuePlaces, goto(place)
      PROVE  IInv'
  BY <1>3, gotoIInv
<1>4. \A d \in Digits : d # "end"
  BY DEF Digits
<1>5. CASE parseMinus
  <2>1. pc \in ValuePlaces /\ pc' \in ValuePlaces
    BY <1>5 DEF parseMinus, at, ValuePlaces
  <2>2. Advances /\ UNCHANGED <<frames, stack, error, isKey>>
    BY <1>5 DEF parseMinus, Advances
  <2>3. Moves
    BY <2>1, <2>2 DEF Moves
  <2> QED BY <2>2, <2>3, MoveIInv
<1>6. CASE parseInt
  <2>1. pc \in ValuePlaces
    BY <1>6 DEF parseInt, at, ValuePlaces
  <2>2. "fraction" \in ValuePlaces /\ "digits32" \in ValuePlaces
    BY DEF ValuePlaces
  <2>3. CASE Peek = "0" /\ takePut(Peek, "fraction")
    BY <1>2, <2>1, <2>2, <2>3
  <2>4. CASE Peek = "1" /\ takePut(Peek, "digits32")
    BY <1>2, <2>1, <2>2, <2>4
  <2>5. CASE fail(kParseErrorValueInvalid)
    BY <2>5, failIInv, CodesOfErrors
  <2> QED BY <1>6, <2>3, <2>4, <2>5 DEF parseInt
<1>7. CASE parseDigits
  <2>1. PICK here \in ValuePlaces, next \in ValuePlaces :
            /\ pc = here
            /\ \/ Peek \in Digits /\ takePut(Peek, here)
               \/ goto(next)
               \/ goto("fraction")
    <3>1. PICK loop \in {<<"digits32", "digits64">>, <<"digits64", "digitsDouble">>,
                         <<"digitsDouble", "fraction">>} :
              /\ at(loop[1])
              /\ \/ Peek \in Digits /\ takePut(Peek, loop[1])
                 \/ loop[2] # "fraction" /\ Peek \in Digits /\ goto(loop[2])
                 \/ Peek \notin Digits /\ goto("fraction")
      BY <1>7 DEF parseDigits
    <3>2. loop[1] \in ValuePlaces /\ loop[2] \in ValuePlaces
      BY DEF ValuePlaces
    <3>3. pc = loop[1]
      BY <3>1 DEF at
    <3> QED BY <3>1, <3>2, <3>3
  <2>2. "fraction" \in ValuePlaces
    BY DEF ValuePlaces
  <2> QED BY <1>2, <1>3, <1>4, <2>1, <2>2
<1>8. CASE parseFraction
  <2>1. ASSUME pc \in ValuePlaces, fractionDigit
        PROVE  IInv'
    <3>1. pc' \in ValuePlaces
      BY <2>1 DEF fractionDigit, ValuePlaces
    <3>2. /\ Peek # "end" /\ Take
          /\ UNCHANGED <<alphabet, frames, stack, error, isKey>>
      BY <1>4, <2>1 DEF fractionDigit
    <3> QED BY <1>1, <2>1, <3>1, <3>2
  <2>2. /\ "fraction" \in ValuePlaces /\ "fractionFirst" \in ValuePlaces
        /\ "fractionDigits" \in ValuePlaces /\ "exponent" \in ValuePlaces
    BY DEF ValuePlaces
  <2>3. pc \in ValuePlaces
    BY <1>8, <2>2 DEF parseFraction, at
  <2>4. CASE Peek = "." /\ takePut(Peek, "fractionFirst")
    BY <1>2, <2>2, <2>3, <2>4
  <2>5. CASE goto("exponent")
    BY <1>3, <2>2, <2>3, <2>5
  <2>6. CASE fractionDigit
    BY <2>1, <2>3, <2>6
  <2>7. CASE fail(kParseErrorNumberMissFraction)
    BY <2>7, failIInv, CodesOfErrors
  <2> QED BY <1>8, <2>4, <2>5, <2>6, <2>7 DEF parseFraction
<1>9. CASE parseExponent
  <2>1. ASSUME pc \in ValuePlaces, exponentDigit
        PROVE  IInv'
    <3>1. /\ Peek # "end" /\ Take /\ UNCHANGED <<alphabet, isKey>>
      BY <1>4, <2>1 DEF exponentDigit
    <3>2. CASE /\ error' = kParseErrorNumberTooBig /\ pc' = "done"
               /\ frames' = <<>> /\ stack' = <<>>
      <4>1. Advances /\ isKey' = isKey
        BY <3>1 DEF Advances
      <4> QED BY <3>2, <4>1, FailIInv, CodesOfErrors
    <3>3. CASE pc' = "exponentDigits" /\ UNCHANGED <<error, frames, stack>>
      <4>1. pc' \in ValuePlaces
        BY <3>3 DEF ValuePlaces
      <4> QED BY <1>1, <2>1, <3>1, <3>3, <4>1
    <3> QED BY <2>1, <3>2, <3>3 DEF exponentDigit
  <2>2. /\ "exponent" \in ValuePlaces /\ "exponentSign" \in ValuePlaces
        /\ "exponentFirst" \in ValuePlaces /\ "exponentDigits" \in ValuePlaces
        /\ "numberEnd" \in ValuePlaces
    BY DEF ValuePlaces
  <2>3. pc \in ValuePlaces
    BY <1>9, <2>2 DEF parseExponent, at
  <2>4. CASE Peek = "e" /\ takePut(Peek, "exponentSign")
    BY <1>2, <2>2, <2>3, <2>4
  <2>5. CASE goto("numberEnd") \/ goto("exponentFirst")
    BY <1>3, <2>2, <2>3, <2>5
  <2>6. CASE Peek = "+" /\ takePut(Peek, "exponentFirst")
    BY <1>2, <2>2, <2>3, <2>6
  <2>7. CASE /\ Peek = "-" /\ Take /\ pc' = "exponentFirst"
             /\ UNCHANGED <<alphabet, frames, isKey, stack, error, root>>
    BY <1>1, <2>2, <2>3, <2>7
  <2>8. CASE exponentDigit
    BY <2>1, <2>3, <2>8
  <2>9. CASE fail(kParseErrorNumberMissExponent)
    BY <2>9, failIInv, CodesOfErrors
  <2> QED BY <1>9, <2>4, <2>5, <2>6, <2>7, <2>8, <2>9 DEF parseExponent
<1>10. CASE endNumber
  <2>1. /\ Advances /\ stack' = Append(stack, <<"number", chars>>)
        /\ UNCHANGED <<frames, error>>
    BY <1>10 DEF endNumber, event, Advances
  <2>2. PutMoves
    <3>1. pc \in ValuePlaces
      BY <1>10 DEF endNumber, at, ValuePlaces
    <3> QED BY <1>10, <3>1 DEF endNumber, event, PutMoves
  <2> QED BY <2>1, <2>2, PutMoveIInv
<1> QED BY <1>5, <1>6, <1>7, <1>8, <1>9, <1>10 DEF ParseNumber

LEMMA RestartIInv ==
    ASSUME StreamOK, Restart
    PROVE  IInv'
<1>1. StreamOK'
  <2>1. Len(text') \in Nat
    BY LenProperties DEF Restart
  <2>2. src' \in 1..(Len(text') + 1)
    BY <2>1 DEF Restart
  <2> QED BY <2>2 DEF Restart, StreamOK
<1>2. FramesOK'
  BY EmptySeq DEF Restart, FramesOK
<1>3. Placed'
  BY PlaceSets DEF Restart, Placed, Places, ContainerPlaces
<1>4. IsStack(stack') /\ Len(stack') = 0
  BY EmptyStack, EmptySeq DEF Restart
<1>5. Pending' = 0 /\ Base(frames') = 0
  BY DEF Restart, Pending, Base
<1> QED BY <1>1, <1>2, <1>3, <1>4, <1>5 DEF IInv, Restart

LEMMA InitIInv ==
    ASSUME ReaderStart, alphabet \in Alphabets, text \in Seq(STRING),
           complete \in BOOLEAN
    PROVE  IInv
<1>1. StreamOK
  <2>1. Len(text) \in Nat
    BY LenProperties
  <2>2. src \in 1..(Len(text) + 1)
    BY <2>1 DEF ReaderStart
  <2> QED BY <2>2 DEF StreamOK
<1>2. FramesOK
  BY EmptySeq DEF ReaderStart, FramesOK
<1>3. Placed
  BY PlaceSets DEF ReaderStart, Placed, Places, ContainerPlaces
<1>4. IsStack(stack) /\ Len(stack) = 0
  BY EmptyStack, EmptySeq DEF ReaderStart
<1>5. Pending = 0 /\ Base(frames) = 0
  BY DEF ReaderStart, Pending, Base
<1> QED BY <1>1, <1>2, <1>3, <1>4, <1>5 DEF IInv, ReaderStart

LEMMA NextIInv == IInv /\ [ReaderNext \/ Restart]_readerVars => IInv'
<1> SUFFICES ASSUME IInv, [ReaderNext \/ Restart]_readerVars PROVE IInv'
  OBVIOUS
<1>1. CASE ReaderNext
  BY <1>1, SkipWhitespaceIInv, ParseIInv, parseEndIInv, ParseLiteralIInv,
     ParseValueIInv, ParseObjectIInv, ParseArrayIInv, ParseStringIInv,
     ParseNumberIInv DEF ReaderNext
<1>2. CASE Restart
  BY <1>2, RestartIInv DEF IInv
<1>3. CASE UNCHANGED readerVars
  <2>1. /\ UNCHANGED <<alphabet, text, complete, src, pc, frames, isKey, stack, error>>
    BY <1>3 DEF readerVars, stream, number
  <2>2. StreamOK' /\ FramesOK' /\ Placed'
    BY <2>1 DEF IInv, StreamOK, FramesOK, Placed, Inside
  <2>3. Pending' = Pending /\ Base(frames)' = Base(frames)
    BY <2>1 DEF Pending, Base
  <2> QED BY <2>1, <2>2, <2>3 DEF IInv
<1> QED BY <1>1, <1>2, <1>3

LEMMA Invariance == ReaderSpec => []IInv
<1>1. /\ ReaderStart /\ alphabet \in Alphabets /\ text \in Seq(STRING)
      /\ complete \in BOOLEAN
      => IInv
  BY InitIInv
<1> QED BY <1>1, NextIInv, PTL DEF ReaderSpec

-----------------------------------------------------------------------------
\* The reader stays within its text, and a container has no more members than
\* the text has elements.
THEOREM TypeCorrect == ReaderSpec => []TypeOK
<1>1. IInv => TypeOK
  <2> SUFFICES ASSUME IInv PROVE TypeOK
    OBVIOUS
  <2>1. /\ alphabet \in Alphabets /\ complete \in BOOLEAN
        /\ src \in 1..(Len(text) + 1) /\ Len(text) \in Nat
    BY LenProperties DEF IInv, StreamOK
  <2>2. isKey \in BOOLEAN
    BY DEF IInv, Placed
  <2>3. error \in 0..17
    BY DEF IInv
  <2>4. ASSUME NEW i \in DOMAIN frames
        PROVE  frames[i] \in [kind : {"object", "array"}, count : 0..Len(text)]
    <3>1. frames[i].count < src
      BY DEF IInv, FramesOK
    <3>2. i \in 1..Len(frames) /\ frames \in Seq(Frames)
      BY LenProperties DEF IInv, FramesOK
    <3>3. frames[i] \in Frames
      BY <3>2, ElementOfSeq
    <3>4. frames[i].count \in Nat
      BY <3>3 DEF Frames
    <3>5. frames[i].count \in 0..Len(text)
      BY <2>1, <3>1, <3>4
    <3> QED BY <3>3, <3>5 DEF Frames
  <2> QED BY <2>1, <2>2, <2>3, <2>4 DEF TypeOK
<1> QED BY <1>1, Invariance, PTL

\* The document's stack holds what the recursion has begun and nothing else,
\* for texts and nesting of any length: EndObject and EndArray take off it
\* what they have counted, and the root is alone on it at the end.
THEOREM StackCorrect == ReaderSpec => []StackFollowsFrames
<1>1. IInv => StackFollowsFrames
  BY DEF IInv, StackFollowsFrames, Base
<1> QED BY <1>1, Invariance, PTL

\* The message of a parse error begins within the literal, whatever the error.
THEOREM MessageCorrect == ReaderSpec => []MessageStaysInLiteral
<1>1. IInv => MessageStaysInLiteral
  BY DEF IInv, MessageStaysInLiteral, messageOffset, literalLength
<1> QED BY <1>1, Invariance, PTL

-----------------------------------------------------------------------------
(* Sequences.                                                              *)

\* What the reader sees of what is ahead of it.
First(a) == IF a = <<>> THEN "end" ELSE Head(a)

LEMMA Associative ==
    ASSUME NEW S, NEW a \in Seq(S), NEW b \in Seq(S), NEW c \in Seq(S)
    PROVE  (a \o b) \o c = a \o (b \o c)
  OBVIOUS

LEMMA ConsType ==
    ASSUME NEW S, NEW c \in S, NEW s \in Seq(S)
    PROVE  Cons(c, s) \in Seq(S)
  BY DEF Cons

LEMMA ConsAhead ==
    ASSUME NEW S, NEW c \in S, NEW s \in Seq(S)
    PROVE  /\ Cons(c, s) # <<>>
           /\ Head(Cons(c, s)) = c
           /\ Tail(Cons(c, s)) = s
           /\ First(Cons(c, s)) = c
  BY DEF Cons, First

LEMMA ConsConcat ==
    ASSUME NEW S, NEW c \in S, NEW s \in Seq(S), NEW u \in Seq(S)
    PROVE  Cons(c, s) \o u = Cons(c, s \o u)
  BY DEF Cons

LEMMA ConsAll ==
    ASSUME NEW S, NEW s \in Seq(S), s # <<>>
    PROVE  /\ Head(s) \in S /\ Tail(s) \in Seq(S)
           /\ s = Cons(Head(s), Tail(s))
  BY DEF Cons

LEMMA OneAhead ==
    ASSUME NEW S, NEW c \in S, NEW u \in Seq(S)
    PROVE  /\ <<c>> \in Seq(S)
           /\ <<c>> \o u = Cons(c, u)
           /\ <<c>> = Cons(c, <<>>)
  BY DEF Cons

LEMMA NoneAhead ==
    ASSUME NEW S, NEW s \in Seq(S)
    PROVE  <<>> \in Seq(S) /\ <<>> \o s = s /\ s \o <<>> = s
  OBVIOUS

LEMMA PairAhead ==
    ASSUME NEW S, NEW c \in S, NEW d \in S
    PROVE  <<d>> \in Seq(S) /\ <<c, d>> = Cons(c, <<d>>)
<1> DEFINE s == <<c, d>>
           t == <<c>> \o <<d>>
<1>1. <<c>> \in Seq(S) /\ <<d>> \in Seq(S) /\ Len(<<c>>) = 1 /\ Len(<<d>>) = 1
  OBVIOUS
<1>2. s \in Seq(S) /\ Len(s) = 2 /\ s[1] = c /\ s[2] = d
  OBVIOUS
<1>3. t \in Seq(S) /\ Len(t) = 2 /\ t[1] = c /\ t[2] = d
  BY <1>1
<1> HIDE DEF s, t
<1>4. \A i \in 1..2 : s[i] = t[i]
  BY <1>2, <1>3
<1>5. s = t
  BY <1>2, <1>3, <1>4, SeqEqual
<1> QED BY <1>1, <1>5 DEF Cons, s, t

LEMMA AppendAhead ==
    ASSUME NEW S, NEW d \in Seq(S), NEW x \in S, NEW s \in Seq(S)
    PROVE  /\ Append(d, x) \in Seq(S)
           /\ Append(d, x) \o s = d \o Cons(x, s)
           /\ d \o <<x>> = Append(d, x)
           /\ Len(Append(d, x)) = Len(d) + 1
           /\ Append(d, x) # <<>>
  BY DEF Cons

LEMMA ConcatAhead ==
    ASSUME NEW S, NEW s \in Seq(S), NEW u \in Seq(S)
    PROVE  /\ s \o u \in Seq(S)
           /\ s # <<>> => /\ s \o u # <<>>
                          /\ Head(s \o u) = Head(s)
                          /\ First(s \o u) = First(s)
                          /\ Tail(s \o u) = Tail(s) \o u
  BY DEF First

-----------------------------------------------------------------------------
(* Texts and what they denote.                                             *)

\* The brackets of objects, as constants: the SMT solver has no name for them.
Left  == "{"
Right == "}"

OtherMarks ==
    {"quote", "backslash", "n", "newline", "u", "u0000", "uD83D", "uDE00", "nul",
     "wide", "null", "true", "false", "token", "[", "]", ",", ":", "end",
     "-", "0", "1", ".", "e", "+"}

LEMMA Curly == Left # Right /\ Left \notin OtherMarks /\ Right \notin OtherMarks
  BY Zenon DEF Left, Right, OtherMarks

\* A value that is not there: a number without digits.
Nothing == <<"nothing", <<>>>>

Marks == {"quote", "backslash", "n", "u0000", "uD83D", "uDE00", "newline",
          "nul", "wide", "null", "true", "false", "token",
          Left, Right, "[", "]", ",", ":"}

\* What is left of a string inside of its quotes.
IsString(x, g) ==
    \/ x = Means(<<"quote">>, <<>>)
    \/ \E r \in g.strings :
          \/ \E c \in g.letters \ {"quote", "backslash", "newline"} :
                x = Means(Cons(c, r.text), Cons(c, r.value))
          \/ \E c \in {"quote", "backslash"} :
                x = Means(Cons("backslash", Cons(c, r.text)), Cons(c, r.value))
          \/ x = Means(Cons("backslash", Cons("n", r.text)),
                       Cons("newline", r.value))
          \/ x = Means(Cons("backslash", Cons("u0000", r.text)),
                       Cons("nul", r.value))
          \/ x = Means(Cons("backslash", Cons("uD83D",
                           Cons("backslash", Cons("uDE00", r.text)))),
                       Cons("wide", r.value))

\* A string, as it can be a name.
IsName(x, g) ==
    \/ x = Means(<<"token">>, <<"token">>)
    \/ \E r \in g.strings : x = Means(Cons("quote", r.text), r.value)

NumberLetters == Digits \union {"-", "+", ".", "e"}

\* Numbers, from the places in them at which the reader can be.
IsExponent(t, fraction) ==
    \/ t = <<>>
    \/ \E s \in {<<>>, <<"+">>, <<"-">>}, d \in Seq(Digits) \ {<<>>} :
          /\ t = Cons("e", s \o d)
          /\ s = <<"-">> \/ Len(d) = 1 \/ DecimalOf(d) <= MaxExponent + fraction

IsFraction(t) ==
    \/ IsExponent(t, 0)
    \/ \E d \in Seq(Digits) \ {<<>>} : \E x :
          t = Cons(".", d \o x) /\ IsExponent(x, Len(d))

IsInteger(t) ==
    \/ \E x : t = Cons("0", x) /\ IsFraction(x)
    \/ \E d \in Seq(Digits) : \E x : t = Cons("1", d \o x) /\ IsFraction(x)

IsNumber(t) == IsInteger(t) \/ \E x : t = Cons("-", x) /\ IsInteger(x)

IsContainer(x, g) ==
    \/ x = Means(<<"[", "]">>, <<"array", <<>>>>)
    \/ x = Means(<<Left, Right>>, <<"object", <<>>>>)
    \/ \E v \in g.values, r \in g.elements :
          /\ v.value # Nothing
          /\ x = Means(Cons("[", v.text \o r.text),
                       <<"array", Cons(v.value, r.value)>>)
    \/ \E k \in g.names, v \in g.values, r \in g.members :
          x = Means(Cons(Left, k.text \o Cons(":", v.text \o r.text)),
                    <<"object", Cons(<<k.value, v.value>>, r.value)>>)

IsValue(x, g) ==
    \/ x = Means(<<>>, Nothing)
    \/ \E l \in Literals : x = Means(<<l>>, <<l, <<>>>>)
    \/ \E k \in g.names : x = Means(k.text, <<"string", k.value>>)
    \/ IsNumber(x.text) /\ x.value = <<"number", x.text>>
    \/ IsContainer(x, g)

\* What is left of an array behind one of its elements, and of an object.
IsElements(x, g) ==
    \/ x = Means(<<"]">>, <<>>)
    \/ \E v \in g.values, r \in g.elements :
          /\ v.value # Nothing
          /\ x = Means(Cons(",", v.text \o r.text), Cons(v.value, r.value))

IsMembers(x, g) ==
    \/ x = Means(<<Right>>, <<>>)
    \/ \E k \in g.names, v \in g.values, r \in g.members :
          x = Means(Cons(",", k.text \o Cons(":", v.text \o r.text)),
                    Cons(<<k.value, v.value>>, r.value))

Typed(g) ==
    /\ "end" \notin g.letters
    /\ Marks \union NumberLetters \subseteq g.letters
    /\ g.strings \subseteq [text : Seq(g.letters), value : Seq(g.letters)]
    /\ g.names \subseteq [text : Seq(g.letters), value : Seq(g.letters)]
    /\ g.values \subseteq [text : Seq(g.letters), value : g.domain]
    /\ g.elements \subseteq [text : Seq(g.letters), value : Seq(g.domain)]
    /\ g.members \subseteq
          [text : Seq(g.letters), value : Seq(Seq(g.letters) \X g.domain)]

\* A guide: texts, each made of others of them, with what they denote.
IsGuide(g) ==
    /\ Typed(g)
    /\ \A x \in g.strings : IsString(x, g)
    /\ \A x \in g.names : IsName(x, g)
    /\ \A x \in g.values : IsValue(x, g)
    /\ \A x \in g.elements : IsElements(x, g)
    /\ \A x \in g.members : IsMembers(x, g)

-----------------------------------------------------------------------------
(* What is expected at a place of a text.                                  *)

Frame(kind, count) == [kind |-> kind, count |-> count]

\* What can be on the document's stack.
Entries(g) ==
    g.domain \union ({"string"} \X Seq(g.letters))
             \union ({"array", "object"} \X {<<>>})

\* The stack s has, above b, what has been read of an array or of an object.
HoldsElements(s, b, ready) == s = Append(b, <<"array", <<>>>>) \o ready

HoldsMembers(s, b, ready) ==
    /\ Len(s) = Len(b) + 1 + 2 * Len(ready)
    /\ \A i \in 1..Len(b) : s[i] = b[i]
    /\ s[Len(b) + 1] = <<"object", <<>>>>
    /\ \A i \in 1..Len(ready) :
          /\ s[Len(b) + 2 * i] = <<"string", ready[i][1]>>
          /\ s[Len(b) + 2 * i + 1] = ready[i][2]

\* Where a value is expected: the containers around it, what is on the stack,
\* the value, and the text behind it.
Place(f, s, v, a) == [frames |-> f, stack |-> s, value |-> v, after |-> a]

PlacesOf(g) ==
    [frames : Seq(Frames), stack : Seq(Entries(g)), value : g.domain,
     after : Seq(g.letters)]

InArray(c, p, g) ==
    \E ready \in Seq(g.domain), r \in g.elements :
        /\ p.value = <<"array", ready \o Cons(c.value, r.value)>>
        /\ c.frames = Append(p.frames, Frame("array", Len(ready)))
        /\ HoldsElements(c.stack, p.stack, ready)
        /\ c.after = r.text \o p.after

InObject(c, p, g) ==
    \E ready \in Seq(Seq(g.letters) \X g.domain), name \in Seq(g.letters),
       r \in g.members, below \in Seq(Entries(g)) :
        /\ p.value = <<"object", ready \o Cons(<<name, c.value>>, r.value)>>
        /\ c.frames = Append(p.frames, Frame("object", Len(ready)))
        /\ HoldsMembers(below, p.stack, ready)
        /\ \A i \in 1..Len(ready) : ready[i][2] # Nothing
        /\ c.stack = Append(below, <<"string", name>>)
        /\ c.after = r.text \o p.after

\* Places, each the root or in a container that is at another of them.
ArePlaces(C, g, goal) ==
    /\ C \subseteq PlacesOf(g)
    /\ \A c \in C : \/ c = Place(<<>>, <<>>, goal, <<>>)
                    \/ \E p \in C : InArray(c, p, g) \/ InObject(c, p, g)

Expects(f, s, v, a, g, goal) ==
    \E C : ArePlaces(C, g, goal) /\ Place(f, s, v, a) \in C

LEMMA ExpectedTypes ==
    ASSUME NEW g, NEW goal, NEW f, NEW s, NEW v, NEW a, Expects(f, s, v, a, g, goal)
    PROVE  /\ f \in Seq(Frames) /\ s \in Seq(Entries(g))
           /\ v \in g.domain /\ a \in Seq(g.letters)
<1>1. PICK C : ArePlaces(C, g, goal) /\ Place(f, s, v, a) \in C
  BY DEF Expects
<1>2. Place(f, s, v, a) \in PlacesOf(g)
  BY <1>1 DEF ArePlaces
<1> QED BY <1>2 DEF Place, PlacesOf

LEMMA ExpectedInside ==
    ASSUME NEW g, NEW goal, NEW f, NEW s, NEW v, NEW a, Expects(f, s, v, a, g, goal),
           NEW c \in PlacesOf(g),
           InArray(c, Place(f, s, v, a), g) \/ InObject(c, Place(f, s, v, a), g)
    PROVE  Expects(c.frames, c.stack, c.value, c.after, g, goal)
<1>1. PICK C : ArePlaces(C, g, goal) /\ Place(f, s, v, a) \in C
  BY DEF Expects
<1>2. ArePlaces(C \union {c}, g, goal)
  BY <1>1 DEF ArePlaces
<1>3. c = Place(c.frames, c.stack, c.value, c.after)
  BY DEF Place, PlacesOf
<1> QED BY <1>2, <1>3 DEF Expects

LEMMA ExpectedBelow ==
    ASSUME NEW g, NEW goal, NEW f, NEW s, NEW v, NEW a, Expects(f, s, v, a, g, goal)
    PROVE  \/ f = <<>> /\ s = <<>> /\ v = goal /\ a = <<>>
           \/ \E p \in PlacesOf(g) :
                /\ Expects(p.frames, p.stack, p.value, p.after, g, goal)
                /\ \/ InArray(Place(f, s, v, a), p, g)
                   \/ InObject(Place(f, s, v, a), p, g)
<1>1. PICK C : ArePlaces(C, g, goal) /\ Place(f, s, v, a) \in C
  BY DEF Expects
<1>2. CASE Place(f, s, v, a) = Place(<<>>, <<>>, goal, <<>>)
  BY <1>2 DEF Place
<1>3. CASE \E p \in C : \/ InArray(Place(f, s, v, a), p, g)
                        \/ InObject(Place(f, s, v, a), p, g)
  <2>1. PICK p \in C : \/ InArray(Place(f, s, v, a), p, g)
                       \/ InObject(Place(f, s, v, a), p, g)
    BY <1>3
  <2>2. p \in PlacesOf(g)
    BY <1>1 DEF ArePlaces
  <2>3. p = Place(p.frames, p.stack, p.value, p.after)
    BY <2>2 DEF Place, PlacesOf
  <2>4. Expects(p.frames, p.stack, p.value, p.after, g, goal)
    BY <1>1, <2>3 DEF Expects
  <2> QED BY <2>1, <2>2, <2>4
<1> QED BY <1>1, <1>2, <1>3 DEF ArePlaces

\* The place of an element of an array that is expected.
LEMMA ElementPlace ==
    ASSUME NEW g, IsGuide(g), NEW goal, NEW f, NEW s, NEW u, NEW x \in g.domain,
           NEW ready \in Seq(g.domain), NEW r \in g.elements,
           Expects(f, s, <<"array", ready \o Cons(x, r.value)>>, u, g, goal)
    PROVE  Expects(Append(f, Frame("array", Len(ready))),
                   Append(s, <<"array", <<>>>>) \o ready, x, r.text \o u, g, goal)
<1> DEFINE v == <<"array", ready \o Cons(x, r.value)>>
           c == Place(Append(f, Frame("array", Len(ready))),
                      Append(s, <<"array", <<>>>>) \o ready, x, r.text \o u)
<1>1. /\ f \in Seq(Frames) /\ s \in Seq(Entries(g))
      /\ v \in g.domain /\ u \in Seq(g.letters)
  BY ExpectedTypes
<1>2. r.text \in Seq(g.letters)
  BY DEF IsGuide, Typed
<1>3. Frame("array", Len(ready)) \in Frames
  BY LenProperties DEF Frame, Frames
<1>4. ready \in Seq(Entries(g)) /\ <<"array", <<>>>> \in Entries(g)
  BY DEF Entries
<1>5. c \in PlacesOf(g)
  <2>1. Append(f, Frame("array", Len(ready))) \in Seq(Frames)
    BY <1>1, <1>3
  <2>2. Append(s, <<"array", <<>>>>) \o ready \in Seq(Entries(g))
    BY <1>1, <1>4
  <2>3. r.text \o u \in Seq(g.letters)
    <3> HIDE DEF v, c
    <3> QED BY <1>1, <1>2, ConcatAhead
  <2> QED BY <2>1, <2>2, <2>3 DEF Place, PlacesOf
<1>6. InArray(c, Place(f, s, v, u), g)
  BY DEF InArray, Place, HoldsElements
<1>7. Expects(c.frames, c.stack, c.value, c.after, g, goal)
  <2> HIDE DEF c
  <2>1. Expects(f, s, v, u, g, goal)
    OBVIOUS
  <2> HIDE DEF v
  <2> QED BY <1>5, <1>6, <2>1, ExpectedInside
<1> QED BY <1>7 DEF Place

\* The place of the value of a member of an object that is expected.
LEMMA MemberPlace ==
    ASSUME NEW g, IsGuide(g), NEW goal, NEW f, NEW s, NEW u, NEW x \in g.domain,
           NEW name \in Seq(g.letters),
           NEW ready \in Seq(Seq(g.letters) \X g.domain), NEW r \in g.members,
           NEW below \in Seq(Entries(g)), HoldsMembers(below, s, ready),
           \A i \in 1..Len(ready) : ready[i][2] # Nothing,
           Expects(f, s, <<"object", ready \o Cons(<<name, x>>, r.value)>>, u, g, goal)
    PROVE  Expects(Append(f, Frame("object", Len(ready))),
                   Append(below, <<"string", name>>), x, r.text \o u, g, goal)
<1> DEFINE v == <<"object", ready \o Cons(<<name, x>>, r.value)>>
           c == Place(Append(f, Frame("object", Len(ready))),
                      Append(below, <<"string", name>>), x, r.text \o u)
<1>1. /\ f \in Seq(Frames) /\ s \in Seq(Entries(g))
      /\ v \in g.domain /\ u \in Seq(g.letters)
  BY ExpectedTypes
<1>2. r.text \in Seq(g.letters)
  BY DEF IsGuide, Typed
<1>3. Frame("object", Len(ready)) \in Frames
  BY LenProperties DEF Frame, Frames
<1>4. <<"string", name>> \in Entries(g)
  BY DEF Entries
<1>5. c \in PlacesOf(g)
  <2>1. Append(f, Frame("object", Len(ready))) \in Seq(Frames)
    BY <1>1, <1>3
  <2>2. Append(below, <<"string", name>>) \in Seq(Entries(g))
    BY <1>4
  <2>3. r.text \o u \in Seq(g.letters)
    <3> HIDE DEF v, c
    <3> QED BY <1>1, <1>2, ConcatAhead
  <2> QED BY <2>1, <2>2, <2>3 DEF Place, PlacesOf
<1>6. InObject(c, Place(f, s, v, u), g)
  BY DEF InObject, Place
<1>7. Expects(c.frames, c.stack, c.value, c.after, g, goal)
  <2> HIDE DEF c
  <2>1. Expects(f, s, v, u, g, goal)
    OBVIOUS
  <2> HIDE DEF v
  <2> QED BY <1>5, <1>6, <2>1, ExpectedInside
<1> QED BY <1>7 DEF Place

\* What is known of a place in no container ...
LEMMA RootPlace ==
    ASSUME NEW g, NEW goal, NEW s, NEW x, NEW a, Expects(<<>>, s, x, a, g, goal)
    PROVE  s = <<>> /\ x = goal /\ a = <<>>
<1>1. SUFFICES ASSUME NEW p \in PlacesOf(g),
                      \/ InArray(Place(<<>>, s, x, a), p, g)
                      \/ InObject(Place(<<>>, s, x, a), p, g)
               PROVE  FALSE
  BY ExpectedBelow
<1>2. \E m \in Frames : <<>> = Append(p.frames, m)
  BY <1>1, LenProperties DEF InArray, InObject, Place, Frame, Frames
<1>3. p.frames \in Seq(Frames)
  BY DEF PlacesOf
<1> QED BY <1>2, <1>3

\* What is around a place in an array and in an object.
AroundElement(f, s, x, a, g, goal, fs, st, u, ready, r) ==
    /\ ready \in Seq(g.domain) /\ r \in g.elements
    /\ Expects(fs, st, <<"array", ready \o Cons(x, r.value)>>, u, g, goal)
    /\ f = Append(fs, Frame("array", Len(ready)))
    /\ s = Append(st, <<"array", <<>>>>) \o ready
    /\ a = r.text \o u

AroundMember(f, s, x, a, g, goal, fs, st, u, ready, r, name, below) ==
    /\ ready \in Seq(Seq(g.letters) \X g.domain)
    /\ name \in Seq(g.letters) /\ r \in g.members /\ below \in Seq(Entries(g))
    /\ Expects(fs, st, <<"object", ready \o Cons(<<name, x>>, r.value)>>, u, g, goal)
    /\ f = Append(fs, Frame("object", Len(ready)))
    /\ HoldsMembers(below, st, ready)
    /\ \A i \in 1..Len(ready) : ready[i][2] # Nothing
    /\ s = Append(below, <<"string", name>>)
    /\ a = r.text \o u

\* ... in an array ...
LEMMA PlaceInArray ==
    ASSUME NEW g, NEW goal, NEW f, NEW s, NEW x, NEW a, Expects(f, s, x, a, g, goal),
           f # <<>>, Last(f).kind = "array"
    PROVE  \E fs, st, u, ready, r :
              AroundElement(f, s, x, a, g, goal, fs, st, u, ready, r)
<1>1. PICK p \in PlacesOf(g) :
         /\ Expects(p.frames, p.stack, p.value, p.after, g, goal)
         /\ \/ InArray(Place(f, s, x, a), p, g)
            \/ InObject(Place(f, s, x, a), p, g)
  BY ExpectedBelow
<1>2. p.frames \in Seq(Frames)
  BY DEF PlacesOf
<1>3. CASE InObject(Place(f, s, x, a), p, g)
  <2>1. PICK n \in Nat : f = Append(p.frames, Frame("object", n))
    BY <1>3, LenProperties DEF InObject, Place
  <2>2. Last(f) = Frame("object", n)
    BY <1>2, <2>1 DEF Last, Frame, Frames
  <2> QED BY <2>2 DEF Frame
<1>4. CASE InArray(Place(f, s, x, a), p, g)
  <2>1. PICK ready \in Seq(g.domain), r \in g.elements :
           /\ p.value = <<"array", ready \o Cons(x, r.value)>>
           /\ f = Append(p.frames, Frame("array", Len(ready)))
           /\ s = Append(p.stack, <<"array", <<>>>>) \o ready
           /\ a = r.text \o p.after
    BY <1>4 DEF InArray, Place, HoldsElements
  <2>2. Expects(p.frames, p.stack, <<"array", ready \o Cons(x, r.value)>>,
                p.after, g, goal)
    BY <1>1, <2>1
  <2>3. AroundElement(f, s, x, a, g, goal, p.frames, p.stack, p.after, ready, r)
    BY <2>1, <2>2 DEF AroundElement
  <2> QED BY <2>3
<1> QED BY <1>1, <1>3, <1>4

\* ... and in an object.
LEMMA PlaceInObject ==
    ASSUME NEW g, NEW goal, NEW f, NEW s, NEW x, NEW a, Expects(f, s, x, a, g, goal),
           f # <<>>, Last(f).kind = "object"
    PROVE  \E fs, st, u, ready, r, name, below :
              AroundMember(f, s, x, a, g, goal, fs, st, u, ready, r, name, below)
<1>1. PICK p \in PlacesOf(g) :
         /\ Expects(p.frames, p.stack, p.value, p.after, g, goal)
         /\ \/ InArray(Place(f, s, x, a), p, g)
            \/ InObject(Place(f, s, x, a), p, g)
  BY ExpectedBelow
<1>2. p.frames \in Seq(Frames)
  BY DEF PlacesOf
<1>3. CASE InArray(Place(f, s, x, a), p, g)
  <2>1. PICK n \in Nat : f = Append(p.frames, Frame("array", n))
    BY <1>3, LenProperties DEF InArray, Place
  <2>2. Last(f) = Frame("array", n)
    BY <1>2, <2>1 DEF Last, Frame, Frames
  <2> QED BY <2>2 DEF Frame
<1>4. CASE InObject(Place(f, s, x, a), p, g)
  <2>1. PICK ready \in Seq(Seq(g.letters) \X g.domain),
             name \in Seq(g.letters), r \in g.members, below \in Seq(Entries(g)) :
           /\ p.value = <<"object", ready \o Cons(<<name, x>>, r.value)>>
           /\ f = Append(p.frames, Frame("object", Len(ready)))
           /\ HoldsMembers(below, p.stack, ready)
           /\ \A i \in 1..Len(ready) : ready[i][2] # Nothing
           /\ s = Append(below, <<"string", name>>)
           /\ a = r.text \o p.after
    BY <1>4 DEF InObject, Place
  <2>2. Expects(p.frames, p.stack,
                <<"object", ready \o Cons(<<name, x>>, r.value)>>, p.after, g, goal)
    BY <1>1, <2>1
  <2>3. AroundMember(f, s, x, a, g, goal, p.frames, p.stack, p.after, ready, r,
                     name, below)
    BY <2>1, <2>2 DEF AroundMember
  <2> QED BY <2>3
<1> QED BY <1>1, <1>3, <1>4

\* What a text goes on with behind an element and behind a member.
LEMMA RestOfElements ==
    ASSUME NEW g, IsGuide(g), NEW r \in g.elements
    PROVE  r.text \in Seq(g.letters) /\ r.text # <<>> /\ First(r.text) \in {",", "]"}
<1>1. r.text \in Seq(g.letters)
  BY DEF IsGuide, Typed
<1>2. "," \in g.letters /\ "]" \in g.letters
  BY DEF IsGuide, Typed, Marks
<1>3. CASE r = Means(<<"]">>, <<>>)
  <2>1. r.text = <<"]">>
    BY <1>3 DEF Means
  <2>2. r.text # <<>> /\ Head(r.text) = "]"
    BY <2>1
  <2>3. First(r.text) = "]"
    BY <2>2 DEF First
  <2> QED BY <1>1, <2>2, <2>3
<1>4. CASE \E v \in g.values, q \in g.elements :
              r.text = Cons(",", v.text \o q.text)
  <2>1. PICK v \in g.values, q \in g.elements :
           r.text = Cons(",", v.text \o q.text)
    BY <1>4
  <2>2. v.text \o q.text \in Seq(g.letters)
    BY ConcatAhead DEF IsGuide, Typed
  <2>3. r.text # <<>> /\ First(r.text) = ","
    BY <1>2, <2>1, <2>2, ConsAhead
  <2> QED BY <1>1, <2>3
<1>5. IsElements(r, g)
  BY DEF IsGuide
<1>6. ASSUME NEW t, NEW v, r = Means(t, v)
      PROVE  r.text = t
  BY <1>6 DEF Means
<1> QED BY <1>3, <1>4, <1>5, <1>6 DEF IsElements

LEMMA RestOfMembers ==
    ASSUME NEW g, IsGuide(g), NEW r \in g.members
    PROVE  r.text \in Seq(g.letters) /\ r.text # <<>> /\ First(r.text) \in {",", Right}
<1>1. r.text \in Seq(g.letters)
  BY DEF IsGuide, Typed
<1>2. "," \in g.letters /\ Right \in g.letters /\ ":" \in g.letters
  BY DEF IsGuide, Typed, Marks
<1>3. CASE r = Means(<<Right>>, <<>>)
  <2>1. r.text = <<Right>>
    BY <1>3 DEF Means
  <2>2. r.text # <<>> /\ Head(r.text) = Right
    BY <2>1
  <2>3. First(r.text) = Right
    BY <2>2 DEF First
  <2> QED BY <1>1, <2>2, <2>3
<1>4. CASE \E k \in g.names, v \in g.values, q \in g.members :
              r.text = Cons(",", k.text \o Cons(":", v.text \o q.text))
  <2>1. PICK k \in g.names, v \in g.values, q \in g.members :
           r.text = Cons(",", k.text \o Cons(":", v.text \o q.text))
    BY <1>4
  <2>2. v.text \o q.text \in Seq(g.letters) /\ k.text \in Seq(g.letters)
    BY ConcatAhead DEF IsGuide, Typed
  <2>3. Cons(":", v.text \o q.text) \in Seq(g.letters)
    BY <1>2, <2>2, ConsType
  <2>4. k.text \o Cons(":", v.text \o q.text) \in Seq(g.letters)
    BY <2>2, <2>3, ConcatAhead
  <2>5. r.text # <<>> /\ First(r.text) = ","
    BY <1>2, <2>1, <2>4, ConsAhead
  <2> QED BY <1>1, <2>5
<1>5. IsMembers(r, g)
  BY DEF IsGuide
<1>6. ASSUME NEW t, NEW v, r = Means(t, v)
      PROVE  r.text = t
  BY <1>6 DEF Means
<1> QED BY <1>3, <1>4, <1>5, <1>6 DEF IsMembers

\* What can be behind a value.
LEMMA BehindPlace ==
    ASSUME NEW g, IsGuide(g), NEW goal, NEW f, NEW s, NEW x, NEW a,
           Expects(f, s, x, a, g, goal)
    PROVE  First(a) \in {"end", ",", "]", Right}
<1>1. CASE a = <<>>
  BY <1>1 DEF First
<1>2. ASSUME NEW p \in PlacesOf(g), InArray(Place(f, s, x, a), p, g)
      PROVE  First(a) \in {"end", ",", "]", Right}
  <2>1. PICK r \in g.elements : a = r.text \o p.after
    BY <1>2 DEF InArray, Place
  <2>2. p.after \in Seq(g.letters)
    BY DEF PlacesOf
  <2>3. r.text \in Seq(g.letters) /\ r.text # <<>> /\ First(r.text) \in {",", "]"}
    BY RestOfElements
  <2>4. First(a) = First(r.text)
    BY <2>1, <2>2, <2>3, ConcatAhead
  <2> QED BY <2>3, <2>4
<1>3. ASSUME NEW p \in PlacesOf(g), InObject(Place(f, s, x, a), p, g)
      PROVE  First(a) \in {"end", ",", "]", Right}
  <2>1. PICK r \in g.members : a = r.text \o p.after
    BY <1>3 DEF InObject, Place
  <2>2. p.after \in Seq(g.letters)
    BY DEF PlacesOf
  <2>3. r.text \in Seq(g.letters) /\ r.text # <<>> /\ First(r.text) \in {",", Right}
    BY RestOfMembers
  <2>4. First(a) = First(r.text)
    BY <2>1, <2>2, <2>3, ConcatAhead
  <2> QED BY <2>3, <2>4
<1> QED BY <1>1, <1>2, <1>3, ExpectedBelow

-----------------------------------------------------------------------------
(* Where the reader is, when it reads such a text.                         *)

\* An object has got all of its values.
Whole(x) ==
    x[1] = "object" => \A i \in 1..Len(x[2]) : x[2][i][2] # Nothing

AtValue(f, s, a, g, goal) ==
    \E v \in g.values : \E u :
        Expects(f, s, v.value, u, g, goal) /\ a = v.text \o u

Behind(f, s, a, g, goal) ==
    \E st, x :
        /\ Expects(f, st, x, a, g, goal)
        /\ s = Append(st, x)
        /\ x # Nothing /\ Whole(x)

AtColon(f, s, a, g, goal) ==
    \E b : a = Cons(":", b) /\ AtValue(f, s, b, g, goal) /\ b \in Seq(g.letters)

AtMember(f, s, a, g, goal) ==
    \E fs, st, u : \E ready \in Seq(Seq(g.letters) \X g.domain),
                    k \in g.names, v \in g.values, r \in g.members :
        /\ f = Append(fs, Frame("object", Len(ready)))
        /\ s \in Seq(Entries(g)) /\ HoldsMembers(s, st, ready)
        /\ \A i \in 1..Len(ready) : ready[i][2] # Nothing
        /\ a = k.text \o Cons(":", v.text \o (r.text \o u))
        /\ Expects(fs, st, <<"object", ready \o Cons(<<k.value, v.value>>, r.value)>>,
                   u, g, goal)

AtFirstMember(f, s, a, g, goal) ==
    \/ AtMember(f, s, a, g, goal) /\ Last(f).count = 0
    \/ \E fs, st, u :
        /\ f = Append(fs, Frame("object", 0))
        /\ s = Append(st, <<"object", <<>>>>)
        /\ a = Cons(Right, u)
        /\ Expects(fs, st, <<"object", <<>>>>, u, g, goal)

AtFirstElement(f, s, a, g, goal) ==
    \/ AtValue(f, s, a, g, goal) /\ First(a) # "]"
    \/ \E fs, st, u :
        /\ f = Append(fs, Frame("array", 0))
        /\ s = Append(st, <<"array", <<>>>>)
        /\ a = Cons("]", u)
        /\ Expects(fs, st, <<"array", <<>>>>, u, g, goal)

\* Behind a string, which has been put on the stack.
Resumes(key, f, s, a, g, goal) ==
    IF key THEN AtColon(f, s, a, g, goal) ELSE Behind(f, s, a, g, goal)

\* In a string: what is left of it, and what it then is.
Continues(ch, more, u, key, f, s, g, goal) ==
    /\ u \in Seq(g.letters)
    /\ Resumes(key, f, Append(s, <<"string", ch \o more>>), u, g, goal)

AtString(ch, key, f, s, a, g, goal) ==
    \E r \in g.strings : \E u :
        a = r.text \o u /\ Continues(ch, r.value, u, key, f, s, g, goal)

AtEscape(ch, key, f, s, a, g, goal) ==
    \E r \in g.strings : \E u :
        \/ \E c \in {"quote", "backslash"} :
              /\ a = Cons(c, r.text \o u)
              /\ Continues(ch, Cons(c, r.value), u, key, f, s, g, goal)
        \/ /\ a = Cons("n", r.text \o u)
           /\ Continues(ch, Cons("newline", r.value), u, key, f, s, g, goal)
        \/ /\ a = Cons("u0000", r.text \o u)
           /\ Continues(ch, Cons("nul", r.value), u, key, f, s, g, goal)
        \/ /\ a = Cons("uD83D", Cons("backslash", Cons("uDE00", r.text \o u)))
           /\ Continues(ch, Cons("wide", r.value), u, key, f, s, g, goal)

AtSurrogate(ch, key, f, s, a, g, goal) ==
    \E r \in g.strings : \E u :
        /\ a = Cons("backslash", Cons("uDE00", r.text \o u))
        /\ Continues(ch, Cons("wide", r.value), u, key, f, s, g, goal)

AtLowSurrogate(ch, key, f, s, a, g, goal) ==
    \E r \in g.strings : \E u :
        /\ a = Cons("uDE00", r.text \o u)
        /\ Continues(ch, Cons("wide", r.value), u, key, f, s, g, goal)

StringPlace(place, ch, key, f, s, a, g, goal) ==
    /\ ch \in Seq(g.letters) /\ key \in BOOLEAN
    /\ place = "string" => AtString(ch, key, f, s, a, g, goal)
    /\ place = "escape" => AtEscape(ch, key, f, s, a, g, goal)
    /\ place = "surrogate" => AtSurrogate(ch, key, f, s, a, g, goal)
    /\ place = "lowSurrogate" => AtLowSurrogate(ch, key, f, s, a, g, goal)

InLimit(minus, digits, fraction) ==
    \/ minus
    \/ Len(digits) = 1
    \/ DecimalOf(digits) <= MaxExponent + fraction

\* In a number: what is left of it, at a place, with the exponent so far.
LeftAtDigits(t, e) ==
    /\ e = NoExponent
    /\ \E d \in Seq(Digits) : \E x : t = d \o x /\ IsFraction(x)

LeftAtFractionFirst(t, e) ==
    /\ e = NoExponent
    /\ \E d \in Seq(Digits) \ {<<>>} : \E x : t = d \o x /\ IsExponent(x, Len(d))

LeftAtFractionDigits(t, e) ==
    /\ e = [NoExponent EXCEPT !.fraction = e.fraction] /\ e.fraction \in Nat
    /\ \E d \in Seq(Digits) : \E x : t = d \o x /\ IsExponent(x, e.fraction + Len(d))

LeftAtExponent(t, e) ==
    /\ e = [NoExponent EXCEPT !.fraction = e.fraction] /\ e.fraction \in Nat
    /\ IsExponent(t, e.fraction)

LeftAtExponentSign(t, e) ==
    /\ e = [NoExponent EXCEPT !.fraction = e.fraction] /\ e.fraction \in Nat
    /\ \E s \in {<<>>, <<"+">>, <<"-">>}, d \in Seq(Digits) \ {<<>>} :
          t = s \o d /\ InLimit(s = <<"-">>, d, e.fraction)

LeftAtExponentFirst(t, e) ==
    /\ e = [minus |-> e.minus, value |-> 0, fraction |-> e.fraction]
    /\ e.minus \in BOOLEAN /\ e.fraction \in Nat
    /\ t \in Seq(Digits) \ {<<>>} /\ InLimit(e.minus, t, e.fraction)

LeftAtExponentDigits(t, e) ==
    \E d \in Seq(Digits) \ {<<>>} :
        /\ e = [minus |-> e.minus, value |-> DecimalOf(d), fraction |-> e.fraction]
        /\ e.minus \in BOOLEAN /\ e.fraction \in Nat
        /\ t \in Seq(Digits) /\ InLimit(e.minus, d \o t, e.fraction)

NumberLeft(place, t, e) ==
    /\ place = "minus" => IsNumber(t)
    /\ place = "integer" => IsInteger(t) /\ e = NoExponent
    /\ place \in {"digits32", "digits64", "digitsDouble"} => LeftAtDigits(t, e)
    /\ place = "fraction" => IsFraction(t) /\ e = NoExponent
    /\ place = "fractionFirst" => LeftAtFractionFirst(t, e)
    /\ place = "fractionDigits" => LeftAtFractionDigits(t, e)
    /\ place = "exponent" => LeftAtExponent(t, e)
    /\ place = "exponentSign" => LeftAtExponentSign(t, e)
    /\ place = "exponentFirst" => LeftAtExponentFirst(t, e)
    /\ place = "exponentDigits" => LeftAtExponentDigits(t, e)
    /\ place = "numberEnd" => t = <<>>

NumberPlaces ==
    {"minus", "integer", "digits32", "digits64", "digitsDouble", "fraction",
     "fractionFirst", "fractionDigits", "exponent", "exponentSign",
     "exponentFirst", "exponentDigits", "numberEnd"}

\* At a number, the first n characters of which have been read.
NumberPlace(place, ch, e, f, s, a, g, goal) ==
    /\ ch \in Seq(g.letters)
    /\ \E t \in Seq(g.letters), u \in Seq(g.letters) :
        /\ a = t \o u
        /\ NumberLeft(place, t, e)
        /\ Behind(f, Append(s, <<"number", ch \o t>>), u, g, goal)

\* Where a value ought to be, and is none.
AtNothing(f, s, a, g, goal) ==
    Expects(f, s, Nothing, a, g, goal) /\ \E v \in g.values : v.value = Nothing

Done(er, ro, g, goal) ==
    IF er = 0 THEN ro = goal /\ goal # Nothing /\ Whole(goal)
              ELSE \E v \in g.values : v.value = Nothing

FollowsAt(place, f, s, ch, key, e, er, ro, a, g, goal) ==
    /\ place \in {"document", "value"} => AtValue(f, s, a, g, goal)
    /\ place = "behindValue" => Behind(f, s, a, g, goal)
    /\ place = "firstMember" => AtFirstMember(f, s, a, g, goal)
    /\ place = "member" => AtMember(f, s, a, g, goal)
    /\ place = "colon" => AtColon(f, s, a, g, goal)
    /\ place = "firstElement" => AtFirstElement(f, s, a, g, goal)
    /\ place \in StringPlaces => StringPlace(place, ch, key, f, s, a, g, goal)
    /\ place = "minus" => \/ NumberPlace(place, <<>>, e, f, s, a, g, goal)
                          \/ AtNothing(f, s, a, g, goal)
    /\ place = "integer" => \/ NumberPlace(place, ch, e, f, s, a, g, goal)
                            \/ AtNothing(f, s, a, g, goal)
    /\ place \in NumberPlaces \ {"minus", "integer"} =>
          NumberPlace(place, ch, e, f, s, a, g, goal)
    /\ place = "done" => Done(er, ro, g, goal)
    /\ place # "done" => er = 0

\* The reader is where it is when it reads a text of the guide's, of which a is
\* still ahead, and which denotes the goal.
Follows(a, g, goal) ==
    /\ a \in Seq(g.letters)
    /\ FollowsAt(pc, frames, stack, chars, isKey, exponent, error, root, a, g, goal)

\* A step goes on with the same text.
GoesOn(a, g, goal) ==
    \/ src' = src /\ Follows(a, g, goal)'
    \/ src' = src + 1 /\ a # <<>> /\ Follows(Tail(a), g, goal)'

\* Peek sees what is ahead.
Reads(a, g, goal) == IsGuide(g) /\ Follows(a, g, goal) /\ Peek = First(a)

LEMMA TakeSteps == Take => src' = src + 1
  BY DEF Take

\* A literal, a string or a number that has been read.
LEMMA BehindScalar ==
    ASSUME NEW g, NEW goal, NEW f, NEW s, NEW a, NEW kind, NEW of,
           kind \notin {"nothing", "object"},
           Expects(f, s, <<kind, of>>, a, g, goal)
    PROVE  Behind(f, Append(s, <<kind, of>>), a, g, goal)
<1> DEFINE x == <<kind, of>>
<1>1. x # Nothing
  BY DEF Nothing
<1>2. Whole(x)
  BY DEF Whole
<1> HIDE DEF x
<1>3. Expects(f, s, x, a, g, goal)
  BY DEF x
<1>4. Behind(f, Append(s, x), a, g, goal)
  BY <1>1, <1>2, <1>3 DEF Behind
<1> QED BY <1>4 DEF x

\* Numbers are texts, and how they begin.
LEMMA ExponentBegins ==
    ASSUME NEW t, NEW n, IsExponent(t, n)
    PROVE  t \in Seq(NumberLetters) /\ First(t) \in {"end", "e"}
<1>1. CASE t = <<>>
  BY <1>1 DEF First
<1>2. ASSUME NEW s \in {<<>>, <<"+">>, <<"-">>}, NEW d \in Seq(Digits),
             t = Cons("e", s \o d)
      PROVE  t \in Seq(NumberLetters) /\ First(t) = "e"
  <2>1. d \in Seq(NumberLetters) /\ "e" \in NumberLetters
    BY DEF NumberLetters
  <2>2. s \in Seq(NumberLetters)
    <3>1. <<>> \in Seq(NumberLetters) /\ "+" \in NumberLetters /\ "-" \in NumberLetters
      BY DEF NumberLetters
    <3> HIDE DEF NumberLetters
    <3>2. <<"+">> \in Seq(NumberLetters) /\ <<"-">> \in Seq(NumberLetters)
      BY <3>1
    <3> QED BY <3>1, <3>2
  <2>3. s \o d \in Seq(NumberLetters)
    BY <2>1, <2>2, ConcatAhead
  <2> QED BY <1>2, <2>1, <2>3, ConsAhead, ConsType
<1> QED BY <1>1, <1>2 DEF IsExponent

LEMMA FractionBegins ==
    ASSUME NEW t, IsFraction(t)
    PROVE  t \in Seq(NumberLetters) /\ First(t) \in {"end", "e", "."}
<1>1. CASE IsExponent(t, 0)
  BY <1>1, ExponentBegins
<1>2. ASSUME NEW d \in Seq(Digits), NEW x, IsExponent(x, Len(d)), t = Cons(".", d \o x)
      PROVE  t \in Seq(NumberLetters) /\ First(t) = "."
  <2>1. x \in Seq(NumberLetters) /\ d \in Seq(NumberLetters) /\ "." \in NumberLetters
    BY <1>2, ExponentBegins DEF NumberLetters
  <2>2. d \o x \in Seq(NumberLetters)
    BY <2>1, ConcatAhead
  <2> QED BY <1>2, <2>1, <2>2, ConsAhead, ConsType
<1> QED BY <1>1, <1>2 DEF IsFraction

LEMMA IntegerBegins ==
    ASSUME NEW t, IsInteger(t)
    PROVE  t \in Seq(NumberLetters) /\ t # <<>> /\ First(t) \in {"0", "1"}
<1>1. "0" \in NumberLetters /\ "1" \in NumberLetters
  BY DEF NumberLetters, Digits
<1>2. ASSUME NEW x, IsFraction(x), t = Cons("0", x)
      PROVE  t \in Seq(NumberLetters) /\ t # <<>> /\ First(t) = "0"
  BY <1>1, <1>2, FractionBegins, ConsAhead, ConsType
<1>3. ASSUME NEW d \in Seq(Digits), NEW x, IsFraction(x), t = Cons("1", d \o x)
      PROVE  t \in Seq(NumberLetters) /\ t # <<>> /\ First(t) = "1"
  <2>1. x \in Seq(NumberLetters) /\ d \in Seq(NumberLetters)
    BY <1>3, FractionBegins DEF NumberLetters
  <2>2. d \o x \in Seq(NumberLetters)
    BY <2>1, ConcatAhead
  <2> QED BY <1>1, <1>3, <2>2, ConsAhead, ConsType
<1> QED BY <1>2, <1>3 DEF IsInteger

LEMMA NumberBegins ==
    ASSUME NEW t, IsNumber(t)
    PROVE  t \in Seq(NumberLetters) /\ t # <<>> /\ First(t) \in {"-", "0", "1"}
<1>1. "-" \in NumberLetters
  BY DEF NumberLetters
<1>2. ASSUME NEW x, IsInteger(x), t = Cons("-", x)
      PROVE  t \in Seq(NumberLetters) /\ t # <<>> /\ First(t) = "-"
  BY <1>1, <1>2, IntegerBegins, ConsAhead, ConsType
<1> QED BY <1>2, IntegerBegins DEF IsNumber

\* SkipWhitespace has nothing to skip: no text of a guide begins with a blank.
LEMMA ValueBegins ==
    ASSUME NEW g, IsGuide(g), NEW v \in g.values
    PROVE  /\ v.text \in Seq(g.letters)
           /\ \/ v = Means(<<>>, Nothing)
              \/ /\ v.text # <<>> /\ v.value # Nothing
                 /\ \/ \E l \in Literals : v = Means(<<l>>, <<l, <<>>>>)
                    \/ /\ First(v.text) \in {"quote", "token"}
                       /\ \E k \in g.names : v = Means(k.text, <<"string", k.value>>)
                    \/ /\ First(v.text) \in {"-", "0", "1"}
                       /\ IsNumber(v.text) /\ v.value = <<"number", v.text>>
                    \/ First(v.text) \in {"[", Left} /\ IsContainer(v, g)
<1>1. v.text \in Seq(g.letters) /\ IsValue(v, g)
  BY DEF IsGuide, Typed
<1> USE <1>1
<1>2. CASE v = Means(<<>>, Nothing)
  BY <1>2
<1>3. CASE \E l \in Literals : v = Means(<<l>>, <<l, <<>>>>)
  <2>1. PICK l \in Literals : v = Means(<<l>>, <<l, <<>>>>)
    BY <1>3
  <2>2. v.text = <<l>> /\ v.value = <<l, <<>>>>
    BY <2>1 DEF Means
  <2>3. v.text # <<>>
    BY <2>2
  <2>4. v.value # Nothing
    BY <2>2 DEF Literals, Nothing
  <2> QED BY <1>3, <2>3, <2>4
<1>4. CASE \E k \in g.names : v = Means(k.text, <<"string", k.value>>)
  <2>1. PICK k \in g.names : v = Means(k.text, <<"string", k.value>>)
    BY <1>4
  <2>2. v.text = k.text /\ v.value = <<"string", k.value>>
    BY <2>1 DEF Means
  <2>3. k.text # <<>> /\ First(k.text) \in {"quote", "token"}
    <3>1. CASE k = Means(<<"token">>, <<"token">>)
      <4>1. k.text = <<"token">>
        BY <3>1 DEF Means
      <4> QED BY <4>1 DEF First
    <3>2. CASE \E r \in g.strings : k = Means(Cons("quote", r.text), r.value)
      <4>1. PICK r \in g.strings : k = Means(Cons("quote", r.text), r.value)
        BY <3>2
      <4>2. k.text = Cons("quote", r.text)
        BY <4>1 DEF Means
      <4>3. "quote" \in g.letters /\ r.text \in Seq(g.letters)
        BY DEF IsGuide, Typed, Marks
      <4> QED BY <4>2, <4>3, ConsAhead
    <3> QED BY <3>1, <3>2 DEF IsGuide, IsName
  <2>4. v.value # Nothing
    BY <2>2 DEF Nothing
  <2> QED BY <1>4, <2>2, <2>3, <2>4
<1>5. CASE IsNumber(v.text) /\ v.value = <<"number", v.text>>
  <2>1. IsNumber(v.text) => v.text # <<>> /\ First(v.text) \in {"-", "0", "1"}
    BY NumberBegins
  <2>2. v.value # Nothing
    BY <1>5 DEF Nothing
  <2> QED BY <1>5, <2>1, <2>2
<1>6. CASE IsContainer(v, g)
  <2> DEFINE begins == v.text # <<>> /\ First(v.text) \in {"[", Left} /\ v.value # Nothing
  <2>1. ASSUME NEW l \in {"[", Left}, NEW t \in Seq(g.letters), NEW of,
               v = Means(Cons(l, t), <<IF l = "[" THEN "array" ELSE "object", of>>)
        PROVE  begins
    <3>1. v.text = Cons(l, t) /\ v.value[1] \in {"array", "object"}
      BY <2>1 DEF Means
    <3>2. l \in g.letters
      BY DEF IsGuide, Typed, Marks
    <3>3. v.text # <<>> /\ First(v.text) = l
      BY <3>1, <3>2, ConsAhead
    <3>4. v.value # Nothing
      BY <3>1 DEF Nothing
    <3> QED BY <3>3, <3>4
  <2>2. /\ "]" \in g.letters /\ Right \in g.letters /\ ":" \in g.letters
        /\ "[" \in {"[", Left} /\ Left \in {"[", Left}
        /\ (IF "[" = "[" THEN "array" ELSE "object") = "array"
        /\ (IF Left = "[" THEN "array" ELSE "object") = "object"
    BY Curly DEF IsGuide, Typed, Marks, OtherMarks
  <2> HIDE DEF begins
  <2>3. ASSUME v = Means(<<"[", "]">>, <<"array", <<>>>>)
        PROVE  begins
    <3>1. <<"]">> \in Seq(g.letters) /\ <<"[", "]">> = Cons("[", <<"]">>)
      BY PairAhead DEF IsGuide, Typed, Marks
    <3> QED BY <2>1, <2>2, <2>3, <3>1
  <2>4. ASSUME v = Means(<<Left, Right>>, <<"object", <<>>>>)
        PROVE  begins
    <3>1. <<Right>> \in Seq(g.letters) /\ <<Left, Right>> = Cons(Left, <<Right>>)
      BY PairAhead DEF IsGuide, Typed, Marks
    <3> QED BY <2>1, <2>2, <2>4, <3>1
  <2>5. ASSUME \E w \in g.values, r \in g.elements :
                    v = Means(Cons("[", w.text \o r.text), <<"array", Cons(w.value, r.value)>>)
        PROVE  begins
    <3>1. PICK w \in g.values, r \in g.elements :
             v = Means(Cons("[", w.text \o r.text), <<"array", Cons(w.value, r.value)>>)
      BY <2>5
    <3>2. w.text \o r.text \in Seq(g.letters)
      BY ConcatAhead DEF IsGuide, Typed
    <3> QED BY <2>1, <2>2, <3>1, <3>2
  <2>6. ASSUME \E k \in g.names, w \in g.values, r \in g.members :
                    v = Means(Cons(Left, k.text \o Cons(":", w.text \o r.text)),
                              <<"object", Cons(<<k.value, w.value>>, r.value)>>)
        PROVE  begins
    <3>1. PICK k \in g.names, w \in g.values, r \in g.members :
             v = Means(Cons(Left, k.text \o Cons(":", w.text \o r.text)),
                       <<"object", Cons(<<k.value, w.value>>, r.value)>>)
      BY <2>6
    <3>2. w.text \o r.text \in Seq(g.letters) /\ k.text \in Seq(g.letters)
      BY ConcatAhead DEF IsGuide, Typed
    <3>3. k.text \o Cons(":", w.text \o r.text) \in Seq(g.letters)
      BY <2>2, <3>2, ConsType, ConcatAhead
    <3> QED BY <2>1, <2>2, <3>1, <3>3
  <2>7. begins
    BY <1>6, <2>3, <2>4, <2>5, <2>6 DEF IsContainer
  <2> QED BY <1>6, <2>7 DEF begins
<1>7. \/ v = Means(<<>>, Nothing)
      \/ \E l \in Literals : v = Means(<<l>>, <<l, <<>>>>)
      \/ \E k \in g.names : v = Means(k.text, <<"string", k.value>>)
      \/ IsNumber(v.text) /\ v.value = <<"number", v.text>>
      \/ IsContainer(v, g)
  BY DEF IsValue
<1> QED BY <1>2, <1>3, <1>4, <1>5, <1>6, <1>7

-----------------------------------------------------------------------------
(* Longer texts.                                                           *)

\* What an element of an array and a member of an object end on.
Chain(c, s, t) == Cons(c, s \o t)

Chained(k, d, s, t) == k \o Chain(d, s, t)

\* What is put behind them, as laws the provers need not look into.
ChainGoesOn(c, s, t, u) ==
    Chain(c, s, t) \o u = Chain(c, s, t \o u)

ChainedGoesOn(k, d, s, t, u) ==
    Chained(k, d, s, t) \o u = Chained(k, d, s, t \o u)

LEMMA ChainedType ==
    ASSUME NEW S, NEW d \in S, NEW k \in Seq(S), NEW s \in Seq(S), NEW t \in Seq(S)
    PROVE  Chained(k, d, s, t) \in Seq(S)
<1>1. s \o t \in Seq(S)
  BY ConcatAhead
<1>2. Cons(d, s \o t) \in Seq(S)
  BY <1>1, ConsType
<1> QED BY <1>2, ConcatAhead DEF Chained, Chain

LEMMA ChainAhead ==
    ASSUME NEW S, NEW c \in S, NEW s \in Seq(S), NEW t \in Seq(S), NEW u \in Seq(S)
    PROVE  ChainGoesOn(c, s, t, u)
<1>1. s \o t \in Seq(S) /\ t \o u \in Seq(S)
  BY ConcatAhead
<1>3. Cons(c, s \o t) \o u = Cons(c, (s \o t) \o u)
  BY <1>1 DEF Cons
<1>4. (s \o t) \o u = s \o (t \o u)
  BY Associative
<1> QED BY <1>3, <1>4 DEF Chain, ChainGoesOn

LEMMA ChainedAhead ==
    ASSUME NEW S, NEW d \in S, NEW k \in Seq(S), NEW s \in Seq(S), NEW t \in Seq(S),
           NEW u \in Seq(S)
    PROVE  ChainedGoesOn(k, d, s, t, u)
<1> DEFINE x == Chain(d, s, t)
           y == Chain(d, s, t \o u)
<1>1. x \in Seq(S)
  <2>1. s \o t \in Seq(S)
    BY ConcatAhead
  <2> QED BY <2>1, ConsType DEF Chain
<1>2. x \o u = y
  <2>1. ChainGoesOn(d, s, t, u)
    BY ChainAhead
  <2> QED BY <2>1, Zenon DEF ChainGoesOn
<1> HIDE DEF x, y
<1>3. (k \o x) \o u = k \o (x \o u)
  BY <1>1
<1> QED BY <1>2, <1>3 DEF Chained, ChainedGoesOn, x, y

-----------------------------------------------------------------------------
(* What is ahead where a value, a name, or what follows a value is read.   *)

LiteralAhead(f, s, a, g, goal) ==
    \E l \in Literals, u \in Seq(g.letters) :
        a = Cons(l, u) /\ Behind(f, Append(s, <<l, <<>>>>), u, g, goal)

\* A string, as a value or as a name: behind its first quotation mark, or whole.
StringAhead(key, f, s, a, g, goal) ==
    \E b \in Seq(g.letters) :
        a = Cons("quote", b) /\ AtString(<<>>, key, f, s, b, g, goal)

TokenAhead(key, f, s, a, g, goal) ==
    \E u \in Seq(g.letters) :
        a = Cons("token", u) /\ Resumes(key, f, Append(s, Token), u, g, goal)

NumberAhead(f, s, a, g, goal) ==
    /\ First(a) \in {"-", "0", "1"}
    /\ \A e : NumberPlace("minus", <<>>, e, f, s, a, g, goal)

ArrayAhead(f, s, a, g, goal) ==
    \E b \in Seq(g.letters) :
        /\ a = Cons("[", b)
        /\ AtFirstElement(Append(f, Frame("array", 0)),
                          Append(s, <<"array", <<>>>>), b, g, goal)

ObjectAhead(f, s, a, g, goal) ==
    \E b \in Seq(g.letters) :
        /\ a = Cons(Left, b)
        /\ AtFirstMember(Append(f, Frame("object", 0)),
                         Append(s, <<"object", <<>>>>), b, g, goal)

NothingAhead(f, s, a, g, goal) ==
    First(a) \in {"end", ",", "]", Right} /\ AtNothing(f, s, a, g, goal)

\* A string of which nothing has been read.
LEMMA StringBegins ==
    ASSUME NEW g, IsGuide(g), NEW goal, NEW f, NEW s, NEW k \in g.names,
           NEW u \in Seq(g.letters), NEW key,
           Resumes(key, f, Append(s, <<"string", k.value>>), u, g, goal)
    PROVE  LET a == k.text \o u
           IN  \/ StringAhead(key, f, s, a, g, goal)
               \/ TokenAhead(key, f, s, a, g, goal)
<1> DEFINE a == k.text \o u
<1>1. CASE k = Means(<<"token">>, <<"token">>)
  <2>1. k.text = <<"token">> /\ k.value = <<"token">>
    BY <1>1 DEF Means
  <2>2. "token" \in g.letters
    BY DEF IsGuide, Typed, Marks
  <2>3. a = Cons("token", u)
    BY <2>1, <2>2, OneAhead
  <2>4. Resumes(key, f, Append(s, Token), u, g, goal)
    BY <2>1 DEF Token
  <2> QED BY <2>3, <2>4 DEF TokenAhead
<1>2. CASE \E r \in g.strings : k = Means(Cons("quote", r.text), r.value)
  <2>1. PICK r \in g.strings : k = Means(Cons("quote", r.text), r.value)
    BY <1>2
  <2>2. k.text = Cons("quote", r.text) /\ k.value = r.value
    BY <2>1 DEF Means
  <2>3. /\ "quote" \in g.letters /\ r.text \in Seq(g.letters)
        /\ r.value \in Seq(g.letters)
    BY DEF IsGuide, Typed, Marks
  <2>9. Cons("quote", r.text) \o u = Cons("quote", r.text \o u)
    <3> DEFINE c == "quote"
               t == r.text
    <3>1. c \in g.letters /\ t \in Seq(g.letters)
      BY <2>3
    <3> HIDE DEF c, t
    <3>2. Cons(c, t) \o u = Cons(c, t \o u)
      BY <3>1 DEF Cons
    <3> QED BY <3>2 DEF c, t
  <2>10. r.text \o u \in Seq(g.letters)
    BY <2>3, ConcatAhead
  <2>4. /\ Cons("quote", r.text) \o u = Cons("quote", r.text \o u)
        /\ r.text \o u \in Seq(g.letters)
    BY <2>9, <2>10
  <2>8. a = Cons("quote", r.text \o u)
    BY <2>2, <2>4
  <2>5. <<>> \o r.value = r.value
    BY <2>3, NoneAhead
  <2>6. Continues(<<>>, r.value, u, key, f, s, g, goal)
    BY <2>2, <2>5 DEF Continues
  <2>7. AtString(<<>>, key, f, s, r.text \o u, g, goal)
    BY <2>6 DEF AtString
  <2> QED BY <2>4, <2>7, <2>8 DEF StringAhead
<1> QED BY <1>1, <1>2 DEF IsGuide, IsName

\* A value does not begin with what closes the container it is in.
LEMMA ValueLooks ==
    ASSUME NEW g, IsGuide(g), NEW v \in g.values, v.value # Nothing
    PROVE  /\ v.text # <<>>
           /\ First(v.text) \in {"null", "true", "false", "quote", "token", "-", "0", "1",
                                 "[", Left}
           /\ First(v.text) # "]" /\ First(v.text) # "newline"
<1>1. \/ v = Means(<<>>, Nothing)
      \/ v.text # <<>> /\ \E l \in Literals : v = Means(<<l>>, <<l, <<>>>>)
      \/ v.text # <<>> /\ First(v.text) \in {"quote", "token", "-", "0", "1", "[", Left}
  BY ValueBegins
<1>2. CASE v = Means(<<>>, Nothing)
  BY <1>2 DEF Means
<1>3. ASSUME NEW l \in Literals, v = Means(<<l>>, <<l, <<>>>>)
      PROVE  First(v.text) \in {"null", "true", "false"}
  <2>1. v.text = <<l>>
    BY <1>3 DEF Means
  <2>2. v.text # <<>> /\ Head(v.text) = l
    BY <2>1
  <2> QED BY <2>2 DEF First, Literals
<1>4. v.text # <<>>
  BY <1>1, <1>2
<1>5. First(v.text) \in {"null", "true", "false", "quote", "token", "-", "0", "1",
                         "[", Left}
  BY <1>1, <1>2, <1>3
<1> QED BY <1>4, <1>5, Curly DEF OtherMarks

\* The texts of arrays and of objects.
IsArray(t, of, g) ==
    \/ t = <<"[", "]">> /\ of = <<>>
    \/ \E v \in g.values, r \in g.elements :
          /\ v.value # Nothing
          /\ t = Cons("[", v.text \o r.text)
          /\ of = Cons(v.value, r.value)

IsObject(t, of, g) ==
    \/ t = <<Left, Right>> /\ of = <<>>
    \/ \E k \in g.names, v \in g.values, r \in g.members :
          /\ t = Cons(Left, k.text \o Cons(":", v.text \o r.text))
          /\ of = Cons(<<k.value, v.value>>, r.value)

LEMMA ArrayBegins ==
    ASSUME NEW g, IsGuide(g), NEW goal, NEW f, NEW s, NEW u, NEW t, NEW of,
           Expects(f, s, <<"array", of>>, u, g, goal), IsArray(t, of, g)
    PROVE  ArrayAhead(f, s, t \o u, g, goal)
<1> DEFINE fs == Append(f, Frame("array", 0))
           st == Append(s, <<"array", <<>>>>)
<1>1. u \in Seq(g.letters) /\ "[" \in g.letters /\ "]" \in g.letters
      /\ f \in Seq(Frames) /\ s \in Seq(Entries(g))
  BY ExpectedTypes DEF IsGuide, Typed, Marks
<1>2. CASE t = <<"[", "]">> /\ of = <<>>
  <2>1. t = Cons("[", <<"]">>) /\ <<"]">> \in Seq(g.letters)
    BY <1>1, <1>2, PairAhead
  <2>4. t \o u = Cons("[", <<"]">> \o u)
    <3>1. Cons("[", <<"]">>) \o u = Cons("[", <<"]">> \o u)
      BY <1>1, <2>1 DEF Cons
    <3> QED BY <2>1, <3>1
  <2>5. <<"]">> \o u = Cons("]", u)
    BY <1>1, OneAhead
  <2>6. Cons("]", u) \in Seq(g.letters)
    BY <1>1, ConsType
  <2>2. t \o u = Cons("[", Cons("]", u)) /\ Cons("]", u) \in Seq(g.letters)
    BY <2>4, <2>5, <2>6
  <2>3. AtFirstElement(fs, st, Cons("]", u), g, goal)
    BY <1>2 DEF AtFirstElement
  <2> QED BY <2>2, <2>3 DEF ArrayAhead
<1>3. ASSUME NEW v \in g.values, NEW r \in g.elements, v.value # Nothing,
             t = Cons("[", v.text \o r.text), of = Cons(v.value, r.value)
      PROVE  ArrayAhead(f, s, t \o u, g, goal)
  <2> DEFINE b == v.text \o (r.text \o u)
  <2>1. /\ v.text \in Seq(g.letters) /\ v.value \in g.domain
        /\ r.text \in Seq(g.letters) /\ r.value \in Seq(g.domain)
    BY DEF IsGuide, Typed
  <2>2. t \o u = Cons("[", b) /\ b \in Seq(g.letters)
    <3>5. /\ "[" \in g.letters /\ v.text \in Seq(g.letters) /\ r.text \in Seq(g.letters)
          /\ u \in Seq(g.letters)
      BY <1>1, <2>1
    <3>1. Chain("[", v.text, r.text) \o u = Chain("[", v.text, r.text \o u)
      <4>1. ChainGoesOn("[", v.text, r.text, u)
        BY <3>5, ChainAhead
      <4> QED BY <4>1, Zenon DEF ChainGoesOn
    <3>2. r.text \o u \in Seq(g.letters)
      BY <1>1, <2>1, ConcatAhead
    <3>3. b \in Seq(g.letters)
      BY <2>1, <3>2, ConcatAhead
    <3>4. t \o u = Cons("[", b)
      BY <1>3, <3>1 DEF Chain
    <3> QED BY <3>3, <3>4
  <2>3. of = <<>> \o Cons(v.value, r.value) /\ <<>> \in Seq(g.domain) /\ Len(<<>>) = 0
    BY <1>3, <2>1, ConsType, NoneAhead
  <2>4. st \o <<>> = st
    <3>1. <<"array", <<>>>> \in Entries(g)
      BY DEF Entries
    <3> QED BY <1>1, <3>1, AppendAhead, NoneAhead
  <2>5. Expects(f, s, <<"array", <<>> \o Cons(v.value, r.value)>>, u, g, goal)
    BY <2>3
  <2>6. Expects(fs, st, v.value, r.text \o u, g, goal)
    <3>1. Expects(Append(f, Frame("array", Len(<<>>))), st \o <<>>, v.value,
                  r.text \o u, g, goal)
      <4> HIDE DEF fs
      <4> QED BY <2>1, <2>3, <2>5, ElementPlace
    <3> QED BY <2>3, <2>4, <3>1
  <2>7. AtValue(fs, st, b, g, goal)
    BY <2>6 DEF AtValue
  <2>8. First(b) # "]"
    <3>1. v.text # <<>> /\ First(v.text) # "]"
      BY <1>3, ValueLooks
    <3>2. r.text \o u \in Seq(g.letters)
      BY <1>1, <2>1, ConcatAhead
    <3>3. First(b) = First(v.text)
      BY <2>1, <3>1, <3>2, ConcatAhead
    <3> QED BY <3>1, <3>3
  <2>9. AtFirstElement(fs, st, b, g, goal)
    BY <2>7, <2>8 DEF AtFirstElement
  <2> QED BY <2>2, <2>9 DEF ArrayAhead
<1> QED BY <1>2, <1>3 DEF IsArray

\* The first member of an object, and one behind a comma.
LEMMA MemberBegins ==
    ASSUME NEW g, IsGuide(g), NEW goal, NEW f, NEW s, NEW u,
           NEW k \in g.names, NEW v \in g.values, NEW r \in g.members,
           Expects(f, s, <<"object", Cons(<<k.value, v.value>>, r.value)>>, u, g, goal)
    PROVE  LET b == k.text \o Cons(":", v.text \o (r.text \o u))
           IN  /\ b \in Seq(g.letters)
               /\ AtFirstMember(Append(f, Frame("object", 0)),
                                Append(s, <<"object", <<>>>>), b, g, goal)
<1> DEFINE fs == Append(f, Frame("object", 0))
           st == Append(s, <<"object", <<>>>>)
           b == k.text \o Cons(":", v.text \o (r.text \o u))
           item == <<k.value, v.value>>
<1>1. /\ u \in Seq(g.letters) /\ ":" \in g.letters
      /\ f \in Seq(Frames) /\ s \in Seq(Entries(g))
      /\ k.text \in Seq(g.letters) /\ k.value \in Seq(g.letters)
      /\ v.text \in Seq(g.letters) /\ v.value \in g.domain
      /\ r.text \in Seq(g.letters) /\ r.value \in Seq(Seq(g.letters) \X g.domain)
  BY ExpectedTypes DEF IsGuide, Typed, Marks
<1>2. b \in Seq(g.letters)
  <2>1. r.text \o u \in Seq(g.letters)
    BY <1>1, ConcatAhead
  <2>2. v.text \o (r.text \o u) \in Seq(g.letters)
    BY <1>1, <2>1, ConcatAhead
  <2>3. Cons(":", v.text \o (r.text \o u)) \in Seq(g.letters)
    BY <1>1, <2>2, ConsType
  <2> QED BY <1>1, <2>3, ConcatAhead
<1>3. <<"object", <<>>>> \in Entries(g)
  BY DEF Entries
<1>4. st \in Seq(Entries(g)) /\ HoldsMembers(st, s, <<>>)
  BY <1>1, <1>3 DEF HoldsMembers
<1>5. item \in Seq(g.letters) \X g.domain
  BY <1>1
<1>6. <<>> \o Cons(item, r.value) = Cons(item, r.value)
  <2> HIDE DEF item
  <2> QED BY <1>1, <1>5 DEF Cons
<1>7. Len(<<>>) = 0 /\ <<>> \in Seq(Seq(g.letters) \X g.domain)
  OBVIOUS
<1>8. Frame("object", 0) \in Frames
  BY DEF Frame, Frames
<1>9. Last(fs).count = 0
  <2>1. Last(fs) = Frame("object", 0)
    BY <1>1, <1>8 DEF Last
  <2> QED BY <2>1 DEF Frame
<1>10. Expects(f, s, <<"object", <<>> \o Cons(<<k.value, v.value>>, r.value)>>, u, g, goal)
  BY <1>6
<1> HIDE DEF fs, st, b, item
<1>11. fs = Append(f, Frame("object", Len(<<>>)))
  BY <1>7 DEF fs
<1>12. \A i \in 1..Len(<<>>) : <<>>[i][2] # Nothing
  BY <1>7
<1>13. AtMember(fs, st, b, g, goal)
  BY <1>4, <1>7, <1>10, <1>11, <1>12 DEF AtMember, b
<1>14. AtFirstMember(fs, st, b, g, goal)
  BY <1>9, <1>13 DEF AtFirstMember
<1> QED BY <1>2, <1>14 DEF b, fs, st

LEMMA ObjectBegins ==
    ASSUME NEW g, IsGuide(g), NEW goal, NEW f, NEW s, NEW u, NEW t, NEW of,
           Expects(f, s, <<"object", of>>, u, g, goal), IsObject(t, of, g)
    PROVE  ObjectAhead(f, s, t \o u, g, goal)
<1> DEFINE fs == Append(f, Frame("object", 0))
           st == Append(s, <<"object", <<>>>>)
<1>1. /\ u \in Seq(g.letters) /\ Left \in g.letters /\ Right \in g.letters
      /\ ":" \in g.letters
      /\ f \in Seq(Frames) /\ s \in Seq(Entries(g))
  BY ExpectedTypes DEF IsGuide, Typed, Marks
<1>2. CASE t = <<Left, Right>> /\ of = <<>>
  <2>1. t = Cons(Left, <<Right>>) /\ <<Right>> \in Seq(g.letters)
    BY <1>1, <1>2, PairAhead
  <2>4. t \o u = Cons(Left, <<Right>> \o u)
    BY <1>1, <2>1 DEF Cons
  <2>5. <<Right>> \o u = Cons(Right, u)
    BY <1>1, OneAhead
  <2>6. Cons(Right, u) \in Seq(g.letters)
    BY <1>1, ConsType
  <2>2. t \o u = Cons(Left, Cons(Right, u)) /\ Cons(Right, u) \in Seq(g.letters)
    BY <2>4, <2>5, <2>6
  <2>3. AtFirstMember(fs, st, Cons(Right, u), g, goal)
    BY <1>2 DEF AtFirstMember
  <2> QED BY <2>2, <2>3 DEF ObjectAhead
<1>3. ASSUME NEW k \in g.names, NEW v \in g.values, NEW r \in g.members,
             t = Cons(Left, k.text \o Cons(":", v.text \o r.text)),
             of = Cons(<<k.value, v.value>>, r.value)
      PROVE  ObjectAhead(f, s, t \o u, g, goal)
  <2> DEFINE b == k.text \o Cons(":", v.text \o (r.text \o u))
  <2>1. b \in Seq(g.letters) /\ AtFirstMember(fs, st, b, g, goal)
    BY <1>3, MemberBegins
  <2>2. t \o u = Cons(Left, b)
    <3> DEFINE c == Chained(k.text, ":", v.text, r.text)
    <3>1. /\ k.text \in Seq(g.letters) /\ v.text \in Seq(g.letters)
          /\ r.text \in Seq(g.letters)
      BY DEF IsGuide, Typed
    <3>6. u \in Seq(g.letters) /\ ":" \in g.letters /\ Left \in g.letters
      BY <1>1
    <3>2. c \in Seq(g.letters)
      BY <3>1, <3>6, ChainedType
    <3>7. c \o u = Chained(k.text, ":", v.text, r.text \o u)
      <4>1. ChainedGoesOn(k.text, ":", v.text, r.text, u)
        BY <3>1, <3>6, ChainedAhead
      <4> QED BY <4>1, Zenon DEF ChainedGoesOn
    <3>3. c \o u = b
      BY <3>7 DEF Chained, Chain
    <3>4. t = Cons(Left, c)
      BY <1>3 DEF Chained, Chain
    <3> HIDE DEF b, c
    <3>5. Cons(Left, c) \o u = Cons(Left, c \o u)
      BY <3>2, <3>6, ConsConcat
    <3> QED BY <3>3, <3>4, <3>5
  <2> HIDE DEF b
  <2> QED BY <2>1, <2>2 DEF ObjectAhead
<1> QED BY <1>2, <1>3 DEF IsObject

\* What a value begins with, where one is expected.
LEMMA ValueAhead ==
    ASSUME NEW g, IsGuide(g), NEW goal, NEW f, NEW s, NEW a, AtValue(f, s, a, g, goal)
    PROVE  \/ LiteralAhead(f, s, a, g, goal)
           \/ StringAhead(FALSE, f, s, a, g, goal)
           \/ TokenAhead(FALSE, f, s, a, g, goal)
           \/ NumberAhead(f, s, a, g, goal)
           \/ ArrayAhead(f, s, a, g, goal)
           \/ ObjectAhead(f, s, a, g, goal)
           \/ NothingAhead(f, s, a, g, goal)
<1>1. PICK v \in g.values : \E u : Expects(f, s, v.value, u, g, goal) /\ a = v.text \o u
  BY DEF AtValue
<1>2. PICK u : Expects(f, s, v.value, u, g, goal) /\ a = v.text \o u
  BY <1>1
<1>3. u \in Seq(g.letters)
  BY <1>2, ExpectedTypes
<1>4. CASE v = Means(<<>>, Nothing)
  <2>1. v.text = <<>> /\ v.value = Nothing
    BY <1>4 DEF Means
  <2>2. a = u
    BY <1>2, <1>3, <2>1, NoneAhead
  <2>3. First(a) \in {"end", ",", "]", Right}
    BY <1>2, <2>2, BehindPlace
  <2>4. AtNothing(f, s, a, g, goal)
    BY <1>2, <2>1, <2>2 DEF AtNothing
  <2> QED BY <2>3, <2>4 DEF NothingAhead
<1>5. ASSUME NEW l \in Literals, v = Means(<<l>>, <<l, <<>>>>)
      PROVE  LiteralAhead(f, s, a, g, goal)
  <2>1. v.text = <<l>> /\ v.value = <<l, <<>>>>
    BY <1>5 DEF Means
  <2>2. l \in g.letters
    BY DEF IsGuide, Typed, Marks, Literals
  <2>3. <<l>> \o u = Cons(l, u)
    BY <1>3, <2>2, OneAhead
  <2>4. l \notin {"nothing", "object"}
    BY DEF Literals
  <2>5. Behind(f, Append(s, <<l, <<>>>>), u, g, goal)
    BY <1>2, <2>1, <2>4, BehindScalar
  <2> QED BY <1>2, <1>3, <2>1, <2>3, <2>5 DEF LiteralAhead
<1>6. ASSUME NEW k \in g.names, v = Means(k.text, <<"string", k.value>>)
      PROVE  \/ StringAhead(FALSE, f, s, a, g, goal)
             \/ TokenAhead(FALSE, f, s, a, g, goal)
  <2>1. v.text = k.text /\ v.value = <<"string", k.value>>
    BY <1>6 DEF Means
  <2>2. Behind(f, Append(s, <<"string", k.value>>), u, g, goal)
    BY <1>2, <2>1, BehindScalar
  <2>3. Resumes(FALSE, f, Append(s, <<"string", k.value>>), u, g, goal)
    BY <2>2 DEF Resumes
  <2>4. \/ StringAhead(FALSE, f, s, k.text \o u, g, goal)
        \/ TokenAhead(FALSE, f, s, k.text \o u, g, goal)
    BY <1>3, <2>3, StringBegins
  <2> QED BY <1>2, <2>1, <2>4
<1>7. ASSUME First(v.text) \in {"-", "0", "1"}, v.text # <<>>,
             IsNumber(v.text), v.value = <<"number", v.text>>
      PROVE  NumberAhead(f, s, a, g, goal)
  <2>1. v.text \in Seq(g.letters)
    BY DEF IsGuide, Typed
  <2>2. First(a) = First(v.text)
    BY <1>2, <1>3, <1>7, <2>1, ConcatAhead
  <2>3. Behind(f, Append(s, <<"number", v.text>>), u, g, goal)
    BY <1>2, <1>7, BehindScalar
  <2>4. <<>> \o v.text = v.text /\ <<>> \in Seq(g.letters)
    BY <2>1, NoneAhead
  <2>5. \A e : NumberLeft("minus", v.text, e)
    BY <1>7 DEF NumberLeft
  <2>6. \A e : NumberPlace("minus", <<>>, e, f, s, a, g, goal)
    BY <1>2, <1>3, <2>1, <2>3, <2>4, <2>5 DEF NumberPlace
  <2> QED BY <1>7, <2>2, <2>6 DEF NumberAhead
<1>8. ASSUME IsContainer(v, g)
      PROVE  ArrayAhead(f, s, a, g, goal) \/ ObjectAhead(f, s, a, g, goal)
  <2>1. ASSUME NEW of, IsArray(v.text, of, g), v.value = <<"array", of>>
        PROVE  ArrayAhead(f, s, a, g, goal)
    <3>1. ArrayAhead(f, s, v.text \o u, g, goal)
      BY <1>2, <2>1, ArrayBegins
    <3> QED BY <1>2, <3>1
  <2>2. ASSUME NEW of, IsObject(v.text, of, g), v.value = <<"object", of>>
        PROVE  ObjectAhead(f, s, a, g, goal)
    <3>1. ObjectAhead(f, s, v.text \o u, g, goal)
      BY <1>2, <2>2, ObjectBegins
    <3> QED BY <1>2, <3>1
  <2>3. CASE v = Means(<<"[", "]">>, <<"array", <<>>>>)
    <3>1. v.text = <<"[", "]">> /\ v.value = <<"array", <<>>>>
      BY <2>3 DEF Means
    <3>2. IsArray(v.text, <<>>, g)
      BY <3>1 DEF IsArray
    <3> QED BY <2>1, <3>1, <3>2
  <2>4. CASE v = Means(<<Left, Right>>, <<"object", <<>>>>)
    <3>1. v.text = <<Left, Right>> /\ v.value = <<"object", <<>>>>
      BY <2>4 DEF Means
    <3>2. IsObject(v.text, <<>>, g)
      BY <3>1 DEF IsObject
    <3> QED BY <2>2, <3>1, <3>2
  <2>5. ASSUME NEW w \in g.values, NEW r \in g.elements, w.value # Nothing,
               v = Means(Cons("[", w.text \o r.text), <<"array", Cons(w.value, r.value)>>)
        PROVE  ArrayAhead(f, s, a, g, goal)
    <3> DEFINE of == Cons(w.value, r.value)
    <3>1. v.text = Cons("[", w.text \o r.text) /\ v.value = <<"array", of>>
      BY <2>5 DEF Means
    <3>2. IsArray(v.text, of, g)
      BY <2>5, <3>1 DEF IsArray
    <3> HIDE DEF of
    <3> QED BY <2>1, <3>1, <3>2
  <2>6. ASSUME NEW k \in g.names, NEW w \in g.values, NEW r \in g.members,
               v = Means(Cons(Left, k.text \o Cons(":", w.text \o r.text)),
                         <<"object", Cons(<<k.value, w.value>>, r.value)>>)
        PROVE  ObjectAhead(f, s, a, g, goal)
    <3> DEFINE of == Cons(<<k.value, w.value>>, r.value)
    <3>1. /\ v.text = Cons(Left, k.text \o Cons(":", w.text \o r.text))
          /\ v.value = <<"object", of>>
      BY <2>6 DEF Means
    <3>2. IsObject(v.text, of, g)
      BY <2>6, <3>1 DEF IsObject
    <3> HIDE DEF of
    <3> QED BY <2>2, <3>1, <3>2
  <2> QED BY <1>8, <2>3, <2>4, <2>5, <2>6 DEF IsContainer
<1> QED BY <1>4, <1>5, <1>6, <1>7, <1>8, ValueBegins

\* What a member begins with.
LEMMA MemberAhead ==
    ASSUME NEW g, IsGuide(g), NEW goal, NEW f, NEW s, NEW a, AtMember(f, s, a, g, goal)
    PROVE  \/ StringAhead(TRUE, f, s, a, g, goal)
           \/ TokenAhead(TRUE, f, s, a, g, goal)
<1>1. PICK fs, st, u :
         \E ready \in Seq(Seq(g.letters) \X g.domain),
            k \in g.names, v \in g.values, r \in g.members :
            /\ f = Append(fs, Frame("object", Len(ready)))
            /\ s \in Seq(Entries(g)) /\ HoldsMembers(s, st, ready)
            /\ \A i \in 1..Len(ready) : ready[i][2] # Nothing
            /\ a = k.text \o Cons(":", v.text \o (r.text \o u))
            /\ Expects(fs, st, <<"object", ready \o Cons(<<k.value, v.value>>, r.value)>>,
                       u, g, goal)
  BY DEF AtMember
<1>2. PICK ready \in Seq(Seq(g.letters) \X g.domain),
           k \in g.names, v \in g.values, r \in g.members :
            /\ f = Append(fs, Frame("object", Len(ready)))
            /\ s \in Seq(Entries(g)) /\ HoldsMembers(s, st, ready)
            /\ \A i \in 1..Len(ready) : ready[i][2] # Nothing
            /\ a = k.text \o Cons(":", v.text \o (r.text \o u))
            /\ Expects(fs, st, <<"object", ready \o Cons(<<k.value, v.value>>, r.value)>>,
                       u, g, goal)
  BY <1>1
<1> DEFINE b == v.text \o (r.text \o u)
<1>3. /\ k.value \in Seq(g.letters) /\ v.value \in g.domain
      /\ v.text \in Seq(g.letters) /\ r.text \in Seq(g.letters) /\ ":" \in g.letters
  BY DEF IsGuide, Typed, Marks
<1>4. u \in Seq(g.letters)
  BY <1>2, ExpectedTypes
<1>5. Expects(f, Append(s, <<"string", k.value>>), v.value, r.text \o u, g, goal)
  BY <1>2, <1>3, MemberPlace
<1>6. AtValue(f, Append(s, <<"string", k.value>>), b, g, goal)
  BY <1>5 DEF AtValue
<1>7. b \in Seq(g.letters) /\ Cons(":", b) \in Seq(g.letters)
  <2>1. r.text \o u \in Seq(g.letters)
    BY <1>3, <1>4, ConcatAhead
  <2>2. b \in Seq(g.letters)
    BY <1>3, <2>1, ConcatAhead
  <2> HIDE DEF b
  <2> QED BY <1>3, <2>2, ConsType
<1> HIDE DEF b
<1>8. AtColon(f, Append(s, <<"string", k.value>>), Cons(":", b), g, goal)
  BY <1>6, <1>7 DEF AtColon
<1>9. Resumes(TRUE, f, Append(s, <<"string", k.value>>), Cons(":", b), g, goal)
  BY <1>8 DEF Resumes
<1>10. \/ StringAhead(TRUE, f, s, k.text \o Cons(":", b), g, goal)
       \/ TokenAhead(TRUE, f, s, k.text \o Cons(":", b), g, goal)
  BY <1>7, <1>9, StringBegins
<1> QED BY <1>2, <1>10 DEF b

-----------------------------------------------------------------------------
(* What follows a value in a container.                                    *)

\* The stack s after EndObject or EndArray.
Folded(s, kind, count) ==
    LET size   == IF kind = "object" THEN 2 * count ELSE count
        values == SubSeq(s, Len(s) - size + 1, Len(s))
        made   == IF kind = "object"
                    THEN <<kind, [i \in 1..count |-> <<values[2 * i - 1][2], values[2 * i]>>]>>
                    ELSE <<kind, values>>
    IN  Append(SubSeq(s, 1, Len(s) - size - 1), made)

LEMMA ArrayFolds ==
    ASSUME NEW S, NEW b \in Seq(S), NEW m \in S, NEW vs \in Seq(S)
    PROVE  Folded(Append(b, m) \o vs, "array", Len(vs)) = Append(b, <<"array", vs>>)
<1> DEFINE s == Append(b, m) \o vs
           n == Len(vs)
<1>1. s \in Seq(S) /\ Len(s) = Len(b) + 1 + n /\ n \in Nat /\ Len(b) \in Nat
  OBVIOUS
<1>2. \A i \in 1..Len(b) : s[i] = b[i]
  OBVIOUS
<1>3. \A i \in 1..n : s[Len(b) + 1 + i] = vs[i]
  OBVIOUS
<1> HIDE DEF s
<1>4. SubSeq(s, Len(s) - n + 1, Len(s)) = vs
  <2> DEFINE t == SubSeq(s, Len(s) - n + 1, Len(s))
  <2>1. t \in Seq(S) /\ Len(t) = n
    BY <1>1
  <2>2. \A i \in 1..n : t[i] = s[Len(b) + 1 + i]
    BY <1>1
  <2> HIDE DEF t
  <2>3. t = vs
    BY <1>3, <2>1, <2>2, SeqEqual
  <2> QED BY <2>3 DEF t
<1>5. SubSeq(s, 1, Len(s) - n - 1) = b
  <2> DEFINE t == SubSeq(s, 1, Len(s) - n - 1)
  <2>1. t \in Seq(S) /\ Len(t) = Len(b)
    BY <1>1
  <2>2. \A i \in 1..Len(b) : t[i] = s[i]
    BY <1>1
  <2> HIDE DEF t
  <2>3. t = b
    BY <1>2, <2>1, <2>2, SeqEqual
  <2> QED BY <2>3 DEF t
<1>6. Folded(s, "array", n) = Append(b, <<"array", vs>>)
  BY <1>4, <1>5 DEF Folded
<1> QED BY <1>6 DEF s

FoldsMembers(s, b, ms) ==
    Folded(s, "object", Len(ms)) = Append(b, <<"object", ms>>)

LEMMA ObjectFolds ==
    ASSUME NEW S, NEW N, NEW D, NEW b \in Seq(S), NEW s \in Seq(S),
           NEW ms \in Seq(N \X D), HoldsMembers(s, b, ms)
    PROVE  FoldsMembers(s, b, ms)
<1> DEFINE n == Len(ms)
           h == Len(b)
           values == SubSeq(s, Len(s) - 2 * n + 1, Len(s))
           made == [i \in 1..n |-> <<values[2 * i - 1][2], values[2 * i]>>]
<1>1. n \in Nat /\ h \in Nat /\ Len(s) = h + 1 + 2 * n
  BY DEF HoldsMembers
<1>2. \A i \in 1..h : s[i] = b[i]
  BY DEF HoldsMembers
<1>3. \A i \in 1..n : s[h + 2 * i] = <<"string", ms[i][1]>> /\ s[h + 2 * i + 1] = ms[i][2]
  BY DEF HoldsMembers
<1>4. SubSeq(s, 1, Len(s) - 2 * n - 1) = b
  <2> DEFINE t == SubSeq(s, 1, Len(s) - 2 * n - 1)
  <2>1. t \in Seq(S) /\ Len(t) = Len(b)
    BY <1>1
  <2>2. \A i \in 1..h : t[i] = s[i]
    BY <1>1
  <2> HIDE DEF t
  <2>3. t = b
    BY <1>2, <2>1, <2>2, SeqEqual
  <2> QED BY <2>3 DEF t
<1>5. \A j \in 1..(2 * n) : values[j] = s[h + 1 + j]
  BY <1>1
<1> HIDE DEF values
<1>6. \A i \in 1..n : made[i] = ms[i]
  <2> TAKE i \in 1..n
  <2>1. 2 * i - 1 \in 1..(2 * n) /\ 2 * i \in 1..(2 * n)
        /\ h + 1 + (2 * i - 1) = h + 2 * i /\ h + 1 + 2 * i = h + 2 * i + 1
    BY <1>1
  <2>2. values[2 * i - 1] = s[h + 2 * i] /\ values[2 * i] = s[h + 2 * i + 1]
    BY <1>5, <2>1
  <2>3. values[2 * i - 1][2] = ms[i][1] /\ values[2 * i] = ms[i][2]
    BY <1>3, <2>2
  <2>4. ms[i] \in N \X D
    OBVIOUS
  <2>5. ms[i] = <<ms[i][1], ms[i][2]>>
    BY <2>4
  <2> QED BY <2>3, <2>5
<1>7. made = ms
  <2>1. ms = [i \in 1..n |-> ms[i]]
    OBVIOUS
  <2> QED BY <1>6, <2>1
<1>8. Folded(s, "object", n) = Append(SubSeq(s, 1, Len(s) - 2 * n - 1), <<"object", made>>)
  BY DEF Folded, values
<1> HIDE DEF made
<1> QED BY <1>4, <1>7, <1>8 DEF FoldsMembers

\* One more member is held.
LEMMA MemberHeld ==
    ASSUME NEW S, NEW N, NEW D, NEW b \in Seq(S), NEW below \in Seq(S),
           NEW ready \in Seq(N \X D), NEW name \in N, NEW x \in D,
           <<"string", name>> \in S, x \in S, HoldsMembers(below, b, ready)
    PROVE  HoldsMembers(Append(Append(below, <<"string", name>>), x), b,
                        Append(ready, <<name, x>>))
<1> DEFINE s == Append(Append(below, <<"string", name>>), x)
           ms == Append(ready, <<name, x>>)
           n == Len(ready)
           h == Len(b)
<1>1. /\ n \in Nat /\ h \in Nat /\ Len(below) = h + 1 + 2 * n
      /\ \A i \in 1..h : below[i] = b[i]
      /\ below[h + 1] = <<"object", <<>>>>
      /\ \A i \in 1..n : /\ below[h + 2 * i] = <<"string", ready[i][1]>>
                         /\ below[h + 2 * i + 1] = ready[i][2]
  BY DEF HoldsMembers
<1>2. /\ s \in Seq(S) /\ Len(s) = Len(below) + 2
      /\ s[Len(below) + 1] = <<"string", name>> /\ s[Len(below) + 2] = x
  OBVIOUS
<1>3. \A i \in 1..Len(below) : s[i] = below[i]
  OBVIOUS
<1>4. <<name, x>> \in N \X D
  OBVIOUS
<1>5. ms \in Seq(N \X D) /\ Len(ms) = n + 1 /\ ms[n + 1] = <<name, x>>
  BY <1>4
<1>6. \A i \in 1..n : ms[i] = ready[i]
  BY <1>4
<1> HIDE DEF s, ms
<1>7. Len(s) = h + 1 + 2 * Len(ms)
  BY <1>1, <1>2, <1>5
<1>8. \A i \in 1..h : s[i] = b[i]
  BY <1>1, <1>3
<1>9. s[h + 1] = <<"object", <<>>>>
  BY <1>1, <1>3
<1>10. ASSUME NEW i \in 1..Len(ms)
       PROVE  s[h + 2 * i] = <<"string", ms[i][1]>> /\ s[h + 2 * i + 1] = ms[i][2]
  <2>1. CASE i = n + 1
    <3>1. h + 2 * i = Len(below) + 1 /\ h + 2 * i + 1 = Len(below) + 2
      BY <1>1, <2>1
    <3> QED BY <1>2, <1>5, <2>1, <3>1
  <2>2. CASE i \in 1..n
    <3>1. h + 2 * i \in 1..Len(below) /\ h + 2 * i + 1 \in 1..Len(below)
      BY <1>1, <2>2
    <3>2. s[h + 2 * i] = below[h + 2 * i] /\ s[h + 2 * i + 1] = below[h + 2 * i + 1]
      BY <1>3, <3>1
    <3>3. ms[i] = ready[i]
      BY <1>6, <2>2
    <3> QED BY <1>1, <2>2, <3>2, <3>3
  <2> QED BY <1>1, <1>5, <2>1, <2>2
<1>11. HoldsMembers(s, b, ms)
  BY <1>7, <1>8, <1>9, <1>10 DEF HoldsMembers
<1> QED BY <1>11 DEF s, ms

\* The frame of a container that has got one more value.
LEMMA FrameCounted ==
    ASSUME NEW fs \in Seq(Frames), NEW kind \in {"object", "array"}, NEW n \in Nat
    PROVE  LET f == Append(fs, Frame(kind, n))
           IN  /\ f \in Seq(Frames) /\ f # <<>>
               /\ Front(f) = fs /\ Last(f) = Frame(kind, n)
               /\ Last(f).kind = kind /\ Last(f).count = n
               /\ [f EXCEPT ![Len(f)].count = counted(Last(f))] = Append(fs, Frame(kind, n + 1))
<1> DEFINE f == Append(fs, Frame(kind, n))
           e == [f EXCEPT ![Len(f)].count = counted(Last(f))]
           t == Append(fs, Frame(kind, n + 1))
<1>1. Frame(kind, n) \in Frames /\ Frame(kind, n + 1) \in Frames
  BY DEF Frame, Frames
<1>2. f \in Seq(Frames) /\ f # <<>> /\ Len(f) = Len(fs) + 1
  BY <1>1
<1>3. Front(f) = fs /\ Last(f) = Frame(kind, n)
  BY <1>1 DEF Front, Last
<1>4. Last(f).kind = kind /\ Last(f).count = n
  BY <1>3 DEF Frame
<1>5. e \in Seq(Frames) /\ Len(e) = Len(fs) + 1
  <2>1. counted(Last(f)) = n + 1
    BY <1>4 DEF counted
  <2>2. f[Len(f)] \in Frames
    BY <1>2
  <2>3. [f[Len(f)] EXCEPT !.count = n + 1] \in Frames
    BY <2>2 DEF Frames
  <2> QED BY <1>2, <2>1, <2>3
<1>6. t \in Seq(Frames) /\ Len(t) = Len(fs) + 1
  BY <1>1
<1>7. ASSUME NEW i \in 1..(Len(fs) + 1)
      PROVE  e[i] = t[i]
  <2>1. CASE i = Len(fs) + 1
    <3>1. f[i] = Frame(kind, n)
      BY <1>1, <2>1
    <3>2. e[i] = [f[i] EXCEPT !.count = n + 1]
      BY <1>2, <1>4, <2>1 DEF counted
    <3>3. e[i] = Frame(kind, n + 1)
      BY <3>1, <3>2 DEF Frame
    <3>4. t[i] = Frame(kind, n + 1)
      BY <1>1, <2>1
    <3> QED BY <3>3, <3>4
  <2>2. CASE i \in 1..Len(fs)
    <3>1. f[i] = fs[i] /\ t[i] = fs[i]
      BY <1>1, <2>2
    <3>2. i \in DOMAIN f /\ i # Len(f)
      BY <1>2, <2>2
    <3> HIDE DEF f
    <3>3. e[i] = f[i]
      BY <3>2
    <3> QED BY <3>1, <3>3
  <2> QED BY <2>1, <2>2
<1> HIDE DEF e, t
<1>8. e = t
  BY <1>5, <1>6, <1>7, SeqEqual
<1> QED BY <1>2, <1>3, <1>4, <1>8 DEF e, t

\* An item is put behind others, and one in front of others.
ItemMoves(d, x, t) ==
    d \o Cons(x, t) = Append(d, x) \o t

LEMMA ItemsMove ==
    ASSUME NEW S, NEW d \in Seq(S), NEW x \in S, NEW t \in Seq(S)
    PROVE  ItemMoves(d, x, t)
  BY DEF ItemMoves, Cons

\* One element in front of a text.
FrontStays(c, s, u) ==
    Cons(c, s) \o u = Cons(c, s \o u)

LEMMA FrontsStay ==
    ASSUME NEW S, NEW c \in S, NEW s \in Seq(S), NEW u \in Seq(S)
    PROVE  FrontStays(c, s, u)
  BY DEF FrontStays, Cons

\* Behind an element of an array there is a comma and another one, or the end.
ElementNext(f, s, a, g, goal) ==
    \E b \in Seq(g.letters) :
        /\ a = Cons(",", b)
        /\ AtValue([f EXCEPT ![Len(f)].count = counted(Last(f))], s, b, g, goal)

ContainerEnds(kind, bracket, count, f, s, a, g, goal) ==
    /\ s \in Seq(Entries(g)) /\ count \in Nat /\ Last(f).kind = kind
    /\ kind = "object" => 2 * count <= Len(s)
    /\ \E u \in Seq(g.letters) :
          a = Cons(bracket, u) /\ Behind(Front(f), Folded(s, kind, count), u, g, goal)

LEMMA BehindElement ==
    ASSUME NEW g, IsGuide(g), NEW goal, NEW f, NEW s, NEW a, Behind(f, s, a, g, goal),
           f # <<>>, Last(f).kind = "array"
    PROVE  \/ ElementNext(f, s, a, g, goal)
           \/ ContainerEnds("array", "]", counted(Last(f)), f, s, a, g, goal)
<1>1. PICK st, x : /\ Expects(f, st, x, a, g, goal)
                   /\ s = Append(st, x)
                   /\ x # Nothing
  BY DEF Behind
<1>2. PICK fs, b, u, ready, r : AroundElement(f, st, x, a, g, goal, fs, b, u, ready, r)
  BY <1>1, PlaceInArray
<1>3. /\ ready \in Seq(g.domain) /\ r \in g.elements
      /\ Expects(fs, b, <<"array", ready \o Cons(x, r.value)>>, u, g, goal)
      /\ f = Append(fs, Frame("array", Len(ready)))
      /\ st = Append(b, <<"array", <<>>>>) \o ready
      /\ a = r.text \o u
  BY <1>2 DEF AroundElement
<1> DEFINE all == Append(ready, x)
<1>4. x \in g.domain
  BY <1>1, ExpectedTypes
<1>5. fs \in Seq(Frames) /\ b \in Seq(Entries(g)) /\ u \in Seq(g.letters)
  BY <1>3, ExpectedTypes
<1>6. /\ "," \in g.letters /\ "]" \in g.letters
      /\ r.text \in Seq(g.letters) /\ r.value \in Seq(g.domain)
  BY <1>3 DEF IsGuide, Typed, Marks
<1>7. /\ all \in Seq(g.domain) /\ Len(all) = Len(ready) + 1
      /\ Len(ready) \in Nat
  BY <1>3, <1>4, AppendAhead
<1>8. s = Append(b, <<"array", <<>>>>) \o all
  <2>1. x \in Entries(g) /\ <<"array", <<>>>> \in Entries(g) /\ ready \in Seq(Entries(g))
    BY <1>3, <1>4 DEF Entries
  <2>2. Append(b, <<"array", <<>>>>) \in Seq(Entries(g))
    BY <1>5, <2>1
  <2> DEFINE c == Append(b, <<"array", <<>>>>)
  <2> HIDE DEF c
  <2>3. c \in Seq(Entries(g))
    BY <2>2 DEF c
  <2>4. Append(c \o ready, x) = c \o Append(ready, x)
    BY <2>1, <2>3
  <2> QED BY <1>1, <1>3, <2>4 DEF c
<1>9. /\ Front(f) = fs /\ Last(f).kind = "array" /\ Last(f).count = Len(ready)
      /\ [f EXCEPT ![Len(f)].count = counted(Last(f))] = Append(fs, Frame("array", Len(ready) + 1))
  BY <1>3, <1>5, <1>7, FrameCounted
<1>10. counted(Last(f)) = Len(all)
  BY <1>7, <1>9 DEF counted
<1> HIDE DEF all
<1>11. CASE r = Means(<<"]">>, <<>>)
  <2>1. r.text = <<"]">> /\ r.value = <<>>
    BY <1>11 DEF Means
  <2>2. a = Cons("]", u)
    BY <1>3, <1>5, <1>6, <2>1, OneAhead
  <2>3. ready \o Cons(x, r.value) = all
    <3>1. all \o <<>> = all
      BY <1>7, NoneAhead
    <3>2. ItemMoves(ready, x, r.value)
      BY <1>3, <1>4, <1>6, ItemsMove
    <3>3. ready \o Cons(x, r.value) = all \o r.value
      BY <3>2, Zenon DEF ItemMoves, all
    <3> QED BY <2>1, <3>1, <3>3
  <2>4. Expects(fs, b, <<"array", all>>, u, g, goal)
    BY <1>3, <2>3
  <2>5. Behind(fs, Append(b, <<"array", all>>), u, g, goal)
    BY <2>4, BehindScalar
  <2>6. <<"array", <<>>>> \in Entries(g) /\ all \in Seq(Entries(g))
    BY <1>7 DEF Entries
  <2>7. Folded(s, "array", Len(all)) = Append(b, <<"array", all>>)
    BY <1>5, <1>8, <2>6, ArrayFolds
  <2>8. Behind(Front(f), Folded(s, "array", counted(Last(f))), u, g, goal)
    BY <1>9, <1>10, <2>5, <2>7
  <2>9. s \in Seq(Entries(g)) /\ counted(Last(f)) \in Nat
    <3>1. <<"array", <<>>>> \in Entries(g)
      BY DEF Entries
    <3>2. Append(b, <<"array", <<>>>>) \in Seq(Entries(g))
      BY <1>5, <3>1, AppendAhead
    <3>3. s \in Seq(Entries(g))
      BY <1>8, <2>6, <3>2, ConcatAhead
    <3> QED BY <1>7, <1>10, <3>3
  <2> QED BY <1>5, <2>2, <2>8, <2>9 DEF ContainerEnds
<1>12. ASSUME NEW v \in g.values, NEW q \in g.elements, v.value # Nothing,
              r = Means(Cons(",", v.text \o q.text), Cons(v.value, q.value))
       PROVE  ElementNext(f, s, a, g, goal)
  <2>1. r.text = Cons(",", v.text \o q.text) /\ r.value = Cons(v.value, q.value)
    BY <1>12 DEF Means
  <2>2. /\ v.text \in Seq(g.letters) /\ v.value \in g.domain
        /\ q.text \in Seq(g.letters) /\ q.value \in Seq(g.domain)
    BY DEF IsGuide, Typed
  <2> DEFINE b1 == v.text \o (q.text \o u)
  <2>3. a = Cons(",", b1)
    <3>1. ChainGoesOn(",", v.text, q.text, u)
      BY <1>5, <1>6, <2>2, ChainAhead
    <3>2. Chain(",", v.text, q.text) \o u = Chain(",", v.text, q.text \o u)
      BY <3>1, Zenon DEF ChainGoesOn
    <3> QED BY <1>3, <2>1, <3>2 DEF Chain
  <2>4. b1 \in Seq(g.letters)
    <3>1. q.text \o u \in Seq(g.letters)
      BY <1>5, <2>2, ConcatAhead
    <3> QED BY <2>2, <3>1, ConcatAhead
  <2>5. ready \o Cons(x, r.value) = all \o Cons(v.value, q.value)
    <3>2. ItemMoves(ready, x, r.value)
      BY <1>3, <1>4, <1>6, ItemsMove
    <3>3. ready \o Cons(x, r.value) = all \o r.value
      BY <3>2, Zenon DEF ItemMoves, all
    <3> QED BY <2>1, <3>3
  <2>6. Expects(fs, b, <<"array", all \o Cons(v.value, q.value)>>, u, g, goal)
    BY <1>3, <2>5
  <2>7. Expects(Append(fs, Frame("array", Len(all))), Append(b, <<"array", <<>>>>) \o all,
                v.value, q.text \o u, g, goal)
    BY <1>7, <2>2, <2>6, ElementPlace
  <2>8. Expects([f EXCEPT ![Len(f)].count = counted(Last(f))], s, v.value,
                q.text \o u, g, goal)
    BY <1>7, <1>8, <1>9, <2>7
  <2>9. AtValue([f EXCEPT ![Len(f)].count = counted(Last(f))], s, b1, g, goal)
    BY <2>8 DEF AtValue
  <2> HIDE DEF b1
  <2> QED BY <2>3, <2>4, <2>9 DEF ElementNext
<1>13. IsElements(r, g)
  BY <1>3 DEF IsGuide
<1> QED BY <1>11, <1>12, <1>13 DEF IsElements

\* Behind a member of an object the same.
MemberNext(f, s, a, g, goal) ==
    \E b \in Seq(g.letters) :
        /\ a = Cons(",", b)
        /\ AtMember([f EXCEPT ![Len(f)].count = counted(Last(f))], s, b, g, goal)

LEMMA BehindMember ==
    ASSUME NEW g, IsGuide(g), NEW goal, NEW f, NEW s, NEW a, Behind(f, s, a, g, goal),
           f # <<>>, Last(f).kind = "object"
    PROVE  \/ MemberNext(f, s, a, g, goal)
           \/ ContainerEnds("object", Right, counted(Last(f)), f, s, a, g, goal)
<1>1. PICK st, x : /\ Expects(f, st, x, a, g, goal)
                   /\ s = Append(st, x)
                   /\ x # Nothing
  BY DEF Behind
<1>2. PICK fs, b, u, ready, r, name, below :
         AroundMember(f, st, x, a, g, goal, fs, b, u, ready, r, name, below)
  BY <1>1, PlaceInObject
<1> DEFINE item == <<name, x>>
           all == Append(ready, item)
           N == Seq(g.letters)
           D == g.domain
<1>3. /\ ready \in Seq(N \X D) /\ name \in N /\ r \in g.members /\ below \in Seq(Entries(g))
      /\ Expects(fs, b, <<"object", ready \o Cons(item, r.value)>>, u, g, goal)
      /\ f = Append(fs, Frame("object", Len(ready)))
      /\ HoldsMembers(below, b, ready)
      /\ \A i \in 1..Len(ready) : ready[i][2] # Nothing
      /\ st = Append(below, <<"string", name>>)
      /\ a = r.text \o u
  BY <1>2 DEF AroundMember
<1>4. x \in D
  BY <1>1, ExpectedTypes
<1>5. fs \in Seq(Frames) /\ b \in Seq(Entries(g)) /\ u \in Seq(g.letters)
  BY <1>3, ExpectedTypes
<1>6. /\ "," \in g.letters /\ Right \in g.letters /\ ":" \in g.letters
      /\ r.text \in Seq(g.letters) /\ r.value \in Seq(N \X D)
  BY <1>3 DEF IsGuide, Typed, Marks
<1>7. item \in N \X D /\ item[2] = x
  BY <1>3, <1>4
<1>8. s \in Seq(Entries(g)) /\ HoldsMembers(s, b, all)
  <2>1. x \in Entries(g) /\ <<"string", name>> \in Entries(g)
    BY <1>3, <1>4 DEF Entries
  <2>2. HoldsMembers(Append(Append(below, <<"string", name>>), x), b, all)
    <3> HIDE DEF N, D
    <3> QED BY <1>3, <1>4, <1>5, <2>1, MemberHeld
  <2>3. Append(Append(below, <<"string", name>>), x) \in Seq(Entries(g))
    BY <1>3, <2>1
  <2> QED BY <1>1, <1>3, <2>2, <2>3
<1> HIDE DEF item
<1>9. /\ all \in Seq(N \X D) /\ Len(all) = Len(ready) + 1
      /\ Len(ready) \in Nat
  <2> HIDE DEF N, D
  <2> QED BY <1>3, <1>7, AppendAhead
<1>10. \A i \in 1..Len(all) : all[i][2] # Nothing
  <2> TAKE i \in 1..Len(all)
  <2>1. CASE i = Len(ready) + 1
    <3>1. all[i] = item
      BY <1>3, <1>7, <1>9, <2>1
    <3> QED BY <1>1, <1>7, <3>1
  <2>2. CASE i \in 1..Len(ready)
    <3>1. all[i] = ready[i]
      BY <1>3, <1>7, <2>2
    <3> QED BY <1>3, <2>2, <3>1
  <2> QED BY <1>9, <2>1, <2>2
<1>11. /\ Front(f) = fs /\ Last(f).kind = "object" /\ Last(f).count = Len(ready)
       /\ [f EXCEPT ![Len(f)].count = counted(Last(f))]
            = Append(fs, Frame("object", Len(ready) + 1))
  BY <1>3, <1>5, <1>9, FrameCounted
<1>12. counted(Last(f)) = Len(all)
  BY <1>9, <1>11 DEF counted
<1> HIDE DEF all
<1>13. CASE r = Means(<<Right>>, <<>>)
  <2>1. r.text = <<Right>> /\ r.value = <<>>
    BY <1>13 DEF Means
  <2>2. a = Cons(Right, u)
    BY <1>3, <1>5, <1>6, <2>1, OneAhead
  <2>3. ready \o Cons(item, r.value) = all
    <3>1. all \o <<>> = all
      BY <1>9, NoneAhead
    <3>2. ItemMoves(ready, item, r.value)
      <4> HIDE DEF N, D
      <4> QED BY <1>3, <1>6, <1>7, ItemsMove
    <3>3. ready \o Cons(item, r.value) = all \o r.value
      BY <3>2, Zenon DEF ItemMoves, all
    <3> QED BY <2>1, <3>1, <3>3
  <2> DEFINE y == <<"object", all>>
  <2>4. Expects(fs, b, y, u, g, goal)
    BY <1>3, <2>3
  <2>5. y # Nothing /\ Whole(y)
    BY <1>10 DEF Nothing, Whole
  <2> HIDE DEF y
  <2>6. Behind(fs, Append(b, y), u, g, goal)
    BY <2>4, <2>5 DEF Behind
  <2>7. Folded(s, "object", Len(all)) = Append(b, y)
    <3>1. b \in Seq(Entries(g)) /\ s \in Seq(Entries(g)) /\ HoldsMembers(s, b, all)
      BY <1>5, <1>8
    <3>2. all \in Seq(N \X D)
      BY <1>9
    <3> HIDE DEF N, D
    <3>3. Folded(s, "object", Len(all)) = Append(b, <<"object", all>>)
      <4>1. FoldsMembers(s, b, all)
        BY <3>1, <3>2, ObjectFolds
      <4> QED BY <4>1, Zenon DEF FoldsMembers
    <3> QED BY <3>3 DEF y
  <2>8. Behind(Front(f), Folded(s, "object", counted(Last(f))), u, g, goal)
    BY <1>11, <1>12, <2>6, <2>7
  <2>9. counted(Last(f)) \in Nat /\ 2 * counted(Last(f)) <= Len(s)
    <3>1. Len(s) = Len(b) + 1 + 2 * Len(all)
      BY <1>8 DEF HoldsMembers
    <3>2. Len(b) \in Nat
      BY <1>5
    <3> QED BY <1>9, <1>12, <3>1, <3>2
  <2> QED BY <1>5, <1>8, <2>2, <2>8, <2>9 DEF ContainerEnds
<1>14. ASSUME NEW k \in g.names, NEW v \in g.values, NEW q \in g.members,
              r = Means(Cons(",", k.text \o Cons(":", v.text \o q.text)),
                        Cons(<<k.value, v.value>>, q.value))
       PROVE  MemberNext(f, s, a, g, goal)
  <2> DEFINE next == <<k.value, v.value>>
             c == Chained(k.text, ":", v.text, q.text)
             b1 == k.text \o Cons(":", v.text \o (q.text \o u))
  <2>1. r.text = Cons(",", c) /\ r.value = Cons(next, q.value)
    BY <1>14 DEF Means, Chained, Chain
  <2>2. /\ k.text \in Seq(g.letters) /\ k.value \in Seq(g.letters)
        /\ v.text \in Seq(g.letters) /\ v.value \in g.domain
        /\ q.text \in Seq(g.letters) /\ q.value \in Seq(N \X D)
    BY DEF IsGuide, Typed
  <2>3. next \in N \X D
    BY <2>2
  <2>4. c \in Seq(g.letters)
    BY <1>6, <2>2, ChainedType
  <2>5. c \o u = b1
    <3>1. ChainedGoesOn(k.text, ":", v.text, q.text, u)
      BY <1>5, <1>6, <2>2, ChainedAhead
    <3>2. c \o u = Chained(k.text, ":", v.text, q.text \o u)
      BY <3>1, Zenon DEF ChainedGoesOn
    <3> QED BY <3>2 DEF Chained, Chain
  <2> HIDE DEF c, b1, next
  <2>6. b1 \in Seq(g.letters)
    BY <1>5, <2>4, <2>5, ConcatAhead
  <2>7. a = Cons(",", b1)
    <3>2. FrontStays(",", c, u)
      BY <1>5, <1>6, <2>4, FrontsStay
    <3>1. Cons(",", c) \o u = Cons(",", c \o u)
      BY <3>2, Zenon DEF FrontStays
    <3> QED BY <1>3, <2>1, <2>5, <3>1
  <2>8. ready \o Cons(item, r.value) = all \o Cons(next, q.value)
    <3>2. ItemMoves(ready, item, r.value)
      <4> HIDE DEF N, D
      <4> QED BY <1>3, <1>6, <1>7, ItemsMove
    <3>3. ready \o Cons(item, r.value) = all \o r.value
      BY <3>2, Zenon DEF ItemMoves, all
    <3> QED BY <2>1, <3>3
  <2>9. Expects(fs, b, <<"object", all \o Cons(<<k.value, v.value>>, q.value)>>, u, g, goal)
    BY <1>3, <2>8 DEF next
  <2>10. Append(fs, Frame("object", Len(all))) = [f EXCEPT ![Len(f)].count = counted(Last(f))]
    BY <1>9, <1>11
  <2>11. AtMember(Append(fs, Frame("object", Len(all))), s, b1, g, goal)
    BY <1>8, <1>9, <1>10, <2>9 DEF AtMember, b1
  <2> QED BY <2>6, <2>7, <2>10, <2>11 DEF MemberNext
<1>15. IsMembers(r, g)
  BY <1>3 DEF IsGuide
<1> QED BY <1>13, <1>14, <1>15 DEF IsMembers

-----------------------------------------------------------------------------
(* What is ahead, by what is seen of it.                                   *)

\* The element c is ahead.
Sees(c, a, g) ==
    a # <<>> /\ First(a) = c /\ Tail(a) \in Seq(g.letters)

LEMMA SeesFirst ==
    ASSUME NEW g, NEW c \in g.letters, NEW u \in Seq(g.letters), NEW a, a = Cons(c, u)
    PROVE  Sees(c, a, g) /\ Tail(a) = u
  BY ConsAhead DEF Sees

LEMMA SeesLiteral ==
    ASSUME NEW g, IsGuide(g), NEW goal, NEW f, NEW s, NEW a,
           LiteralAhead(f, s, a, g, goal)
    PROVE  \E l \in Literals :
              Sees(l, a, g) /\ Behind(f, Append(s, <<l, <<>>>>), Tail(a), g, goal)
<1>1. PICK l \in Literals, u \in Seq(g.letters) :
         a = Cons(l, u) /\ Behind(f, Append(s, <<l, <<>>>>), u, g, goal)
  BY DEF LiteralAhead
<1>2. l \in g.letters
  BY DEF IsGuide, Typed, Marks, Literals
<1>3. Sees(l, a, g) /\ Tail(a) = u
  BY <1>1, <1>2, SeesFirst
<1> QED BY <1>1, <1>3

LEMMA SeesString ==
    ASSUME NEW g, IsGuide(g), NEW goal, NEW f, NEW s, NEW a, NEW key,
           StringAhead(key, f, s, a, g, goal)
    PROVE  Sees("quote", a, g) /\ AtString(<<>>, key, f, s, Tail(a), g, goal)
<1>1. PICK b \in Seq(g.letters) :
         a = Cons("quote", b) /\ AtString(<<>>, key, f, s, b, g, goal)
  BY DEF StringAhead
<1>2. "quote" \in g.letters
  BY DEF IsGuide, Typed, Marks
<1> QED BY <1>1, <1>2, SeesFirst

LEMMA SeesToken ==
    ASSUME NEW g, IsGuide(g), NEW goal, NEW f, NEW s, NEW a, NEW key,
           TokenAhead(key, f, s, a, g, goal)
    PROVE  Sees("token", a, g) /\ Resumes(key, f, Append(s, Token), Tail(a), g, goal)
<1>1. PICK b \in Seq(g.letters) :
         a = Cons("token", b) /\ Resumes(key, f, Append(s, Token), b, g, goal)
  BY DEF TokenAhead
<1>2. "token" \in g.letters
  BY DEF IsGuide, Typed, Marks
<1> QED BY <1>1, <1>2, SeesFirst

LEMMA SeesArray ==
    ASSUME NEW g, IsGuide(g), NEW goal, NEW f, NEW s, NEW a,
           ArrayAhead(f, s, a, g, goal)
    PROVE  /\ Sees("[", a, g)
           /\ AtFirstElement(Append(f, Frame("array", 0)), Append(s, <<"array", <<>>>>),
                             Tail(a), g, goal)
<1>1. PICK b \in Seq(g.letters) :
         /\ a = Cons("[", b)
         /\ AtFirstElement(Append(f, Frame("array", 0)), Append(s, <<"array", <<>>>>),
                           b, g, goal)
  BY DEF ArrayAhead
<1>2. "[" \in g.letters
  BY DEF IsGuide, Typed, Marks
<1> QED BY <1>1, <1>2, SeesFirst

LEMMA SeesObject ==
    ASSUME NEW g, IsGuide(g), NEW goal, NEW f, NEW s, NEW a,
           ObjectAhead(f, s, a, g, goal)
    PROVE  /\ Sees(Left, a, g)
           /\ AtFirstMember(Append(f, Frame("object", 0)), Append(s, <<"object", <<>>>>),
                            Tail(a), g, goal)
<1>1. PICK b \in Seq(g.letters) :
         /\ a = Cons(Left, b)
         /\ AtFirstMember(Append(f, Frame("object", 0)), Append(s, <<"object", <<>>>>),
                          b, g, goal)
  BY DEF ObjectAhead
<1>2. Left \in g.letters
  BY DEF IsGuide, Typed, Marks
<1> QED BY <1>1, <1>2, SeesFirst

LEMMA SeesColon ==
    ASSUME NEW g, IsGuide(g), NEW goal, NEW f, NEW s, NEW a, AtColon(f, s, a, g, goal)
    PROVE  Sees(":", a, g) /\ AtValue(f, s, Tail(a), g, goal)
<1>1. PICK b : /\ a = Cons(":", b)
               /\ AtValue(f, s, b, g, goal) /\ b \in Seq(g.letters)
  BY DEF AtColon
<1>2. ":" \in g.letters
  BY DEF IsGuide, Typed, Marks
<1> QED BY <1>1, <1>2, SeesFirst

LEMMA SeesElement ==
    ASSUME NEW g, IsGuide(g), NEW goal, NEW f, NEW s, NEW a, ElementNext(f, s, a, g, goal)
    PROVE  /\ Sees(",", a, g)
           /\ AtValue([f EXCEPT ![Len(f)].count = counted(Last(f))], s, Tail(a), g, goal)
<1>1. PICK b \in Seq(g.letters) :
         /\ a = Cons(",", b)
         /\ AtValue([f EXCEPT ![Len(f)].count = counted(Last(f))], s, b, g, goal)
  BY DEF ElementNext
<1>2. "," \in g.letters
  BY DEF IsGuide, Typed, Marks
<1>3. Sees(",", a, g) /\ Tail(a) = b
  BY <1>1, <1>2, SeesFirst
<1> QED BY <1>1, <1>3

LEMMA SeesMember ==
    ASSUME NEW g, IsGuide(g), NEW goal, NEW f, NEW s, NEW a, MemberNext(f, s, a, g, goal)
    PROVE  /\ Sees(",", a, g)
           /\ AtMember([f EXCEPT ![Len(f)].count = counted(Last(f))], s, Tail(a), g, goal)
<1>1. PICK b \in Seq(g.letters) :
         /\ a = Cons(",", b)
         /\ AtMember([f EXCEPT ![Len(f)].count = counted(Last(f))], s, b, g, goal)
  BY DEF MemberNext
<1>2. "," \in g.letters
  BY DEF IsGuide, Typed, Marks
<1>3. Sees(",", a, g) /\ Tail(a) = b
  BY <1>1, <1>2, SeesFirst
<1> QED BY <1>1, <1>3

LEMMA SeesEnd ==
    ASSUME NEW g, IsGuide(g), NEW goal, NEW f, NEW s, NEW a, NEW kind,
           NEW bracket \in {"]", Right}, NEW count,
           ContainerEnds(kind, bracket, count, f, s, a, g, goal)
    PROVE  /\ s \in Seq(Entries(g)) /\ count \in Nat /\ Last(f).kind = kind
           /\ kind = "object" => 2 * count <= Len(s)
           /\ Sees(bracket, a, g)
           /\ Behind(Front(f), Folded(s, kind, count), Tail(a), g, goal)
<1>1. PICK u \in Seq(g.letters) :
         a = Cons(bracket, u) /\ Behind(Front(f), Folded(s, kind, count), u, g, goal)
  BY DEF ContainerEnds
<1>2. bracket \in g.letters
  BY DEF IsGuide, Typed, Marks
<1>3. Sees(bracket, a, g) /\ Tail(a) = u
  BY <1>1, <1>2, SeesFirst
<1> QED BY <1>1, <1>3 DEF ContainerEnds

\* An empty container.
LEMMA SeesNoElements ==
    ASSUME NEW g, IsGuide(g), NEW goal, NEW f, NEW s, NEW a,
           AtFirstElement(f, s, a, g, goal)
    PROVE  \/ AtValue(f, s, a, g, goal) /\ First(a) # "]"
           \/ ContainerEnds("array", "]", 0, f, s, a, g, goal)
<1> SUFFICES ASSUME NEW fs, NEW st, NEW u,
                    f = Append(fs, Frame("array", 0)),
                    s = Append(st, <<"array", <<>>>>),
                    a = Cons("]", u),
                    Expects(fs, st, <<"array", <<>>>>, u, g, goal)
             PROVE  ContainerEnds("array", "]", 0, f, s, a, g, goal)
  BY DEF AtFirstElement
<1>1. fs \in Seq(Frames) /\ st \in Seq(Entries(g)) /\ u \in Seq(g.letters)
  BY ExpectedTypes
<1>2. Front(f) = fs /\ Last(f).kind = "array"
  <2>2. Front(f) = fs
    BY <1>1, FrameCounted
  <2>3. Last(f) = Frame("array", 0)
    <3>1. Frame("array", 0) \in Frames
      BY DEF Frame, Frames
    <3> QED BY <1>1, <3>1 DEF Last
  <2>1. Front(f) = fs /\ Last(f) = Frame("array", 0)
    BY <2>2, <2>3
  <2> QED BY <2>1 DEF Frame
<1>3. Behind(fs, Append(st, <<"array", <<>>>>), u, g, goal)
  BY BehindScalar
<1>4. <<"array", <<>>>> \in Entries(g)
  BY DEF Entries
<1>5. s \in Seq(Entries(g)) /\ s \o <<>> = s /\ Len(<<>>) = 0 /\ <<>> \in Seq(Entries(g))
  BY <1>1, <1>4, AppendAhead, NoneAhead
<1>6. Folded(s, "array", 0) = Append(st, <<"array", <<>>>>)
  BY <1>1, <1>4, <1>5, ArrayFolds
<1> QED BY <1>1, <1>2, <1>3, <1>5, <1>6 DEF ContainerEnds

LEMMA SeesNoMembers ==
    ASSUME NEW g, IsGuide(g), NEW goal, NEW f, NEW s, NEW a,
           AtFirstMember(f, s, a, g, goal)
    PROVE  \/ AtMember(f, s, a, g, goal)
           \/ ContainerEnds("object", Right, 0, f, s, a, g, goal)
<1> SUFFICES ASSUME NEW fs, NEW st, NEW u,
                    f = Append(fs, Frame("object", 0)),
                    s = Append(st, <<"object", <<>>>>),
                    a = Cons(Right, u),
                    Expects(fs, st, <<"object", <<>>>>, u, g, goal)
             PROVE  ContainerEnds("object", Right, 0, f, s, a, g, goal)
  BY DEF AtFirstMember
<1>1. fs \in Seq(Frames) /\ st \in Seq(Entries(g)) /\ u \in Seq(g.letters)
  BY ExpectedTypes
<1>2. Front(f) = fs /\ Last(f).kind = "object"
  <2>2. Front(f) = fs
    BY <1>1, FrameCounted
  <2>3. Last(f) = Frame("object", 0)
    <3>1. Frame("object", 0) \in Frames
      BY DEF Frame, Frames
    <3> QED BY <1>1, <3>1 DEF Last
  <2>1. Front(f) = fs /\ Last(f) = Frame("object", 0)
    BY <2>2, <2>3
  <2> QED BY <2>1 DEF Frame
<1> DEFINE x == <<"object", <<>>>>
<1>3. x # Nothing /\ Whole(x)
  BY DEF Whole, Nothing
<1>4. x \in Entries(g)
  BY DEF Entries
<1> HIDE DEF x
<1>5. Behind(fs, Append(st, x), u, g, goal)
  BY <1>3 DEF Behind, x
<1>6. s \in Seq(Entries(g)) /\ HoldsMembers(s, st, <<>>)
  BY <1>1, <1>4 DEF x, HoldsMembers
<1>7. Len(<<>>) = 0 /\ <<>> \in Seq(Seq(g.letters) \X g.domain)
  OBVIOUS
<1>8. FoldsMembers(s, st, <<>>)
  BY <1>1, <1>6, <1>7, ObjectFolds
<1>9. Folded(s, "object", 0) = Append(st, x)
  BY <1>7, <1>8, Zenon DEF FoldsMembers, x
<1>10. 2 * 0 <= Len(s)
  BY <1>6
<1> QED BY <1>1, <1>2, <1>5, <1>6, <1>9, <1>10 DEF ContainerEnds

-----------------------------------------------------------------------------
(* Where the reader is, place by place.                                    *)

LEMMA FollowsValue ==
    ASSUME NEW place \in {"document", "value"}, NEW f, NEW s, NEW ch, NEW key, NEW e, NEW ro,
           NEW a, NEW g, NEW goal, AtValue(f, s, a, g, goal)
    PROVE  FollowsAt(place, f, s, ch, key, e, 0, ro, a, g, goal)
  BY DEF FollowsAt, StringPlaces, NumberPlaces

LEMMA FollowsBehind ==
    ASSUME NEW f, NEW s, NEW ch, NEW key, NEW e, NEW ro,
           NEW a, NEW g, NEW goal, Behind(f, s, a, g, goal)
    PROVE  FollowsAt("behindValue", f, s, ch, key, e, 0, ro, a, g, goal)
  BY DEF FollowsAt, StringPlaces, NumberPlaces

LEMMA FollowsFirstMember ==
    ASSUME NEW f, NEW s, NEW ch, NEW key, NEW e, NEW ro,
           NEW a, NEW g, NEW goal, AtFirstMember(f, s, a, g, goal)
    PROVE  FollowsAt("firstMember", f, s, ch, key, e, 0, ro, a, g, goal)
  BY DEF FollowsAt, StringPlaces, NumberPlaces

LEMMA FollowsMember ==
    ASSUME NEW f, NEW s, NEW ch, NEW key, NEW e, NEW ro,
           NEW a, NEW g, NEW goal, AtMember(f, s, a, g, goal)
    PROVE  FollowsAt("member", f, s, ch, key, e, 0, ro, a, g, goal)
  BY DEF FollowsAt, StringPlaces, NumberPlaces

LEMMA FollowsColon ==
    ASSUME NEW f, NEW s, NEW ch, NEW key, NEW e, NEW ro,
           NEW a, NEW g, NEW goal, AtColon(f, s, a, g, goal)
    PROVE  FollowsAt("colon", f, s, ch, key, e, 0, ro, a, g, goal)
  BY DEF FollowsAt, StringPlaces, NumberPlaces

LEMMA FollowsFirstElement ==
    ASSUME NEW f, NEW s, NEW ch, NEW key, NEW e, NEW ro,
           NEW a, NEW g, NEW goal, AtFirstElement(f, s, a, g, goal)
    PROVE  FollowsAt("firstElement", f, s, ch, key, e, 0, ro, a, g, goal)
  BY DEF FollowsAt, StringPlaces, NumberPlaces

LEMMA FollowsString ==
    ASSUME NEW place \in StringPlaces, NEW f, NEW s, NEW ch, NEW key, NEW e, NEW ro,
           NEW a, NEW g, NEW goal, StringPlace(place, ch, key, f, s, a, g, goal)
    PROVE  FollowsAt(place, f, s, ch, key, e, 0, ro, a, g, goal)
  BY DEF FollowsAt, StringPlaces, NumberPlaces

LEMMA FollowsMinus ==
    ASSUME NEW f, NEW s, NEW ch, NEW key, NEW e, NEW ro,
           NEW a, NEW g, NEW goal,
           NumberPlace("minus", <<>>, e, f, s, a, g, goal) \/ AtNothing(f, s, a, g, goal)
    PROVE  FollowsAt("minus", f, s, ch, key, e, 0, ro, a, g, goal)
  BY DEF FollowsAt, StringPlaces, NumberPlaces

LEMMA FollowsInteger ==
    ASSUME NEW f, NEW s, NEW ch, NEW key, NEW e, NEW ro,
           NEW a, NEW g, NEW goal,
           NumberPlace("integer", ch, e, f, s, a, g, goal) \/ AtNothing(f, s, a, g, goal)
    PROVE  FollowsAt("integer", f, s, ch, key, e, 0, ro, a, g, goal)
  BY DEF FollowsAt, StringPlaces, NumberPlaces

LEMMA FollowsNumber ==
    ASSUME NEW place \in NumberPlaces \ {"minus", "integer"},
           NEW f, NEW s, NEW ch, NEW key, NEW e, NEW ro,
           NEW a, NEW g, NEW goal, NumberPlace(place, ch, e, f, s, a, g, goal)
    PROVE  FollowsAt(place, f, s, ch, key, e, 0, ro, a, g, goal)
  BY DEF FollowsAt, StringPlaces, NumberPlaces

LEMMA FollowsDone ==
    ASSUME NEW f, NEW s, NEW ch, NEW key, NEW e, NEW er, NEW ro,
           NEW a, NEW g, NEW goal, Done(er, ro, g, goal)
    PROVE  FollowsAt("done", f, s, ch, key, e, er, ro, a, g, goal)
  BY DEF FollowsAt, StringPlaces, NumberPlaces

\* A parse error, where a value ought to be and is none.
LEMMA NothingFails ==
    ASSUME NEW g, NEW goal, NEW a \in Seq(g.letters), NEW code,
           AtNothing(frames, stack, a, g, goal), fail(code), code # 0
    PROVE  GoesOn(a, g, goal)
<1>1. pc' = "done" /\ error' = code /\ src' = src
  BY DEF fail, stream
<1>2. Done(error', root', g, goal)
  BY <1>1 DEF Done, AtNothing
<1>3. FollowsAt(pc', frames', stack', chars', isKey', exponent', error', root', a, g, goal)
  BY <1>1, <1>2, FollowsDone
<1> QED BY <1>1, <1>3 DEF GoesOn, Follows

\* A step that takes one element, and one that takes none.
LEMMA TakesOne ==
    ASSUME NEW g, NEW goal, NEW a, NEW c, Sees(c, a, g), Take,
           FollowsAt(pc', frames', stack', chars', isKey', exponent', error', root',
                     Tail(a), g, goal)
    PROVE  GoesOn(a, g, goal)
  BY TakeSteps DEF GoesOn, Follows, Sees

LEMMA TakesNone ==
    ASSUME NEW g, NEW goal, NEW a \in Seq(g.letters), src' = src,
           FollowsAt(pc', frames', stack', chars', isKey', exponent', error', root',
                     a, g, goal)
    PROVE  GoesOn(a, g, goal)
  BY DEF GoesOn, Follows

-----------------------------------------------------------------------------
(* The steps of the reader.                                                *)

LEMMA ValueSeen ==
    ASSUME NEW g, IsGuide(g), NEW goal, NEW f, NEW s, NEW a, AtValue(f, s, a, g, goal)
    PROVE  First(a) \in Literals \union {"quote", "token", "-", "0", "1", "[", Left, "end",
                                         ",", "]", Right}
<1>1. CASE LiteralAhead(f, s, a, g, goal)
  <2>1. PICK l \in Literals : Sees(l, a, g)
    BY <1>1, SeesLiteral
  <2> QED BY <2>1 DEF Sees
<1>2. CASE StringAhead(FALSE, f, s, a, g, goal)
  BY <1>2, SeesString DEF Sees
<1>3. CASE TokenAhead(FALSE, f, s, a, g, goal)
  BY <1>3, SeesToken DEF Sees
<1>4. CASE NumberAhead(f, s, a, g, goal)
  BY <1>4 DEF NumberAhead
<1>5. CASE ArrayAhead(f, s, a, g, goal)
  BY <1>5, SeesArray DEF Sees
<1>6. CASE ObjectAhead(f, s, a, g, goal)
  BY <1>6, SeesObject DEF Sees
<1>7. CASE NothingAhead(f, s, a, g, goal)
  BY <1>7 DEF NothingAhead
<1> QED BY <1>1, <1>2, <1>3, <1>4, <1>5, <1>6, <1>7, ValueAhead

LEMMA MemberSeen ==
    ASSUME NEW g, IsGuide(g), NEW goal, NEW f, NEW s, NEW a, AtMember(f, s, a, g, goal)
    PROVE  First(a) \in {"quote", "token"}
<1>1. CASE StringAhead(TRUE, f, s, a, g, goal)
  BY <1>1, SeesString DEF Sees
<1>2. CASE TokenAhead(TRUE, f, s, a, g, goal)
  BY <1>2, SeesToken DEF Sees
<1> QED BY <1>1, <1>2, MemberAhead

\* Where white space is skipped, there is none.
LEMMA NoBlanks ==
    ASSUME NEW g, NEW goal, NEW a, Reads(a, g, goal), pc \in SkipsBefore
    PROVE  Peek # "newline"
<1>0. IsGuide(g) /\ Peek = First(a) /\ error = 0
  BY DEF Reads, Follows, FollowsAt, SkipsBefore
<1> DEFINE f == frames
           s == stack
           seen == First(a) \in Literals \union {"quote", "token", "-", "0", "1", "[", Left,
                                                 "end", ",", ":", "]", Right}
<1>1. CASE pc \in {"document", "value"}
  <2>1. AtValue(f, s, a, g, goal)
    BY <1>1 DEF Reads, Follows, FollowsAt
  <2>2. seen
    BY <1>0, <2>1, ValueSeen
  <2> QED BY <1>0, <2>2, Curly DEF OtherMarks, Literals
<1>2. CASE pc = "behindValue"
  <2>1. Behind(f, s, a, g, goal)
    BY <1>2 DEF Reads, Follows, FollowsAt
  <2>2. PICK st, x : Expects(f, st, x, a, g, goal)
    BY <2>1 DEF Behind
  <2>3. seen
    BY <1>0, <2>2, BehindPlace
  <2> QED BY <1>0, <2>3, Curly DEF OtherMarks, Literals
<1>3. CASE pc = "member"
  <2>1. AtMember(f, s, a, g, goal)
    BY <1>3 DEF Reads, Follows, FollowsAt
  <2> QED BY <1>0, <2>1, MemberSeen
<1>4. CASE pc = "firstMember"
  <2>1. AtFirstMember(f, s, a, g, goal)
    BY <1>4 DEF Reads, Follows, FollowsAt
  <2>2. CASE AtMember(f, s, a, g, goal)
    BY <1>0, <2>2, MemberSeen
  <2>3. CASE ContainerEnds("object", Right, 0, f, s, a, g, goal)
    <3>1. First(a) = Right
      BY <1>0, <2>3, SeesEnd DEF Sees
    <3> QED BY <1>0, <3>1, Curly DEF OtherMarks
  <2> QED BY <1>0, <2>1, <2>2, <2>3, SeesNoMembers
<1>5. CASE pc = "colon"
  <2>1. AtColon(f, s, a, g, goal)
    BY <1>5 DEF Reads, Follows, FollowsAt
  <2>2. First(a) = ":"
    BY <1>0, <2>1, SeesColon DEF Sees
  <2> QED BY <1>0, <2>2
<1>6. CASE pc = "firstElement"
  <2>1. AtFirstElement(f, s, a, g, goal)
    BY <1>6 DEF Reads, Follows, FollowsAt
  <2>2. CASE AtValue(f, s, a, g, goal)
    <3>1. seen
      BY <1>0, <2>2, ValueSeen
    <3> QED BY <1>0, <3>1, Curly DEF OtherMarks, Literals
  <2>3. CASE ContainerEnds("array", "]", 0, f, s, a, g, goal)
    <3>1. First(a) = "]"
      BY <1>0, <2>3, SeesEnd DEF Sees
    <3> QED BY <1>0, <3>1
  <2> QED BY <1>0, <2>1, <2>2, <2>3, SeesNoElements
<1> QED BY <1>1, <1>2, <1>3, <1>4, <1>5, <1>6 DEF SkipsBefore

LEMMA SkipWhitespaceFollows ==
    ASSUME NEW g, NEW goal, NEW a, Reads(a, g, goal), SkipWhitespace
    PROVE  GoesOn(a, g, goal)
  BY NoBlanks DEF SkipWhitespace

LEMMA ParseFollows ==
    ASSUME NEW g, NEW goal, NEW a, Reads(a, g, goal), Parse
    PROVE  GoesOn(a, g, goal)
<1>1. /\ IsGuide(g) /\ Peek = First(a) /\ error = 0 /\ a \in Seq(g.letters)
      /\ AtValue(frames, stack, a, g, goal)
  BY DEF Reads, Follows, FollowsAt, Parse, at
<1>2. CASE Peek = "end" /\ fail(kParseErrorDocumentEmpty)
  <2>1. First(a) = "end"
    BY <1>1, <1>2
  <2>2. NothingAhead(frames, stack, a, g, goal)
    <3>1. CASE LiteralAhead(frames, stack, a, g, goal)
      BY <1>1, <2>1, <3>1, SeesLiteral DEF Sees, Literals
    <3>2. CASE StringAhead(FALSE, frames, stack, a, g, goal)
      BY <1>1, <2>1, <3>2, SeesString DEF Sees
    <3>3. CASE TokenAhead(FALSE, frames, stack, a, g, goal)
      BY <1>1, <2>1, <3>3, SeesToken DEF Sees
    <3>4. CASE NumberAhead(frames, stack, a, g, goal)
      BY <2>1, <3>4 DEF NumberAhead
    <3>5. CASE ArrayAhead(frames, stack, a, g, goal)
      BY <1>1, <2>1, <3>5, SeesArray DEF Sees
    <3>6. CASE ObjectAhead(frames, stack, a, g, goal)
      BY <1>1, <2>1, <3>6, SeesObject, Curly DEF Sees, OtherMarks
    <3> QED BY <1>1, <3>1, <3>2, <3>3, <3>4, <3>5, <3>6, ValueAhead
  <2>3. kParseErrorDocumentEmpty # 0
    BY DEF kParseErrorDocumentEmpty
  <2> QED BY <1>1, <1>2, <2>2, <2>3, NothingFails DEF NothingAhead
<1>3. CASE goto("value")
  <2>1. pc' = "value" /\ frames' = frames /\ stack' = stack /\ error' = 0 /\ src' = src
    BY <1>1, <1>3 DEF goto, stream
  <2>2. FollowsAt(pc', frames', stack', chars', isKey', exponent', error', root', a, g, goal)
    BY <1>1, <2>1, FollowsValue
  <2> QED BY <1>1, <2>1, <2>2, TakesNone
<1> QED BY <1>2, <1>3 DEF Parse

LEMMA parseEndFollows ==
    ASSUME NEW g, NEW goal, NEW a, Reads(a, g, goal), parseEnd
    PROVE  GoesOn(a, g, goal)
<1>1. /\ IsGuide(g) /\ Peek = First(a) /\ error = 0 /\ a \in Seq(g.letters)
      /\ Behind(frames, stack, a, g, goal) /\ frames = <<>>
  BY DEF Reads, Follows, FollowsAt, parseEnd, at
<1>2. PICK st, x : /\ Expects(<<>>, st, x, a, g, goal) /\ stack = Append(st, x)
                   /\ x # Nothing /\ Whole(x)
  BY <1>1 DEF Behind
<1>3. st = <<>> /\ x = goal /\ a = <<>>
  BY <1>2, RootPlace
<1>4. Peek = "end" /\ stack = <<goal>>
  BY <1>1, <1>2, <1>3 DEF First
<1>5. /\ root' = Last(stack) /\ pc' = "done" /\ error' = 0 /\ src' = src
  BY <1>1, <1>4 DEF parseEnd, stream
<1>6. root' = goal
  BY <1>4, <1>5 DEF Last
<1>7. Done(error', root', g, goal)
  BY <1>2, <1>3, <1>5, <1>6 DEF Done
<1>8. FollowsAt(pc', frames', stack', chars', isKey', exponent', error', root', a, g, goal)
  BY <1>5, <1>7, FollowsDone
<1> QED BY <1>1, <1>5, <1>8, TakesNone

LEMMA ValueSees ==
    ASSUME NEW g, IsGuide(g), NEW goal, NEW f, NEW s, NEW a, AtValue(f, s, a, g, goal)
    PROVE  /\ First(a) \in Literals => LiteralAhead(f, s, a, g, goal)
           /\ First(a) = "quote" => StringAhead(FALSE, f, s, a, g, goal)
           /\ First(a) = "token" => TokenAhead(FALSE, f, s, a, g, goal)
           /\ First(a) = "[" => ArrayAhead(f, s, a, g, goal)
           /\ First(a) = Left => ObjectAhead(f, s, a, g, goal)
           /\ First(a) \notin Literals \union {"quote", "token", "[", Left} =>
                 NumberAhead(f, s, a, g, goal) \/ NothingAhead(f, s, a, g, goal)
<1>1. CASE LiteralAhead(f, s, a, g, goal)
  <2>1. PICK l \in Literals : Sees(l, a, g)
    BY <1>1, SeesLiteral
  <2>2. First(a) \in Literals
    BY <2>1 DEF Sees
  <2> QED BY <1>1, <2>2, Curly DEF OtherMarks, Literals
<1>2. CASE StringAhead(FALSE, f, s, a, g, goal)
  <2>1. First(a) = "quote"
    BY <1>2, SeesString DEF Sees
  <2> QED BY <1>2, <2>1, Curly DEF OtherMarks, Literals
<1>3. CASE TokenAhead(FALSE, f, s, a, g, goal)
  <2>1. First(a) = "token"
    BY <1>3, SeesToken DEF Sees
  <2> QED BY <1>3, <2>1, Curly DEF OtherMarks, Literals
<1>4. CASE NumberAhead(f, s, a, g, goal)
  <2>1. First(a) \in {"-", "0", "1"}
    BY <1>4 DEF NumberAhead
  <2> QED BY <1>4, <2>1, Curly DEF OtherMarks, Literals
<1>5. CASE ArrayAhead(f, s, a, g, goal)
  <2>1. First(a) = "["
    BY <1>5, SeesArray DEF Sees
  <2> QED BY <1>5, <2>1, Curly DEF OtherMarks, Literals
<1>6. CASE ObjectAhead(f, s, a, g, goal)
  <2>1. First(a) = Left
    BY <1>6, SeesObject DEF Sees
  <2> QED BY <1>6, <2>1, Curly DEF OtherMarks, Literals
<1>7. CASE NothingAhead(f, s, a, g, goal)
  <2>1. First(a) \in {"end", ",", "]", Right}
    BY <1>7 DEF NothingAhead
  <2> QED BY <1>7, <2>1, Curly DEF OtherMarks, Literals
<1> QED BY <1>1, <1>2, <1>3, <1>4, <1>5, <1>6, <1>7, ValueAhead

LEMMA ParseLiteralFollows ==
    ASSUME NEW g, NEW goal, NEW a, Reads(a, g, goal), ParseLiteral
    PROVE  GoesOn(a, g, goal)
<1>1. /\ IsGuide(g) /\ Peek = First(a) /\ error = 0
      /\ AtValue(frames, stack, a, g, goal)
  BY DEF Reads, Follows, FollowsAt, ParseLiteral, at
<1>2. LiteralAhead(frames, stack, a, g, goal)
  BY <1>1, ValueSees DEF ParseLiteral
<1>3. PICK l \in Literals :
         Sees(l, a, g) /\ Behind(frames, Append(stack, <<l, <<>>>>), Tail(a), g, goal)
  BY <1>1, <1>2, SeesLiteral
<1>4. Peek = l
  BY <1>1, <1>3 DEF Sees
<1>5. /\ Take /\ pc' = "behindValue" /\ stack' = Append(stack, <<Peek, <<>>>>)
      /\ frames' = frames /\ error' = 0
  BY <1>1 DEF ParseLiteral, event
<1>6. Behind(frames', stack', Tail(a), g, goal)
  BY <1>3, <1>4, <1>5
<1>7. FollowsAt(pc', frames', stack', chars', isKey', exponent', error', root',
                Tail(a), g, goal)
  BY <1>5, <1>6, FollowsBehind
<1> QED BY <1>3, <1>5, <1>7, TakesOne

\* A string begins, as a value or as a name.
LEMMA beginStringFollows ==
    ASSUME NEW g, NEW goal, NEW a, IsGuide(g), error = 0, NEW key \in BOOLEAN,
           StringAhead(key, frames, stack, a, g, goal), beginString(key)
    PROVE  GoesOn(a, g, goal)
<1>1. Sees("quote", a, g) /\ AtString(<<>>, key, frames, stack, Tail(a), g, goal)
  BY SeesString
<1>2. /\ Take /\ pc' = "string" /\ chars' = <<>> /\ isKey' = key
      /\ frames' = frames /\ stack' = stack /\ error' = 0
  BY DEF beginString
<1>3. <<>> \in Seq(g.letters)
  OBVIOUS
<1>4. StringPlace("string", <<>>, key, frames, stack, Tail(a), g, goal)
  BY <1>1, <1>3 DEF StringPlace
<1>5. FollowsAt("string", frames, stack, <<>>, key, exponent', 0, root', Tail(a), g, goal)
  BY <1>4, FollowsString DEF StringPlaces
<1>6. FollowsAt(pc', frames', stack', chars', isKey', exponent', error', root',
                Tail(a), g, goal)
  BY <1>2, <1>5
<1> QED BY <1>1, <1>2, <1>6, TakesOne

\* Behind a string the reader is at the colon or behind a value.
LEMMA ResumesFollows ==
    ASSUME NEW key \in BOOLEAN, NEW f, NEW s, NEW ch, NEW k, NEW e, NEW ro,
           NEW a, NEW g, NEW goal, Resumes(key, f, s, a, g, goal)
    PROVE  FollowsAt(IF key THEN "colon" ELSE "behindValue", f, s, ch, k, e, 0, ro, a, g, goal)
<1>1. CASE key
  <2>1. AtColon(f, s, a, g, goal)
    BY <1>1 DEF Resumes
  <2> QED BY <1>1, <2>1, FollowsColon
<1>2. CASE ~key
  <2>1. Behind(f, s, a, g, goal)
    BY <1>2 DEF Resumes
  <2> QED BY <1>2, <2>1, FollowsBehind
<1> QED BY <1>1, <1>2

LEMMA wholeStringFollows ==
    ASSUME NEW g, NEW goal, NEW a, IsGuide(g), error = 0, NEW key \in BOOLEAN,
           TokenAhead(key, frames, stack, a, g, goal), wholeString(key)
    PROVE  GoesOn(a, g, goal)
<1>1. Sees("token", a, g) /\ Resumes(key, frames, Append(stack, Token), Tail(a), g, goal)
  BY SeesToken
<1>2. /\ Take /\ pc' = (IF key THEN "colon" ELSE "behindValue")
      /\ frames' = frames /\ stack' = Append(stack, Token) /\ error' = 0
  BY DEF wholeString, event
<1>3. FollowsAt(IF key THEN "colon" ELSE "behindValue", frames, Append(stack, Token),
                chars', isKey', exponent', 0, root', Tail(a), g, goal)
  BY <1>1, ResumesFollows
<1>4. FollowsAt(pc', frames', stack', chars', isKey', exponent', error', root',
                Tail(a), g, goal)
  BY <1>2, <1>3
<1> QED BY <1>1, <1>2, <1>4, TakesOne

LEMMA ParseValueIs ==
    ParseValue =>
        /\ at("value")
        /\ \/ beginString(FALSE)
           \/ wholeString(FALSE)
           \/ begin("object", Left, "firstMember")
           \/ begin("array", "[", "firstElement")
           \/ /\ Peek \notin Literals \union {"quote", "token", Left, "["}
              /\ goto("minus")
  BY Zenon DEF ParseValue, Left

LEMMA ParseValueFollows ==
    ASSUME NEW g, NEW goal, NEW a, Reads(a, g, goal), ParseValue
    PROVE  GoesOn(a, g, goal)
<1>1. /\ IsGuide(g) /\ Peek = First(a) /\ error = 0 /\ a \in Seq(g.letters)
      /\ AtValue(frames, stack, a, g, goal)
  BY ParseValueIs DEF Reads, Follows, FollowsAt, at
<1>2. CASE beginString(FALSE)
  <2>1. StringAhead(FALSE, frames, stack, a, g, goal)
    BY <1>1, <1>2, ValueSees DEF beginString
  <2> QED BY <1>1, <1>2, <2>1, beginStringFollows
<1>3. CASE wholeString(FALSE)
  <2>1. TokenAhead(FALSE, frames, stack, a, g, goal)
    BY <1>1, <1>3, ValueSees DEF wholeString
  <2> QED BY <1>1, <1>3, <2>1, wholeStringFollows
<1>4. CASE begin("object", Left, "firstMember")
  <2>1. ObjectAhead(frames, stack, a, g, goal)
    BY <1>1, <1>4, ValueSees DEF begin
  <2>2. /\ Sees(Left, a, g)
        /\ AtFirstMember(Append(frames, Frame("object", 0)),
                         Append(stack, <<"object", <<>>>>), Tail(a), g, goal)
    BY <1>1, <2>1, SeesObject
  <2>3. /\ Take /\ pc' = "firstMember" /\ stack' = Append(stack, <<"object", <<>>>>)
        /\ frames' = Append(frames, Frame("object", 0)) /\ error' = 0
    BY <1>1, <1>4 DEF begin, event, Frame
  <2>4. AtFirstMember(frames', stack', Tail(a), g, goal)
    BY <2>2, <2>3
  <2>5. FollowsAt(pc', frames', stack', chars', isKey', exponent', error', root',
                  Tail(a), g, goal)
    BY <2>3, <2>4, FollowsFirstMember
  <2> QED BY <2>2, <2>3, <2>5, TakesOne
<1>5. CASE begin("array", "[", "firstElement")
  <2>1. ArrayAhead(frames, stack, a, g, goal)
    BY <1>1, <1>5, ValueSees DEF begin
  <2>2. /\ Sees("[", a, g)
        /\ AtFirstElement(Append(frames, Frame("array", 0)),
                          Append(stack, <<"array", <<>>>>), Tail(a), g, goal)
    BY <1>1, <2>1, SeesArray
  <2>3. /\ Take /\ pc' = "firstElement" /\ stack' = Append(stack, <<"array", <<>>>>)
        /\ frames' = Append(frames, Frame("array", 0)) /\ error' = 0
    BY <1>1, <1>5 DEF begin, event, Frame
  <2>4. AtFirstElement(frames', stack', Tail(a), g, goal)
    BY <2>2, <2>3
  <2>5. FollowsAt(pc', frames', stack', chars', isKey', exponent', error', root',
                  Tail(a), g, goal)
    BY <2>3, <2>4, FollowsFirstElement
  <2> QED BY <2>2, <2>3, <2>5, TakesOne
<1>6. CASE Peek \notin Literals \union {"quote", "token", Left, "["} /\ goto("minus")
  <2>1. NumberAhead(frames, stack, a, g, goal) \/ NothingAhead(frames, stack, a, g, goal)
    <3>1. First(a) \notin Literals \union {"quote", "token", "[", Left}
      BY <1>1, <1>6
    <3> QED BY <1>1, <3>1, ValueSees
  <2>2. \/ NumberPlace("minus", <<>>, exponent', frames, stack, a, g, goal)
        \/ AtNothing(frames, stack, a, g, goal)
    BY <2>1 DEF NumberAhead, NothingAhead
  <2>3. pc' = "minus" /\ frames' = frames /\ stack' = stack /\ error' = 0 /\ src' = src
    BY <1>1, <1>6 DEF goto, stream
  <2>4. FollowsAt("minus", frames, stack, chars', isKey', exponent', 0, root', a, g, goal)
    BY <2>2, FollowsMinus
  <2>5. FollowsAt(pc', frames', stack', chars', isKey', exponent', error', root',
                  a, g, goal)
    BY <2>3, <2>4
  <2> QED BY <1>1, <2>3, <2>5, TakesNone
<1> QED BY <1>2, <1>3, <1>4, <1>5, <1>6, ParseValueIs

\* EndObject and EndArray.
LEMMA EndFolds ==
    ASSUME NEW S, stack \in Seq(S), NEW kind \in {"object", "array"}, NEW count \in Nat,
           kind = "object" => 2 * count <= Len(stack), endContainer(kind, count)
    PROVE  /\ stack' = Folded(stack, kind, count)
           /\ frames' = Front(frames) /\ pc' = "behindValue"
<1>1. CASE kind = "array"
  BY <1>1 DEF endContainer, top, Folded
<1>2. CASE kind = "object"
  <2> DEFINE n == 2 * count
             values == SubSeq(stack, Len(stack) - n + 1, Len(stack))
  <2>1. values \in Seq(S) /\ Len(values) = 2 * count
    BY <1>2
  <2>2. n = 2 * count /\ top(n) = values
    BY DEF top
  <2>3. Len(values) \div 2 = count
    BY <2>1
  <2> HIDE DEF n, values
  <2>4. \A i \in 1..count : pairs(values)[i] = <<values[2 * i - 1], values[2 * i]>>
    BY <2>3 DEF pairs
  <2>5. [i \in 1..count |-> <<pairs(values)[i][1][2], pairs(values)[i][2]>>]
          = [i \in 1..count |-> <<values[2 * i - 1][2], values[2 * i]>>]
    BY <2>4
  <2>6. stack' = Append(SubSeq(stack, 1, Len(stack) - n - 1),
                        <<kind, [i \in 1..count |->
                                    <<pairs(values)[i][1][2], pairs(values)[i][2]>>]>>)
    BY <1>2, <2>2 DEF endContainer
  <2>7. Folded(stack, kind, count) =
          Append(SubSeq(stack, 1, Len(stack) - n - 1),
                 <<kind, [i \in 1..count |-> <<values[2 * i - 1][2], values[2 * i]>>]>>)
    BY <1>2 DEF Folded, n, values
  <2>8. stack' = Folded(stack, kind, count)
    BY <2>5, <2>6, <2>7
  <2> QED BY <2>8 DEF endContainer
<1> QED BY <1>1, <1>2

LEMMA endFollows ==
    ASSUME NEW g, NEW goal, NEW a, IsGuide(g), error = 0, NEW kind \in {"object", "array"},
           NEW bracket \in {"]", Right}, NEW count,
           ContainerEnds(kind, bracket, count, frames, stack, a, g, goal),
           end(bracket, count)
    PROVE  GoesOn(a, g, goal)
<1>1. /\ stack \in Seq(Entries(g)) /\ count \in Nat /\ Last(frames).kind = kind
      /\ kind = "object" => 2 * count <= Len(stack)
      /\ Sees(bracket, a, g)
      /\ Behind(Front(frames), Folded(stack, kind, count), Tail(a), g, goal)
  BY SeesEnd
<1>2. Take /\ endContainer(kind, count) /\ error' = 0
  BY <1>1 DEF end
<1>3. /\ stack' = Folded(stack, kind, count)
      /\ frames' = Front(frames) /\ pc' = "behindValue"
  BY <1>1, <1>2, EndFolds
<1>4. Behind(frames', stack', Tail(a), g, goal)
  BY <1>1, <1>3
<1>5. FollowsAt(pc', frames', stack', chars', isKey', exponent', error', root',
                Tail(a), g, goal)
  BY <1>2, <1>3, <1>4, FollowsBehind
<1> QED BY <1>1, <1>2, <1>5, TakesOne

LEMMA ParseObjectIs ==
    ParseObject =>
        \/ /\ at("firstMember")
           /\ end(Right, 0) \/ (Peek # Right /\ goto("member"))
        \/ /\ at("member")
           /\ \/ beginString(TRUE)
              \/ wholeString(TRUE)
              \/ /\ Peek \notin {"quote", "token"}
                 /\ fail(kParseErrorObjectMissName)
        \/ /\ at("colon")
           /\ \/ /\ Peek = ":"
                 /\ Take
                 /\ pc' = "value"
                 /\ UNCHANGED <<alphabet, frames, number, isKey, stack, error, root>>
              \/ Peek # ":" /\ fail(kParseErrorObjectMissColon)
        \/ /\ at("behindValue")
           /\ frames # <<>> /\ Last(frames).kind = "object"
           /\ \/ continue("member")
              \/ end(Right, counted(Last(frames)))
              \/ Peek \notin {",", Right}
  BY Zenon DEF ParseObject, Right

LEMMA ParseObjectFollows ==
    ASSUME NEW g, NEW goal, NEW a, Reads(a, g, goal), ParseObject
    PROVE  GoesOn(a, g, goal)
<1>1. IsGuide(g) /\ Peek = First(a) /\ a \in Seq(g.letters)
  BY DEF Reads, Follows
<1>2. CASE at("firstMember") /\ (end(Right, 0) \/ (Peek # Right /\ goto("member")))
  <2>1. error = 0 /\ AtFirstMember(frames, stack, a, g, goal)
    BY <1>2 DEF Reads, Follows, FollowsAt, at
  <2>2. CASE ContainerEnds("object", Right, 0, frames, stack, a, g, goal)
    <3>1. First(a) = Right
      BY <1>1, <2>2, SeesEnd DEF Sees
    <3>2. end(Right, 0)
      BY <1>1, <1>2, <3>1
    <3> QED BY <1>1, <2>1, <2>2, <3>2, endFollows
  <2>3. CASE AtMember(frames, stack, a, g, goal)
    <3>1. First(a) \in {"quote", "token"}
      BY <1>1, <2>3, MemberSeen
    <3>2. Peek # Right
      BY <1>1, <3>1, Curly DEF OtherMarks
    <3>3. goto("member")
      BY <1>2, <3>2 DEF end
    <3>4. pc' = "member" /\ frames' = frames /\ stack' = stack /\ error' = 0 /\ src' = src
      BY <2>1, <3>3 DEF goto, stream
    <3>5. FollowsAt("member", frames, stack, chars', isKey', exponent', 0, root', a, g, goal)
      BY <2>3, FollowsMember
    <3>6. FollowsAt(pc', frames', stack', chars', isKey', exponent', error', root',
                    a, g, goal)
      BY <3>4, <3>5
    <3> QED BY <1>1, <3>4, <3>6, TakesNone
  <2> QED BY <1>1, <2>1, <2>2, <2>3, SeesNoMembers
<1>3. CASE /\ at("member")
           /\ \/ beginString(TRUE)
              \/ wholeString(TRUE)
              \/ /\ Peek \notin {"quote", "token"}
                 /\ fail(kParseErrorObjectMissName)
  <2>1. error = 0 /\ AtMember(frames, stack, a, g, goal)
    BY <1>3 DEF Reads, Follows, FollowsAt, at
  <2>2. CASE StringAhead(TRUE, frames, stack, a, g, goal)
    <3>1. Peek = "quote"
      BY <1>1, <2>2, SeesString DEF Sees
    <3>2. beginString(TRUE)
      BY <1>3, <3>1 DEF wholeString
    <3> QED BY <1>1, <2>1, <2>2, <3>2, beginStringFollows
  <2>3. CASE TokenAhead(TRUE, frames, stack, a, g, goal)
    <3>1. Peek = "token"
      BY <1>1, <2>3, SeesToken DEF Sees
    <3>2. wholeString(TRUE)
      BY <1>3, <3>1 DEF beginString
    <3> QED BY <1>1, <2>1, <2>3, <3>2, wholeStringFollows
  <2> QED BY <1>1, <2>1, <2>2, <2>3, MemberAhead
<1>4. CASE /\ at("colon")
           /\ \/ /\ Peek = ":"
                 /\ Take
                 /\ pc' = "value"
                 /\ UNCHANGED <<alphabet, frames, number, isKey, stack, error, root>>
              \/ Peek # ":" /\ fail(kParseErrorObjectMissColon)
  <2>1. error = 0 /\ AtColon(frames, stack, a, g, goal)
    BY <1>4 DEF Reads, Follows, FollowsAt, at
  <2>2. Sees(":", a, g) /\ AtValue(frames, stack, Tail(a), g, goal)
    BY <1>1, <2>1, SeesColon
  <2>3. Peek = ":"
    BY <1>1, <2>2 DEF Sees
  <2>4. Take /\ pc' = "value" /\ frames' = frames /\ stack' = stack /\ error' = 0
    BY <1>4, <2>1, <2>3
  <2>5. FollowsAt("value", frames, stack, chars', isKey', exponent', 0, root',
                  Tail(a), g, goal)
    BY <2>2, FollowsValue
  <2>6. FollowsAt(pc', frames', stack', chars', isKey', exponent', error', root',
                  Tail(a), g, goal)
    BY <2>4, <2>5
  <2> QED BY <2>2, <2>4, <2>6, TakesOne
<1>5. CASE /\ at("behindValue")
           /\ frames # <<>> /\ Last(frames).kind = "object"
           /\ \/ continue("member")
              \/ end(Right, counted(Last(frames)))
              \/ Peek \notin {",", Right}
  <2>1. error = 0 /\ Behind(frames, stack, a, g, goal)
    BY <1>5 DEF Reads, Follows, FollowsAt, at
  <2>2. CASE MemberNext(frames, stack, a, g, goal)
    <3>1. /\ Sees(",", a, g)
          /\ AtMember([frames EXCEPT ![Len(frames)].count = counted(Last(frames))], stack,
                      Tail(a), g, goal)
      BY <1>1, <2>2, SeesMember
    <3>2. Peek = ","
      BY <1>1, <3>1 DEF Sees
    <3>3. Right # ","
      BY Curly DEF OtherMarks
    <3>4. continue("member")
      BY <1>5, <3>2, <3>3 DEF end
    <3>5. /\ Take /\ pc' = "member" /\ stack' = stack /\ error' = 0
          /\ frames' = [frames EXCEPT ![Len(frames)].count = counted(Last(frames))]
      BY <2>1, <3>4 DEF continue
    <3>6. AtMember(frames', stack', Tail(a), g, goal)
      BY <3>1, <3>5
    <3>7. FollowsAt(pc', frames', stack', chars', isKey', exponent', error', root',
                    Tail(a), g, goal)
      BY <3>5, <3>6, FollowsMember
    <3> QED BY <3>1, <3>5, <3>7, TakesOne
  <2>3. CASE ContainerEnds("object", Right, counted(Last(frames)), frames, stack, a, g, goal)
    <3>1. Peek = Right
      BY <1>1, <2>3, SeesEnd DEF Sees
    <3>2. end(Right, counted(Last(frames)))
      <4>1. Right # ","
        BY Curly DEF OtherMarks
      <4> QED BY <1>5, <3>1, <4>1 DEF continue
    <3> QED BY <1>1, <2>1, <2>3, <3>2, endFollows
  <2> QED BY <1>1, <1>5, <2>1, <2>2, <2>3, BehindMember
<1> QED BY <1>2, <1>3, <1>4, <1>5, ParseObjectIs

LEMMA ParseArrayFollows ==
    ASSUME NEW g, NEW goal, NEW a, Reads(a, g, goal), ParseArray
    PROVE  GoesOn(a, g, goal)
<1>1. IsGuide(g) /\ Peek = First(a) /\ a \in Seq(g.letters)
  BY DEF Reads, Follows
<1>2. CASE at("firstElement") /\ (end("]", 0) \/ (Peek # "]" /\ goto("value")))
  <2>1. error = 0 /\ AtFirstElement(frames, stack, a, g, goal)
    BY <1>2 DEF Reads, Follows, FollowsAt, at
  <2>2. CASE ContainerEnds("array", "]", 0, frames, stack, a, g, goal)
    <3>1. First(a) = "]"
      BY <1>1, <2>2, SeesEnd DEF Sees
    <3>2. end("]", 0)
      BY <1>1, <1>2, <3>1
    <3> QED BY <1>1, <2>1, <2>2, <3>2, endFollows
  <2>3. CASE AtValue(frames, stack, a, g, goal) /\ First(a) # "]"
    <3>1. goto("value")
      BY <1>1, <1>2, <2>3 DEF end
    <3>2. pc' = "value" /\ frames' = frames /\ stack' = stack /\ error' = 0 /\ src' = src
      BY <2>1, <3>1 DEF goto, stream
    <3>3. FollowsAt("value", frames, stack, chars', isKey', exponent', 0, root', a, g, goal)
      BY <2>3, FollowsValue
    <3>4. FollowsAt(pc', frames', stack', chars', isKey', exponent', error', root',
                    a, g, goal)
      BY <3>2, <3>3
    <3> QED BY <1>1, <3>2, <3>4, TakesNone
  <2> QED BY <1>1, <2>1, <2>2, <2>3, SeesNoElements
<1>3. CASE /\ at("behindValue")
           /\ frames # <<>> /\ Last(frames).kind = "array"
           /\ \/ continue("value")
              \/ end("]", counted(Last(frames)))
              \/ Peek \notin {",", "]"}
  <2>1. error = 0 /\ Behind(frames, stack, a, g, goal)
    BY <1>3 DEF Reads, Follows, FollowsAt, at
  <2>2. CASE ElementNext(frames, stack, a, g, goal)
    <3>1. /\ Sees(",", a, g)
          /\ AtValue([frames EXCEPT ![Len(frames)].count = counted(Last(frames))], stack,
                     Tail(a), g, goal)
      BY <1>1, <2>2, SeesElement
    <3>2. Peek = ","
      BY <1>1, <3>1 DEF Sees
    <3>4. continue("value")
      BY <1>3, <3>2 DEF end
    <3>5. /\ Take /\ pc' = "value" /\ stack' = stack /\ error' = 0
          /\ frames' = [frames EXCEPT ![Len(frames)].count = counted(Last(frames))]
      BY <2>1, <3>4 DEF continue
    <3>6. AtValue(frames', stack', Tail(a), g, goal)
      BY <3>1, <3>5
    <3>7. FollowsAt(pc', frames', stack', chars', isKey', exponent', error', root',
                    Tail(a), g, goal)
      BY <3>5, <3>6, FollowsValue
    <3> QED BY <3>1, <3>5, <3>7, TakesOne
  <2>3. CASE ContainerEnds("array", "]", counted(Last(frames)), frames, stack, a, g, goal)
    <3>1. Peek = "]"
      BY <1>1, <2>3, SeesEnd DEF Sees
    <3>2. end("]", counted(Last(frames)))
      BY <1>3, <3>1 DEF continue
    <3> QED BY <1>1, <2>1, <2>3, <3>2, endFollows
  <2> QED BY <1>1, <1>3, <2>1, <2>2, <2>3, BehindElement
<1> QED BY <1>2, <1>3 DEF ParseArray

-----------------------------------------------------------------------------
(* In a string.                                                            *)

\* One more character.
LEMMA CharacterPut ==
    ASSUME NEW g, IsGuide(g), NEW goal, NEW f, NEW s, NEW key, NEW u,
           NEW ch \in Seq(g.letters), NEW c \in g.letters, NEW r \in g.strings,
           Continues(ch, Cons(c, r.value), u, key, f, s, g, goal)
    PROVE  /\ Append(ch, c) \in Seq(g.letters)
           /\ r.text \o u \in Seq(g.letters)
           /\ AtString(Append(ch, c), key, f, s, r.text \o u, g, goal)
<1>1. r.text \in Seq(g.letters) /\ r.value \in Seq(g.letters) /\ u \in Seq(g.letters)
  BY DEF IsGuide, Typed, Continues
<1>2. ItemMoves(ch, c, r.value)
  BY <1>1, ItemsMove
<1>3. ch \o Cons(c, r.value) = Append(ch, c) \o r.value
  BY <1>2, Zenon DEF ItemMoves
<1>4. Continues(Append(ch, c), r.value, u, key, f, s, g, goal)
  BY <1>3 DEF Continues
<1>5. AtString(Append(ch, c), key, f, s, r.text \o u, g, goal)
  BY <1>4 DEF AtString
<1>6. Append(ch, c) \in Seq(g.letters)
  BY AppendAhead
<1>7. r.text \o u \in Seq(g.letters)
  BY <1>1, ConcatAhead
<1> QED BY <1>5, <1>6, <1>7

StringSeen(ch, key, f, s, a, g, goal) ==
    \/ /\ Sees("quote", a, g)
       /\ Resumes(key, f, Append(s, <<"string", ch>>), Tail(a), g, goal)
    \/ \E c \in g.letters \ {"quote", "backslash", "newline"} :
          /\ Sees(c, a, g) /\ Append(ch, c) \in Seq(g.letters)
          /\ AtString(Append(ch, c), key, f, s, Tail(a), g, goal)
    \/ Sees("backslash", a, g) /\ AtEscape(ch, key, f, s, Tail(a), g, goal)

LEMMA StringSees ==
    ASSUME NEW g, IsGuide(g), NEW goal, NEW f, NEW s, NEW a, NEW key,
           NEW ch \in Seq(g.letters), AtString(ch, key, f, s, a, g, goal)
    PROVE  StringSeen(ch, key, f, s, a, g, goal)
<1>1. PICK x \in g.strings : \E u : a = x.text \o u /\ Continues(ch, x.value, u, key, f, s, g, goal)
  BY DEF AtString
<1>2. PICK u : a = x.text \o u /\ Continues(ch, x.value, u, key, f, s, g, goal)
  BY <1>1
<1>3. u \in Seq(g.letters)
  BY <1>2 DEF Continues
<1>4. {"quote", "backslash", "n", "u0000", "uD83D", "uDE00", "newline", "nul", "wide"}
        \subseteq g.letters
  BY DEF IsGuide, Typed, Marks
<1>5. CASE x = Means(<<"quote">>, <<>>)
  <2>1. x.text = <<"quote">> /\ x.value = <<>>
    BY <1>5 DEF Means
  <2>2. a = Cons("quote", u)
    BY <1>2, <1>3, <1>4, <2>1, OneAhead
  <2>3. Sees("quote", a, g) /\ Tail(a) = u
    BY <1>3, <1>4, <2>2, SeesFirst
  <2>4. ch \o <<>> = ch
    BY NoneAhead
  <2>5. Resumes(key, f, Append(s, <<"string", ch>>), u, g, goal)
    BY <1>2, <2>1, <2>4 DEF Continues
  <2> QED BY <2>3, <2>5 DEF StringSeen
<1>6. ASSUME NEW c \in g.letters, NEW t \in Seq(g.letters), x.text = Cons(c, t)
      PROVE  Sees(c, a, g) /\ Tail(a) = t \o u
  <2>1. FrontStays(c, t, u)
    BY <1>3, FrontsStay
  <2> DEFINE b == t \o u
  <2>2. a = Cons(c, b)
    <3>1. a = Cons(c, t) \o u
      BY <1>2, <1>6
    <3> QED BY <2>1, <3>1, Zenon DEF FrontStays
  <2>3. b \in Seq(g.letters)
    BY <1>3, ConcatAhead
  <2>4. Sees(c, a, g) /\ Tail(a) = b
    <3> HIDE DEF b
    <3> QED BY <2>2, <2>3, SeesFirst
  <2> QED BY <2>4
<1>7. ASSUME NEW r \in g.strings, NEW c \in g.letters \ {"quote", "backslash", "newline"},
             x = Means(Cons(c, r.text), Cons(c, r.value))
      PROVE  StringSeen(ch, key, f, s, a, g, goal)
  <2>1. x.text = Cons(c, r.text) /\ x.value = Cons(c, r.value)
    BY <1>7 DEF Means
  <2>2. r.text \in Seq(g.letters)
    BY DEF IsGuide, Typed
  <2>3. Sees(c, a, g) /\ Tail(a) = r.text \o u
    BY <1>6, <2>1, <2>2
  <2>4. Continues(ch, Cons(c, r.value), u, key, f, s, g, goal)
    BY <1>2, <2>1
  <2>5. /\ Append(ch, c) \in Seq(g.letters)
        /\ AtString(Append(ch, c), key, f, s, r.text \o u, g, goal)
    BY <2>4, CharacterPut
  <2> QED BY <2>3, <2>5 DEF StringSeen
<1>8. ASSUME NEW r \in g.strings, NEW c \in {"quote", "backslash", "n", "u0000"}, NEW d,
             c \in {"quote", "backslash"} => d = c,
             c = "n" => d = "newline",
             c = "u0000" => d = "nul",
             x = Means(Cons("backslash", Cons(c, r.text)), Cons(d, r.value))
      PROVE  StringSeen(ch, key, f, s, a, g, goal)
  <2>1. x.text = Cons("backslash", Cons(c, r.text)) /\ x.value = Cons(d, r.value)
    BY <1>8 DEF Means
  <2>2. r.text \in Seq(g.letters) /\ c \in g.letters
    BY <1>4 DEF IsGuide, Typed
  <2>3. Cons(c, r.text) \in Seq(g.letters)
    BY <2>2, ConsType
  <2>4. Sees("backslash", a, g) /\ Tail(a) = Cons(c, r.text) \o u
    BY <1>4, <1>6, <2>1, <2>3
  <2>5. FrontStays(c, r.text, u)
    BY <1>3, <2>2, FrontsStay
  <2>6. Tail(a) = Cons(c, r.text \o u)
    BY <2>4, <2>5, Zenon DEF FrontStays
  <2>7. Continues(ch, Cons(d, r.value), u, key, f, s, g, goal)
    BY <1>2, <2>1
  <2>8. AtEscape(ch, key, f, s, Tail(a), g, goal)
    BY <1>8, <2>6, <2>7 DEF AtEscape
  <2> QED BY <2>4, <2>8 DEF StringSeen
<1>9. ASSUME NEW r \in g.strings,
             x = Means(Cons("backslash", Cons("uD83D", Cons("backslash", Cons("uDE00", r.text)))),
                       Cons("wide", r.value))
      PROVE  StringSeen(ch, key, f, s, a, g, goal)
  <2> DEFINE t1 == Cons("uDE00", r.text)
             t2 == Cons("backslash", t1)
             t3 == Cons("uD83D", t2)
  <2>1. x.text = Cons("backslash", t3) /\ x.value = Cons("wide", r.value)
    BY <1>9 DEF Means
  <2>2. r.text \in Seq(g.letters)
    BY DEF IsGuide, Typed
  <2>3. t1 \in Seq(g.letters)
    BY <1>4, <2>2, ConsType
  <2>4. t1 \o u = Cons("uDE00", r.text \o u)
    <3>1. FrontStays("uDE00", r.text, u)
      BY <1>3, <1>4, <2>2, FrontsStay
    <3> QED BY <3>1, Zenon DEF FrontStays
  <2> HIDE DEF t1
  <2>5. t2 \in Seq(g.letters)
    BY <1>4, <2>3, ConsType
  <2>6. t2 \o u = Cons("backslash", t1 \o u)
    <3>1. FrontStays("backslash", t1, u)
      BY <1>3, <1>4, <2>3, FrontsStay
    <3> QED BY <3>1, Zenon DEF FrontStays
  <2> HIDE DEF t2
  <2>7. t3 \in Seq(g.letters)
    BY <1>4, <2>5, ConsType
  <2>8. t3 \o u = Cons("uD83D", t2 \o u)
    <3>1. FrontStays("uD83D", t2, u)
      BY <1>3, <1>4, <2>5, FrontsStay
    <3> QED BY <3>1, Zenon DEF FrontStays
  <2> HIDE DEF t3
  <2>9. Sees("backslash", a, g) /\ Tail(a) = t3 \o u
    BY <1>4, <1>6, <2>1, <2>7
  <2>10. Tail(a) = Cons("uD83D", Cons("backslash", Cons("uDE00", r.text \o u)))
    BY <2>4, <2>6, <2>8, <2>9
  <2>11. Continues(ch, Cons("wide", r.value), u, key, f, s, g, goal)
    BY <1>2, <2>1
  <2>12. AtEscape(ch, key, f, s, Tail(a), g, goal)
    BY <2>10, <2>11 DEF AtEscape
  <2> QED BY <2>9, <2>12 DEF StringSeen
<1>10. IsString(x, g)
  BY DEF IsGuide
<1>11. ASSUME NEW r \in g.strings,
              \/ \E c \in {"quote", "backslash"} :
                    x = Means(Cons("backslash", Cons(c, r.text)), Cons(c, r.value))
              \/ x = Means(Cons("backslash", Cons("n", r.text)), Cons("newline", r.value))
              \/ x = Means(Cons("backslash", Cons("u0000", r.text)), Cons("nul", r.value))
       PROVE  StringSeen(ch, key, f, s, a, g, goal)
  <2>1. ASSUME NEW c \in {"quote", "backslash"},
               x = Means(Cons("backslash", Cons(c, r.text)), Cons(c, r.value))
        PROVE  StringSeen(ch, key, f, s, a, g, goal)
    BY <1>8, <2>1
  <2>2. CASE x = Means(Cons("backslash", Cons("n", r.text)), Cons("newline", r.value))
    BY <1>8, <2>2
  <2>3. CASE x = Means(Cons("backslash", Cons("u0000", r.text)), Cons("nul", r.value))
    BY <1>8, <2>3
  <2> QED BY <1>11, <2>1, <2>2, <2>3
<1> QED BY <1>5, <1>7, <1>9, <1>10, <1>11 DEF IsString

\* The character c comes to what is read of a string, with one element.
Puts(c, ch, key, f, s, a, g, goal) ==
    /\ Append(ch, c) \in Seq(g.letters)
    /\ AtString(Append(ch, c), key, f, s, Tail(a), g, goal)

LEMMA SeesAndPuts ==
    ASSUME NEW g, IsGuide(g), NEW goal, NEW f, NEW s, NEW key, NEW u, NEW a,
           NEW ch \in Seq(g.letters), NEW c \in g.letters, NEW d \in g.letters,
           NEW r \in g.strings, a = Cons(d, r.text \o u),
           Continues(ch, Cons(c, r.value), u, key, f, s, g, goal)
    PROVE  Sees(d, a, g) /\ Puts(c, ch, key, f, s, a, g, goal)
<1> DEFINE b == r.text \o u
<1>1. /\ Append(ch, c) \in Seq(g.letters) /\ b \in Seq(g.letters)
      /\ AtString(Append(ch, c), key, f, s, b, g, goal)
  BY CharacterPut
<1>2. a = Cons(d, b)
  OBVIOUS
<1> HIDE DEF b
<1>3. Sees(d, a, g) /\ Tail(a) = b
  BY <1>1, <1>2, SeesFirst
<1> QED BY <1>1, <1>3 DEF Puts

EscapeSeen(ch, key, f, s, a, g, goal) ==
    \/ \E c \in {"quote", "backslash"} :
          Sees(c, a, g) /\ Puts(c, ch, key, f, s, a, g, goal)
    \/ Sees("n", a, g) /\ Puts("newline", ch, key, f, s, a, g, goal)
    \/ Sees("u0000", a, g) /\ Puts("nul", ch, key, f, s, a, g, goal)
    \/ Sees("uD83D", a, g) /\ AtSurrogate(ch, key, f, s, Tail(a), g, goal)

LEMMA EscapeSees ==
    ASSUME NEW g, IsGuide(g), NEW goal, NEW f, NEW s, NEW a, NEW key,
           NEW ch \in Seq(g.letters), AtEscape(ch, key, f, s, a, g, goal)
    PROVE  EscapeSeen(ch, key, f, s, a, g, goal)
<1>1. {"quote", "backslash", "n", "u0000", "uD83D", "uDE00", "newline", "nul"}
        \subseteq g.letters
  BY DEF IsGuide, Typed, Marks
<1>2. PICK r \in g.strings : \E u :
        \/ \E c \in {"quote", "backslash"} :
              /\ a = Cons(c, r.text \o u)
              /\ Continues(ch, Cons(c, r.value), u, key, f, s, g, goal)
        \/ /\ a = Cons("n", r.text \o u)
           /\ Continues(ch, Cons("newline", r.value), u, key, f, s, g, goal)
        \/ /\ a = Cons("u0000", r.text \o u)
           /\ Continues(ch, Cons("nul", r.value), u, key, f, s, g, goal)
        \/ /\ a = Cons("uD83D", Cons("backslash", Cons("uDE00", r.text \o u)))
           /\ Continues(ch, Cons("wide", r.value), u, key, f, s, g, goal)
  BY DEF AtEscape
<1>3. PICK u :
        \/ \E c \in {"quote", "backslash"} :
              /\ a = Cons(c, r.text \o u)
              /\ Continues(ch, Cons(c, r.value), u, key, f, s, g, goal)
        \/ /\ a = Cons("n", r.text \o u)
           /\ Continues(ch, Cons("newline", r.value), u, key, f, s, g, goal)
        \/ /\ a = Cons("u0000", r.text \o u)
           /\ Continues(ch, Cons("nul", r.value), u, key, f, s, g, goal)
        \/ /\ a = Cons("uD83D", Cons("backslash", Cons("uDE00", r.text \o u)))
           /\ Continues(ch, Cons("wide", r.value), u, key, f, s, g, goal)
  BY <1>2
<1>4. ASSUME NEW c \in {"quote", "backslash"}, a = Cons(c, r.text \o u),
             Continues(ch, Cons(c, r.value), u, key, f, s, g, goal)
      PROVE  EscapeSeen(ch, key, f, s, a, g, goal)
  <2>1. c \in g.letters
    BY <1>1
  <2>2. Sees(c, a, g) /\ Puts(c, ch, key, f, s, a, g, goal)
    BY <1>4, <2>1, SeesAndPuts
  <2> QED BY <2>2 DEF EscapeSeen
<1>5. CASE /\ a = Cons("n", r.text \o u)
           /\ Continues(ch, Cons("newline", r.value), u, key, f, s, g, goal)
  <2>1. Sees("n", a, g) /\ Puts("newline", ch, key, f, s, a, g, goal)
    BY <1>1, <1>5, SeesAndPuts
  <2> QED BY <2>1 DEF EscapeSeen
<1>6. CASE /\ a = Cons("u0000", r.text \o u)
           /\ Continues(ch, Cons("nul", r.value), u, key, f, s, g, goal)
  <2>1. Sees("u0000", a, g) /\ Puts("nul", ch, key, f, s, a, g, goal)
    BY <1>1, <1>6, SeesAndPuts
  <2> QED BY <2>1 DEF EscapeSeen
<1>7. CASE /\ a = Cons("uD83D", Cons("backslash", Cons("uDE00", r.text \o u)))
           /\ Continues(ch, Cons("wide", r.value), u, key, f, s, g, goal)
  <2> DEFINE b == r.text \o u
             b1 == Cons("uDE00", b)
             b2 == Cons("backslash", b1)
  <2>1. u \in Seq(g.letters) /\ r.text \in Seq(g.letters)
    BY <1>7 DEF Continues, IsGuide, Typed
  <2>2. b \in Seq(g.letters)
    BY <2>1, ConcatAhead
  <2>3. AtSurrogate(ch, key, f, s, b2, g, goal)
    BY <1>7 DEF AtSurrogate
  <2> HIDE DEF b
  <2>4. b1 \in Seq(g.letters)
    BY <1>1, <2>2, ConsType
  <2> HIDE DEF b1
  <2>5. b2 \in Seq(g.letters)
    BY <1>1, <2>4, ConsType
  <2>6. a = Cons("uD83D", b2)
    BY <1>7 DEF b, b1
  <2> HIDE DEF b2
  <2>7. Sees("uD83D", a, g) /\ Tail(a) = b2
    BY <1>1, <2>5, <2>6, SeesFirst
  <2>8. AtSurrogate(ch, key, f, s, Tail(a), g, goal)
    BY <2>3, <2>7
  <2> QED BY <2>7, <2>8 DEF EscapeSeen
<1> QED BY <1>3, <1>4, <1>5, <1>6, <1>7

LEMMA SurrogateSees ==
    ASSUME NEW g, IsGuide(g), NEW goal, NEW f, NEW s, NEW a, NEW key, NEW ch,
           AtSurrogate(ch, key, f, s, a, g, goal)
    PROVE  Sees("backslash", a, g) /\ AtLowSurrogate(ch, key, f, s, Tail(a), g, goal)
<1>1. PICK r \in g.strings : \E u :
        /\ a = Cons("backslash", Cons("uDE00", r.text \o u))
        /\ Continues(ch, Cons("wide", r.value), u, key, f, s, g, goal)
  BY DEF AtSurrogate
<1>2. PICK u :
        /\ a = Cons("backslash", Cons("uDE00", r.text \o u))
        /\ Continues(ch, Cons("wide", r.value), u, key, f, s, g, goal)
  BY <1>1
<1> DEFINE b == r.text \o u
           b1 == Cons("uDE00", b)
<1>3. u \in Seq(g.letters) /\ r.text \in Seq(g.letters)
  BY <1>2 DEF Continues, IsGuide, Typed
<1>4. "backslash" \in g.letters /\ "uDE00" \in g.letters
  BY DEF IsGuide, Typed, Marks
<1>5. b \in Seq(g.letters)
  BY <1>3, ConcatAhead
<1>6. AtLowSurrogate(ch, key, f, s, b1, g, goal)
  BY <1>2 DEF AtLowSurrogate
<1> HIDE DEF b
<1>7. b1 \in Seq(g.letters)
  BY <1>4, <1>5, ConsType
<1>8. a = Cons("backslash", b1)
  BY <1>2 DEF b
<1> HIDE DEF b1
<1>9. Sees("backslash", a, g) /\ Tail(a) = b1
  BY <1>4, <1>7, <1>8, SeesFirst
<1> QED BY <1>6, <1>9

LEMMA LowSurrogateSees ==
    ASSUME NEW g, IsGuide(g), NEW goal, NEW f, NEW s, NEW a, NEW key,
           NEW ch \in Seq(g.letters), AtLowSurrogate(ch, key, f, s, a, g, goal)
    PROVE  Sees("uDE00", a, g) /\ Puts("wide", ch, key, f, s, a, g, goal)
<1>1. PICK r \in g.strings : \E u :
        /\ a = Cons("uDE00", r.text \o u)
        /\ Continues(ch, Cons("wide", r.value), u, key, f, s, g, goal)
  BY DEF AtLowSurrogate
<1>2. PICK u :
        /\ a = Cons("uDE00", r.text \o u)
        /\ Continues(ch, Cons("wide", r.value), u, key, f, s, g, goal)
  BY <1>1
<1>3. "uDE00" \in g.letters /\ "wide" \in g.letters
  BY DEF IsGuide, Typed, Marks
<1> QED BY <1>2, <1>3, SeesAndPuts

-----------------------------------------------------------------------------
(* The steps in a string.                                                  *)

\* takePut of the element that is ahead.
LEMMA takePutFollows ==
    ASSUME NEW g, NEW goal, NEW a, error = 0, isKey \in BOOLEAN, NEW c, NEW d, Sees(d, a, g),
           Puts(c, chars, isKey, frames, stack, a, g, goal), takePut(c, "string")
    PROVE  GoesOn(a, g, goal)
<1>1. /\ Take /\ chars' = Append(chars, c) /\ pc' = "string" /\ isKey' = isKey
      /\ frames' = frames /\ stack' = stack /\ error' = 0
  BY DEF takePut
<1>2. StringPlace("string", Append(chars, c), isKey, frames, stack, Tail(a), g, goal)
  BY DEF Puts, StringPlace
<1>3. FollowsAt("string", frames, stack, Append(chars, c), isKey, exponent', 0, root',
                Tail(a), g, goal)
  BY <1>2, FollowsString DEF StringPlaces
<1>4. FollowsAt(pc', frames', stack', chars', isKey', exponent', error', root',
                Tail(a), g, goal)
  BY <1>1, <1>3
<1> QED BY <1>1, <1>4, TakesOne

LEMMA takeOnlyFollows ==
    ASSUME NEW g, NEW goal, NEW a, error = 0, NEW d, Sees(d, a, g),
           NEW place \in StringPlaces,
           StringPlace(place, chars, isKey, frames, stack, Tail(a), g, goal),
           takeOnly(place)
    PROVE  GoesOn(a, g, goal)
<1>1. /\ Take /\ pc' = place /\ chars' = chars /\ isKey' = isKey
      /\ frames' = frames /\ stack' = stack /\ error' = 0
  BY DEF takeOnly, number
<1>2. FollowsAt(place, frames, stack, chars, isKey, exponent', 0, root', Tail(a), g, goal)
  BY FollowsString
<1>3. FollowsAt(pc', frames', stack', chars', isKey', exponent', error', root',
                Tail(a), g, goal)
  BY <1>1, <1>2
<1> QED BY <1>1, <1>3, TakesOne

LEMMA parseCharacterFollows ==
    ASSUME NEW g, NEW goal, NEW a, Reads(a, g, goal), parseCharacter
    PROVE  GoesOn(a, g, goal)
<1>1. /\ IsGuide(g) /\ Peek = First(a) /\ error = 0 /\ pc = "string"
      /\ StringPlace(pc, chars, isKey, frames, stack, a, g, goal)
  BY DEF Reads, Follows, FollowsAt, parseCharacter, at, StringPlaces
<1>2. /\ chars \in Seq(g.letters) /\ isKey \in BOOLEAN
      /\ AtString(chars, isKey, frames, stack, a, g, goal)
  BY <1>1 DEF StringPlace
<1>3. StringSeen(chars, isKey, frames, stack, a, g, goal)
  BY <1>1, <1>2, StringSees
<1>4. CASE /\ Sees("quote", a, g)
           /\ Resumes(isKey, frames, Append(stack, <<"string", chars>>), Tail(a), g, goal)
  <2>1. Peek = "quote"
    BY <1>1, <1>4 DEF Sees
  <2>2. /\ Take /\ pc' = (IF isKey THEN "colon" ELSE "behindValue")
        /\ frames' = frames /\ stack' = Append(stack, <<"string", chars>>) /\ error' = 0
    BY <1>1, <2>1 DEF parseCharacter, event, atEnd, takePut
  <2>3. FollowsAt(IF isKey THEN "colon" ELSE "behindValue", frames,
                  Append(stack, <<"string", chars>>),
                  chars', isKey', exponent', 0, root', Tail(a), g, goal)
    BY <1>2, <1>4, ResumesFollows
  <2>4. FollowsAt(pc', frames', stack', chars', isKey', exponent', error', root',
                  Tail(a), g, goal)
    BY <2>2, <2>3
  <2> QED BY <1>4, <2>2, <2>4, TakesOne
<1>5. ASSUME NEW c \in g.letters \ {"quote", "backslash", "newline"},
             Sees(c, a, g), Append(chars, c) \in Seq(g.letters),
             AtString(Append(chars, c), isKey, frames, stack, Tail(a), g, goal)
      PROVE  GoesOn(a, g, goal)
  <2>1. Peek = c
    BY <1>1, <1>5 DEF Sees
  <2>2. c # "end"
    BY <1>1 DEF IsGuide, Typed
  <2>3. takePut(c, "string")
    BY <2>1, <2>2 DEF parseCharacter, atEnd
  <2>4. Puts(c, chars, isKey, frames, stack, a, g, goal)
    BY <1>5 DEF Puts
  <2> QED BY <1>1, <1>2, <1>5, <2>3, <2>4, takePutFollows
<1>6. CASE /\ Sees("backslash", a, g)
           /\ AtEscape(chars, isKey, frames, stack, Tail(a), g, goal)
  <2>1. Peek = "backslash"
    BY <1>1, <1>6 DEF Sees
  <2>2. takeOnly("escape")
    BY <2>1 DEF parseCharacter, atEnd
  <2>3. StringPlace("escape", chars, isKey, frames, stack, Tail(a), g, goal)
    BY <1>2, <1>6 DEF StringPlace
  <2> QED BY <1>1, <1>6, <2>2, <2>3, takeOnlyFollows DEF StringPlaces
<1> QED BY <1>3, <1>4, <1>5, <1>6 DEF StringSeen

LEMMA parseEscapeFollows ==
    ASSUME NEW g, NEW goal, NEW a, Reads(a, g, goal), parseEscape
    PROVE  GoesOn(a, g, goal)
<1>1. /\ IsGuide(g) /\ Peek = First(a) /\ error = 0 /\ pc = "escape"
      /\ StringPlace(pc, chars, isKey, frames, stack, a, g, goal)
  BY DEF Reads, Follows, FollowsAt, parseEscape, at, StringPlaces
<1>2. /\ chars \in Seq(g.letters) /\ isKey \in BOOLEAN
      /\ AtEscape(chars, isKey, frames, stack, a, g, goal)
  BY <1>1 DEF StringPlace
<1>3. EscapeSeen(chars, isKey, frames, stack, a, g, goal)
  BY <1>1, <1>2, EscapeSees
<1>4. ASSUME NEW c \in {"quote", "backslash"}, Sees(c, a, g),
             Puts(c, chars, isKey, frames, stack, a, g, goal)
      PROVE  GoesOn(a, g, goal)
  <2>1. Peek = c
    BY <1>1, <1>4 DEF Sees
  <2>2. takePut(c, "string")
    BY <2>1 DEF parseEscape
  <2> QED BY <1>1, <1>2, <1>4, <2>2, takePutFollows
<1>5. CASE /\ Sees("n", a, g)
           /\ Puts("newline", chars, isKey, frames, stack, a, g, goal)
  <2>1. Peek = "n"
    BY <1>1, <1>5 DEF Sees
  <2>2. takePut("newline", "string")
    BY <2>1 DEF parseEscape
  <2> QED BY <1>1, <1>2, <1>5, <2>2, takePutFollows
<1>6. CASE /\ Sees("u0000", a, g)
           /\ Puts("nul", chars, isKey, frames, stack, a, g, goal)
  <2>1. Peek = "u0000"
    BY <1>1, <1>6 DEF Sees
  <2>2. takePut("nul", "string")
    BY <2>1 DEF parseEscape
  <2> QED BY <1>1, <1>2, <1>6, <2>2, takePutFollows
<1>7. CASE /\ Sees("uD83D", a, g)
           /\ AtSurrogate(chars, isKey, frames, stack, Tail(a), g, goal)
  <2>1. Peek = "uD83D"
    BY <1>1, <1>7 DEF Sees
  <2>2. takeOnly("surrogate")
    BY <2>1 DEF parseEscape
  <2>3. StringPlace("surrogate", chars, isKey, frames, stack, Tail(a), g, goal)
    BY <1>2, <1>7 DEF StringPlace
  <2> QED BY <1>1, <1>7, <2>2, <2>3, takeOnlyFollows DEF StringPlaces
<1> QED BY <1>3, <1>4, <1>5, <1>6, <1>7 DEF EscapeSeen

LEMMA parseSurrogateFollows ==
    ASSUME NEW g, NEW goal, NEW a, Reads(a, g, goal), parseSurrogate
    PROVE  GoesOn(a, g, goal)
<1>1. /\ IsGuide(g) /\ Peek = First(a) /\ error = 0 /\ pc \in {"surrogate", "lowSurrogate"}
      /\ StringPlace(pc, chars, isKey, frames, stack, a, g, goal)
  BY DEF Reads, Follows, FollowsAt, parseSurrogate, at, StringPlaces
<1>2. chars \in Seq(g.letters) /\ isKey \in BOOLEAN
  BY <1>1 DEF StringPlace
<1>3. CASE pc = "surrogate"
  <2>1. AtSurrogate(chars, isKey, frames, stack, a, g, goal)
    BY <1>1, <1>3 DEF StringPlace
  <2>2. /\ Sees("backslash", a, g)
        /\ AtLowSurrogate(chars, isKey, frames, stack, Tail(a), g, goal)
    BY <1>1, <2>1, SurrogateSees
  <2>3. Peek = "backslash"
    BY <1>1, <2>2 DEF Sees
  <2>4. takeOnly("lowSurrogate")
    BY <1>3, <2>3 DEF parseSurrogate, at
  <2>5. StringPlace("lowSurrogate", chars, isKey, frames, stack, Tail(a), g, goal)
    BY <1>2, <2>2 DEF StringPlace
  <2> QED BY <1>1, <2>2, <2>4, <2>5, takeOnlyFollows DEF StringPlaces
<1>4. CASE pc = "lowSurrogate"
  <2>1. AtLowSurrogate(chars, isKey, frames, stack, a, g, goal)
    BY <1>1, <1>4 DEF StringPlace
  <2>2. /\ Sees("uDE00", a, g)
        /\ Puts("wide", chars, isKey, frames, stack, a, g, goal)
    BY <1>1, <1>2, <2>1, LowSurrogateSees
  <2>3. Peek = "uDE00"
    BY <1>1, <2>2 DEF Sees
  <2>4. takePut("wide", "string")
    BY <1>4, <2>3 DEF parseSurrogate, at
  <2> QED BY <1>1, <1>2, <2>2, <2>4, takePutFollows
<1> QED BY <1>1, <1>3, <1>4

-----------------------------------------------------------------------------
(* The value of an exponent.                                               *)

Digit(c) == IF c = "1" THEN 1 ELSE 0

IsDecimal(d, h) ==
    h = [n \in 0..Len(d) |-> IF n = 0 THEN 0 ELSE 10 * h[n - 1] + Digit(d[n])]

LEMMA DecimalValues ==
    ASSUME NEW d \in Seq(Digits)
    PROVE  \E h \in [0..Len(d) -> Nat] :
              /\ DecimalOf(d) = h[Len(d)]
              /\ h[0] = 0
              /\ \A n \in 1..Len(d) : h[n] = 10 * h[n - 1] + Digit(d[n])
<1>1. Len(d) \in Nat /\ \A n \in 1..Len(d) : Digit(d[n]) \in Nat
  BY LenProperties DEF Digit
<1> DEFINE step == [p \in Nat \X Nat |->
                       IF p[1] < Len(d) THEN 10 * p[2] + Digit(d[p[1] + 1]) ELSE 0]
<1>2. step \in [Nat \X Nat -> Nat]
  <2>1. ASSUME NEW p \in Nat \X Nat
        PROVE  (IF p[1] < Len(d) THEN 10 * p[2] + Digit(d[p[1] + 1]) ELSE 0) \in Nat
    <3>1. p[1] \in Nat /\ p[2] \in Nat
      OBVIOUS
    <3>2. CASE p[1] < Len(d)
      <4>1. p[1] + 1 \in 1..Len(d)
        BY <1>1, <3>1, <3>2
      <4>2. Digit(d[p[1] + 1]) \in Nat
        BY <1>1, <4>1
      <4> QED BY <3>1, <3>2, <4>2
    <3>3. CASE ~(p[1] < Len(d))
      BY <3>3
    <3> QED BY <3>2, <3>3
  <2> QED BY <2>1
<1>3. \A n \in Nat, v \in Nat :
          n < Len(d) => step[<<n, v>>] = 10 * v + Digit(d[n + 1])
  <2>1. ASSUME NEW n \in Nat, NEW v \in Nat, n < Len(d)
        PROVE  step[<<n, v>>] = 10 * v + Digit(d[n + 1])
    <3>1. <<n, v>> \in Nat \X Nat
      OBVIOUS
    <3>2. <<n, v>>[1] = n /\ <<n, v>>[2] = v
      OBVIOUS
    <3>3. step[<<n, v>>] = IF <<n, v>>[1] < Len(d)
                             THEN 10 * <<n, v>>[2] + Digit(d[<<n, v>>[1] + 1]) ELSE 0
      BY <3>1
    <3> HIDE DEF step
    <3> QED BY <2>1, <3>2, <3>3
  <2> QED BY <2>1
<1> HIDE DEF step
<1>4. PICK g \in [Nat -> Nat] :
          g[0] = 0 /\ \A n \in Nat : g[n + 1] = step[<<n, g[n]>>]
  <2>1. PICK g : IsIteration(g, Nat, 0, step)
    BY <1>2, Iteration
  <2> QED BY <2>1 DEF IsIteration
<1> DEFINE h0 == [n \in 0..Len(d) |-> g[n]]
<1>5. h0 = [n \in 0..Len(d) |-> IF n = 0 THEN 0 ELSE 10 * h0[n - 1] + Digit(d[n])]
  <2>1. ASSUME NEW n \in 0..Len(d)
        PROVE  h0[n] = IF n = 0 THEN 0 ELSE 10 * h0[n - 1] + Digit(d[n])
    <3>1. CASE n = 0
      BY <1>4, <3>1
    <3>2. CASE n # 0
      <4>1. n - 1 \in Nat /\ n - 1 < Len(d) /\ n - 1 \in 0..Len(d) /\ n - 1 + 1 = n
        BY <1>1, <3>2
      <4>2. g[n - 1 + 1] = 10 * g[n - 1] + Digit(d[n - 1 + 1])
        BY <1>3, <1>4, <4>1
      <4> QED BY <3>2, <4>1, <4>2
    <3> QED BY <3>1, <3>2
  <2> QED BY <2>1
<1>6. \E h : IsDecimal(d, h)
  <2> HIDE DEF h0
  <2> QED BY <1>5 DEF IsDecimal
<1> DEFINE h == CHOOSE x : IsDecimal(d, x)
<1>7. DecimalOf(d) = h[Len(d)]
  BY DEF DecimalOf, IsDecimal, Digit
<1>8. IsDecimal(d, h)
  BY <1>6
<1> HIDE DEF h
<1>9. \A n \in 0..Len(d) : h[n] = IF n = 0 THEN 0 ELSE 10 * h[n - 1] + Digit(d[n])
  BY <1>8 DEF IsDecimal
<1>10. h[0] = 0 /\ \A n \in 1..Len(d) : h[n] = 10 * h[n - 1] + Digit(d[n])
  <2>1. 0 \in 0..Len(d) /\ \A n \in 1..Len(d) : n \in 0..Len(d) /\ n # 0
    BY <1>1
  <2> QED BY <1>9, <2>1
<1> DEFINE E == {n \in Nat : n <= Len(d) => h[n] \in Nat}
<1>11. 0 \in E
  BY <1>10
<1>12. ASSUME NEW n \in Nat, n \in E
       PROVE  n + 1 \in E
  <2> SUFFICES ASSUME n + 1 <= Len(d)
               PROVE  h[n + 1] \in Nat
    OBVIOUS
  <2>1. n + 1 \in 1..Len(d) /\ n + 1 - 1 = n /\ h[n] \in Nat
    BY <1>1, <1>12
  <2>2. h[n + 1] = 10 * h[n] + Digit(d[n + 1]) /\ Digit(d[n + 1]) \in Nat
    BY <1>1, <1>10, <2>1
  <2>3. \A x, y \in Nat : 10 * x + y \in Nat
    OBVIOUS
  <2>4. 10 * h[n] + Digit(d[n + 1]) \in Nat
    BY <2>1, <2>2, <2>3
  <2> QED BY <2>2, <2>4
<1> HIDE DEF E
<1>13. Nat \subseteq E
  BY <1>11, <1>12, SetInduction
<1>14. \A n \in 0..Len(d) : h[n] \in Nat
  BY <1>13 DEF E
<1>15. h \in [0..Len(d) -> Nat]
  <2>1. h = [n \in 0..Len(d) |-> h[n]]
    BY <1>8 DEF IsDecimal
  <2> QED BY <1>14, <2>1
<1> QED BY <1>7, <1>10, <1>15

LEMMA DecimalOfNone == DecimalOf(<<>>) = 0
<1>1. <<>> \in Seq(Digits) /\ Len(<<>>) = 0
  OBVIOUS
<1> QED BY <1>1, DecimalValues

LEMMA DecimalOfAppended ==
    ASSUME NEW d \in Seq(Digits), NEW c \in Digits
    PROVE  /\ DecimalOf(d) \in Nat
           /\ DecimalOf(Append(d, c)) = 10 * DecimalOf(d) + Digit(c)
<1> DEFINE t == Append(d, c)
<1>1. /\ t \in Seq(Digits) /\ Len(d) \in Nat /\ Len(t) = Len(d) + 1
      /\ \A i \in 1..Len(d) : t[i] = d[i]
      /\ t[Len(d) + 1] = c
  BY AppendProperties, LenProperties
<1> HIDE DEF t
<1>2. PICK h \in [0..Len(d) -> Nat] :
              /\ DecimalOf(d) = h[Len(d)]
              /\ h[0] = 0
              /\ \A n \in 1..Len(d) : h[n] = 10 * h[n - 1] + Digit(d[n])
  BY DecimalValues
<1>3. PICK k \in [0..Len(t) -> Nat] :
              /\ DecimalOf(t) = k[Len(t)]
              /\ k[0] = 0
              /\ \A n \in 1..Len(t) : k[n] = 10 * k[n - 1] + Digit(t[n])
  BY <1>1, DecimalValues
<1> DEFINE E == {n \in Nat : n <= Len(d) => k[n] = h[n]}
<1>4. 0 \in E
  BY <1>2, <1>3
<1>5. ASSUME NEW n \in Nat, n \in E
      PROVE  n + 1 \in E
  <2> SUFFICES ASSUME n + 1 <= Len(d)
               PROVE  k[n + 1] = h[n + 1]
    OBVIOUS
  <2>1. n + 1 \in 1..Len(d) /\ n + 1 \in 1..Len(t) /\ n + 1 - 1 = n /\ n <= Len(d)
    BY <1>1
  <2>2. k[n] = h[n]
    BY <1>5, <2>1
  <2>3. h[n + 1] = 10 * h[n] + Digit(d[n + 1])
    BY <1>2, <2>1
  <2>4. k[n + 1] = 10 * k[n] + Digit(t[n + 1])
    BY <1>3, <2>1
  <2>5. t[n + 1] = d[n + 1]
    BY <1>1, <2>1
  <2> QED BY <2>2, <2>3, <2>4, <2>5
<1> HIDE DEF E
<1>6. Nat \subseteq E
  BY <1>4, <1>5, SetInduction
<1>7. k[Len(d)] = h[Len(d)]
  BY <1>1, <1>6 DEF E
<1>8. Len(t) \in 1..Len(t) /\ Len(t) - 1 = Len(d) /\ Len(d) \in 0..Len(d)
  BY <1>1
<1>9. DecimalOf(d) \in Nat
  BY <1>2, <1>8
<1>10. k[Len(t)] = 10 * k[Len(d)] + Digit(t[Len(t)])
  BY <1>3, <1>8
<1>11. DecimalOf(t) = 10 * DecimalOf(d) + Digit(c)
  BY <1>1, <1>2, <1>3, <1>7, <1>10
<1> QED BY <1>9, <1>11 DEF t

LEMMA DecimalIsNatural ==
    ASSUME NEW d \in Seq(Digits)
    PROVE  DecimalOf(d) \in Nat
  BY DecimalOfAppended DEF Digits

LEMMA DecimalOfOne ==
    ASSUME NEW c \in Digits
    PROVE  DecimalOf(<<c>>) = Digit(c)
<1>1. <<>> \in Seq(Digits) /\ Append(<<>>, c) = <<c>>
  OBVIOUS
<1>2. DecimalOf(<<c>>) = 10 * DecimalOf(<<>>) + Digit(c)
  BY <1>1, DecimalOfAppended
<1> QED BY <1>2, DecimalOfNone DEF Digit

\* More digits do not make it smaller.
LEMMA DecimalGrows ==
    ASSUME NEW d \in Seq(Digits), NEW t \in Seq(Digits)
    PROVE  DecimalOf(d) <= DecimalOf(d \o t)
<1> DEFINE P == {u \in Seq(Digits) : DecimalOf(d) <= DecimalOf(d \o u)}
<1>1. <<>> \in P
  <2>1. d \o <<>> = d /\ <<>> \in Seq(Digits)
    OBVIOUS
  <2>2. DecimalOf(d) <= DecimalOf(d)
    BY DecimalIsNatural
  <2> QED BY <2>1, <2>2
<1>2. ASSUME NEW u \in Seq(Digits), NEW c \in Digits, u \in P
      PROVE  Append(u, c) \in P
  <2> DEFINE x == d \o u
  <2>1. x \in Seq(Digits) /\ Append(u, c) \in Seq(Digits)
    OBVIOUS
  <2>2. d \o Append(u, c) = Append(x, c)
    OBVIOUS
  <2>3. DecimalOf(d) <= DecimalOf(x)
    BY <1>2
  <2> HIDE DEF x
  <2>4. DecimalOf(x) \in Nat /\ DecimalOf(Append(x, c)) = 10 * DecimalOf(x) + Digit(c)
    BY <2>1, DecimalOfAppended
  <2>5. DecimalOf(d) \in Nat /\ Digit(c) \in Nat
    BY DecimalIsNatural DEF Digit
  <2>6. DecimalOf(d) <= DecimalOf(Append(x, c))
    BY <2>3, <2>4, <2>5
  <2> QED BY <2>1, <2>2, <2>6
<1> HIDE DEF P
<1>3. Seq(Digits) \subseteq P
  BY <1>1, <1>2, SequenceInduction
<1> QED BY <1>3 DEF P

-----------------------------------------------------------------------------
(* In a number.                                                            *)

\* t is left of a number, with u behind it.
NumberRest(ch, t, f, s, u, a, g, goal) ==
    /\ ch \in Seq(g.letters) /\ t \in Seq(g.letters) /\ u \in Seq(g.letters)
    /\ a = t \o u
    /\ Behind(f, Append(s, <<"number", ch \o t>>), u, g, goal)

LEMMA NumberPlaceIs ==
    ASSUME NEW g, NEW goal, NEW f, NEW s, NEW a, NEW place, NEW ch, NEW e
    PROVE  NumberPlace(place, ch, e, f, s, a, g, goal)
             <=> \E t, u : NumberLeft(place, t, e) /\ NumberRest(ch, t, f, s, u, a, g, goal)
  BY DEF NumberPlace, NumberRest

\* What is seen of it.
RestSeen(t, a, g) ==
    /\ a \in Seq(g.letters)
    /\ First(a) \in {First(t), ",", "]", Right}
    /\ t # <<>> => First(a) = First(t)

LEMMA RestSees ==
    ASSUME NEW g, IsGuide(g), NEW goal, NEW f, NEW s, NEW a, NEW ch, NEW t, NEW u,
           NumberRest(ch, t, f, s, u, a, g, goal)
    PROVE  RestSeen(t, a, g)
<1>1. /\ t \in Seq(g.letters) /\ u \in Seq(g.letters) /\ a = t \o u
      /\ Behind(f, Append(s, <<"number", ch \o t>>), u, g, goal)
  BY DEF NumberRest
<1>2. a \in Seq(g.letters)
  BY <1>1, ConcatAhead
<1>3. PICK st, x : Expects(f, st, x, u, g, goal)
  BY <1>1 DEF Behind
<1>4. First(u) \in {"end", ",", "]", Right}
  BY <1>3, BehindPlace
<1>5. CASE t = <<>>
  <2>1. a = u
    BY <1>1, <1>5, NoneAhead
  <2>2. First(t) = "end"
    BY <1>5 DEF First
  <2> QED BY <1>2, <1>4, <1>5, <2>1, <2>2 DEF RestSeen
<1>6. CASE t # <<>>
  <2>1. First(a) = First(t)
    BY <1>1, <1>6, ConcatAhead
  <2> QED BY <1>2, <2>1 DEF RestSeen
<1> QED BY <1>5, <1>6

\* One more element of it.
LEMMA RestTakes ==
    ASSUME NEW g, IsGuide(g), NEW goal, NEW f, NEW s, NEW a, NEW ch, NEW u,
           NEW c \in NumberLetters, NEW t \in Seq(NumberLetters),
           NumberRest(ch, Cons(c, t), f, s, u, a, g, goal)
    PROVE  Sees(c, a, g) /\ NumberRest(Append(ch, c), t, f, s, u, Tail(a), g, goal)
<1>1. /\ ch \in Seq(g.letters) /\ u \in Seq(g.letters) /\ a = Cons(c, t) \o u
      /\ Behind(f, Append(s, <<"number", ch \o Cons(c, t)>>), u, g, goal)
  BY DEF NumberRest
<1>2. c \in g.letters /\ t \in Seq(g.letters)
  BY DEF IsGuide, Typed
<1>3. FrontStays(c, t, u)
  BY <1>1, <1>2, FrontsStay
<1>4. a = Cons(c, t \o u)
  BY <1>1, <1>3, Zenon DEF FrontStays
<1> DEFINE b == t \o u
<1>5. b \in Seq(g.letters)
  BY <1>1, <1>2, ConcatAhead
<1>6. Sees(c, a, g) /\ Tail(a) = b
  <2>1. a = Cons(c, b)
    BY <1>4
  <2> HIDE DEF b
  <2> QED BY <1>2, <1>5, <2>1, SeesFirst
<1>7. ItemMoves(ch, c, t)
  BY <1>1, <1>2, ItemsMove
<1>8. ch \o Cons(c, t) = Append(ch, c) \o t
  BY <1>7, Zenon DEF ItemMoves
<1>9. Append(ch, c) \in Seq(g.letters)
  BY <1>1, <1>2, AppendAhead
<1>10. Behind(f, Append(s, <<"number", Append(ch, c) \o t>>), u, g, goal)
  BY <1>1, <1>8
<1> QED BY <1>1, <1>2, <1>6, <1>9, <1>10 DEF NumberRest

\* A character of the number is taken, and it goes on at a place.
LEMMA numberTakes ==
    ASSUME NEW g, NEW goal, NEW a, IsGuide(g), error = 0, NEW ch, NEW t, NEW u, NEW c,
           NEW place \in NumberPlaces \ {"minus"}, Sees(c, a, g), Take, pc' = place,
           chars' = ch, NumberLeft(place, t, exponent'),
           NumberRest(ch, t, frames, stack, u, Tail(a), g, goal),
           frames' = frames, stack' = stack, error' = 0
    PROVE  GoesOn(a, g, goal)
<1>1. NumberPlace(place, ch, exponent', frames, stack, Tail(a), g, goal)
  BY NumberPlaceIs
<1>2. FollowsAt(place, frames, stack, ch, isKey', exponent', 0, root', Tail(a), g, goal)
  BY <1>1, FollowsNumber, FollowsInteger
<1>3. FollowsAt(pc', frames', stack', chars', isKey', exponent', error', root',
                Tail(a), g, goal)
  BY <1>2
<1> QED BY <1>3, TakesOne

LEMMA numberTakePut ==
    ASSUME NEW g, NEW goal, NEW a, IsGuide(g), error = 0, NEW u,
           NEW c \in NumberLetters, NEW t \in Seq(NumberLetters),
           NumberRest(chars, Cons(c, t), frames, stack, u, a, g, goal),
           NEW place \in NumberPlaces \ {"minus"}, takePut(c, place),
           NumberLeft(place, t, exponent)
    PROVE  GoesOn(a, g, goal)
<1>1. /\ Sees(c, a, g)
      /\ NumberRest(Append(chars, c), t, frames, stack, u, Tail(a), g, goal)
  BY RestTakes
<1>2. /\ Take /\ chars' = Append(chars, c) /\ pc' = place /\ exponent' = exponent
      /\ frames' = frames /\ stack' = stack /\ error' = 0
  BY DEF takePut
<1>3. NumberLeft(place, t, exponent')
  BY <1>2
<1> QED BY <1>1, <1>2, <1>3, numberTakes

LEMMA numberGoto ==
    ASSUME NEW g, NEW goal, NEW a, IsGuide(g), error = 0, NEW t, NEW u,
           NumberRest(chars, t, frames, stack, u, a, g, goal),
           NEW place \in NumberPlaces \ {"minus"}, goto(place),
           NumberLeft(place, t, exponent)
    PROVE  GoesOn(a, g, goal)
<1>1. /\ chars' = chars /\ pc' = place /\ exponent' = exponent /\ src' = src
      /\ frames' = frames /\ stack' = stack /\ error' = 0
  BY DEF goto, number, stream
<1>2. a \in Seq(g.letters)
  BY RestSees DEF RestSeen
<1>3. NumberPlace(place, chars, exponent, frames, stack, a, g, goal)
  BY NumberPlaceIs
<1>4. FollowsAt(place, frames, stack, chars, isKey', exponent, 0, root', a, g, goal)
  BY <1>3, FollowsNumber, FollowsInteger
<1>5. FollowsAt(pc', frames', stack', chars', isKey', exponent', error', root', a, g, goal)
  BY <1>1, <1>4
<1> QED BY <1>1, <1>2, <1>5, TakesNone

-----------------------------------------------------------------------------
(* The steps in a number.                                                  *)

LEMMA NothingSeen ==
    ASSUME NEW g, IsGuide(g), NEW goal, NEW f, NEW s, NEW a, AtNothing(f, s, a, g, goal)
    PROVE  First(a) \in {"end", ",", "]", Right} /\ a \in Seq(g.letters)
  BY BehindPlace, ExpectedTypes DEF AtNothing

LEMMA parseMinusFollows ==
    ASSUME NEW g, NEW goal, NEW a, Reads(a, g, goal), parseMinus
    PROVE  GoesOn(a, g, goal)
<1>1. /\ IsGuide(g) /\ Peek = First(a) /\ error = 0
      /\ \/ NumberPlace("minus", <<>>, exponent, frames, stack, a, g, goal)
         \/ AtNothing(frames, stack, a, g, goal)
  BY DEF Reads, Follows, FollowsAt, parseMinus, at
<1>2. /\ exponent' = NoExponent /\ pc' = "integer"
      /\ frames' = frames /\ stack' = stack /\ error' = 0
  BY <1>1 DEF parseMinus
<1>3. CASE AtNothing(frames, stack, a, g, goal)
  <2>1. First(a) \in {"end", ",", "]", Right} /\ a \in Seq(g.letters)
    BY <1>1, <1>3, NothingSeen
  <2>2. Peek # "-"
    BY <1>1, <2>1, Curly DEF OtherMarks
  <2>3. src' = src
    BY <2>2 DEF parseMinus, stream
  <2>4. FollowsAt("integer", frames, stack, chars', isKey', exponent', 0, root', a, g, goal)
    BY <1>3, FollowsInteger
  <2>5. FollowsAt(pc', frames', stack', chars', isKey', exponent', error', root',
                  a, g, goal)
    BY <1>2, <2>4
  <2> QED BY <2>1, <2>3, <2>5, TakesNone
<1>4. CASE NumberPlace("minus", <<>>, exponent, frames, stack, a, g, goal)
  <2>1. PICK t, u : /\ NumberLeft("minus", t, exponent)
                    /\ NumberRest(<<>>, t, frames, stack, u, a, g, goal)
    BY <1>4, NumberPlaceIs
  <2>2. IsNumber(t)
    BY <2>1 DEF NumberLeft
  <2>3. CASE IsInteger(t)
    <3>1. t # <<>> /\ First(t) \in {"0", "1"}
      BY <2>3, IntegerBegins
    <3>9. NumberRest(<<>>, t, frames, stack, u, a, g, goal) /\ IsGuide(g)
      BY <1>1, <2>1
    <3>10. a \in Seq(g.letters) /\ (t # <<>> => First(a) = First(t))
      <4>1. RestSeen(t, a, g)
        BY <3>9, RestSees
      <4> QED BY <4>1 DEF RestSeen
    <3>2. a \in Seq(g.letters) /\ First(a) = First(t)
      BY <3>1, <3>10
    <3>3. Peek # "-"
      BY <1>1, <3>1, <3>2
    <3>4. chars' = <<>> /\ src' = src
      BY <3>3 DEF parseMinus, stream
    <3>5. NumberLeft("integer", t, NoExponent)
      BY <2>3 DEF NumberLeft
    <3>6. NumberPlace("integer", <<>>, NoExponent, frames, stack, a, g, goal)
      BY <2>1, <3>5, NumberPlaceIs
    <3>7. FollowsAt("integer", frames, stack, <<>>, isKey', NoExponent, 0, root', a, g, goal)
      BY <3>6, FollowsInteger
    <3>8. FollowsAt(pc', frames', stack', chars', isKey', exponent', error', root',
                    a, g, goal)
      BY <1>2, <3>4, <3>7
    <3> QED BY <3>2, <3>4, <3>8, TakesNone
  <2>4. ASSUME NEW x, t = Cons("-", x), IsInteger(x)
        PROVE  GoesOn(a, g, goal)
    <3>1. x \in Seq(NumberLetters) /\ "-" \in NumberLetters
      BY <2>4, IntegerBegins DEF NumberLetters
    <3>2. NumberRest(<<>>, Cons("-", x), frames, stack, u, a, g, goal)
      BY <2>1, <2>4
    <3>3. /\ Sees("-", a, g)
          /\ NumberRest(Append(<<>>, "-"), x, frames, stack, u, Tail(a), g, goal)
      BY <1>1, <3>1, <3>2, RestTakes
    <3>4. Peek = "-"
      BY <1>1, <3>3 DEF Sees
    <3>5. Take /\ chars' = <<"-">>
      BY <3>4 DEF parseMinus
    <3>6. Append(<<>>, "-") = <<"-">>
      OBVIOUS
    <3>7. NumberLeft("integer", x, exponent')
      BY <1>2, <2>4 DEF NumberLeft
    <3>8. NumberRest(<<"-">>, x, frames, stack, u, Tail(a), g, goal)
      BY <3>3, <3>6
    <3>9. "integer" \in NumberPlaces \ {"minus"}
      BY DEF NumberPlaces
    <3> QED BY <1>1, <1>2, <3>3, <3>5, <3>7, <3>8, <3>9, numberTakes
  <2> QED BY <2>2, <2>3, <2>4 DEF IsNumber
<1> QED BY <1>1, <1>3, <1>4

LEMMA parseIntFollows ==
    ASSUME NEW g, NEW goal, NEW a, Reads(a, g, goal), parseInt
    PROVE  GoesOn(a, g, goal)
<1>1. /\ IsGuide(g) /\ Peek = First(a) /\ error = 0
      /\ \/ NumberPlace("integer", chars, exponent, frames, stack, a, g, goal)
         \/ AtNothing(frames, stack, a, g, goal)
  BY DEF Reads, Follows, FollowsAt, parseInt, at
<1>2. CASE AtNothing(frames, stack, a, g, goal)
  <2>1. First(a) \in {"end", ",", "]", Right} /\ a \in Seq(g.letters)
    BY <1>1, <1>2, NothingSeen
  <2>2. Peek \notin Digits
    BY <1>1, <2>1, Curly DEF OtherMarks, Digits
  <2>3. fail(kParseErrorValueInvalid)
    BY <2>2 DEF parseInt, Digits
  <2>4. kParseErrorValueInvalid # 0
    BY DEF kParseErrorValueInvalid
  <2> QED BY <1>2, <2>1, <2>3, <2>4, NothingFails
<1>3. CASE NumberPlace("integer", chars, exponent, frames, stack, a, g, goal)
  <2>1. PICK t, u : /\ NumberLeft("integer", t, exponent)
                    /\ NumberRest(chars, t, frames, stack, u, a, g, goal)
    BY <1>3, NumberPlaceIs
  <2>2. IsInteger(t) /\ exponent = NoExponent
    BY <2>1 DEF NumberLeft
  <2>8. NumberRest(chars, t, frames, stack, u, a, g, goal) /\ IsGuide(g)
    BY <1>1, <2>1
  <2>9. t # <<>> => First(a) = First(t)
    <3>1. RestSeen(t, a, g)
      BY <2>8, RestSees
    <3> QED BY <3>1 DEF RestSeen
  <2>3. t # <<>> /\ First(a) = First(t)
    BY <2>2, <2>9, IntegerBegins
  <2>4. "0" \in NumberLetters /\ "1" \in NumberLetters
    BY DEF NumberLetters, Digits
  <2>5. "fraction" \in NumberPlaces \ {"minus"} /\ "digits32" \in NumberPlaces \ {"minus"}
    BY DEF NumberPlaces
  <2>6. ASSUME NEW x, t = Cons("0", x), IsFraction(x)
        PROVE  GoesOn(a, g, goal)
    <3>1. x \in Seq(NumberLetters)
      BY <2>6, FractionBegins
    <3>2. First(t) = "0"
      BY <2>4, <2>6, <3>1, ConsAhead
    <3>3. takePut("0", "fraction")
      BY <1>1, <2>3, <3>2 DEF parseInt, Digits
    <3>4. NumberLeft("fraction", x, exponent)
      BY <2>2, <2>6 DEF NumberLeft
    <3>5. NumberRest(chars, Cons("0", x), frames, stack, u, a, g, goal)
      BY <2>1, <2>6
    <3> QED BY <1>1, <2>4, <2>5, <3>1, <3>3, <3>4, <3>5, numberTakePut
  <2>7. ASSUME NEW d \in Seq(Digits), NEW x, t = Cons("1", d \o x), IsFraction(x)
        PROVE  GoesOn(a, g, goal)
    <3>1. x \in Seq(NumberLetters) /\ d \in Seq(NumberLetters)
      BY <2>7, FractionBegins DEF NumberLetters
    <3> DEFINE y == d \o x
    <3>2. y \in Seq(NumberLetters)
      BY <3>1, ConcatAhead
    <3>3. NumberLeft("digits32", y, exponent)
      BY <2>2, <2>7 DEF NumberLeft, LeftAtDigits
    <3>4. t = Cons("1", y)
      BY <2>7
    <3> HIDE DEF y
    <3>5. First(t) = "1"
      BY <2>4, <3>2, <3>4, ConsAhead
    <3>6. takePut("1", "digits32")
      BY <1>1, <2>3, <3>5 DEF parseInt, Digits
    <3>7. NumberRest(chars, Cons("1", y), frames, stack, u, a, g, goal)
      BY <2>1, <3>4
    <3> QED BY <1>1, <2>4, <2>5, <3>2, <3>3, <3>6, <3>7, numberTakePut
  <2> QED BY <2>2, <2>6, <2>7 DEF IsInteger
<1> QED BY <1>1, <1>2, <1>3

\* The digits that are left: none, or one and the others.
DigitAhead(d, x) ==
    \E c \in Digits, r \in Seq(Digits) :
        /\ d = Cons(c, r) /\ d \o x = Cons(c, r \o x)
        /\ Len(d) = Len(r) + 1
        /\ r \o x \in Seq(NumberLetters) /\ c \in NumberLetters

LEMMA DigitsAhead ==
    ASSUME NEW d \in Seq(Digits), NEW x \in Seq(NumberLetters)
    PROVE  /\ d = <<>> => d \o x = x
           /\ d # <<>> => DigitAhead(d, x)
<1>1. CASE d = <<>>
  BY <1>1
<1>2. CASE d # <<>>
  <2>1. /\ Head(d) \in Digits /\ Tail(d) \in Seq(Digits)
        /\ d = Cons(Head(d), Tail(d)) /\ Len(d) = Len(Tail(d)) + 1
    BY <1>2, ConsAll
  <2>2. /\ Head(d) \in NumberLetters /\ Tail(d) \in Seq(NumberLetters)
        /\ d \in Seq(NumberLetters)
    BY <2>1 DEF NumberLetters
  <2>3. FrontStays(Head(d), Tail(d), x)
    BY <2>2, FrontsStay
  <2>4. Cons(Head(d), Tail(d)) \o x = Cons(Head(d), Tail(d) \o x)
    BY <2>3, Zenon DEF FrontStays
  <2>5. d \o x = Cons(Head(d), Tail(d) \o x)
    BY <2>1, <2>4, Zenon
  <2>6. Tail(d) \o x \in Seq(NumberLetters)
    BY <2>2, ConcatAhead
  <2>7. DigitAhead(d, x)
    BY <2>1, <2>2, <2>5, <2>6 DEF DigitAhead
  <2> QED BY <1>2, <2>7
<1> QED BY <1>1, <1>2

\* Where the reader is in a number, behind its minus.
InNumber(t, u, a, g, goal) ==
    /\ IsGuide(g) /\ Peek = First(a) /\ error = 0
    /\ NumberLeft(pc, t, exponent)
    /\ NumberRest(chars, t, frames, stack, u, a, g, goal)
    /\ RestSeen(t, a, g)

LEMMA IsInNumber ==
    ASSUME NEW g, NEW goal, NEW a, Reads(a, g, goal),
           pc \in NumberPlaces \ {"minus", "integer"}
    PROVE  \E t, u : InNumber(t, u, a, g, goal)
<1>1. /\ IsGuide(g) /\ Peek = First(a) /\ error = 0
      /\ NumberPlace(pc, chars, exponent, frames, stack, a, g, goal)
  BY DEF Reads, Follows, FollowsAt, NumberPlaces
<1>2. PICK t, u : /\ NumberLeft(pc, t, exponent)
                  /\ NumberRest(chars, t, frames, stack, u, a, g, goal)
  BY <1>1, NumberPlaceIs
<1>3. RestSeen(t, a, g)
  BY <1>1, <1>2, RestSees
<1> QED BY <1>1, <1>2, <1>3 DEF InNumber

\* What is left begins with c, which is seen.
LEMMA InNumberSees ==
    ASSUME NEW g, NEW goal, NEW a, NEW t, NEW u, InNumber(t, u, a, g, goal),
           NEW c \in NumberLetters, NEW x \in Seq(NumberLetters), t = Cons(c, x)
    PROVE  Peek = c /\ NumberRest(chars, Cons(c, x), frames, stack, u, a, g, goal)
<1>1. t # <<>> /\ First(t) = c
  BY ConsAhead
<1> QED BY <1>1 DEF InNumber, RestSeen

\* The seven characters of numbers and what can be behind one.
LEMMA NumberMarks ==
    ASSUME NEW c \in {"end", ",", "]", Right}
    PROVE  c \notin NumberLetters
  BY Curly DEF OtherMarks, NumberLetters, Digits

LEMMA LettersOfNumbers ==
    /\ Digits \subseteq NumberLetters
    /\ {"0", "1", "-", "+", ".", "e"} \subseteq NumberLetters
  BY DEF NumberLetters, Digits

LEMMA parseDigitsFollows ==
    ASSUME NEW g, NEW goal, NEW a, Reads(a, g, goal), parseDigits
    PROVE  GoesOn(a, g, goal)
<1>1. pc \in {"digits32", "digits64", "digitsDouble"} /\ pc \in NumberPlaces \ {"minus", "integer"}
  BY DEF parseDigits, at, NumberPlaces
<1>2. PICK t, u : InNumber(t, u, a, g, goal)
  BY <1>1, IsInNumber
<1>3. IsGuide(g) /\ error = 0 /\ LeftAtDigits(t, exponent)
  BY <1>1, <1>2 DEF InNumber, NumberLeft
<1>4. PICK d \in Seq(Digits) : \E x : t = d \o x /\ IsFraction(x)
  BY <1>3 DEF LeftAtDigits
<1>5. PICK x : t = d \o x /\ IsFraction(x)
  BY <1>4
<1>6. x \in Seq(NumberLetters) /\ First(x) \in {"end", "e", "."}
  BY <1>5, FractionBegins
<1>7. exponent = NoExponent
  BY <1>3 DEF LeftAtDigits
<1>8. CASE d = <<>>
  <2>1. t = x
    BY <1>5, <1>6, <1>8, DigitsAhead
  <2>2. First(a) \in {"end", "e", ".", ",", "]", Right}
    BY <1>2, <1>6, <2>1 DEF InNumber, RestSeen
  <2>3. Peek \notin Digits
    BY <1>2, <2>2, Curly DEF InNumber, OtherMarks, Digits
  <2>4. goto("fraction")
    BY <2>3 DEF parseDigits
  <2>5. NumberLeft("fraction", t, exponent)
    BY <1>5, <1>7, <2>1 DEF NumberLeft
  <2>6. "fraction" \in NumberPlaces \ {"minus"}
    BY DEF NumberPlaces
  <2>7. NumberRest(chars, t, frames, stack, u, a, g, goal)
    BY <1>2 DEF InNumber
  <2> QED BY <1>3, <2>4, <2>5, <2>6, <2>7, numberGoto
<1>9. CASE d # <<>>
  <2>11. DigitAhead(d, x)
    BY <1>6, <1>9, DigitsAhead
  <2>1. PICK c \in Digits, r \in Seq(Digits) :
           /\ d \o x = Cons(c, r \o x) /\ r \o x \in Seq(NumberLetters)
           /\ c \in NumberLetters
    BY <2>11 DEF DigitAhead
  <2> DEFINE y == r \o x
  <2>2. t = Cons(c, y) /\ y \in Seq(NumberLetters)
    BY <1>5, <2>1
  <2>3. ASSUME NEW place \in {"digits32", "digits64", "digitsDouble"}
        PROVE  NumberLeft(place, y, exponent) /\ NumberLeft(place, t, exponent)
    BY <1>3, <1>5, <1>7 DEF NumberLeft, LeftAtDigits
  <2> HIDE DEF y
  <2>4. Peek = c /\ NumberRest(chars, Cons(c, y), frames, stack, u, a, g, goal)
    BY <1>2, <2>1, <2>2, InNumberSees
  <2>5. NumberRest(chars, t, frames, stack, u, a, g, goal)
    BY <1>2 DEF InNumber
  <2>6. \E place \in {"digits32", "digits64", "digitsDouble"} :
            takePut(c, place) \/ goto(place)
    BY <2>4 DEF parseDigits
  <2>7. PICK place \in {"digits32", "digits64", "digitsDouble"} :
            takePut(c, place) \/ goto(place)
    BY <2>6
  <2>8. place \in NumberPlaces \ {"minus"}
    BY DEF NumberPlaces
  <2>9. CASE takePut(c, place)
    BY <1>3, <2>1, <2>2, <2>3, <2>4, <2>8, <2>9, numberTakePut
  <2>10. CASE goto(place)
    BY <1>3, <2>3, <2>5, <2>8, <2>10, numberGoto
  <2> QED BY <2>7, <2>9, <2>10
<1> QED BY <1>8, <1>9

\* One more digit of the fraction.
LEMMA fractionDigitFollows ==
    ASSUME NEW g, NEW goal, NEW a, NEW t, NEW u, InNumber(t, u, a, g, goal),
           NEW d \in Seq(Digits) \ {<<>>}, NEW x, t = d \o x,
           IsExponent(x, exponent.fraction + Len(d)), exponent.fraction \in Nat,
           exponent = [NoExponent EXCEPT !.fraction = exponent.fraction],
           fractionDigit \/ Peek \notin Digits
    PROVE  GoesOn(a, g, goal)
<1>1. x \in Seq(NumberLetters)
  BY ExponentBegins
<1>12. DigitAhead(d, x)
  BY <1>1, DigitsAhead
<1>2. PICK c \in Digits, r \in Seq(Digits) :
         /\ d \o x = Cons(c, r \o x) /\ r \o x \in Seq(NumberLetters)
         /\ c \in NumberLetters /\ Len(d) = Len(r) + 1
  BY <1>12 DEF DigitAhead
<1> DEFINE y == r \o x
<1>3. t = Cons(c, y) /\ y \in Seq(NumberLetters)
  BY <1>2
<1>4. ASSUME NEW e, e = [NoExponent EXCEPT !.fraction = exponent.fraction + 1]
      PROVE  NumberLeft("fractionDigits", y, e)
  <2>1. e.fraction = exponent.fraction + 1
    BY <1>4 DEF NoExponent
  <2>2. e.fraction + Len(r) = exponent.fraction + Len(d)
    <3>1. Len(r) \in Nat /\ Len(d) = Len(r) + 1
      BY <1>2, LenProperties
    <3>2. \A i, j \in Nat : (i + 1) + j = i + (j + 1)
      OBVIOUS
    <3>3. (exponent.fraction + 1) + Len(r) = exponent.fraction + (Len(r) + 1)
      BY <3>1, <3>2
    <3> QED BY <2>1, <3>1, <3>3
  <2>3. IsExponent(x, e.fraction + Len(r))
    BY <2>2
  <2>4. e.fraction \in Nat /\ e = [NoExponent EXCEPT !.fraction = e.fraction]
    BY <1>4, <2>1
  <2>5. LeftAtFractionDigits(y, e)
    BY <2>3, <2>4 DEF LeftAtFractionDigits
  <2> HIDE DEF y
  <2> QED BY <2>5 DEF NumberLeft
<1> HIDE DEF y
<1>5. Peek = c /\ NumberRest(chars, Cons(c, y), frames, stack, u, a, g, goal)
  BY <1>2, <1>3, InNumberSees
<1>6. IsGuide(g) /\ error = 0
  BY DEF InNumber
<1>7. /\ Sees(c, a, g)
      /\ NumberRest(Append(chars, c), y, frames, stack, u, Tail(a), g, goal)
  BY <1>2, <1>3, <1>5, <1>6, RestTakes
<1>8. /\ Take /\ chars' = Append(chars, c) /\ pc' = "fractionDigits"
      /\ exponent' = [exponent EXCEPT !.fraction = @ + 1]
      /\ frames' = frames /\ stack' = stack /\ error' = 0
  BY <1>5, <1>6 DEF fractionDigit
<1>9. exponent' = [NoExponent EXCEPT !.fraction = exponent.fraction + 1]
  BY <1>8 DEF NoExponent
<1>10. NumberLeft("fractionDigits", y, exponent')
  BY <1>4, <1>9
<1>11. "fractionDigits" \in NumberPlaces \ {"minus"}
  BY DEF NumberPlaces
<1> QED BY <1>6, <1>7, <1>8, <1>10, <1>11, numberTakes

LEMMA parseFractionFollows ==
    ASSUME NEW g, NEW goal, NEW a, Reads(a, g, goal), parseFraction
    PROVE  GoesOn(a, g, goal)
<1>1. pc \in {"fraction", "fractionFirst", "fractionDigits"}
      /\ pc \in NumberPlaces \ {"minus", "integer"}
  BY DEF parseFraction, at, NumberPlaces
<1>2. PICK t, u : InNumber(t, u, a, g, goal)
  BY <1>1, IsInNumber
<1>3. /\ IsGuide(g) /\ error = 0 /\ Peek = First(a) /\ NumberLeft(pc, t, exponent)
      /\ NumberRest(chars, t, frames, stack, u, a, g, goal)
      /\ RestSeen(t, a, g)
  BY <1>2 DEF InNumber
<1>4. "exponent" \in NumberPlaces \ {"minus"} /\ "fractionFirst" \in NumberPlaces \ {"minus"}
  BY DEF NumberPlaces
<1>5. CASE pc = "fraction"
  <2>1. IsFraction(t) /\ exponent = NoExponent
    BY <1>3, <1>5 DEF NumberLeft
  <2>2. CASE IsExponent(t, 0)
    <3>1. First(t) \in {"end", "e"}
      BY <2>2, ExponentBegins
    <3>2. Peek # "."
      BY <1>3, <3>1, Curly DEF RestSeen, OtherMarks
    <3>3. goto("exponent")
      BY <1>5, <3>2 DEF parseFraction, at
    <3>4. exponent = [NoExponent EXCEPT !.fraction = exponent.fraction]
          /\ exponent.fraction = 0
      BY <2>1 DEF NoExponent
    <3>5. LeftAtExponent(t, exponent)
      BY <2>2, <3>4 DEF LeftAtExponent
    <3>6. NumberLeft("exponent", t, exponent)
      BY <3>5 DEF NumberLeft
    <3> QED BY <1>3, <1>4, <3>3, <3>6, numberGoto
  <2>3. ASSUME NEW d \in Seq(Digits) \ {<<>>}, NEW x, t = Cons(".", d \o x),
               IsExponent(x, Len(d))
        PROVE  GoesOn(a, g, goal)
    <3>1. x \in Seq(NumberLetters) /\ d \in Seq(NumberLetters) /\ "." \in NumberLetters
      BY <2>3, ExponentBegins DEF NumberLetters
    <3> DEFINE y == d \o x
    <3>2. y \in Seq(NumberLetters)
      BY <3>1, ConcatAhead
    <3>3. LeftAtFractionFirst(y, exponent)
      BY <2>1, <2>3 DEF LeftAtFractionFirst
    <3>4. t = Cons(".", y)
      BY <2>3
    <3> HIDE DEF y
    <3>5. NumberLeft("fractionFirst", y, exponent)
      BY <3>3 DEF NumberLeft
    <3>6. Peek = "." /\ NumberRest(chars, Cons(".", y), frames, stack, u, a, g, goal)
      BY <1>2, <3>1, <3>2, <3>4, InNumberSees
    <3>7. takePut(".", "fractionFirst")
      BY <1>5, <3>6 DEF parseFraction, at
    <3> QED BY <1>3, <1>4, <3>1, <3>2, <3>5, <3>6, <3>7, numberTakePut
  <2> QED BY <2>1, <2>2, <2>3 DEF IsFraction
<1>6. CASE pc = "fractionFirst"
  <2>1. LeftAtFractionFirst(t, exponent)
    BY <1>3, <1>6 DEF NumberLeft
  <2>2. PICK d \in Seq(Digits) \ {<<>>} : \E x : t = d \o x /\ IsExponent(x, Len(d))
    BY <2>1 DEF LeftAtFractionFirst
  <2>3. PICK x : t = d \o x /\ IsExponent(x, Len(d))
    BY <2>2
  <2>4. exponent = [NoExponent EXCEPT !.fraction = exponent.fraction]
        /\ exponent.fraction = 0
    BY <2>1 DEF LeftAtFractionFirst, NoExponent
  <2>5. IsExponent(x, exponent.fraction + Len(d)) /\ exponent.fraction \in Nat
    BY <2>3, <2>4, LenProperties
  <2>6. fractionDigit \/ Peek \notin Digits
    BY <1>6 DEF parseFraction, at
  <2> QED BY <1>2, <2>3, <2>4, <2>5, <2>6, fractionDigitFollows
<1>7. CASE pc = "fractionDigits"
  <2>1. LeftAtFractionDigits(t, exponent)
    BY <1>3, <1>7 DEF NumberLeft
  <2>2. PICK d \in Seq(Digits) : \E x :
           t = d \o x /\ IsExponent(x, exponent.fraction + Len(d))
    BY <2>1 DEF LeftAtFractionDigits
  <2>3. PICK x : t = d \o x /\ IsExponent(x, exponent.fraction + Len(d))
    BY <2>2
  <2>4. exponent = [NoExponent EXCEPT !.fraction = exponent.fraction]
        /\ exponent.fraction \in Nat
    BY <2>1 DEF LeftAtFractionDigits
  <2>5. CASE d # <<>>
    <3>1. fractionDigit \/ Peek \notin Digits
      BY <1>7 DEF parseFraction, at
    <3> QED BY <1>2, <2>3, <2>4, <2>5, <3>1, fractionDigitFollows
  <2>6. CASE d = <<>>
    <3>1. x \in Seq(NumberLetters) /\ First(x) \in {"end", "e"}
      BY <2>3, ExponentBegins
    <3>2. t = x
      BY <2>3, <2>6, <3>1, DigitsAhead
    <3>3. Peek \notin Digits
      BY <1>3, <3>1, <3>2, Curly DEF RestSeen, OtherMarks, Digits
    <3>4. goto("exponent")
      BY <1>7, <3>3 DEF parseFraction, at, fractionDigit
    <3>5. exponent.fraction + Len(d) = exponent.fraction
      BY <2>4, <2>6
    <3>6. LeftAtExponent(t, exponent)
      BY <2>3, <2>4, <3>2, <3>5 DEF LeftAtExponent
    <3>7. NumberLeft("exponent", t, exponent)
      BY <3>6 DEF NumberLeft
    <3> QED BY <1>3, <1>4, <3>4, <3>7, numberGoto
  <2> QED BY <2>5, <2>6
<1> QED BY <1>1, <1>5, <1>6, <1>7

LEMMA LengthAhead ==
    ASSUME NEW S, NEW s \in Seq(S), NEW t \in Seq(S)
    PROVE  /\ s \o t \in Seq(S) /\ Len(s \o t) = Len(s) + Len(t)
           /\ Len(s) \in Nat /\ Len(t) \in Nat
  OBVIOUS

\* One more digit of the exponent, which does not make it too big.
LEMMA exponentDigitFollows ==
    ASSUME NEW g, NEW goal, NEW a, NEW t, NEW u, InNumber(t, u, a, g, goal),
           NEW d \in Seq(Digits), t \in Seq(Digits) \ {<<>>},
           exponent = [minus |-> exponent.minus, value |-> DecimalOf(d),
                       fraction |-> exponent.fraction],
           exponent.minus \in BOOLEAN, exponent.fraction \in Nat,
           InLimit(exponent.minus, d \o t, exponent.fraction),
           pc = "exponentDigits" => d # <<>>,
           exponentDigit \/ Peek \notin Digits
    PROVE  GoesOn(a, g, goal)
<1>1. PICK c \in Digits, r \in Seq(Digits) : t = Cons(c, r)
  BY ConsAll
<1>2. c \in NumberLetters /\ r \in Seq(NumberLetters)
  BY LettersOfNumbers
<1>3. Peek = c /\ NumberRest(chars, Cons(c, r), frames, stack, u, a, g, goal)
  BY <1>1, <1>2, InNumberSees
<1>4. IsGuide(g) /\ error = 0
  BY DEF InNumber
<1>5. /\ Sees(c, a, g)
      /\ NumberRest(Append(chars, c), r, frames, stack, u, Tail(a), g, goal)
  BY <1>2, <1>3, <1>4, RestTakes
<1>6. exponentDigit
  BY <1>3
<1> DEFINE b == Append(d, c)
<1>7. b \in Seq(Digits) /\ b # <<>> /\ Len(d) \in Nat /\ Len(b) = Len(d) + 1
  BY AppendAhead, LenProperties
<1>8. appended(c) = DecimalOf(b)
  <2>1. DecimalOf(b) = 10 * DecimalOf(d) + Digit(c)
    BY DecimalOfAppended
  <2>2. exponent.value = DecimalOf(d)
    OBVIOUS
  <2> HIDE DEF b
  <2> QED BY <2>1, <2>2 DEF appended, Digit
<1>9. d \o t = b \o r
  <2>1. ItemMoves(d, c, r)
    BY ItemsMove
  <2>2. d \o Cons(c, r) = b \o r
    BY <2>1, Zenon DEF ItemMoves
  <2> QED BY <1>1, <2>2, Zenon
<1>10. DecimalOf(b) \in Nat /\ DecimalOf(b \o r) \in Nat /\ DecimalOf(b) <= DecimalOf(b \o r)
       /\ Len(b \o r) = Len(b) + Len(r) /\ Len(r) \in Nat
  <2> HIDE DEF b
  <2>1. b \o r \in Seq(Digits) /\ Len(b \o r) = Len(b) + Len(r) /\ Len(r) \in Nat
    BY <1>7, LengthAhead
  <2>2. DecimalOf(b) \in Nat /\ DecimalOf(b) <= DecimalOf(b \o r)
    BY <1>7, DecimalIsNatural, DecimalGrows
  <2>3. DecimalOf(b \o r) \in Nat
    BY <2>1, DecimalIsNatural
  <2> QED BY <2>1, <2>2, <2>3
<1>11. InLimit(exponent.minus, b \o r, exponent.fraction)
  BY <1>9, Zenon
<1> HIDE DEF b
<1>12. ~(pc = "exponentDigits" /\ ~exponent.minus /\ appended(c) > maxExp)
  <2> SUFFICES ASSUME pc = "exponentDigits", ~exponent.minus
               PROVE  ~(appended(c) > maxExp)
    OBVIOUS
  <2>1. Len(d) # 0
    <3>1. d # <<>>
      OBVIOUS
    <3> QED BY <3>1, EmptySeq
  <2>2. Len(b \o r) # 1
    BY <1>7, <1>10, <2>1
  <2>3. DecimalOf(b \o r) <= MaxExponent + exponent.fraction
    BY <1>11, <2>2 DEF InLimit
  <2>4. MaxExponent + exponent.fraction \in Nat
    BY BoundsAreNaturals
  <2>5. ~(DecimalOf(b) > MaxExponent + exponent.fraction)
    BY <1>10, <2>3, <2>4
  <2> QED BY <1>8, <2>5 DEF maxExp
<1>13. /\ Take /\ chars' = Append(chars, c) /\ pc' = "exponentDigits"
       /\ exponent' = [exponent EXCEPT !.value = appended(c)]
       /\ frames' = frames /\ stack' = stack /\ error' = 0
  BY <1>3, <1>4, <1>6, <1>12 DEF exponentDigit
<1> DEFINE e == [minus |-> exponent.minus, value |-> DecimalOf(b),
                 fraction |-> exponent.fraction]
<1>14. exponent' = e
  BY <1>8, <1>13
<1>15. e.minus = exponent.minus /\ e.value = DecimalOf(b) /\ e.fraction = exponent.fraction
  OBVIOUS
<1>16. e = [minus |-> e.minus, value |-> DecimalOf(b), fraction |-> e.fraction]
  OBVIOUS
<1> HIDE DEF e
<1>17. e.minus \in BOOLEAN /\ e.fraction \in Nat /\ InLimit(e.minus, b \o r, e.fraction)
  BY <1>11, <1>15
<1>18. LeftAtExponentDigits(r, e)
  BY <1>7, <1>16, <1>17 DEF LeftAtExponentDigits
<1>19. NumberLeft("exponentDigits", r, e)
  BY <1>18 DEF NumberLeft
<1>20. "exponentDigits" \in NumberPlaces \ {"minus"}
  BY DEF NumberPlaces
<1>21. NumberLeft("exponentDigits", r, exponent')
  BY <1>14, <1>19
<1> QED BY <1>4, <1>5, <1>13, <1>20, <1>21, numberTakes

\* What is behind the sign of an exponent.
LEMMA ExponentSigned ==
    ASSUME NEW minus \in BOOLEAN, NEW n \in Nat, NEW d \in Seq(Digits) \ {<<>>},
           InLimit(minus, d, n)
    PROVE  NumberLeft("exponentFirst", d, [minus |-> minus, value |-> 0, fraction |-> n])
<1> DEFINE e == [minus |-> minus, value |-> 0, fraction |-> n]
<1>1. e.minus = minus /\ e.fraction = n
  OBVIOUS
<1>2. e = [minus |-> e.minus, value |-> 0, fraction |-> e.fraction]
  OBVIOUS
<1> HIDE DEF e
<1>3. LeftAtExponentFirst(d, e)
  BY <1>1, <1>2 DEF LeftAtExponentFirst
<1>4. NumberLeft("exponentFirst", d, e)
  BY <1>3 DEF NumberLeft
<1> QED BY <1>4 DEF e

LEMMA exponentSignFollows ==
    ASSUME NEW g, NEW goal, NEW a, NEW t, NEW u, InNumber(t, u, a, g, goal),
           pc = "exponentSign", parseExponent
    PROVE  GoesOn(a, g, goal)
<1>1. IsGuide(g) /\ error = 0 /\ LeftAtExponentSign(t, exponent)
  BY DEF InNumber, NumberLeft
<1>2. exponent = [NoExponent EXCEPT !.fraction = exponent.fraction]
      /\ exponent.fraction \in Nat
  BY <1>1 DEF LeftAtExponentSign
<1>3. exponent = [minus |-> FALSE, value |-> 0, fraction |-> exponent.fraction]
  BY <1>2 DEF NoExponent
<1>4. PICK s \in {<<>>, <<"+">>, <<"-">>}, d \in Seq(Digits) \ {<<>>} :
         t = s \o d /\ InLimit(s = <<"-">>, d, exponent.fraction)
  BY <1>1 DEF LeftAtExponentSign
<1>5. "exponentFirst" \in NumberPlaces \ {"minus"}
  BY DEF NumberPlaces
<1>6. d \in Seq(NumberLetters) /\ "+" \in NumberLetters /\ "-" \in NumberLetters
  BY DEF NumberLetters
<1>7. <<>> # <<"-">> /\ <<"+">> # <<"-">>
  <2>1. Len(<<>>) = 0 /\ Len(<<"-">>) = 1 /\ <<"+">>[1] = "+" /\ <<"-">>[1] = "-"
    OBVIOUS
  <2> QED BY <2>1
<1>8. CASE s = <<>>
  <2>1. t = d
    BY <1>4, <1>6, <1>8, NoneAhead
  <2>2. d # <<>> /\ Head(d) \in Digits
    BY ConsAll
  <2>3. First(t) \in Digits /\ t # <<>>
    BY <2>1, <2>2 DEF First
  <2>4. Peek \notin {"+", "-"}
    BY <2>3 DEF InNumber, RestSeen, Digits
  <2>5. goto("exponentFirst")
    BY <2>4 DEF parseExponent, at
  <2>6. InLimit(FALSE, d, exponent.fraction)
    BY <1>4, <1>7, <1>8
  <2>7. NumberLeft("exponentFirst", d, exponent)
    BY <1>2, <1>3, <2>6, ExponentSigned
  <2>8. NumberLeft("exponentFirst", t, exponent)
       /\ NumberRest(chars, t, frames, stack, u, a, g, goal)
    BY <2>1, <2>7 DEF InNumber
  <2> QED BY <1>1, <1>5, <2>5, <2>8, numberGoto
<1>9. CASE s = <<"+">>
  <2>1. t = Cons("+", d)
    BY <1>4, <1>9 DEF Cons
  <2>2. Peek = "+" /\ NumberRest(chars, Cons("+", d), frames, stack, u, a, g, goal)
    BY <1>6, <2>1, InNumberSees
  <2>3. takePut("+", "exponentFirst")
    BY <2>2 DEF parseExponent, at
  <2>4. InLimit(FALSE, d, exponent.fraction)
    BY <1>4, <1>7, <1>9
  <2>5. NumberLeft("exponentFirst", d, exponent)
    BY <1>2, <1>3, <2>4, ExponentSigned
  <2> QED BY <1>1, <1>5, <1>6, <2>2, <2>3, <2>5, numberTakePut
<1>10. CASE s = <<"-">>
  <2>1. t = Cons("-", d)
    BY <1>4, <1>10 DEF Cons
  <2>2. Peek = "-" /\ NumberRest(chars, Cons("-", d), frames, stack, u, a, g, goal)
    BY <1>6, <2>1, InNumberSees
  <2>3. /\ Take /\ chars' = Append(chars, "-") /\ pc' = "exponentFirst"
        /\ exponent' = [exponent EXCEPT !.minus = TRUE]
        /\ frames' = frames /\ stack' = stack /\ error' = 0
    BY <1>1, <2>2 DEF parseExponent, at, takePut, goto
  <2>4. InLimit(TRUE, d, exponent.fraction)
    BY DEF InLimit
  <2>5. exponent' = [minus |-> TRUE, value |-> 0, fraction |-> exponent.fraction]
    <3> DEFINE n == exponent.fraction
               e0 == [minus |-> FALSE, value |-> 0, fraction |-> n]
               e1 == [minus |-> TRUE, value |-> 0, fraction |-> n]
               e2 == [e0 EXCEPT !.minus = TRUE]
    <3>1. /\ DOMAIN e1 = {"minus", "value", "fraction"} /\ DOMAIN e2 = DOMAIN e1
          /\ e1 = [x \in DOMAIN e1 |-> e1[x]] /\ e2 = [x \in DOMAIN e2 |-> e2[x]]
      OBVIOUS
    <3>2. e2["minus"] = e1["minus"] /\ e2["value"] = e1["value"]
          /\ e2["fraction"] = e1["fraction"]
      OBVIOUS
    <3>3. e0 = exponent
      BY <1>3
    <3> HIDE DEF e0, e1, e2
    <3>4. e2 = e1
      BY <3>1, <3>2
    <3>5. exponent' = e2
      BY <2>3, <3>3 DEF e2
    <3> QED BY <3>4, <3>5 DEF e1
  <2>6. NumberLeft("exponentFirst", d, exponent')
    BY <1>2, <2>4, <2>5, ExponentSigned
  <2>7. /\ Sees("-", a, g)
        /\ NumberRest(Append(chars, "-"), d, frames, stack, u, Tail(a), g, goal)
    BY <1>1, <1>6, <2>2, RestTakes
  <2> QED BY <1>1, <1>5, <2>3, <2>6, <2>7, numberTakes
<1> QED BY <1>8, <1>9, <1>10

LEMMA parseExponentFollows ==
    ASSUME NEW g, NEW goal, NEW a, Reads(a, g, goal), parseExponent
    PROVE  GoesOn(a, g, goal)
<1>1. /\ pc \in {"exponent", "exponentSign", "exponentFirst", "exponentDigits"}
      /\ pc \in NumberPlaces \ {"minus", "integer"}
  BY DEF parseExponent, at, NumberPlaces
<1>2. PICK t, u : InNumber(t, u, a, g, goal)
  BY <1>1, IsInNumber
<1>3. /\ IsGuide(g) /\ error = 0 /\ Peek = First(a) /\ NumberLeft(pc, t, exponent)
      /\ NumberRest(chars, t, frames, stack, u, a, g, goal)
      /\ RestSeen(t, a, g)
  BY <1>2 DEF InNumber
<1>4. "numberEnd" \in NumberPlaces \ {"minus"} /\ "exponentSign" \in NumberPlaces \ {"minus"}
  BY DEF NumberPlaces
<1>5. CASE pc = "exponent"
  <2>1. LeftAtExponent(t, exponent)
    BY <1>3, <1>5 DEF NumberLeft
  <2>2. IsExponent(t, exponent.fraction)
    BY <2>1 DEF LeftAtExponent
  <2>3. CASE t = <<>>
    <3>1. Peek # "e"
      BY <1>3, <2>3, Curly DEF RestSeen, OtherMarks, First
    <3>2. goto("numberEnd")
      BY <1>5, <3>1 DEF parseExponent, at
    <3>3. NumberLeft("numberEnd", t, exponent)
      BY <2>3 DEF NumberLeft
    <3> QED BY <1>3, <1>4, <3>2, <3>3, numberGoto
  <2>4. ASSUME NEW s \in {<<>>, <<"+">>, <<"-">>}, NEW d \in Seq(Digits) \ {<<>>},
               t = Cons("e", s \o d),
               s = <<"-">> \/ Len(d) = 1 \/ DecimalOf(d) <= MaxExponent + exponent.fraction
        PROVE  GoesOn(a, g, goal)
    <3> DEFINE y == s \o d
    <3>1. s \in Seq(NumberLetters) /\ d \in Seq(NumberLetters) /\ "e" \in NumberLetters
      <4>1. "+" \in NumberLetters /\ "-" \in NumberLetters /\ "e" \in NumberLetters
        BY DEF NumberLetters
      <4>2. d \in Seq(NumberLetters)
        BY LettersOfNumbers
      <4> HIDE DEF NumberLetters
      <4>3. <<"+">> \in Seq(NumberLetters) /\ <<"-">> \in Seq(NumberLetters)
            /\ <<>> \in Seq(NumberLetters)
        BY <4>1
      <4> QED BY <4>1, <4>2, <4>3
    <3>2. y \in Seq(NumberLetters)
      BY <3>1, ConcatAhead
    <3>3. InLimit(s = <<"-">>, d, exponent.fraction)
      BY <2>4 DEF InLimit
    <3>4. LeftAtExponentSign(y, exponent)
      BY <2>1, <3>3 DEF LeftAtExponentSign, LeftAtExponent
    <3>5. t = Cons("e", y)
      BY <2>4
    <3> HIDE DEF y
    <3>6. NumberLeft("exponentSign", y, exponent)
      BY <3>4 DEF NumberLeft
    <3>7. Peek = "e" /\ NumberRest(chars, Cons("e", y), frames, stack, u, a, g, goal)
      BY <1>2, <3>1, <3>2, <3>5, InNumberSees
    <3>8. takePut("e", "exponentSign")
      BY <1>5, <3>7 DEF parseExponent, at
    <3> QED BY <1>3, <1>4, <3>1, <3>2, <3>6, <3>7, <3>8, numberTakePut
  <2> QED BY <2>2, <2>3, <2>4 DEF IsExponent
<1>6. CASE pc = "exponentSign"
  BY <1>2, <1>6, exponentSignFollows
<1>7. CASE pc = "exponentFirst"
  <2>1. LeftAtExponentFirst(t, exponent)
    BY <1>3, <1>7 DEF NumberLeft
  <2>2. /\ exponent = [minus |-> exponent.minus, value |-> 0, fraction |-> exponent.fraction]
        /\ exponent.minus \in BOOLEAN /\ exponent.fraction \in Nat
        /\ t \in Seq(Digits) \ {<<>>} /\ InLimit(exponent.minus, t, exponent.fraction)
    BY <2>1 DEF LeftAtExponentFirst
  <2> DEFINE d == <<>>
  <2>3. d \in Seq(Digits) /\ d \o t = t /\ DecimalOf(d) = 0
    BY <2>2, DecimalOfNone
  <2>4. exponentDigit \/ Peek \notin Digits
    BY <1>7 DEF parseExponent, at
  <2>5. pc # "exponentDigits"
    BY <1>7
  <2> HIDE DEF d
  <2>6. /\ exponent = [minus |-> exponent.minus, value |-> DecimalOf(d),
                       fraction |-> exponent.fraction]
        /\ InLimit(exponent.minus, d \o t, exponent.fraction)
    BY <2>2, <2>3
  <2> QED BY <1>2, <2>2, <2>3, <2>4, <2>5, <2>6, exponentDigitFollows
<1>8. CASE pc = "exponentDigits"
  <2>1. LeftAtExponentDigits(t, exponent)
    BY <1>3, <1>8 DEF NumberLeft
  <2>2. PICK d \in Seq(Digits) \ {<<>>} :
           /\ exponent = [minus |-> exponent.minus, value |-> DecimalOf(d),
                          fraction |-> exponent.fraction]
           /\ exponent.minus \in BOOLEAN /\ exponent.fraction \in Nat
           /\ t \in Seq(Digits) /\ InLimit(exponent.minus, d \o t, exponent.fraction)
    BY <2>1 DEF LeftAtExponentDigits
  <2>3. exponentDigit \/ (Peek \notin Digits /\ goto("numberEnd"))
    BY <1>8 DEF parseExponent, at
  <2>4. CASE t # <<>>
    <3>1. exponentDigit \/ Peek \notin Digits
      BY <2>3
    <3> QED BY <1>2, <2>2, <2>4, <3>1, exponentDigitFollows
  <2>5. CASE t = <<>>
    <3>1. First(a) \in {"end", ",", "]", Right}
      BY <1>3, <2>5 DEF RestSeen, First
    <3>2. Peek \notin Digits
      BY <1>3, <3>1, Curly DEF OtherMarks, Digits
    <3>3. goto("numberEnd")
      BY <2>3, <3>2 DEF exponentDigit
    <3>4. NumberLeft("numberEnd", t, exponent)
      BY <2>5 DEF NumberLeft
    <3> QED BY <1>3, <1>4, <3>3, <3>4, numberGoto
  <2> QED BY <2>4, <2>5
<1> QED BY <1>1, <1>5, <1>6, <1>7, <1>8

LEMMA endNumberFollows ==
    ASSUME NEW g, NEW goal, NEW a, Reads(a, g, goal), endNumber
    PROVE  GoesOn(a, g, goal)
<1>1. pc = "numberEnd" /\ pc \in NumberPlaces \ {"minus", "integer"}
  BY DEF endNumber, at, NumberPlaces
<1>2. PICK t, u : InNumber(t, u, a, g, goal)
  BY <1>1, IsInNumber
<1>3. /\ error = 0 /\ t = <<>> /\ NumberRest(chars, t, frames, stack, u, a, g, goal)
      /\ a \in Seq(g.letters)
  BY <1>1, <1>2 DEF InNumber, NumberLeft, RestSeen
<1>4. /\ chars \in Seq(g.letters) /\ u \in Seq(g.letters) /\ a = <<>> \o u
      /\ Behind(frames, Append(stack, <<"number", chars \o <<>>>>), u, g, goal)
  BY <1>3 DEF NumberRest
<1>5. a = u /\ chars \o <<>> = chars
  BY <1>4, NoneAhead
<1>6. Behind(frames, Append(stack, <<"number", chars>>), a, g, goal)
  BY <1>4, <1>5
<1>7. /\ pc' = "behindValue" /\ stack' = Append(stack, <<"number", chars>>)
      /\ frames' = frames /\ error' = 0 /\ src' = src
  BY <1>3 DEF endNumber, event, stream
<1>8. FollowsAt(pc', frames', stack', chars', isKey', exponent', error', root', a, g, goal)
  BY <1>6, <1>7, FollowsBehind
<1> QED BY <1>3, <1>7, <1>8, TakesNone

-----------------------------------------------------------------------------
\* A reader that is in a text of the guide's stays in it, with whatever step.
LEMMA ReaderFollows ==
    ASSUME NEW g, NEW goal, NEW a, Reads(a, g, goal), ReaderNext
    PROVE  GoesOn(a, g, goal)
<1>1. CASE ParseNumber
  BY <1>1, parseMinusFollows, parseIntFollows, parseDigitsFollows, parseFractionFollows,
     parseExponentFollows, endNumberFollows DEF ParseNumber
<1> QED BY <1>1, SkipWhitespaceFollows, ParseFollows, parseEndFollows, ParseLiteralFollows,
        ParseValueFollows, ParseObjectFollows, ParseArrayFollows, parseCharacterFollows,
        parseEscapeFollows, parseSurrogateFollows DEF ReaderNext

-----------------------------------------------------------------------------
(* A text that is there as a whole.                                        *)

\* What is ahead of the reader.
Ahead == SubSeq(text, src, Len(text))

LEMMA SuffixAhead ==
    ASSUME NEW S, NEW t \in Seq(S), NEW i \in 1..(Len(t) + 1)
    PROVE  /\ SubSeq(t, i, Len(t)) \in Seq(S)
           /\ First(SubSeq(t, i, Len(t))) = IF i <= Len(t) THEN t[i] ELSE "end"
           /\ SubSeq(t, i, Len(t)) # <<>> => i <= Len(t)
           /\ i <= Len(t) => Tail(SubSeq(t, i, Len(t))) = SubSeq(t, i + 1, Len(t))
<1> DEFINE u == SubSeq(t, i, Len(t))
<1>1. Len(t) \in Nat /\ i \in 1..(Len(t) + 1)
  BY LenProperties
<1>2. u \in Seq(S) /\ Len(u) = Len(t) - i + 1
  BY <1>1
<1>3. CASE i <= Len(t)
  <2>1. u # <<>> /\ Head(u) = t[i]
    BY <1>1, <1>3
  <2>2. Tail(u) = SubSeq(t, i + 1, Len(t))
    BY <1>1, <1>3
  <2> QED BY <1>2, <1>3, <2>1, <2>2 DEF First
<1>4. CASE ~(i <= Len(t))
  <2>1. Len(u) = 0
    BY <1>1, <1>2, <1>4
  <2>2. u = <<>>
    BY <1>2, <2>1, EmptySeq
  <2> QED BY <1>2, <1>4, <2>2 DEF First
<1> QED BY <1>3, <1>4

\* A reader step of a whole text leaves it as it is.
LEMMA TextStays ==
    ASSUME complete, ReaderNext
    PROVE  text' = text /\ complete' = complete
<1>1. ASSUME Take
      PROVE  text' = text /\ complete' = complete
  BY <1>1 DEF Take
<1>2. ASSUME UNCHANGED stream
      PROVE  text' = text /\ complete' = complete
  BY <1>2 DEF stream
<1>3. \/ Take \/ UNCHANGED stream
  <2>1. CASE SkipWhitespace \/ Parse \/ parseEnd \/ ParseLiteral
    BY <2>1 DEF SkipWhitespace, Parse, parseEnd, ParseLiteral, goto, fail, event
  <2>2. CASE ParseValue
    BY <2>2 DEF ParseValue, beginString, wholeString, begin, goto
  <2>3. CASE ParseObject \/ ParseArray
    BY <2>3 DEF ParseObject, ParseArray, beginString, wholeString, continue, end, goto, fail
  <2>4. CASE parseCharacter \/ parseEscape \/ parseSurrogate
    BY <2>4 DEF parseCharacter, parseEscape, parseSurrogate, takeOnly, takePut, fail
  <2>5. CASE parseMinus \/ parseInt \/ parseDigits
    BY <2>5 DEF parseMinus, parseInt, parseDigits, takePut, fail, goto
  <2>6. CASE parseFraction
    BY <2>6 DEF parseFraction, fractionDigit, takePut, fail, goto
  <2>7. CASE parseExponent
    BY <2>7 DEF parseExponent, exponentDigit, takePut, fail, goto
  <2>8. CASE endNumber
    BY <2>8 DEF endNumber
  <2> QED BY <2>1, <2>2, <2>3, <2>4, <2>5, <2>6, <2>7, <2>8 DEF ReaderNext, ParseNumber
<1> QED BY <1>1, <1>2, <1>3

\* The reader is in a whole text of the guide's, which denotes the goal.
Follower(g, goal) ==
    /\ complete
    /\ text \in Seq(g.letters)
    /\ src \in 1..(Len(text) + 1)
    /\ IsGuide(g)
    /\ Follows(Ahead, g, goal)

\* It is read to its end, in whatever steps.
LEMMA FollowerStays ==
    ASSUME NEW g, NEW goal, Follower(g, goal), ReaderNext
    PROVE  Follower(g, goal)'
<1>1. PICK a : a = Ahead
  OBVIOUS
<1>2. /\ complete /\ text \in Seq(g.letters) /\ src \in 1..(Len(text) + 1)
      /\ IsGuide(g) /\ Follows(a, g, goal)
  BY <1>1 DEF Follower
<1>3. Peek = First(a)
  BY <1>1, <1>2, SuffixAhead DEF Ahead, Peek
<1>4. GoesOn(a, g, goal)
  BY <1>2, <1>3, ReaderFollows DEF Reads
<1>5. text' = text /\ complete'
  BY <1>2, TextStays
<1>6. CASE src' = src /\ Follows(a, g, goal)'
  <2>1. Ahead' = a
    BY <1>1, <1>5, <1>6 DEF Ahead
  <2>2. Follows(Ahead, g, goal)'
    BY <1>6, <2>1 DEF Follows
  <2> QED BY <1>2, <1>5, <1>6, <2>2 DEF Follower
<1>7. CASE src' = src + 1 /\ a # <<>> /\ Follows(Tail(a), g, goal)'
  <2>1. src <= Len(text) /\ Tail(a) = SubSeq(text, src + 1, Len(text))
    BY <1>1, <1>2, <1>7, SuffixAhead DEF Ahead
  <2>2. Ahead' = Tail(a)
    BY <1>5, <1>7, <2>1 DEF Ahead
  <2>3. Follows(Ahead, g, goal)'
    BY <1>7, <2>2 DEF Follows
  <2>4. src' \in 1..(Len(text') + 1)
    BY <1>2, <1>5, <1>7, <2>1, LenProperties
  <2> QED BY <1>2, <1>5, <2>3, <2>4 DEF Follower
<1> QED BY <1>4, <1>6, <1>7 DEF GoesOn

\* A reader that begins with a text of a value.
LEMMA FollowerBegins ==
    ASSUME NEW g, IsGuide(g), NEW x \in g.values,
           text = x.text, complete, src = 1, pc = "document", frames = <<>>,
           stack = <<>>, error = 0
    PROVE  Follower(g, x.value)
<1>1. x.text \in Seq(g.letters) /\ x.value \in g.domain
  BY DEF IsGuide, Typed
<1>2. Len(x.text) \in Nat
  BY <1>1, LenProperties
<1>3. Ahead = x.text
  BY <1>1, <1>2 DEF Ahead
<1> DEFINE C == {Place(<<>>, <<>>, x.value, <<>>)}
<1>4. Expects(<<>>, <<>>, x.value, <<>>, g, x.value)
  <2>1. C \subseteq PlacesOf(g)
    BY <1>1 DEF Place, PlacesOf
  <2>2. ArePlaces(C, g, x.value)
    BY <2>1 DEF ArePlaces
  <2> QED BY <2>2 DEF Expects
<1>5. x.text = x.text \o <<>>
  BY <1>1
<1>6. AtValue(<<>>, <<>>, x.text, g, x.value)
  BY <1>4, <1>5 DEF AtValue
<1>7. FollowsAt("document", <<>>, <<>>, chars, isKey, exponent, 0, root, x.text, g, x.value)
  BY <1>6, FollowsValue
<1>8. Follows(Ahead, g, x.value)
  BY <1>1, <1>3, <1>7 DEF Follows
<1>9. src \in 1..(Len(text) + 1)
  BY <1>2
<1> QED BY <1>1, <1>8, <1>9 DEF Follower

LEMMA FollowerEnds ==
    ASSUME NEW g, NEW goal, Follower(g, goal), pc = "done"
    PROVE  Done(error, root, g, goal)
  BY DEF Follower, Follows, FollowsAt

\* A text of a guide that is there as a whole is read as the value it denotes,
\* in whatever steps, and it is refused only if there is a value missing in it
\* (what the Parse functions of rapidjson's reader make of a text).
THEOREM TextsAreRead ==
    ASSUME NEW g, NEW goal
    PROVE  Follower(g, goal) /\ [][ReaderNext]_readerVars
              => [](pc = "done" => Done(error, root, g, goal))
<1>1. Follower(g, goal) /\ [ReaderNext]_readerVars => Follower(g, goal)'
  <2>1. ASSUME Follower(g, goal), UNCHANGED readerVars
        PROVE  Follower(g, goal)'
    BY <2>1 DEF readerVars, stream, number, Follower, Follows, Ahead
  <2> QED BY <2>1, FollowerStays
<1>2. Follower(g, goal) => (pc = "done" => Done(error, root, g, goal))
  BY FollowerEnds
<1> QED BY <1>1, <1>2, PTL
=============================================================================
