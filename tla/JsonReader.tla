----------------------------- MODULE JsonReader -----------------------------
(***************************************************************************)
(* rapidjson::Document::Parse with kParseNumbersAsStringsFlag, as          *)
(* parseJsonResponse of Query.cxx calls it: GenericReader, which descends  *)
(* recursively, and the document that takes its events.                    *)
(*                                                                         *)
(* The recursion is a stack of frames, and pc is where the innermost       *)
(* function is.  The text is made up while it is read: an element is       *)
(* chosen when the stream comes to it.                                     *)
(***************************************************************************)
EXTENDS Integers, Sequences, SequencesExt

CONSTANTS
    Alphabets,    \* sets of elements texts are made of
    MaxText,      \* bound: elements of a text over each alphabet
    MaxExponent   \* the largest exponent of a number without fraction

ASSUME BoundsAreNaturals ==
    /\ MaxExponent \in Nat
    /\ MaxText \in [Alphabets -> Nat]

ASSUME AlphabetsAreStrings == \A a \in Alphabets : a \subseteq STRING

VARIABLES
    alphabet,     \* the one this text is made of
    text,         \* the text, as far as it has been made up
    complete,     \* nothing more will be made up
    src,          \* the next element
    pc,
    frames,       \* the objects and arrays begun, with the values they have
    chars,        \* characters of the string or number being read
    isKey,        \* it is the name of a member
    exponent,     \* of the number: sign, value, digits of its fraction
    stack,        \* the document's values under construction
    error,        \* the code of a parse error, or 0
    root          \* the document's value

stream == <<text, complete, src>>
number == <<chars, exponent>>
readerVars == <<alphabet, stream, pc, frames, number, isKey, stack, error, root>>

\* ParseErrorCode, as far as these texts reach it.
kParseErrorDocumentEmpty                  == 1
kParseErrorDocumentRootNotSingular        == 2
kParseErrorValueInvalid                   == 3
kParseErrorObjectMissName                 == 4
kParseErrorObjectMissColon                == 5
kParseErrorObjectMissCommaOrCurlyBracket  == 6
kParseErrorArrayMissCommaOrSquareBracket  == 7
kParseErrorStringUnicodeEscapeInvalidHex  == 8
kParseErrorStringUnicodeSurrogateInvalid  == 9
kParseErrorStringEscapeInvalid            == 10
kParseErrorStringMissQuotationMark        == 11
kParseErrorStringInvalidEncoding          == 12
kParseErrorNumberTooBig                   == 13
kParseErrorNumberMissFraction             == 14
kParseErrorNumberMissExponent             == 15

Literals == {"null", "true", "false"}
Digits   == {"0", "1"}

Null == <<"null", <<>>>>
NoExponent == [minus |-> FALSE, value |-> 0, fraction |-> 0]

\* A whole string as one element, for texts in which only the structure counts.
Token == <<"string", <<"token">>>>

-----------------------------------------------------------------------------
Peek == IF src <= Len(text) THEN text[src] ELSE "end"

\* Take of the stream; behind the last element the text goes on or ends.
Take ==
    /\ src' = src + 1
    /\ \/ /\ complete \/ src < Len(text)
          /\ UNCHANGED <<text, complete>>
       \/ /\ ~complete /\ src = Len(text)
          /\ \/ /\ complete' = TRUE
                /\ UNCHANGED text
             \/ /\ Len(text) < MaxText[alphabet]
                /\ \E c \in alphabet : text' = Append(text, c)
                /\ UNCHANGED complete

\* Where SkipWhitespace is called before anything is looked at.
SkipsBefore == {"document", "value", "firstMember", "member", "colon",
                "firstElement", "behindValue"}

at(place) == pc = place /\ (place \in SkipsBefore => Peek # "newline")

SkipWhitespace ==
    /\ pc \in SkipsBefore
    /\ Peek = "newline"
    /\ Take
    /\ UNCHANGED <<alphabet, pc, frames, number, isKey, stack, error, root>>

goto(place) ==
    /\ pc' = place
    /\ UNCHANGED <<alphabet, stream, frames, number, isKey, stack, error, root>>

\* A parse error: every function returns, ClearStackOnExit empties the stack
\* and the document stays null.
fail(code) ==
    /\ error' = code
    /\ pc' = "done"
    /\ frames' = <<>>
    /\ stack' = <<>>
    /\ UNCHANGED <<alphabet, stream, number, isKey, root>>

\* An event that makes a value: it goes on the document's stack.
event(value, place) ==
    /\ stack' = Append(stack, value)
    /\ pc' = place

ReaderStart ==
    /\ src = 1
    /\ pc = "document"
    /\ frames = <<>>
    /\ chars = <<>>
    /\ isKey = FALSE
    /\ exponent = NoExponent
    /\ stack = <<>>
    /\ error = 0
    /\ root = Null

ReaderInit ==
    /\ ReaderStart
    /\ alphabet \in Alphabets
    /\ \/ text = <<>> /\ complete = TRUE
       \/ \E c \in alphabet : text = <<c>> /\ complete = FALSE

\* Parse: its beginning ...
Parse ==
    /\ at("document")
    /\ IF Peek = "end" THEN fail(kParseErrorDocumentEmpty) ELSE goto("value")

\* ... and its end, behind the root value, which becomes the document's.
parseEnd ==
    /\ at("behindValue")
    /\ frames = <<>>
    /\ IF Peek # "end"
         THEN fail(kParseErrorDocumentRootNotSingular)
         ELSE /\ root' = Last(stack)
              /\ stack' = Front(stack)
              /\ pc' = "done"
              /\ UNCHANGED <<alphabet, stream, frames, number, isKey, error>>

-----------------------------------------------------------------------------
(* ParseValue and the functions it calls.                                  *)

\* ParseNull, ParseTrue, ParseFalse: a misspelt one is as invalid as any
\* character that begins no value.
ParseLiteral ==
    /\ at("value")
    /\ Peek \in Literals
    /\ Take
    /\ event(<<Peek, <<>>>>, "behindValue")
    /\ UNCHANGED <<alphabet, frames, number, isKey, error, root>>

beginString(key) ==
    /\ Peek = "quote"
    /\ Take
    /\ pc' = "string"
    /\ chars' = <<>>
    /\ isKey' = key
    /\ UNCHANGED <<alphabet, frames, exponent, stack, error, root>>

\* ParseString of a string that is one element.
wholeString(key) ==
    /\ Peek = "token"
    /\ Take
    /\ event(Token, IF key THEN "colon" ELSE "behindValue")
    /\ UNCHANGED <<alphabet, frames, number, isKey, error, root>>

\* ParseObject and ParseArray up to their first look at what is inside.
begin(kind, bracket, place) ==
    /\ Peek = bracket
    /\ Take
    /\ event(<<kind, <<>>>>, place)
    /\ frames' = Append(frames, [kind |-> kind, count |-> 0])
    /\ UNCHANGED <<alphabet, number, isKey, error, root>>

ParseValue ==
    /\ at("value")
    /\ \/ beginString(FALSE)
       \/ wholeString(FALSE)
       \/ begin("object", "{", "firstMember")
       \/ begin("array", "[", "firstElement")
       \/ /\ Peek \notin Literals \union {"quote", "token", "{", "["}
          /\ goto("minus")

\* The last n entries of the stack.
top(n) == SubSeq(stack, Len(stack) - n + 1, Len(stack))

pairs(values) ==
    [i \in 1..(Len(values) \div 2) |-> <<values[2 * i - 1], values[2 * i]>>]

\* EndObject and EndArray of the document: the values of the container come
\* off the stack and into the entry below them.
endContainer(kind, count) ==
    LET size   == IF kind = "object" THEN 2 * count ELSE count
        values == top(size)
        made   == IF kind = "object"
                    THEN <<kind, [i \in 1..count |->
                                     <<pairs(values)[i][1][2], pairs(values)[i][2]>>]>>
                    ELSE <<kind, values>>
    IN  /\ stack' = Append(SubSeq(stack, 1, Len(stack) - size - 1), made)
        /\ frames' = Front(frames)
        /\ pc' = "behindValue"

end(bracket, count) ==
    /\ Peek = bracket
    /\ Take
    /\ endContainer(Last(frames).kind, count)
    /\ UNCHANGED <<alphabet, number, isKey, error, root>>

uncounted(frame) == frame.count

\* The elements or members of a container with the one just read.
counted(frame) == frame.count + 1

\* A comma: the next element or member.
continue(place) ==
    /\ Peek = ","
    /\ Take
    /\ frames' = [frames EXCEPT ![Len(frames)].count = counted(Last(frames))]
    /\ pc' = place
    /\ UNCHANGED <<alphabet, number, isKey, stack, error, root>>

\* ParseObject: an empty one, a name, a colon, and what follows a member.
ParseObject ==
    \/ /\ at("firstMember")
       /\ end("}", 0) \/ (Peek # "}" /\ goto("member"))
    \/ /\ at("member")
       /\ \/ beginString(TRUE)
          \/ wholeString(TRUE)
          \/ /\ Peek \notin {"quote", "token"}
             /\ fail(kParseErrorObjectMissName)
    \/ /\ at("colon")
       /\ \/ /\ Peek = ":"
             /\ Take
             /\ pc' = "value"
             /\ UNCHANGED <<alphabet, frames, number, isKey, stack, error, root>>
          \/ Peek # ":" /\ fail(kParseErrorObjectMissColon)
    \/ /\ at("behindValue")
       /\ frames # <<>> /\ Last(frames).kind = "object"
       /\ \/ continue("member")
          \/ end("}", counted(Last(frames)))
          \/ /\ Peek \notin {",", "}"}
             /\ fail(kParseErrorObjectMissCommaOrCurlyBracket)

\* ParseArray: an empty one, and what follows an element.
ParseArray ==
    \/ /\ at("firstElement")
       /\ end("]", 0) \/ (Peek # "]" /\ goto("value"))
    \/ /\ at("behindValue")
       /\ frames # <<>> /\ Last(frames).kind = "array"
       /\ \/ continue("value")
          \/ end("]", counted(Last(frames)))
          \/ /\ Peek \notin {",", "]"}
             /\ fail(kParseErrorArrayMissCommaOrSquareBracket)

-----------------------------------------------------------------------------
(* ParseStringToStream.                                                    *)

\* Take of an element that puts character c.
takePut(c, place) ==
    /\ Take
    /\ chars' = Append(chars, c)
    /\ pc' = place
    /\ UNCHANGED <<alphabet, frames, exponent, isKey, stack, error, root>>

takeOnly(place) ==
    /\ Take
    /\ pc' = place
    /\ UNCHANGED <<alphabet, frames, number, isKey, stack, error, root>>

neverAtEnd == FALSE

\* Where the text ends, a NUL for rapidjson.
atEnd == Peek = "end"

parseCharacter ==
    /\ at("string")
    /\ \/ Peek = "backslash" /\ takeOnly("escape")
       \/ /\ Peek = "quote"
          /\ Take
          /\ event(<<"string", chars>>, IF isKey THEN "colon" ELSE "behindValue")
          /\ UNCHANGED <<alphabet, frames, number, isKey, error, root>>
       \/ atEnd /\ fail(kParseErrorStringMissQuotationMark)
       \/ Peek = "newline" /\ fail(kParseErrorStringInvalidEncoding)
       \/ /\ ~atEnd
          /\ Peek \notin {"backslash", "quote", "newline"}
          /\ takePut(Peek, "string")

\* Behind a backslash.  ParseHex4 is one element: "u" has no four digits behind
\* it, "uD83D" and "uDE00" are the halves of a surrogate pair.
parseEscape ==
    /\ at("escape")
    /\ \/ Peek \in {"quote", "backslash"} /\ takePut(Peek, "string")
       \/ Peek = "n" /\ takePut("newline", "string")
       \/ Peek = "u0000" /\ takePut("nul", "string")
       \/ Peek = "uD83D" /\ takeOnly("surrogate")
       \/ Peek = "uDE00" /\ fail(kParseErrorStringUnicodeSurrogateInvalid)
       \/ Peek = "u" /\ fail(kParseErrorStringUnicodeEscapeInvalidHex)
       \/ /\ Peek \notin {"quote", "backslash", "n", "u", "u0000", "uD83D",
                          "uDE00"}
          /\ fail(kParseErrorStringEscapeInvalid)

\* Behind a high surrogate: a backslash and the low one.
parseSurrogate ==
    \/ /\ at("surrogate")
       /\ \/ Peek = "backslash" /\ takeOnly("lowSurrogate")
          \/ /\ Peek # "backslash"
             /\ fail(kParseErrorStringUnicodeSurrogateInvalid)
    \/ /\ at("lowSurrogate")
       /\ \/ Peek = "uDE00" /\ takePut("wide", "string")
          \/ Peek = "u" /\ fail(kParseErrorStringUnicodeEscapeInvalidHex)
          \/ /\ Peek \notin {"u", "uDE00"}
             /\ fail(kParseErrorStringUnicodeSurrogateInvalid)

-----------------------------------------------------------------------------
(* ParseNumber; the flag keeps its text, which TakePush collects.          *)

parseMinus ==
    /\ at("minus")
    /\ exponent' = NoExponent
    /\ \/ /\ Peek = "-"
          /\ Take
          /\ chars' = <<Peek>>
       \/ /\ Peek # "-"
          /\ chars' = <<>>
          /\ UNCHANGED stream
    /\ pc' = "integer"
    /\ UNCHANGED <<alphabet, frames, isKey, stack, error, root>>

parseInt ==
    /\ at("integer")
    /\ \/ Peek = "0" /\ takePut(Peek, "fraction")
       \/ Peek = "1" /\ takePut(Peek, "digits32")
       \/ Peek \notin Digits /\ fail(kParseErrorValueInvalid)

\* Three loops over the digits, in an unsigned, in an uint64_t, in a double:
\* each is left where the next digit would not fit, which depends on the value
\* and is any digit here.
parseDigits ==
    \E loop \in {<<"digits32", "digits64">>, <<"digits64", "digitsDouble">>,
                 <<"digitsDouble", "fraction">>} :
        /\ at(loop[1])
        /\ \/ Peek \in Digits /\ takePut(Peek, loop[1])
           \/ loop[2] # "fraction" /\ Peek \in Digits /\ goto(loop[2])
           \/ Peek \notin Digits /\ goto("fraction")

\* A digit of the fraction also counts for how large the exponent may be.  (Up
\* to 17 significant digits do, which these texts do not have.)
fractionDigit ==
    /\ Peek \in Digits
    /\ Take
    /\ chars' = Append(chars, Peek)
    /\ exponent' = [exponent EXCEPT !.fraction = @ + 1]
    /\ pc' = "fractionDigits"
    /\ UNCHANGED <<alphabet, frames, isKey, stack, error, root>>

parseFraction ==
    \/ /\ at("fraction")
       /\ \/ Peek = "." /\ takePut(Peek, "fractionFirst")
          \/ Peek # "." /\ goto("exponent")
    \/ /\ at("fractionFirst")
       /\ \/ fractionDigit
          \/ Peek \notin Digits /\ fail(kParseErrorNumberMissFraction)
    \/ /\ at("fractionDigits")
       /\ \/ fractionDigit
          \/ Peek \notin Digits /\ goto("exponent")

fixedLimit == MaxExponent

\* maxExp, for an exponent without minus.
maxExp == MaxExponent + exponent.fraction

\* The value of the exponent with one more digit.
appended(digit) == 10 * exponent.value + (IF digit = "1" THEN 1 ELSE 0)

\* A digit of the exponent behind the first one, at which a number becomes too
\* big.  (Behind a minus only more digits than an int has are cut short.)
exponentDigit ==
    /\ Peek \in Digits
    /\ Take
    /\ chars' = Append(chars, Peek)
    /\ exponent' = [exponent EXCEPT !.value = appended(Peek)]
    /\ IF pc = "exponentDigits" /\ ~exponent.minus /\ appended(Peek) > maxExp
         THEN /\ error' = kParseErrorNumberTooBig
              /\ pc' = "done"
              /\ frames' = <<>>
              /\ stack' = <<>>
         ELSE /\ pc' = "exponentDigits"
              /\ UNCHANGED <<error, frames, stack>>
    /\ UNCHANGED <<alphabet, isKey, root>>

parseExponent ==
    \/ /\ at("exponent")
       /\ \/ Peek = "e" /\ takePut(Peek, "exponentSign")
          \/ Peek # "e" /\ goto("numberEnd")
    \/ /\ at("exponentSign")
       /\ \/ Peek = "+" /\ takePut(Peek, "exponentFirst")
          \/ /\ Peek = "-"
             /\ Take
             /\ chars' = Append(chars, Peek)
             /\ exponent' = [exponent EXCEPT !.minus = TRUE]
             /\ pc' = "exponentFirst"
             /\ UNCHANGED <<alphabet, frames, isKey, stack, error, root>>
          \/ Peek \notin {"+", "-"} /\ goto("exponentFirst")
    \/ /\ at("exponentFirst")
       /\ \/ exponentDigit
          \/ Peek \notin Digits /\ fail(kParseErrorNumberMissExponent)
    \/ /\ at("exponentDigits")
       /\ \/ exponentDigit
          \/ Peek \notin Digits /\ goto("numberEnd")

\* RawNumber: the document keeps the text of the number, as it keeps a string.
\* The model marks it as a number, to tell what becomes of 1 and of "1".
endNumber ==
    /\ at("numberEnd")
    /\ event(<<"number", chars>>, "behindValue")
    /\ UNCHANGED <<alphabet, stream, frames, number, isKey, error, root>>

ParseNumber ==
    \/ parseMinus \/ parseInt \/ parseDigits \/ parseFraction
    \/ parseExponent \/ endNumber

-----------------------------------------------------------------------------
ReaderNext ==
    \/ SkipWhitespace
    \/ Parse
    \/ parseEnd
    \/ ParseLiteral
    \/ ParseValue
    \/ ParseObject
    \/ ParseArray
    \/ parseCharacter
    \/ parseEscape
    \/ parseSurrogate
    \/ ParseNumber

\* A text given as a whole is read from its beginning, by a new reader into a
\* new document.
Restart ==
    /\ text' \in Seq(STRING)
    /\ complete' = TRUE
    /\ src' = 1
    /\ pc' = "document"
    /\ frames' = <<>>
    /\ chars' = <<>>
    /\ isKey' = FALSE
    /\ exponent' = NoExponent
    /\ stack' = <<>>
    /\ error' = 0
    /\ root' = Null
    /\ UNCHANGED alphabet

\* The reader by itself, whoever gives it its texts.
ReaderSpec ==
    /\ ReaderStart
    /\ alphabet \in Alphabets /\ text \in Seq(STRING) /\ complete \in BOOLEAN
    /\ [][ReaderNext \/ Restart]_readerVars

shortLiteral == 10

\* How parseJsonResponse tells a parse error: the code is added to the address
\* of the literal "Parse json false: ", so the message is what is left of it.
literalLength == 18
messageOffset == error

-----------------------------------------------------------------------------
\* The values of the variables, as far as they are of one kind; the reader does
\* not look behind the end of the text.
TypeOK ==
    /\ alphabet \in Alphabets
    /\ complete \in BOOLEAN
    /\ src \in 1..(Len(text) + 1)
    /\ \A i \in DOMAIN frames :
          frames[i] \in [kind : {"object", "array"}, count : 0..Len(text)]
    /\ isKey \in BOOLEAN
    /\ error \in 0..17

\* Entries of the document's stack that a container holds, beside those of
\* the value it is at.
Held(frame) ==
    IF frame.kind = "object" THEN 1 + 2 * frame.count ELSE 1 + frame.count

\* A container around another one also holds the name of the member, if it
\* is an object.
HeldAround(frame) == Held(frame) + (IF frame.kind = "object" THEN 1 ELSE 0)

\* What containers hold that are all around another one, the first n of them.
Heights(containers) ==
    LET height[n \in 0..Len(containers)] ==
          IF n = 0 THEN 0 ELSE height[n - 1] + HeldAround(containers[n])
    IN  height

Height(containers) == Heights(containers)[Len(containers)]

\* What the innermost container has on the stack for its present value.
Pending ==
    LET inObject == frames # <<>> /\ Last(frames).kind = "object"
    IN  CASE pc = "behindValue" -> IF inObject THEN 2 ELSE 1
          [] pc \in {"document", "done", "firstMember", "firstElement",
                     "member"} -> 0
          [] pc = "colon" -> 1
          [] OTHER -> IF inObject /\ ~(isKey /\ pc \in {"string", "escape",
                                          "surrogate", "lowSurrogate"})
                        THEN 1 ELSE 0

\* The document's stack holds what the recursion has begun and nothing else,
\* so that EndObject and EndArray take their own values off it, and at the end
\* it has "Got one and only one root object" (the assertion in ParseStream).
StackFollowsFrames ==
    Len(stack) =
        Pending + (IF frames = <<>> THEN 0
                   ELSE Height(Front(frames)) + Held(Last(frames)))

\* Whatever the parse error, the exception for it has a message that is not
\* empty and does not begin outside of the literal.
MessageStaysInLiteral ==
    (pc = "done" /\ error # 0) => messageOffset \in 1..(literalLength - 1)
=============================================================================
