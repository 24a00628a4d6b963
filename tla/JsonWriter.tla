----------------------------- MODULE JsonWriter -----------------------------
(***************************************************************************)
(* rapidjson::Writer, as InfluxDBParams::toJSON and jsonToString of        *)
(* Query.cxx drive it.                                                     *)
(*                                                                         *)
(* A text is a sequence of elements: a character that matters has an       *)
(* element of its own, a literal or the digits of an escape are one.  A    *)
(* value is a pair of its kind and what it is made of:                     *)
(*   <<"null", <<>>>>, <<"true", <<>>>>, <<"false", <<>>>>,                *)
(*   <<"string", characters>>, <<"number", characters>>,                   *)
(*   <<"array", values>>, <<"object", pairs of a name and a value>>.       *)
(***************************************************************************)
EXTENDS Integers, Sequences, SequencesExt

\* A writer: what it has put out, the containers it is in, and whether an
\* assertion of rapidjson would have failed (the library's builds have none).
NewWriter == [out |-> <<>>, levels |-> <<>>, hasRoot |-> FALSE, sound |-> TRUE]

Put(w, elements) == [w EXCEPT !.out = @ \o elements]

level(w) == Last(w.levels)

alwaysComma(w) ==
    IF w.levels = <<>> \/ level(w).valueCount = 0 THEN <<>> ELSE <<",">>

\* What goes between the value before and the next one.
separator(w) ==
    IF w.levels = <<>> \/ level(w).valueCount = 0 THEN <<>>
    ELSE IF level(w).inArray \/ level(w).valueCount % 2 = 0 THEN <<",">>
    ELSE <<":">>

\* Prefix, before every value: in an object every other one must be a name.
Prefix(w, isString) ==
    IF w.levels = <<>>
      THEN [w EXCEPT !.hasRoot = TRUE, !.sound = @ /\ ~w.hasRoot]
      ELSE [Put(w, separator(w)) EXCEPT
              !.levels[Len(w.levels)].valueCount = @ + 1,
              !.sound = @ /\ (level(w).inArray \/ level(w).valueCount % 2 = 1
                              \/ isString)]

unescaped(c) == <<c>>

\* One character of a string, with the escapes of WriteString.
escape(c) ==
    CASE c \in {"quote", "backslash"} -> <<"backslash", c>>
      [] c = "newline"                -> <<"backslash", "n">>
      [] c = "nul"                    -> <<"backslash", "u0000">>
      [] OTHER                        -> <<c>>

\* String and Key.
String(w, string) ==
    Put(Prefix(w, TRUE),
        <<"quote">> \o FlattenSeq([i \in DOMAIN string |-> escape(string[i])])
                    \o <<"quote">>)

\* Null and Bool.
Literal(w, literal) == Put(Prefix(w, FALSE), <<literal>>)

\* Int, Int64 and Double: a double that is infinite or no number has no digits,
\* and WriteDouble puts nothing behind what Prefix has put.
Number(w, digits) == Put(Prefix(w, FALSE), digits)

nest(w, inArray) ==
    [w EXCEPT !.levels = Append(@, [inArray |-> inArray, valueCount |-> 0])]

unnest(w, inArray) ==
    [w EXCEPT !.levels = Front(@),
              !.sound = @ /\ level(w).inArray = inArray
                          /\ (inArray \/ level(w).valueCount % 2 = 0)]

StartObject(w) == Put(nest(Prefix(w, FALSE), FALSE), <<"{">>)
EndObject(w)   == Put(unnest(w, FALSE), <<"}">>)
StartArray(w)  == Put(nest(Prefix(w, FALSE), TRUE), <<"[">>)
EndArray(w)    == Put(unnest(w, TRUE), <<"]">>)

-----------------------------------------------------------------------------
\* What strings are made of, and what a text is: "end" stands for no element,
\* but for the end of a text.
Characters == STRING \ {"end"}

Elements ==
    Characters \union {"quote", "backslash", "n", "u0000", "null", "true",
                       "false", "{", "}", "[", "]", ",", ":",
                       "-", "0", "1", ".", "e", "+"}

Writers ==
    [out     : Seq(Elements),
     levels  : Seq([inArray : BOOLEAN, valueCount : Nat]),
     hasRoot : BOOLEAN,
     sound   : BOOLEAN]

\* The values with no more than so many containers in one another, beside empty
\* ones.
JsonValues[depth \in Nat] ==
    LET inner == IF depth = 0 THEN {} ELSE JsonValues[depth - 1]
    IN  ({"null", "true", "false"} \X {<<>>})
        \union ({"string", "number"} \X Seq(Characters))
        \union ({"array"} \X Seq(inner))
        \union ({"object"} \X Seq(Seq(Characters) \X inner))

\* What becomes of a writer in a loop; every step is a function of writers.
InTurn(steps, begun) ==
    LET w[i \in 0..Len(steps)] ==
          IF i = 0 THEN begun ELSE steps[i][w[i - 1]]
    IN  w[Len(steps)]

numbersBare(w, kind, of) ==
    IF kind = "string" THEN String(w, of)
    ELSE IF kind = "number" THEN Number(w, of)
    ELSE Literal(w, kind)

\* The event of a value that is no container: a number is a string, too, for
\* the document that Query.cxx has.
scalar(w, kind, of) ==
    IF kind \in {"string", "number"} THEN String(w, of) ELSE Literal(w, kind)

\* GenericValue::Accept: the events of a value, in order.
Accept[depth \in Nat] ==
    LET inner == IF depth = 0 THEN <<>> ELSE Accept[depth - 1]
        member(m) == [w \in Writers |-> inner[m[2]][String(w, m[1])]]
        events(w, kind, of) ==
          CASE kind = "array"  ->
                 EndArray(InTurn([i \in DOMAIN of |-> inner[of[i]]], StartArray(w)))
            [] kind = "object" ->
                 EndObject(InTurn([i \in DOMAIN of |-> member(of[i])], StartObject(w)))
            [] OTHER           -> scalar(w, kind, of)
    IN  [value \in JsonValues[depth] |->
            [w \in Writers |-> events(w, value[1], value[2])]]
=============================================================================
