---------------------------- MODULE JsonExchange ----------------------------
(***************************************************************************)
(* The JSON that InfluxDB::query sends and gets: the parameters go out     *)
(* through InfluxDBParams::toJSON, an answer comes in through the reader,  *)
(* and jsonToString writes what is an array or an object in it again.      *)
(*                                                                         *)
(* The parameters are read back by the same reader, which stands for the   *)
(* one of the server.                                                      *)
(***************************************************************************)
EXTENDS JsonReader, InfluxDBParams, JsonGrammar, FiniteSets

ASSUME AlphabetsOfTheGrammar == {Structure, Strings, Numbers} \subseteq Alphabets

\* What the reader puts for an escape, or for a string as one element.
ASSUME EscapesAreCharacters == {"newline", "nul", "wide", "token"} \subseteq Characters

\* What WriteInt, WriteInt64 and WriteDouble write is a number.
ASSUME NumbersAreWritten ==
    \A value \in ParamValues :
        value.type = "number" =>
            Means(value.chars, <<"number", value.chars>>)
                \in NumberTexts(Len(value.chars), MaxExponent)

VARIABLES
    use,          \* what the text is: an answer, a cell of it, or parameters
    origin,       \* what the text of a cell ought to denote
    sound         \* the writer was driven within its assertions

\* A value with every number in it as the string of its digits.
Stringed[depth \in Nat] ==
    LET inner == IF depth = 0 THEN <<>> ELSE Stringed[depth - 1]
        stringed(kind, of) ==
          CASE kind = "number" -> <<"string", of>>
            [] kind = "array"  -> <<kind, [i \in DOMAIN of |-> inner[of[i]]]>>
            [] kind = "object" ->
                 <<kind, [i \in DOMAIN of |-> <<of[i][1], inner[of[i][2]]>>]>>
            [] OTHER           -> <<kind, of>>
    IN  [value \in JsonValues[depth] |-> stringed(value[1], value[2])]

exchangeVars == <<readerVars, paramVars, use, origin, sound>>

ExchangeInit ==
    /\ origin = Null
    /\ sound = TRUE
    /\ \/ /\ use = "answer"
          /\ ReaderInit
          /\ params = <<>> /\ asAdded = <<>> /\ buffer = CHOOSE b \in Buffers : TRUE
       \/ /\ use = "params"
          /\ ParamsInit
          /\ ReaderStart
          /\ alphabet = Strings /\ text = <<>> /\ complete = FALSE

\* A writer's text is read from its beginning.
reread(w) ==
    /\ text' = w.out
    /\ Restart
    /\ sound' = (w.sound /\ w.hasRoot /\ w.levels = <<>>)
    /\ UNCHANGED paramVars

\* The application collects the parameters of a query ...
Collecting == use = "params" /\ ~complete

collect ==
    /\ Collecting
    /\ \/ \E name \in Names, value \in ParamValues : addParam(name, value)
       \/ overwrite
    /\ UNCHANGED <<readerVars, use, origin, sound>>

\* ... and HTTP::query sends them, if there are any.
query ==
    /\ Collecting
    /\ params # <<>>
    /\ reread(toJSON)
    /\ UNCHANGED <<use, origin>>

read ==
    /\ ~Collecting
    /\ ReaderNext
    /\ UNCHANGED <<paramVars, use, origin, sound>>

\* jsonToString of a value that is an array or an object: it has no more of them
\* in one another than its text has elements.
jsonToString ==
    /\ use = "answer"
    /\ pc = "done"
    /\ root[1] \in {"array", "object"}
    /\ reread(Accept[src][root][NewWriter])
    /\ use' = "cell"
    /\ origin' = Stringed[src][root]

Ended ==
    /\ pc = "done"
    /\ use = "answer" => root[1] \notin {"array", "object"}
    /\ UNCHANGED exchangeVars

ExchangeNext ==
    \/ collect
    \/ query
    \/ read
    \/ jsonToString
    \/ Ended

ExchangeSpec == ExchangeInit /\ [][ExchangeNext]_exchangeVars

-----------------------------------------------------------------------------
\* The texts that are JSON, with what they denote, and what they begin with.
Json ==
    StructureTexts(MaxText[Structure])
    \union StringTexts(MaxText[Strings])
    \union NumberTexts(MaxText[Numbers], MaxExponent)

JsonTexts == {t.text : t \in Json}

JsonPrefixes == UNION {Prefixes(t) : t \in JsonTexts}

\* White space counts for nothing between the elements of a structure, unless
\* it divides the digits of a number.
Plain(s) ==
    IF alphabet = Structure THEN SelectSeq(s, LAMBDA c : c # "newline") ELSE s

Divided(s) ==
    /\ alphabet = Structure
    /\ \E i, j \in DOMAIN s :
          /\ i + 1 < j /\ s[i] = "1" /\ s[j] = "1"
          /\ \A k \in (i + 1)..(j - 1) : s[k] = "newline"

\* An answer is read as what it denotes, the text of its numbers included,
\* and one is refused at the first element that no JSON text can go on with.
ReadsTheGrammar ==
    (use = "answer" /\ pc = "done") =>
        IF error = 0
          THEN /\ Means(Plain(text), root) \in Json
               /\ ~Divided(text)
          ELSE \/ Divided(text)
               \/ /\ Peek = "end"
                  /\ Plain(text) \notin JsonTexts
               \/ /\ Peek # "end"
                  /\ Plain(SubSeq(text, 1, src)) \notin JsonPrefixes

\* What the server reads of a parameter.
Sent(param, added) ==
    LET cut == c_str(added)
    IN  CASE param.value.type = "bool"   -> <<Head(added), <<>>>>
          [] param.value.type = "number" -> <<"number", added>>
          [] param.value.type \in {"chars", "string"} -> <<"string", cut>>

\* The parameters arrive all, in their order and with the values they had when
\* they were added, but that a string ends at its first NUL and a const char*
\* has what its array holds now; the text is no JSON exactly if there is a
\* double that is infinite or no number.
ParamsReadBack ==
    (use = "params" /\ pc = "done") =>
        /\ sound
        /\ error = 0 <=>
              \A i \in DOMAIN params : params[i].value.type # "nonFinite"
        /\ error = 0 =>
              /\ root[1] = "object"
              /\ Len(root[2]) = Len(params)
              /\ \A i \in DOMAIN params :
                    LET now == IF params[i].value.type = "chars"
                                 THEN buffer ELSE asAdded[i]
                    IN  root[2][i] =
                          <<c_str(params[i].name), Sent(params[i], now)>>

\* A cell of a result that is an array or an object is returned as text that
\* denotes it but for its numbers, however deep: each is the string of its
\* digits there, so that [1] is returned as ["1"].
CellReadsBack ==
    (use = "cell" /\ pc = "done") => sound /\ error = 0 /\ root = origin
=============================================================================
