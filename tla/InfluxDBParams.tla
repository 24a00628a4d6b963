--------------------------- MODULE InfluxDBParams ---------------------------
(***************************************************************************)
(* Class InfluxDBParams: the parameters of a query, kept as they are added *)
(* and written as one JSON object when the query is sent.                  *)
(*                                                                         *)
(* A const char* stays a pointer: addParam copies no characters.           *)
(***************************************************************************)
EXTENDS JsonWriter

CONSTANTS
    Names,        \* names of parameters: sequences of characters
    ParamValues,  \* records of a type and its characters (of "chars", none)
    Buffers,      \* what the array a const char* points to may hold
    MaxParams     \* bound: parameters of a query

ParamTypes == {"bool", "number", "nonFinite", "chars", "string"}

ASSUME ParamsAreKnown ==
    /\ <<>> \in Names
    /\ Names \union Buffers \subseteq Seq(Characters)
    /\ \A value \in ParamValues :
          /\ value.type \in ParamTypes
          /\ value.chars \in Seq(Characters)
          /\ value.type = "bool" => value.chars \in {<<"true">>, <<"false">>}
          /\ value.type = "nonFinite" => value.chars = <<>>
    /\ MaxParams \in Nat

VARIABLES
    params,
    buffer,       \* of the application: where its const char* points to
    asAdded       \* history: the values of the parameters when they were added

paramVars == <<params, buffer, asAdded>>

\* What is in a C++ string up to where its c_str() ends for a C function.
c_str(characters) ==
    IF "nul" \in Range(characters)
      THEN SubSeq(characters, 1,
                  SelectInSeq(characters, LAMBDA c : c = "nul") - 1)
      ELSE characters

\* The characters a value has at this moment.
charsOf(value) == IF value.type = "chars" THEN buffer ELSE value.chars

ParamsInit ==
    /\ params = <<>>
    /\ buffer \in Buffers
    /\ asAdded = <<>>

\* A parameter without a name is ignored.
isAdded(name) == name # <<>>

addParam(name, value) ==
    /\ Len(params) < MaxParams
    /\ IF isAdded(name)
         THEN /\ params' = Append(params, [name |-> name, value |-> value])
              /\ asAdded' = Append(asAdded, charsOf(value))
         ELSE UNCHANGED <<params, asAdded>>
    /\ UNCHANGED buffer

\* The application reuses the array.
overwrite ==
    /\ params # <<>>
    /\ buffer' \in Buffers \ {buffer}
    /\ UNCHANGED <<params, asAdded>>

\* The visitor of toJSON.
visit(w, value) ==
    CASE value.type = "bool"                     -> Literal(w, Head(value.chars))
      [] value.type \in {"number", "nonFinite"}  -> Number(w, value.chars)
      [] value.type \in {"chars", "string"}      -> String(w, c_str(charsOf(value)))

toJSON ==
    LET add(param) ==
          [w \in Writers |-> visit(String(w, c_str(param.name)), param.value)]
    IN  EndObject(InTurn([i \in DOMAIN params |-> add(params[i])],
                         StartObject(NewWriter)))
=============================================================================
