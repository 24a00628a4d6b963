--------------------------- MODULE MCJsonExchange ---------------------------
(***************************************************************************)
(* All texts of a few elements, and some queries with parameters.          *)
(***************************************************************************)
EXTENDS JsonExchange

AlphabetsMC == {Structure, Strings, Numbers}

\* Two members, or a container in a container with a neighbour.
MaxTextMC == [a \in AlphabetsMC |-> IF a = Structure THEN 9 ELSE 7]

Name1 == <<"n">>
Name2 == <<"quote", "nul", "n">>

NamesMC == {<<>>, Name1, Name2}

Value(type, characters) == [type |-> type, chars |-> characters]

ParamValuesMC ==
    {Value("bool", <<"true">>), Value("number", <<"1", "0">>),
     Value("nonFinite", <<>>), Value("chars", <<>>),
     Value("string", <<"backslash", "newline", "nul", "n">>)}

BuffersMC == {<<"n", "quote">>, <<>>}
=============================================================================
