---------------------------- MODULE MCLineFormat ----------------------------
(***************************************************************************)
(* Points with few special texts.                                          *)
(***************************************************************************)
EXTENDS LineFormat

CommonMC == <<"a">>

\* Nothing, each character with a meaning alone and at either end of a text,
\* and the backslash in front of each of them.
TextsMC ==
    {<<>>, CommonMC}
    \union {<<c>> : c \in {",", "=", " ", "\"", "\\", "\n", "#"}}
    \union {<<"a", "\\">>, <<"\\", "a">>, <<"\\", "\\">>}
    \union {<<"\\", c>> : c \in {",", "=", " ", "\""}}
=============================================================================
