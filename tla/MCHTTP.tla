------------------------------- MODULE MCHTTP -------------------------------
(***************************************************************************)
(* Small instances of class HTTP.                                          *)
(***************************************************************************)
EXTENDS HTTP

CONSTANTS a, b, c

OneObject    == {a}
ThreeObjects == {a, b, c}

TwoQueries == {"q1", "tooLong"}
TooLong    == {"tooLong"}

\* Both sides of the boundaries treatCurlResponse knows, and a redirection.
BoundaryCodes == {200, 302, 399, 400, 404, 499, 500}

OnlyOk        == {200}

AnyBody      == Bodies
QueryAnswers == {"object", "statementError"}
ObjectOnly   == {"object"}
=============================================================================
