---------------------------- MODULE MCQueryResult ----------------------------
(***************************************************************************)
(* Small answers to a query.                                               *)
(***************************************************************************)
EXTENDS QueryResult

Shape(isObject, columns, values) ==
    [isObject |-> isObject, columns |-> columns, values |-> values]

\* One that is complete, one that is empty, and every flaw, alone and with
\* the flaw that is met behind it.
ShapesMC == {Shape(TRUE, "array", "arrays"),
             Shape(TRUE, "absent", "absent"),
             Shape(FALSE, "absent", "absent"),
             Shape(TRUE, "array", "notArray"),
             Shape(TRUE, "notArray", "arrays"),
             Shape(TRUE, "notArray", "notArray"),
             Shape(TRUE, "array", "oddRow")}
=============================================================================
