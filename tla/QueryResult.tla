----------------------------- MODULE QueryResult -----------------------------
(***************************************************************************)
(* parseJsonResponse of Query.cxx: from the JSON that answers a query to   *)
(* one table for each statement, or to an exception.                       *)
(*                                                                         *)
(* Of a JSON value only what the code asks of it counts: whether a member  *)
(* is there and of which kind it is.  Where the code takes a value for an  *)
(* array without asking, rapidjson has an assertion, which the library's   *)
(* builds (Release, RelWithDebInfo) compile out: what follows then is a    *)
(* crash, or garbage in the series.                                        *)
(***************************************************************************)
EXTENDS Integers, Sequences, SequencesExt

CONSTANTS
    SeriesShapes,  \* the elements of the arrays "series" in answers
    MaxSeries,     \* bound: elements of "series"
    MaxStatements  \* bound: elements of "results"

\* What an element of "series" can be, as far as it matters.  In "values", an
\* array of arrays is right; an odd row is an element that is no array.
AllSeriesShapes ==
    [isObject : BOOLEAN,
     columns : {"absent", "array", "notArray"},
     values  : {"absent", "arrays", "oddRow", "notArray"}]

ASSUME ShapesAreKnown ==
    /\ SeriesShapes \subseteq AllSeriesShapes
    /\ MaxSeries \in Nat
    /\ MaxStatements \in Nat

\* A statement of the answer.  "notInteger" is an id std::stoi throws on.
Statements ==
    [isObject : BOOLEAN, hasError : BOOLEAN,
     id : {"absent", "integer", "notInteger"},
     series : {"absent", "notArray", "array"},
     list : SeqOf(SeriesShapes, MaxSeries)]

VARIABLES
    document,         \* the kind of the answer as a whole
    results,          \* its statements
    resultIdx,        \* the statement the outer loop is at
    seriesIdx,        \* the series the inner loop is at, 0 outside of it
    statementResult,  \* the table in the making
    resultSet,        \* the tables made
    outcome           \* how the call ended

answerVars == <<document, results>>
vars == <<answerVars, resultIdx, seriesIdx, statementResult, resultSet,
          outcome>>

\* A table as InfluxDBTable() makes it: statementId -1, no series, no error.
emptyTable == [id |-> "none", error |-> FALSE, series |-> <<>>]

\* A series that was read, and whether what it holds is what was sent.
Read(shape, intact) == [shape |-> shape, intact |-> intact]

\* Answers are enumerated without repeating what a statement cannot have: a
\* list in "series" that is no array.
Init ==
    /\ document \in {"notJson", "notObject", "noResults", "notArray", "array"}
    /\ results \in SeqOf({s \in Statements :
                             /\ s.series # "array" => s.list = <<>>
                             /\ ~s.isObject => ~s.hasError /\ s.id = "absent"
                                               /\ s.series = "absent"},
                         IF document = "array" THEN MaxStatements ELSE 0)
    /\ resultIdx = 0
    /\ seriesIdx = 0
    /\ statementResult = emptyTable
    /\ resultSet = <<>>
    /\ outcome = "none"

-----------------------------------------------------------------------------
Running == outcome = "none"

throw(exception) ==
    /\ outcome' = exception
    /\ UNCHANGED <<answerVars, resultIdx, seriesIdx, statementResult,
                   resultSet>>

\* The checks of the answer as a whole.
parseDocument ==
    /\ Running
    /\ resultIdx = 0
    /\ \/ /\ document \in {"notJson", "notObject", "notArray"}
          /\ throw("InfluxDBException")
       \/ /\ document = "noResults"
          /\ throw("returned")
       \/ /\ document = "array"
          /\ resultIdx' = 1
          /\ UNCHANGED <<answerVars, seriesIdx, statementResult, resultSet,
                         outcome>>

tableKept == statementResult

\* The table a turn of the outer loop begins with.
newTable == emptyTable

twoOn == resultIdx + 2
nextResult == resultIdx + 1

push(table, next) ==
    /\ resultSet' = Append(resultSet, table)
    /\ resultIdx' = next
    /\ seriesIdx' = 0
    /\ statementResult' = table
    /\ UNCHANGED <<answerVars, outcome>>

\* A statement that failed: its error, and nothing else of it.
statementError(statement) ==
    /\ statement.isObject
    /\ statement.hasError
    /\ push([newTable EXCEPT !.error = TRUE], nextResult)

\* A statement without error: its id if it has one, and on to its series.
statementBody(statement) ==
    /\ statement.isObject
    /\ ~statement.hasError
    /\ statement.id # "notInteger"
    /\ statement.series # "notArray"
    /\ LET table == IF statement.id = "integer"
                      THEN [newTable EXCEPT !.id = "integer"] ELSE newTable
       IN  \/ /\ statement.series = "absent"
              /\ push(table, resultIdx + 1)
           \/ /\ statement.series = "array"
              /\ seriesIdx' = 1
              /\ statementResult' = table
              /\ UNCHANGED <<answerVars, resultIdx, resultSet, outcome>>

\* std::stoi throws std::invalid_argument or std::out_of_range, and does so
\* before "series" is looked at.
statementThrows(statement) ==
    \/ /\ ~statement.isObject
       /\ throw("InfluxDBException")
    \/ /\ statement.isObject /\ ~statement.hasError
       /\ statement.id = "notInteger"
       /\ throw("logic_error")
    \/ /\ statement.isObject /\ ~statement.hasError
       /\ statement.id # "notInteger"
       /\ statement.series = "notArray"
       /\ throw("InfluxDBException")

\* One turn of the outer loop, up to the inner one.
parseStatement ==
    /\ Running
    /\ resultIdx \in 1..Len(results)
    /\ seriesIdx = 0
    /\ \/ statementError(results[resultIdx])
       \/ statementBody(results[resultIdx])
       \/ statementThrows(results[resultIdx])

Series == results[resultIdx].list

\* The code takes a value for an array that is none.
isUndefined(shape) ==
    shape.isObject /\ (shape.columns = "notArray" \/ shape.values = "oddRow")

onlyObjects(shape) == ~shape.isObject

\* The checks of a series, of which those of "values" come behind "columns".
isRefused(shape) == ~shape.isObject \/ shape.values = "notArray"

\* One turn of the inner loop.
parseSeries ==
    /\ Running
    /\ seriesIdx > 0
    /\ seriesIdx <= Len(Series)
    /\ \/ /\ isRefused(Series[seriesIdx])
          /\ throw("InfluxDBException")
       \/ /\ ~isRefused(Series[seriesIdx])
          /\ seriesIdx' = seriesIdx + 1
          /\ statementResult' =
                [statementResult EXCEPT !.series =
                    Append(@, Read(Series[seriesIdx],
                                   ~isUndefined(Series[seriesIdx])))]
          /\ UNCHANGED <<answerVars, resultIdx, resultSet, outcome>>
       \/ /\ isUndefined(Series[seriesIdx])
          /\ throw("crashed")

\* Behind the inner loop.
endSeries ==
    /\ Running
    /\ seriesIdx > 0
    /\ seriesIdx > Len(Series)
    /\ push(statementResult, resultIdx + 1)

\* Behind the outer loop.
return ==
    /\ Running
    /\ resultIdx > Len(results)
    /\ seriesIdx = 0
    /\ throw("returned")

\* The call is over.
Ended == ~Running /\ UNCHANGED vars

Next ==
    \/ parseDocument
    \/ parseStatement
    \/ parseSeries
    \/ endSeries
    \/ return
    \/ Ended

Spec == Init /\ [][Next]_vars

-----------------------------------------------------------------------------
Tables ==
    [id : {"none", "integer"}, error : BOOLEAN,
     series : Seq([shape : SeriesShapes, intact : BOOLEAN])]

\* The values of the variables; the outer loop stays within the statements.
TypeOK ==
    /\ document \in {"notJson", "notObject", "noResults", "notArray", "array"}
    /\ results \in Seq(Statements)
    /\ resultIdx \in 0..(Len(results) + 1)
    /\ seriesIdx \in Nat
    /\ statementResult \in Tables
    /\ resultSet \in Seq(Tables)
    /\ outcome \in {"none", "returned", "InfluxDBException", "logic_error",
                    "crashed"}

(* What should become of a statement, said without the loops.              *)

\* The table that belongs to a statement.
TableOf(statement) ==
    IF statement.hasError
      THEN [id |-> "none", error |-> TRUE, series |-> <<>>]
      ELSE [id |-> IF statement.id = "integer" THEN "integer" ELSE "none",
            error |-> FALSE,
            series |-> [i \in DOMAIN statement.list |->
                           Read(statement.list[i],
                                ~isUndefined(statement.list[i]))]]

\* The ways a statement can make the whole call fail, by the first of its
\* parts that does.
Failures(statement) ==
    LET refused(shape) == ~shape.isObject \/ shape.values = "notArray"
        bad == {i \in DOMAIN statement.list : refused(statement.list[i])}
        reached == {i \in DOMAIN statement.list :
                       \A j \in bad : j >= i}
    IN  IF ~statement.isObject THEN {"InfluxDBException"}
        ELSE IF statement.hasError THEN {}
        ELSE IF statement.id = "notInteger" THEN {"logic_error"}
        ELSE IF statement.series = "notArray" THEN {"InfluxDBException"}
        ELSE (IF bad # {} THEN {"InfluxDBException"} ELSE {})
             \union (IF \E i \in reached : isUndefined(statement.list[i])
                       THEN {"crashed"} ELSE {})

\* Whether a statement leaves the call no way to go on.
Fails(statement) == Failures(statement) \ {"crashed"} # {}

\* One table for each statement and in their order: an answer with several
\* statements is never shifted, and nothing of one gets into the table of
\* another, whichever of them had errors.
TablesFollowStatements ==
    /\ Len(resultSet) <= Len(results)
    /\ \A i \in DOMAIN resultSet : resultSet[i] = TableOf(results[i])
    /\ outcome = "returned" => Len(resultSet) = Len(results)

\* All or nothing: the first statement that has a flaw makes the whole call
\* fail, with the exception for that flaw, and the tables in front of it are
\* lost; a flaw next to the error of its statement is not looked at; a call
\* that returns has met no flaw it could have known.
FirstFlawDecides ==
    /\ outcome = "returned" => \A i \in DOMAIN results : ~Fails(results[i])
    /\ outcome \in {"logic_error", "crashed"} =>
          outcome \in Failures(results[resultIdx])
    /\ (outcome = "InfluxDBException" /\ document = "array") =>
          outcome \in Failures(results[resultIdx])
    /\ (outcome # "none" /\ document = "array") =>
          \A i \in 1..(resultIdx - 1) : ~Fails(results[i])
=============================================================================
