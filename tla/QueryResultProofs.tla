------------------------- MODULE QueryResultProofs -------------------------
(***************************************************************************)
(* Theorems about parseJsonResponse, for answers with any number of        *)
(* statements and series of any shapes: what the two loops make of them is *)
(* what TableOf and Failures say of the statements one by one.             *)
(***************************************************************************)
EXTENDS QueryResult, SequenceTheorems, TLAPS

-----------------------------------------------------------------------------
(* The inductive invariant.                                                *)

\* What an answer can be: no list but in an array, no statements but in one.
AnswerIsSane ==
    /\ \A i \in 1..Len(results) :
          results[i].series # "array" => results[i].list = <<>>
    /\ document # "array" => results = <<>>

\* The outer loop has made one table for each statement it has passed.
Position ==
    /\ outcome = "none" =>
          Len(resultSet) = IF resultIdx = 0 THEN 0 ELSE resultIdx - 1
    /\ document # "array" => resultIdx = 0
    /\ seriesIdx > 0 => resultIdx \in 1..Len(results)

Passed == \A i \in 1..Len(results) : i < resultIdx => ~Fails(results[i])

\* The table of a statement whose first n series have been read.
Begun(statement, n) ==
    [id |-> IF statement.id = "integer" THEN "integer" ELSE "none",
     error |-> FALSE,
     series |-> [i \in 1..n |-> Read(statement.list[i],
                                     ~isUndefined(statement.list[i]))]]

\* Inside the inner loop: the statement has no flaw in front of its series, nor
\* has a series that was passed, and the table has what was passed.
InSeries ==
    seriesIdx > 0 =>
        /\ results[resultIdx].isObject
        /\ ~results[resultIdx].hasError
        /\ results[resultIdx].id # "notInteger"
        /\ results[resultIdx].series = "array"
        /\ seriesIdx <= Len(Series) + 1
        /\ statementResult = Begun(results[resultIdx], seriesIdx - 1)
        /\ \A i \in 1..Len(Series) : i < seriesIdx => ~isRefused(Series[i])

IInv ==
    /\ TypeOK
    /\ AnswerIsSane
    /\ Position
    /\ Passed
    /\ InSeries
    /\ TablesFollowStatements
    /\ FirstFlawDecides

-----------------------------------------------------------------------------
(* Statements and their flaws.                                             *)

LEMMA StatementType ==
    ASSUME NEW s \in Statements
    PROVE  /\ s.list \in Seq(SeriesShapes)
           /\ Len(s.list) \in Nat
           /\ DOMAIN s.list = 1..Len(s.list)
           /\ \A i \in 1..Len(s.list) :
                 /\ s.list[i] \in SeriesShapes
                 /\ isUndefined(s.list[i]) \in BOOLEAN
           /\ s.isObject \in BOOLEAN /\ s.hasError \in BOOLEAN
           /\ s.id \in {"absent", "integer", "notInteger"}
           /\ s.series \in {"absent", "notArray", "array"}
<1>1. PICK m \in 0..MaxSeries : s.list \in [1..m -> SeriesShapes]
  BY DEF Statements, SeqOf
<1>2. m \in Nat
  BY <1>1, ShapesAreKnown
<1>3. s.list \in Seq(SeriesShapes)
  BY <1>1, <1>2, SeqDef
<1>4. /\ Len(s.list) \in Nat /\ DOMAIN s.list = 1..Len(s.list)
      /\ \A i \in 1..Len(s.list) : s.list[i] \in SeriesShapes
  BY <1>3, LenProperties, ElementOfSeq
<1>5. \A shape : isUndefined(shape) \in BOOLEAN
  BY DEF isUndefined
<1> QED BY <1>3, <1>4, <1>5 DEF Statements

\* A statement that has no flaw in front of its series and no series that is
\* refused lets the call go on.
LEMMA SoundStatement ==
    ASSUME NEW s \in Statements, s.isObject,
           \/ s.hasError
           \/ /\ s.id # "notInteger" /\ s.series # "notArray"
              /\ \A i \in 1..Len(s.list) : ~isRefused(s.list[i])
    PROVE  ~Fails(s)
<1>1. CASE s.hasError
  BY <1>1 DEF Fails, Failures
<1>2. CASE ~s.hasError
  <2>1. {i \in DOMAIN s.list : ~s.list[i].isObject
                               \/ s.list[i].values = "notArray"} = {}
    BY <1>2, StatementType DEF isRefused
  <2>2. Failures(s) \subseteq {"crashed"}
    BY <1>2, <2>1 DEF Failures
  <2> QED BY <2>2 DEF Fails
<1> QED BY <1>1, <1>2

\* A whole list of series makes the table that belongs to the statement.
LEMMA WholeTable ==
    ASSUME NEW s \in Statements, ~s.hasError
    PROVE  Begun(s, Len(s.list)) = TableOf(s)
BY StatementType DEF Begun, TableOf

\* What a change of one part of a table leaves.
LEMMA IdUpdate ==
    \A i, list, new :
        [[id |-> i, error |-> FALSE, series |-> list] EXCEPT !.id = new]
            = [id |-> new, error |-> FALSE, series |-> list]
<1> TAKE i, list, new
<1>1. \A e : [[id |-> i, error |-> e, series |-> list] EXCEPT !.id = new]
                = [id |-> new, error |-> e, series |-> list]
  OBVIOUS
<1> QED BY <1>1, Zenon

LEMMA ErrorUpdate ==
    \A i, list :
        [[id |-> i, error |-> FALSE, series |-> list] EXCEPT !.error = TRUE]
            = [id |-> i, error |-> TRUE, series |-> list]
<1> TAKE i, list
<1>1. \A e, f : [[id |-> i, error |-> e, series |-> list] EXCEPT !.error = f]
                   = [id |-> i, error |-> f, series |-> list]
  OBVIOUS
<1> QED BY <1>1, Zenon

LEMMA SeriesUpdate ==
    \A i, list, new :
        [[id |-> i, error |-> FALSE, series |-> list] EXCEPT !.series = new]
            = [id |-> i, error |-> FALSE, series |-> new]
<1> TAKE i, list, new
<1>1. \A e : [[id |-> i, error |-> e, series |-> list] EXCEPT !.series = new]
                = [id |-> i, error |-> e, series |-> new]
  OBVIOUS
<1> QED BY <1>1, Zenon

\* A table without series.
LEMMA NothingBegun ==
    ASSUME NEW s
    PROVE  Begun(s, 0) = [id |-> IF s.id = "integer" THEN "integer" ELSE "none",
                          error |-> FALSE, series |-> <<>>]
<1>1. \A f : f = [i \in 1..0 |-> Read(s.list[i], ~isUndefined(s.list[i]))]
                => f = <<>>
  OBVIOUS
<1> QED BY <1>1 DEF Begun

LEMMA BegunType ==
    ASSUME NEW s \in Statements, NEW n \in Nat, n <= Len(s.list)
    PROVE  Begun(s, n) \in Tables
<1> DEFINE series == [i \in 1..n |-> Read(s.list[i], ~isUndefined(s.list[i]))]
<1>1. \A i \in 1..n : Read(s.list[i], ~isUndefined(s.list[i]))
                          \in [shape : SeriesShapes, intact : BOOLEAN]
  BY StatementType DEF Read
<1>2. series \in Seq([shape : SeriesShapes, intact : BOOLEAN])
  BY <1>1, SeqDef
<1> QED BY <1>2 DEF Begun, Tables

\* Reading the series behind the first n adds it to the table.
LEMMA OneMore ==
    ASSUME NEW s \in Statements, NEW n \in 1..Len(s.list)
    PROVE  [Begun(s, n - 1) EXCEPT !.series =
               Append(@, Read(s.list[n], ~isUndefined(s.list[n])))] = Begun(s, n)
<1> DEFINE entry(i) == Read(s.list[i], ~isUndefined(s.list[i]))
           front == [i \in 1..(n - 1) |-> entry(i)]
           whole == [i \in 1..n |-> entry(i)]
           Entries == [shape : SeriesShapes, intact : BOOLEAN]
<1>1. Len(s.list) \in Nat /\ n \in Nat /\ n - 1 \in Nat
  BY StatementType
<1>2. \A i \in 1..n : entry(i) \in Entries
  BY <1>1, StatementType DEF Read
<1> HIDE DEF entry
<1>3. front \in Seq(Entries) /\ whole \in Seq(Entries)
  BY <1>1, <1>2, SeqDef
<1>4. Len(front) = n - 1 /\ Len(whole) = n
  BY <1>1, <1>3, LenProperties
<1> HIDE DEF Entries
<1>5. Append(front, entry(n)) = whole
  <2>1. entry(n) \in Entries
    BY <1>1, <1>2
  <2>2. Append(front, entry(n)) \in Seq(Entries)
    BY <1>3, <2>1, AppendProperties
  <2>3. Len(Append(front, entry(n))) = n
    BY <1>1, <1>3, <1>4, <2>1, AppendProperties
  <2>4. \A i \in 1..n : Append(front, entry(n))[i] = whole[i]
    BY <1>1, <1>3, <1>4, <2>1, AppendProperties
  <2> QED BY <1>3, <1>4, <2>2, <2>3, <2>4, SeqEqual
<1>6. Begun(s, n - 1).series = front
  BY DEF Begun, entry
<1>7. Append(Begun(s, n - 1).series,
             Read(s.list[n], ~isUndefined(s.list[n]))) = whole
  BY <1>5, <1>6 DEF entry
<1> DEFINE id == IF s.id = "integer" THEN "integer" ELSE "none"
<1>8. /\ Begun(s, n - 1) = [id |-> id, error |-> FALSE, series |-> front]
      /\ Begun(s, n) = [id |-> id, error |-> FALSE, series |-> whole]
  BY DEF Begun, entry
<1> HIDE DEF id, front, whole
<1>9. [[id |-> id, error |-> FALSE, series |-> front] EXCEPT !.series = whole]
        = [id |-> id, error |-> FALSE, series |-> whole]
  BY SeriesUpdate, Zenon
<1>10. [Begun(s, n - 1) EXCEPT !.series =
           Append(@, Read(s.list[n], ~isUndefined(s.list[n])))]
         = [Begun(s, n - 1) EXCEPT !.series = whole]
  BY <1>7, Zenon
<1> QED BY <1>8, <1>9, <1>10, Zenon

LEMMA EmptyTableType == emptyTable \in Tables
<1>1. <<>> \in Seq([shape : SeriesShapes, intact : BOOLEAN])
  BY EmptySeq
<1> QED BY <1>1 DEF emptyTable, Tables

-----------------------------------------------------------------------------
(* Initial states.                                                         *)

LEMMA InitIInv == Init => IInv
<1> SUFFICES ASSUME Init PROVE IInv
  OBVIOUS
<1> DEFINE Answers == {s \in Statements :
                          /\ s.series # "array" => s.list = <<>>
                          /\ ~s.isObject => ~s.hasError /\ s.id = "absent"
                                            /\ s.series = "absent"}
<1>1. PICK n \in Nat : /\ results \in [1..n -> Answers]
                       /\ document # "array" => n = 0
  <2>1. PICK n \in 0..(IF document = "array" THEN MaxStatements ELSE 0) :
            results \in [1..n -> Answers]
    BY DEF Init, SeqOf
  <2> QED BY <2>1, ShapesAreKnown
<1>2. results \in Seq(Answers) /\ Len(results) = n
  BY <1>1, SeqDef, LenProperties
<1>3. /\ results \in Seq(Statements)
      /\ \A i \in 1..Len(results) : results[i] \in Answers
  BY <1>1, <1>2, SeqDef
<1>4. TypeOK
  BY <1>3, LenProperties, EmptyTableType, EmptySeq DEF Init, TypeOK
<1>5. AnswerIsSane
  BY <1>1, <1>2, <1>3, LenProperties DEF AnswerIsSane
<1>6. Position /\ Passed /\ InSeries /\ TablesFollowStatements /\ FirstFlawDecides
  BY <1>2 DEF Init, Position, Passed, InSeries, TablesFollowStatements,
              FirstFlawDecides
<1> QED BY <1>4, <1>5, <1>6 DEF IInv

-----------------------------------------------------------------------------
(* Steps.                                                                  *)

Exceptions == {"returned", "InfluxDBException", "logic_error", "crashed"}

\* The call ends: by returning behind all statements, or by an exception for a
\* flaw of the statement it is at.
LEMMA ThrowStep ==
    ASSUME IInv, Running, NEW e \in Exceptions, throw(e),
           e = "returned" => \/ resultIdx = Len(results) + 1
                             \/ resultIdx = 0 /\ results = <<>>,
           \/ e = "returned"
           \/ e = "InfluxDBException" /\ document # "array"
           \/ e \in Failures(results[resultIdx])
    PROVE  IInv'
<1> USE DEF IInv
<1>1. TypeOK'
  BY DEF TypeOK, throw, answerVars, Exceptions
<1>2. AnswerIsSane' /\ Passed' /\ InSeries'
  BY DEF throw, answerVars, AnswerIsSane, Passed, InSeries, Series
<1>3. Position'
  BY DEF throw, answerVars, Position, Exceptions
<1>4. e = "returned" => Len(resultSet) = Len(results)
  <2>1. Len(results) \in Nat /\ (results = <<>> => Len(results) = 0)
    BY LenProperties, EmptySeq DEF TypeOK
  <2> QED BY <2>1 DEF Running, Position
<1>5. TablesFollowStatements'
  BY <1>4 DEF throw, answerVars, TablesFollowStatements
<1>6. FirstFlawDecides'
  <2>1. Len(results) \in Nat /\ resultIdx \in 0..(Len(results) + 1)
        /\ DOMAIN results = 1..Len(results)
        /\ (results = <<>> => Len(results) = 0)
    BY LenProperties, EmptySeq DEF TypeOK
  <2>2. e = "returned" => \A i \in DOMAIN results : ~Fails(results[i])
    BY <2>1 DEF Passed
  <2>3. \A i \in 1..(resultIdx - 1) : ~Fails(results[i])
    BY <2>1 DEF Passed
  <2>4. e \in {"logic_error", "crashed"} => e \in Failures(results[resultIdx])
    OBVIOUS
  <2> QED BY <2>2, <2>3, <2>4 DEF throw, answerVars, FirstFlawDecides
<1> QED BY <1>1, <1>2, <1>3, <1>5, <1>6

\* The loop goes on behind a statement without flaw, with its table.
LEMMA PushStep ==
    ASSUME IInv, Running, resultIdx \in 1..Len(results), NEW table \in Tables,
           table = TableOf(results[resultIdx]), ~Fails(results[resultIdx]),
           push(table, resultIdx + 1)
    PROVE  IInv'
<1> USE DEF IInv
<1>1. /\ Len(results) \in Nat /\ resultSet \in Seq(Tables)
      /\ results' = results /\ document' = document /\ outcome' = "none"
      /\ resultIdx' = resultIdx + 1 /\ seriesIdx' = 0
      /\ resultSet' = Append(resultSet, table)
      /\ document = "array"
  BY LenProperties DEF TypeOK, push, answerVars, Running, Position
<1>2. /\ resultSet' \in Seq(Tables)
      /\ Len(resultSet') = resultIdx
      /\ Len(resultSet) = resultIdx - 1
      /\ \A i \in 1..Len(resultSet) : resultSet'[i] = resultSet[i]
      /\ resultSet'[resultIdx] = table
      /\ DOMAIN resultSet' = 1..resultIdx /\ DOMAIN resultSet = 1..(resultIdx - 1)
  <2>1. Len(resultSet) = resultIdx - 1
    BY DEF Running, Position
  <2> QED BY <1>1, <2>1, AppendProperties, LenProperties
<1>3. TypeOK'
  BY <1>1, <1>2 DEF TypeOK, push
<1>4. AnswerIsSane' /\ Position' /\ InSeries'
  BY <1>1, <1>2 DEF AnswerIsSane, Position, InSeries
<1>5. Passed'
  BY <1>1 DEF Passed
<1>6. TablesFollowStatements'
  BY <1>1, <1>2 DEF TablesFollowStatements
<1>7. FirstFlawDecides'
  BY <1>1 DEF FirstFlawDecides
<1> QED BY <1>3, <1>4, <1>5, <1>6, <1>7

LEMMA ParseDocumentStep ==
    ASSUME IInv, parseDocument PROVE IInv'
<1> USE DEF IInv
<1>1. CASE document # "array"
  <2>1. results = <<>>
    BY <1>1 DEF AnswerIsSane
  <2>2. CASE throw("InfluxDBException")
    BY <1>1, <2>2, ThrowStep DEF parseDocument, Exceptions
  <2>3. CASE throw("returned")
    BY <2>1, <2>3, ThrowStep DEF parseDocument, Exceptions
  <2> QED BY <1>1, <2>2, <2>3 DEF parseDocument
<1>2. CASE document = "array"
  <2>1. /\ resultIdx = 0 /\ resultIdx' = 1 /\ outcome = "none"
        /\ UNCHANGED <<document, results, seriesIdx, statementResult, resultSet,
                       outcome>>
    BY <1>2 DEF parseDocument, answerVars, Running
  <2>2. Len(results) \in Nat
    BY LenProperties DEF TypeOK
  <2>3. seriesIdx = 0
    BY <2>1, <2>2 DEF TypeOK, Position
  <2>4. TypeOK'
    BY <2>1, <2>2 DEF TypeOK
  <2>5. AnswerIsSane' /\ Position' /\ Passed' /\ InSeries'
    BY <1>2, <2>1, <2>2, <2>3 DEF AnswerIsSane, Position, Passed, InSeries
  <2>6. TablesFollowStatements' /\ FirstFlawDecides'
    BY <2>1 DEF TablesFollowStatements, FirstFlawDecides
  <2> QED BY <2>4, <2>5, <2>6
<1> QED BY <1>1, <1>2

LEMMA ParseStatementStep ==
    ASSUME IInv, parseStatement PROVE IInv'
<1> DEFINE s == results[resultIdx]
<1>1. /\ s \in Statements /\ Running /\ resultIdx \in 1..Len(results)
      /\ seriesIdx = 0
      /\ s.series # "array" => s.list = <<>>
  BY ElementOfSeq DEF IInv, TypeOK, AnswerIsSane, parseStatement
<1> HIDE DEF s
<1>2. CASE statementError(s)
  <2>1. [newTable EXCEPT !.error = TRUE] = TableOf(s)
    <3>1. TableOf(s) = [id |-> "none", error |-> TRUE, series |-> <<>>]
      BY <1>2 DEF statementError, TableOf
    <3> QED BY <3>1, ErrorUpdate, Zenon DEF newTable, emptyTable
  <2>2. TableOf(s) \in Tables
    <3>1. <<>> \in Seq([shape : SeriesShapes, intact : BOOLEAN])
      BY EmptySeq
    <3> QED BY <1>2, <3>1 DEF statementError, TableOf, Tables
  <2>3. ~Fails(s)
    BY <1>1, <1>2, SoundStatement DEF statementError
  <2>4. push(TableOf(s), resultIdx + 1)
    BY <1>2, <2>1 DEF statementError, nextResult
  <2> QED BY <1>1, <2>2, <2>3, <2>4, PushStep DEF s
<1>3. CASE statementBody(s)
  <2> DEFINE table == IF s.id = "integer"
                        THEN [newTable EXCEPT !.id = "integer"] ELSE newTable
  <2>1. /\ s.isObject /\ ~s.hasError /\ s.id # "notInteger"
        /\ s.series # "notArray"
    BY <1>3 DEF statementBody
  <2>2. table = Begun(s, 0)
    <3>1. [newTable EXCEPT !.id = "integer"]
            = [id |-> "integer", error |-> FALSE, series |-> <<>>]
      BY IdUpdate, Zenon DEF newTable, emptyTable
    <3> QED BY <3>1, NothingBegun, Zenon DEF newTable, emptyTable
  <2>3. table \in Tables
    BY <1>1, <2>2, BegunType, StatementType
  <2>4. CASE s.series = "absent" /\ push(table, resultIdx + 1)
    <3>1. s.list = <<>> /\ Len(s.list) = 0
      BY <1>1, <2>4, EmptySeq
    <3>2. table = TableOf(s)
      BY <1>1, <2>1, <2>2, <3>1, WholeTable
    <3>3. ~Fails(s)
      BY <1>1, <2>1, <3>1, SoundStatement
    <3> QED BY <1>1, <2>3, <2>4, <3>2, <3>3, PushStep DEF IInv, s
  <2>5. CASE /\ s.series = "array"
             /\ seriesIdx' = 1
             /\ statementResult' = table
             /\ UNCHANGED <<answerVars, resultIdx, resultSet, outcome>>
    <3>1. UNCHANGED <<document, results, resultIdx, resultSet, outcome, s, Series>>
      BY <2>5 DEF answerVars, s, Series
    <3>2. TypeOK'
      BY <2>3, <2>5, <3>1 DEF IInv, TypeOK
    <3>3. AnswerIsSane' /\ Position' /\ Passed'
      BY <1>1, <3>1, <2>5 DEF IInv, AnswerIsSane, Position, Passed
    <3>4. InSeries'
      <4>1. Series = s.list /\ Len(Series) \in Nat
        BY <1>1, StatementType DEF Series, s
      <4>2. statementResult' = Begun(s, seriesIdx' - 1)
        BY <2>2, <2>5
      <4> QED BY <2>1, <2>5, <3>1, <4>1, <4>2 DEF InSeries, s
    <3>5. TablesFollowStatements' /\ FirstFlawDecides'
      BY <3>1 DEF IInv, TablesFollowStatements, FirstFlawDecides
    <3> QED BY <3>2, <3>3, <3>4, <3>5 DEF IInv
  <2> QED BY <1>3, <2>4, <2>5 DEF statementBody
<1>4. CASE statementThrows(s)
  <2>1. PICK e \in {"InfluxDBException", "logic_error"} :
            throw(e) /\ e \in Failures(s)
    BY <1>4 DEF statementThrows, Failures
  <2> QED BY <1>1, <2>1, ThrowStep DEF s, Exceptions
<1> QED BY <1>2, <1>3, <1>4 DEF parseStatement, s

LEMMA ParseSeriesStep ==
    ASSUME IInv, parseSeries PROVE IInv'
<1> DEFINE s == results[resultIdx]
           shape == s.list[seriesIdx]
<1>1. /\ s \in Statements /\ Running /\ resultIdx \in 1..Len(results)
      /\ seriesIdx \in 1..Len(s.list) /\ seriesIdx \in Nat
      /\ Series = s.list
  BY ElementOfSeq, StatementType DEF IInv, TypeOK, Position, parseSeries, Series
<1>2. /\ s.isObject /\ ~s.hasError /\ s.id # "notInteger" /\ s.series = "array"
      /\ statementResult = Begun(s, seriesIdx - 1)
      /\ \A i \in 1..Len(s.list) : i < seriesIdx => ~isRefused(s.list[i])
  BY <1>1 DEF IInv, InSeries
<1>3. /\ s.list \in Seq(SeriesShapes) /\ Len(s.list) \in Nat
      /\ DOMAIN s.list = 1..Len(s.list) /\ shape \in SeriesShapes
      /\ isUndefined(shape) \in BOOLEAN
  BY <1>1, StatementType
<1> HIDE DEF s
<1> DEFINE bad == {i \in DOMAIN s.list : ~s.list[i].isObject
                                         \/ s.list[i].values = "notArray"}
<1>4. bad = {i \in 1..Len(s.list) : isRefused(s.list[i])}
  BY <1>3 DEF isRefused
<1>5. Failures(s) = (IF bad # {} THEN {"InfluxDBException"} ELSE {})
                    \union (IF \E m \in {i \in DOMAIN s.list :
                                            \A j \in bad : j >= i} :
                                   isUndefined(s.list[m])
                              THEN {"crashed"} ELSE {})
  BY <1>2 DEF Failures
<1>6. CASE isRefused(shape) /\ throw("InfluxDBException")
  <2>1. "InfluxDBException" \in Failures(s)
    BY <1>1, <1>4, <1>5, <1>6
  <2> QED BY <1>1, <1>6, <2>1, ThrowStep DEF s, Exceptions
<1>7. CASE isUndefined(shape) /\ throw("crashed")
  <2>1. \A k \in bad : k >= seriesIdx
    <3>1. \A k \in bad : k \in 1..Len(s.list) /\ isRefused(s.list[k])
      BY <1>4
    <3> QED BY <1>1, <1>2, <1>3, <3>1
  <2>2. seriesIdx \in {i \in DOMAIN s.list : \A j \in bad : j >= i}
    BY <1>1, <1>3, <2>1
  <2>3. "crashed" \in Failures(s)
    BY <1>5, <1>7, <2>2
  <2> QED BY <1>1, <1>7, <2>3, ThrowStep DEF s, Exceptions
<1>8. CASE /\ ~isRefused(shape)
           /\ seriesIdx' = seriesIdx + 1
           /\ statementResult' =
                 [statementResult EXCEPT !.series =
                     Append(@, Read(shape, ~isUndefined(shape)))]
           /\ UNCHANGED <<answerVars, resultIdx, resultSet, outcome>>
  <2>1. UNCHANGED <<document, results, resultIdx, resultSet, outcome, s, Series>>
    BY <1>8 DEF answerVars, s, Series
  <2>2. statementResult' = Begun(s, seriesIdx)
    BY <1>1, <1>2, <1>8, OneMore DEF s
  <2>3. TypeOK'
    <3>1. statementResult' \in Tables
      BY <1>1, <2>2, BegunType
    <3> QED BY <1>1, <1>8, <2>1, <3>1 DEF IInv, TypeOK
  <2>4. AnswerIsSane' /\ Position' /\ Passed'
    BY <1>1, <2>1 DEF IInv, AnswerIsSane, Position, Passed
  <2>5. InSeries'
    <3>1. seriesIdx' - 1 = seriesIdx /\ seriesIdx' <= Len(s.list) + 1
      BY <1>1, <1>3, <1>8
    <3>2. \A i \in 1..Len(s.list) : i < seriesIdx' => ~isRefused(s.list[i])
      BY <1>1, <1>2, <1>3, <1>8
    <3> QED BY <1>1, <1>2, <2>1, <2>2, <3>1, <3>2 DEF InSeries, s
  <2>6. TablesFollowStatements' /\ FirstFlawDecides'
    BY <2>1 DEF IInv, TablesFollowStatements, FirstFlawDecides
  <2> QED BY <2>3, <2>4, <2>5, <2>6 DEF IInv
<1> QED BY <1>1, <1>6, <1>7, <1>8 DEF parseSeries, s

LEMMA EndSeriesStep ==
    ASSUME IInv, endSeries PROVE IInv'
<1> DEFINE s == results[resultIdx]
<1>1. /\ s \in Statements /\ Running /\ resultIdx \in 1..Len(results)
      /\ seriesIdx \in Nat /\ seriesIdx > 0 /\ Series = s.list
  BY ElementOfSeq DEF IInv, TypeOK, Position, endSeries, Series
<1>2. Len(s.list) \in Nat
  BY <1>1, StatementType
<1>3. seriesIdx - 1 = Len(s.list) /\ Len(s.list) <= Len(s.list)
  BY <1>1, <1>2 DEF IInv, InSeries, endSeries
<1>4. /\ s.isObject /\ ~s.hasError /\ s.id # "notInteger"
      /\ s.series # "notArray"
      /\ statementResult = Begun(s, Len(s.list))
      /\ \A i \in 1..Len(s.list) : ~isRefused(s.list[i])
  BY <1>1, <1>2, <1>3 DEF IInv, InSeries
<1> HIDE DEF s
<1>5. statementResult = TableOf(s) /\ statementResult \in Tables
  BY <1>1, <1>2, <1>3, <1>4, WholeTable, BegunType
<1>6. ~Fails(s)
  BY <1>1, <1>4, SoundStatement
<1>7. push(statementResult, resultIdx + 1)
  BY DEF endSeries
<1> QED BY <1>1, <1>5, <1>6, <1>7, PushStep DEF s

LEMMA ReturnStep ==
    ASSUME IInv, return PROVE IInv'
<1>1. Len(results) \in Nat
  BY LenProperties DEF IInv, TypeOK
<1>2. resultIdx = Len(results) + 1
  BY <1>1 DEF IInv, TypeOK, return
<1> QED BY <1>2, ThrowStep DEF return, Exceptions

LEMMA NextIInv == IInv /\ [Next]_vars => IInv'
<1> SUFFICES ASSUME IInv, [Next]_vars PROVE IInv'
  OBVIOUS
<1>1. CASE UNCHANGED vars
  BY <1>1 DEF vars, answerVars, IInv, TypeOK, AnswerIsSane, Position, Passed,
              InSeries, Series, TablesFollowStatements, FirstFlawDecides
<1> QED BY <1>1, ParseDocumentStep, ParseStatementStep, ParseSeriesStep,
           EndSeriesStep, ReturnStep DEF Next, Ended

LEMMA InvariantHolds == Spec => []IInv
BY InitIInv, NextIInv, PTL DEF Spec

-----------------------------------------------------------------------------
(* Theorems.                                                               *)

\* The variables of parseJsonResponse keep their types: resultIdx never leaves
\* the statements by more than one, and a table is made of series that were read.
THEOREM TypeCorrect == Spec => []TypeOK
<1>1. IInv => TypeOK
  BY DEF IInv
<1> QED BY <1>1, InvariantHolds, PTL

\* Each table is the one of the statement at its place, whatever the statements
\* in front of it were, and a call that returns has one for every statement.
THEOREM TablesAreInOrder == Spec => []TablesFollowStatements
<1>1. IInv => TablesFollowStatements
  BY DEF IInv
<1> QED BY <1>1, InvariantHolds, PTL

\* The exception that leaves parseJsonResponse is the one for the first statement
\* that has a flaw, and a call that returns has met no flaw it could have known.
THEOREM FirstFlawIsReported == Spec => []FirstFlawDecides
<1>1. IInv => FirstFlawDecides
  BY DEF IInv
<1> QED BY <1>1, InvariantHolds, PTL
=============================================================================
