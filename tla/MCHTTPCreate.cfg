\* A statement that failed, in an answer of status 200.
CONSTANTS
    a = a
    b = b
    c = c
    Objects <- OneObject
    Queries <- TwoQueries
    Refused <- TooLong
    Codes <- OnlyOk
    Answers <- QueryAnswers
    MaxCalls = 1
SPECIFICATION Spec
INVARIANT CreateDatabaseCreates
