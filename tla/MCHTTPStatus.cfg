\* The exception for each status.
CONSTANTS
    a = a
    b = b
    c = c
    Objects <- OneObject
    Queries <- TwoQueries
    Refused <- TooLong
    Codes <- BoundaryCodes
    Answers <- AnyBody
    MaxCalls = 1
SPECIFICATION Spec
INVARIANT StatusNamesException
