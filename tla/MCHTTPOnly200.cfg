\* The documented status of a send that does not throw.
CONSTANTS
    a = a
    b = b
    c = c
    Objects <- OneObject
    Queries <- TwoQueries
    Refused <- TooLong
    Codes <- BoundaryCodes
    Answers <- ObjectOnly
    MaxCalls = 1
SPECIFICATION Spec
INVARIANT SendThrowsUnless200
