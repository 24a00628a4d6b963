\* Three objects that come, go and fail to be built, and two requests on any
\* of them, with every status and body.
CONSTANTS
    a = a
    b = b
    c = c
    Objects <- ThreeObjects
    Queries <- TwoQueries
    Refused <- TooLong
    Codes <- BoundaryCodes
    Answers <- AnyBody
    MaxCalls = 2
SPECIFICATION Spec
INVARIANTS
    TypeOK
    LibcurlOutlivesHandles
    ResourcesAreAccountedFor
    TransferUsesLiveMemory
    AnswerIsToOwnRequest
