\* Every behaviour of the client: five points, up to two failing sends, two
\* global tags added in between.
CONSTANTS
    t1 = t1
    t2 = t2
    Tags <- TwoTags
    BatchSizes <- BatchSizesMC
    MaxVector = 3
    MaxPoints = 5
    MaxTags = 2
    MaxFailures = 2
SPECIFICATION Spec
INVARIANTS
    TypeOK
    Conservation
    FirstInFirstOut
    FailedBatchKeptWhole
    FullBatchWasTried
    AbandonedBehindFailure
    TagsOfWriteAreSent
PROPERTY IsBufferedWriter
