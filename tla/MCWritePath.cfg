\* Requests lost, late and refused, one global tag; the second point has a bad
\* line.
CONSTANTS
    t1 = t1
    Tags <- OneTag
    BatchSizes <- BatchOfTwo
    MaxVector = 2
    MaxPoints = 3
    MaxTags = 1
    MaxFailures = 3
    Transports <- BothTransports
    MaxDatagram = 2
    Poison <- SecondPoint
    Refusals <- RefusalsMC
SPECIFICATION PathFairSpec
INVARIANTS
    PathTypeOK
    AcceptedIsStored
    NothingPassesPoison
    StoredTwiceWasRetried
    SameKeyUnlessTagsAdded
    StoredInOrder
PROPERTIES
    OutgrownBatchIsStuck
    IsDelivery
    EveryCallReturns
    EveryPointIsSettled
