\* The write of an empty vector without batching.
CONSTANTS
    t1 = t1
    t2 = t2
    Tags <- OneTag
    BatchSizes <- BatchOfTwo
    MaxVector = 1
    MaxPoints = 2
    MaxTags = 0
    MaxFailures = 1
SPECIFICATION Spec
INVARIANT EveryTransmissionCarriesAPoint
