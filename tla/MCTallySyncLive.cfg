SPECIFICATION FairSpec
CONSTANTS
    b1 = b1
    b2 = b2
    b3 = b3
    good = good
    incomplete = incomplete
    Batch <- TwoBatches
    Worker = w
    Console = {}
    Config <- TwoConfigs
    Unbuildable <- IncompleteSettings
    NoXml = NoXml
    NoRow = NoRow
    NoThread = NoThread
    MaxRetries = 2
    Limit = 1
    MaxFaults = 1
    MaxEdits = 1
PROPERTIES
    PendingIsServed
    DoubtIsResolved
CHECK_DEADLOCK FALSE
