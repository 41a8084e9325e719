SPECIFICATION Spec
CONSTANTS
    b1 = b1
    b2 = b2
    b3 = b3
    good = good
    incomplete = incomplete
    Batch <- ThreeBatches
    Worker = w
    Console = {c1}
    Config <- OneConfig
    Unbuildable <- AlwaysComplete
    NoXml = NoXml
    NoRow = NoRow
    NoThread = NoThread
    MaxRetries = 1
    Limit = 3
    MaxFaults = 1
    MaxEdits = 1
INVARIANT
    NeverPostedTwice
CHECK_DEADLOCK FALSE
