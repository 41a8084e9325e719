SPECIFICATION FairSpec
CONSTANTS
    Node = {n1}
    Receipt = {r1}
    Owner <- OwnerOne
    Admin = {a1, a2}
    NoTask = NoTask
    Sizes = {1, 2}
    ResponseBudget = 2
    PollLimit = 2
    MaxCommands = 3
INVARIANTS
    TypeOK
    AckedIsApplied
    LiteAgrees
PROPERTY
    CommandsArrive
CHECK_DEADLOCK FALSE
