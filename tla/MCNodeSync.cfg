SPECIFICATION FairSpec
CONSTANTS
    Node = {n1}
    Event = {e1, e2, e3}
    Refused = {e3}
    Admin = {a1, a2}
    NoTask = NoTask
    MaxBatch = 2
    MaxInFlight = 2
    MaxKeys = 3
    MaxIncidents = 2
INVARIANTS
    TypeOK
    JournalGapFree
    SentIsAccepted
    JournalFollowsLite
    OneCredential
PROPERTY
    EventsArrive
CHECK_DEADLOCK FALSE
