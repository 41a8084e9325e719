SPECIFICATION Spec
CONSTANTS
    Node = {n1, n2}
    Serial = {s1, s2}
    Transfer = {t1, t2}
    Admin = {a1, a2}
    NoNode = NoNode
    NoSerial = NoSerial
    NoIntent = NoIntent
    NoRequest = NoRequest
SYMMETRY
    Symmetry
INVARIANTS
    TypeOK
    InTransitMatchesTransfers
    VouchersMatchStock
    MirrorAgrees
    SourceIsTold
PROPERTY
    ImplementsStockLedger
CHECK_DEADLOCK FALSE
