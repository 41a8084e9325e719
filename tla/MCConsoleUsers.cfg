SPECIFICATION FairSpec
CONSTANTS
    User = {u1, u2}
    FirstUser = u1
    Tried = {u2}
    Thread = {t1, t2}
    MaxAttempts = 2
    NoRow = NoRow
    Idle = Idle
INVARIANTS TypeOK AttemptsBounded
PROPERTIES LockoutEnds LastManagerKept
