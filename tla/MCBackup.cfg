SPECIFICATION Spec
CONSTANTS
    Dir = {A, B}
    NoDir = NoDir
    Retention = {1, 2}
    MaxCommits = 2
    MaxCopies = 3
    MaxSaves = 1
SYMMETRY Symmetry
INVARIANTS OnlyVerified LastBackupKept
CHECK_DEADLOCK FALSE
