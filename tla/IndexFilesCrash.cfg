CONSTANTS
    Tables = {t1, t2}
    NoDir = NoDir
    Partial = Partial
    Base = NoTable
    Dotted = NoTable
    NoTable = NoTable
SPECIFICATION FairSpec
INVARIANTS TypeOK CleanIsComplete LeftoversMarked
PROPERTIES RecoveryRebuilds
