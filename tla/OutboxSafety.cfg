CONSTANTS
    Tables = {t1, t2}
    Keys = {k1, k2}
    Vals = {a, b}
    Absent = Absent
    Refresh = Refresh
    Skip = Skip
    NoRecord = NoRecord
    NoTable = NoTable
    MaxId = 3
    DeferTyped = FALSE
    Crashes = TRUE
SPECIFICATION Spec
SYMMETRY Symmetry
INVARIANTS TypeOK RecoverableIndex IInv
PROPERTIES PublishedOnReturn ReadsKeepSnapshot Implements
