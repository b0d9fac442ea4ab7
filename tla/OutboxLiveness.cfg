CONSTANTS
    Tables = {t1, t2}
    Keys = {k1}
    Vals = {a, b}
    Absent = Absent
    Refresh = Refresh
    Skip = Skip
    NoRecord = NoRecord
    NoTable = NoTable
    MaxId = 2
    DeferTyped = TRUE
    Crashes = TRUE
SPECIFICATION FairSpec
PROPERTIES RecoveryCompletes
