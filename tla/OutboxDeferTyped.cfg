CONSTANTS
    Tables = {t1}
    Keys = {k1}
    Vals = {a, b}
    Absent = Absent
    Refresh = Refresh
    Skip = Skip
    NoRecord = NoRecord
    NoTable = NoTable
    MaxId = 3
    DeferTyped = TRUE
    Crashes = TRUE
SPECIFICATION Spec
PROPERTIES GapClosedOnReopen
