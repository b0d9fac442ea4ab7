CONSTANTS
    Tables = {t1, t2}
    Callers = {c1}
    Requests = {q1}
    Uncached = Uncached
    Defs = {d1, d2}
    NoDef = NoDef
    NoHandle = NoHandle
    CacheEntries = 1
    Limit = 1
    MaxCommits = 1
    MaxPublishes = 3
    Redefines = TRUE
    PublishFails = TRUE
SPECIFICATION Spec
SYMMETRY Symmetry
PROPERTY SearchableOnReturn
CHECK_DEADLOCK FALSE
