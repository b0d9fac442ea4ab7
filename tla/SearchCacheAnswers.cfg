CONSTANTS
    Tables = {t1}
    Callers = {c1, c2, c3}
    Requests = {q1}
    Uncached = Uncached
    Defs = {d1}
    NoDef = NoDef
    NoHandle = NoHandle
    CacheEntries = 1
    Limit = 1
    MaxCommits = 1
    MaxPublishes = 2
    Redefines = FALSE
    PublishFails = FALSE
SPECIFICATION FairSpec
INVARIANTS TypeOK FreshAnswers OneWideQuery
PROPERTIES QueriesDrain
