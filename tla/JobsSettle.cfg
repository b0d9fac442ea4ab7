CONSTANTS
    Tables = {t1}
    Clients = {c1}
    Kinds = {"import", "schema_change", "reindex"}
    Aliases = FALSE
    SlowTransactions = FALSE
    Panics = TRUE
    Restarts = TRUE
    MaxJobs = 2
    Nobody = Nobody
    NoJob = NoJob
SPECIFICATION FairSpec
INVARIANTS ActiveHasTask
PROPERTIES LocksReleased JobsSettle
