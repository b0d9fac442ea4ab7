CONSTANTS
    Tables = {t1}
    Clients = {c1}
    Kinds = {"import", "schema_change", "reindex", "optimize", "backup"}
    Aliases = TRUE
    SlowTransactions = TRUE
    Panics = TRUE
    Restarts = TRUE
    MaxJobs = 2
    Nobody = Nobody
    NoJob = NoJob
SPECIFICATION Spec
INVARIANTS TypeOK CompletedSearchable OneMigration
PROPERTIES TerminalStable
