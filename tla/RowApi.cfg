SPECIFICATION Spec
CONSTANTS
  MaxInt = 2
  Names <- MCNames
  Lower <- MCLower
  Clients = {c}
  Keys = {k1, k2}
  Definitions <- MCDefinitions
  Bodies <- MCBodies
  Edits <- MCEdits
  Batches <- MCBatches
  SchemaChanges <- MCSchemaChanges
  Times <- MCTimes
  MaxWrites = 2
  MaxMigrations = 1
SYMMETRY MCSymmetry
CHECK_DEADLOCK FALSE
INVARIANTS TypeOK RowsReadable IndexAgrees
PROPERTIES NoLostUpdate UnchangedAccepted 
