CONSTANTS
  Definition <- MCDefinition
  Words <- MCWords
  Layouts <- MCLayouts
  Requests <- MCRequests
  OtherAggs <- MCOtherAggs
  MinDocsPerRange = 3
  Workers = 2
SPECIFICATION Spec
INVARIANTS
  
  FiltersDoNotScore
  FacetsIgnoreOwnColumn
  AggregatesExact
CHECK_DEADLOCK FALSE
