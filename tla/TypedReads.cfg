SPECIFICATION Spec
CONSTANTS
  Keys = {1, 2, 3, 4}
  Values = {1, 2}
  Null = Null
  Cases <- MCCases
  MinDocsPerRange = 1
  Workers = 3
  BlockSlack = 2
  MaterializedSlack = 2
  Targets = {1, 2}
  MaxWrites = 1
INVARIANTS RangesPartition PageIsWindow 
PROPERTIES OptimizeKeepsRows 
