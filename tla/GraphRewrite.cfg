\* The rewrites of P3 on all small graphs.
SPECIFICATION Spec
CONSTANTS
  Graphs <- MCGraphs
INVARIANTS
  TypeOK
  DefinedBeforeUse
  ResultsKept
