\* The fusion pipeline of P6 on all small graphs.
SPECIFICATION Spec
CONSTANTS
  NumArgs = 2
  Graphs <- MCGraphs
INVARIANTS
  TypeOK
  GraphConsistent
  ResultsKept
