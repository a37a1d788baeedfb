\* All short graphs, longer graphs without dead code, the built-in graph.
SPECIFICATION Spec
CONSTANTS
  a = a
  b = b
  bias = bias
  NoValue = NoValue
  ArgList <- MCArgList
  Results = {1, 2, 3, 4, 5, 6, 7, 8}
  Labels <- MCLabels
  Graphs <- MCGraphs
INVARIANTS
  TypeOK
  PrecleanKeepsResults
  GroupsCoverSharing
  BuffersInOrder
  SafeShapeIsCorrect
\* The pipeline stops when the program has run.
CHECK_DEADLOCK FALSE
