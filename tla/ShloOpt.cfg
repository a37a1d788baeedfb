\* The pipeline on families of graphs of up to four operators.
SPECIFICATION FairSpec
CONSTANTS
  Graphs <- MCGraphs
INVARIANTS
  TypeOK
  GraphConsistent
  ShapesRight
  FusedIntermediatesPrivate
PROPERTIES
  ResultsKept
  Terminates
\* The program ends when the graph has been printed.
CHECK_DEADLOCK FALSE
