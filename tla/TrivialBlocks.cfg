\* All functions of four blocks, both passes.
SPECIFICATION Spec
CONSTANTS
  e = e
  a = a
  b = b
  c = c
  same = same
  Layout <- MCLayout
  Vals <- MCVals
  Graphs <- MCGraphs
INVARIANTS
  TypeOK
  RoutesKept
  PhisKept
\* A pass stops when it has visited every candidate.
CHECK_DEADLOCK FALSE
