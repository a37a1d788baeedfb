\* All functions of five blocks, both passes.
SPECIFICATION Spec
CONSTANTS
  e = e
  a = a
  b = b
  c = c
  d = d
  NoBlock = NoBlock
  Blocks <- MCBlocks
  Entry = e
  Functions <- MCFunctions
INVARIANTS
  TypeOK
  FlowKept
  ValuesKept
\* A pass stops when it has looked at every loop.
CHECK_DEADLOCK FALSE
