\* The graph that run_linalg_opt builds for itself: fusion makes a cycle.
SPECIFICATION Spec
CONSTANTS
  NumArgs = 4
  Graphs <- DemoGraphs
INVARIANTS
  NoCycle
