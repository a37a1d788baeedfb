\* The three tiers of P4 on small tensors.
SPECIFICATION LoweringSpec
CONSTANTS
  Graphs <- MCGraphs
  Stray <- MCStray
INVARIANTS
  TypeOK
  ProgramTypeChecks
  SuccessReturnsAll
PROPERTIES
  NoRollbackNeeded
