\* All small graphs: two aligned sizes, 2 and 4 bytes; a window of one page
\* and a half, decoded over three rounds of the cache.
SPECIFICATION PipelineSpec
CONSTANTS
  Buffers <- MCBuffers
  NumOps = 3
  Alignment = 2
  Graphs <- MCGraphs
  MaxSeqLen = 12
  ActiveWindow = 3
  PageTokens = 2
INVARIANTS
  TypeOK
  LivenessCoversUses
  SharingIsDeliberate
  PlanIsExact
  InplaceIsSafe
  WindowResident
