\* The built-in residual block: the plan overlays live buffers.
SPECIFICATION PipelineSpec
CONSTANTS
  Buffers <- ResNetBuffers
  NumOps = 6
  Alignment = 64
  Graphs <- ResNetGraphs
  MaxSeqLen = 12
  ActiveWindow = 3
  PageTokens = 2
INVARIANT NoLiveOverlap
