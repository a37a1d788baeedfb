--------------------------- MODULE MemoryPlanning ---------------------------
(***************************************************************************)
(* main of run_memory_planning.cpp: the planner's stages one after the     *)
(* other, then the decode steps of Stage 7.  Stages 4 and 6 print sums of  *)
(* what the others computed and change nothing.                            *)
(***************************************************************************)
EXTENDS MemPlan, KvCache

pipelineVars == <<vars, kvVars>>

PipelineInit == Init /\ KvInit

\* A stage of the planner.
Plan == Next /\ UNCHANGED kvVars

\* A decode step; main calls Stage 7 last.
DecodeStep == stage = "done" /\ Decode /\ UNCHANGED vars

\* main has returned.
Returned == stage = "done" /\ step = MaxSeqLen /\ UNCHANGED pipelineVars

PipelineNext == Plan \/ DecodeStep \/ Returned

PipelineSpec == PipelineInit /\ [][PipelineNext]_pipelineVars
=============================================================================
