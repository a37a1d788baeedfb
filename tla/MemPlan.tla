------------------------------ MODULE MemPlan ------------------------------
(***************************************************************************)
(* The memory planner of stage P13                                         *)
(* (src/src/mlir/gpu/13_memory_planning).                                  *)
(*                                                                         *)
(* Given an execution graph - a schedule of operators that read and write  *)
(* buffers - the planner computes a live interval per buffer (Stage 1), a  *)
(* conflict matrix (Stage 2), an offset in one arena for every activation  *)
(* buffer (Stage 3) and the list of operators that could run in place      *)
(* (Stage 5).  One action is one iteration of a stage's outer loop.        *)
(***************************************************************************)
EXTENDS Integers, Sequences

CONSTANTS
  Buffers,    \* the buffer ids of a graph (indices into ExecGraph::buffers)
  NumOps,     \* the number of operators of a graph (ExecGraph::ops.size())
  Alignment,  \* BufferReq::alignment
  Graphs      \* the execution graphs the planner may be given

\* Operator ids, in schedule order.
OpIds == 0 .. NumOps - 1

\* BufferReq::is_input, is_output, is_weight.
Roles == {"input", "output", "weight"}

\* What add_op and add_buffer can build: ins and outs list the buffers each
\* operator reads and writes, size is BufferReq::size_bytes.
ExecGraph ==
  [ins         : [OpIds -> SUBSET Buffers],
   outs        : [OpIds -> Seq(Buffers)],
   elementwise : [OpIds -> BOOLEAN],
   size        : [Buffers -> Nat],
   role        : [Buffers -> SUBSET Roles]]

ASSUME NumOpsAssumption    == NumOps \in Nat \ {0}
ASSUME AlignmentAssumption == Alignment \in Nat \ {0}
ASSUME GraphsAssumption    == Graphs \subseteq ExecGraph

VARIABLES
  graph,      \* the execution graph being planned
  stage,      \* the stage that runs next
  visited,    \* Stage 1: the operators its loop has passed
  intervals,  \* LiveInterval per buffer: [first, last], -1 for unset
  conflict,   \* the conflict matrix, as the set of conflicting pairs
  pending,    \* Stage 3: activations not placed yet
  allocs,     \* MemPool::allocs
  total,      \* MemPool::total_size
  inplace     \* the InplaceCandidates of Stage 5

vars == <<graph, stage, visited, intervals, conflict, pending, allocs, total,
          inplace>>

Stages == {"liveness", "interference", "offsets", "inplace", "done"}

(***************************************************************************)
(* Derived data.                                                           *)
(***************************************************************************)
Is(b, r) == r \in graph.role[b]

Written(o) == {graph.outs[o][i] : i \in DOMAIN graph.outs[o]}

Touched(o) == graph.ins[o] \cup Written(o)

\* The byte size rounded up to the alignment (BufferReq::aligned_size).
RoundUp(n) == ((n + Alignment - 1) \div Alignment) * Alignment

AlignedSize(b) == RoundUp(graph.size[b])

\* LiveInterval::overlaps.
Overlaps(i, j) == i.first <= j.last /\ j.first <= i.last

Conflicts(a, b) == <<a, b>> \in conflict

\* The buffers Stage 3 places in the arena.
Activations == {b \in Buffers : graph.role[b] = {}}

----------------------------------------------------------------------------
Init ==
  /\ graph \in Graphs
  /\ stage = "liveness"
  /\ visited = 0
  /\ intervals = [b \in Buffers |-> [first |-> -1, last |-> -1]]
  /\ conflict = {}
  /\ pending = {}
  /\ allocs = <<>>
  /\ total = 0
  /\ inplace = {}

(***************************************************************************)
(* Stage 1.  One iteration of the loop over operators: every buffer the    *)
(* operator touches has its interval started and extended.  last is the    *)
(* maximum of the old value and the operator id.                           *)
(***************************************************************************)
Extend_FirstOnly(iv, o) ==   \* faulty: a later use does not move last
  IF iv.first < 0 THEN [first |-> o, last |-> o] ELSE iv

Extend(iv, o) ==
  [first |-> IF iv.first < 0 THEN o ELSE iv.first,
   last  |-> IF iv.last < o THEN o ELSE iv.last]

VisitOp ==
  /\ stage = "liveness"
  /\ visited < NumOps
  /\ intervals' = [b \in Buffers |-> IF b \in Touched(visited)
                                       THEN Extend(intervals[b], visited)
                                       ELSE intervals[b]]
  /\ visited' = visited + 1
  /\ UNCHANGED <<graph, stage, conflict, pending, allocs, total, inplace>>

\* The loop over the buffers that ends Stage 1: an input is live from the
\* first operator, an output to the last one, a weight throughout.
Pinned_PastEnd(b) ==         \* faulty: an output is live after the last one
  [first |-> IF Is(b, "input") \/ Is(b, "weight") THEN 0 ELSE intervals[b].first,
   last  |-> IF Is(b, "output") \/ Is(b, "weight") THEN NumOps
                                                    ELSE intervals[b].last]

Pinned(b) ==
  [first |-> IF Is(b, "input") \/ Is(b, "weight") THEN 0 ELSE intervals[b].first,
   last  |-> IF Is(b, "output") \/ Is(b, "weight") THEN NumOps - 1
                                                    ELSE intervals[b].last]

PinExternal ==
  /\ stage = "liveness"
  /\ visited = NumOps
  /\ intervals' = [b \in Buffers |-> Pinned(b)]
  /\ stage' = "interference"
  /\ UNCHANGED <<graph, visited, conflict, pending, allocs, total, inplace>>

(***************************************************************************)
(* Stage 2.  Two buffers conflict when neither is a weight and their       *)
(* intervals overlap; a buffer is never paired with itself.  The stage     *)
(* ends where Stage 3 collects the activations.                            *)
(***************************************************************************)
Interference ==
  /\ stage = "interference"
  /\ conflict' = {p \in Buffers \X Buffers :
                    /\ p[1] # p[2]
                    /\ ~Is(p[1], "weight") /\ ~Is(p[2], "weight")
                    /\ Overlaps(intervals[p[1]], intervals[p[2]])}
  /\ pending' = Activations
  /\ stage' = "offsets"
  /\ UNCHANGED <<graph, visited, intervals, allocs, total, inplace>>

(***************************************************************************)
(* Stage 3.  std::sort orders the activations by decreasing aligned size   *)
(* and leaves the order of equal sizes open: the next buffer is any of the *)
(* largest pending ones.  It goes where the first allocation lies that it  *)
(* does not conflict with and that is large enough, else to the end of the *)
(* arena.                                                                  *)
(***************************************************************************)
Donors_AnyLifetime(b) ==     \* faulty: the conflict matrix is not consulted
  {k \in DOMAIN allocs : allocs[k].size >= AlignedSize(b)}

Donors(b) ==
  {k \in DOMAIN allocs : /\ ~Conflicts(b, allocs[k].buf)
                         /\ allocs[k].size >= AlignedSize(b)}

IsNext(b) == b \in pending /\ \A c \in pending : AlignedSize(c) <= AlignedSize(b)

HighWater_Sum(end) ==        \* faulty: a shared place grows the arena too
  total + end

\* total_size after an allocation that ends at end.
HighWater(end) == IF total < end THEN end ELSE total

PlaceAt(b, offset) ==
  /\ allocs' = Append(allocs, [buf |-> b, offset |-> offset,
                               size |-> AlignedSize(b)])
  /\ total' = HighWater(offset + AlignedSize(b))
  /\ pending' = pending \ {b}
  /\ UNCHANGED <<graph, stage, visited, intervals, conflict, inplace>>

PlaceShared(b) ==
  /\ stage = "offsets"
  /\ IsNext(b)
  /\ \E k \in Donors(b) : /\ \A j \in Donors(b) : k <= j
                          /\ PlaceAt(b, allocs[k].offset)

PlaceFresh(b) ==
  /\ stage = "offsets"
  /\ IsNext(b)
  /\ Donors(b) = {}
  /\ PlaceAt(b, total)

EndOffsets ==
  /\ stage = "offsets"
  /\ pending = {}
  /\ stage' = "inplace"
  /\ UNCHANGED <<graph, visited, intervals, conflict, pending, allocs, total,
                 inplace>>

(***************************************************************************)
(* Stage 5 (analyze_inplace).  An elementwise operator may overwrite an    *)
(* input of its first output's size that is no weight: an external buffer  *)
(* when it is consumed or never, any other one at its last use.            *)
(***************************************************************************)
Kind_OutputDies(o, b) ==     \* faulty: a returned buffer may be overwritten
  IF intervals[b].last = o
    THEN IF Is(b, "input") THEN "NeedsConsume" ELSE "Safe"
    ELSE "Unsafe"

Kind(o, b) ==
  IF intervals[b].last = o
    THEN IF Is(b, "input") \/ Is(b, "output") THEN "NeedsConsume" ELSE "Safe"
    ELSE "Unsafe"

AnalyzeInplace ==
  /\ stage = "inplace"
  /\ inplace' =
       {c \in [op : OpIds, in : Buffers, out : Buffers,
               kind : {"Safe", "NeedsConsume", "Unsafe"}] :
          /\ graph.elementwise[c.op]
          /\ graph.outs[c.op] # <<>>
          /\ c.out = Head(graph.outs[c.op])
          /\ c.in \in graph.ins[c.op]
          /\ ~Is(c.in, "weight")
          /\ graph.size[c.in] = graph.size[c.out]
          /\ c.kind = Kind(c.op, c.in)
          /\ c.kind = "Unsafe" => Is(c.in, "input") \/ Is(c.in, "output")}
  /\ stage' = "done"
  /\ UNCHANGED <<graph, visited, intervals, conflict, pending, allocs, total>>

Next ==
  \/ VisitOp
  \/ PinExternal
  \/ Interference
  \/ \E b \in Buffers : PlaceShared(b) \/ PlaceFresh(b)
  \/ EndOffsets
  \/ AnalyzeInplace

Spec == Init /\ [][Next]_vars

----------------------------------------------------------------------------
Interval == [first : -1 .. NumOps - 1, last : -1 .. NumOps - 1]

Allocation == [buf : Buffers, offset : Nat, size : Nat]

\* Every variable has the type of the C++ object it stands for.
TypeOK ==
  /\ graph \in ExecGraph
  /\ stage \in Stages
  /\ visited \in 0 .. NumOps
  /\ intervals \in [Buffers -> Interval]
  /\ conflict \subseteq Buffers \X Buffers
  /\ pending \subseteq Buffers
  /\ allocs \in Seq(Allocation)
  /\ total \in Nat
  /\ inplace \subseteq [op : OpIds, in : Buffers, out : Buffers,
                        kind : {"Safe", "NeedsConsume", "Unsafe"}]

\* Stage 1 loses no use: once it is over, a buffer is live at every operator
\* that reads or writes it, whatever its flags did to the ends.
LivenessCoversUses ==
  stage # "liveness" =>
    \A o \in OpIds : \A b \in Touched(o) :
      intervals[b].first <= o /\ o <= intervals[b].last

\* The allocations of the arena that are not at one offset are disjoint.
SlotsDisjoint ==
  \A j, k \in DOMAIN allocs :
    \/ allocs[j].offset = allocs[k].offset
    \/ allocs[j].offset + allocs[j].size <= allocs[k].offset
    \/ allocs[k].offset + allocs[k].size <= allocs[j].offset

\* The arena bytes two allocations have in common.
ShareMemory(a, b) == a.offset < b.offset + b.size /\ b.offset < a.offset + a.size

\* An allocation that shares memory was put where an earlier one lies that it
\* never coexists with and fits into.
SharedOnlyWithDonor ==
  \A k \in DOMAIN allocs :
    (\E j \in 1 .. k - 1 : ShareMemory(allocs[j], allocs[k])) =>
      \E j \in 1 .. k - 1 : /\ allocs[j].offset = allocs[k].offset
                            /\ ~Conflicts(allocs[k].buf, allocs[j].buf)
                            /\ allocs[j].size >= allocs[k].size

\* Stage 3 shares memory only deliberately: two allocations lie at one offset
\* or apart, and one that shares has a donor it never coexists with.  For two
\* buffers on one offset this is enough; the planner asks no more for a third.
SharingIsDeliberate == SlotsDisjoint /\ SharedOnlyWithDonor

\* total_size is the size of the arena the plan needs: no allocation ends
\* beyond it and, when it is not zero, one ends exactly there.
TotalIsHighWater ==
  /\ \A k \in DOMAIN allocs : allocs[k].offset + allocs[k].size <= total
  /\ total = 0 \/ \E k \in DOMAIN allocs :
                     allocs[k].offset + allocs[k].size = total

\* The arena has no byte that no buffer uses: the fragmentation Stage 6 would
\* report never arises.
NoHoles ==
  \A x \in 0 .. total - 1 : \E k \in DOMAIN allocs :
    allocs[k].offset <= x /\ x < allocs[k].offset + allocs[k].size

\* When Stage 3 is over every activation has exactly one place.
EveryActivationPlaced ==
  stage \in {"inplace", "done"} =>
    \A b \in Activations :
      \E k \in DOMAIN allocs : \A j \in DOMAIN allocs : allocs[j].buf = b <=> j = k

\* Stage 3 plans what is needed and no more: total_size is the peak, every
\* byte below it is used, and in the end every activation is placed once.
PlanIsExact == TotalIsHighWater /\ NoHoles /\ EveryActivationPlaced

\* A rewrite reported as unconditionally safe overwrites memory no operator
\* reads any more and that the graph does not return.
InplaceIsSafe ==
  \A c \in inplace :
    c.kind = "Safe" =>
      /\ ~Is(c.in, "output")
      /\ \A o \in OpIds : o > c.op => c.in \notin Touched(o)

\* What the text of Stage 4 says of the offset-based strategy: "all
\* activations share one arena, non-overlapping offsets" - buffers that are
\* live together never share memory.
NoLiveOverlap ==
  \A j, k \in DOMAIN allocs :
    j # k /\ Conflicts(allocs[j].buf, allocs[k].buf)
      => ~ShareMemory(allocs[j], allocs[k])
=============================================================================
