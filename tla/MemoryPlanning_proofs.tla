----------------------- MODULE MemoryPlanning_proofs -----------------------
(***************************************************************************)
(* What the planner of P13 guarantees for every execution graph, every     *)
(* number of operators and every alignment; then that the paged KV cache   *)
(* keeps its window for every sequence length, window and page size, and   *)
(* that the pipeline of P13 inherits what its parts guarantee.             *)
(***************************************************************************)
EXTENDS MemoryPlanning, TLAPS

(***************************************************************************)
(* Aligned sizes are natural numbers, so the arena only grows.             *)
(***************************************************************************)
LEMMA RoundUpNat ==
  ASSUME NEW n \in Nat
  PROVE  RoundUp(n) \in Nat
<1> DEFINE q == (n + Alignment - 1) \div Alignment
<1>1. q \in Nat
  BY AlignmentAssumption
<1>2. q * Alignment \in Nat
  BY <1>1, AlignmentAssumption
<1>3. QED
  BY <1>2 DEF RoundUp

\* The size of a buffer, rounded up, is a natural number.
LEMMA AlignedSizeNat ==
  ASSUME TypeOK, NEW b \in Buffers
  PROVE  AlignedSize(b) \in Nat
<1>1. graph.size[b] \in Nat
  BY DEF TypeOK, ExecGraph
<1>2. QED
  BY <1>1, RoundUpNat DEF AlignedSize

\* What an operator reads or writes are buffers.
LEMMA TouchedBuffers ==
  ASSUME TypeOK, NEW o \in OpIds
  PROVE  Touched(o) \subseteq Buffers
<1>1. graph.ins[o] \subseteq Buffers /\ graph.outs[o] \in Seq(Buffers)
  BY DEF TypeOK, ExecGraph
<1>2. Written(o) \subseteq Buffers
  BY <1>1 DEF Written
<1>3. QED
  BY <1>1, <1>2 DEF Touched

\* A donor of Stage 3 is one of the allocations made so far.
LEMMA DonorType ==
  ASSUME TypeOK, NEW b, NEW k \in Donors(b)
  PROVE  k \in 1 .. Len(allocs) /\ allocs[k] \in Allocation
<1>1. k \in DOMAIN allocs /\ allocs \in Seq(Allocation)
  BY DEF Donors, TypeOK
<1>2. QED
  BY <1>1

(***************************************************************************)
(* Type correctness.                                                       *)
(***************************************************************************)
\* Placing a buffer at any natural offset keeps the types of the pool.
LEMMA PlaceAtType ==
  ASSUME TypeOK, NEW b \in Buffers, NEW offset \in Nat, PlaceAt(b, offset)
  PROVE  TypeOK'
<1>1. AlignedSize(b) \in Nat
  BY AlignedSizeNat
<1>2. [buf |-> b, offset |-> offset, size |-> AlignedSize(b)] \in Allocation
  BY <1>1 DEF Allocation
<1>3. allocs' \in Seq(Allocation)
  BY <1>2 DEF TypeOK, PlaceAt
<1>4. total' \in Nat
  BY <1>1 DEF TypeOK, PlaceAt, HighWater
<1>5. QED
  BY <1>3, <1>4 DEF TypeOK, PlaceAt

\* Every variable keeps its type: the planner is never stuck on an interval,
\* an offset or an id outside its range.
THEOREM TypeCorrect == Spec => []TypeOK
<1>1. Init => TypeOK
  BY NumOpsAssumption, GraphsAssumption
     DEF Init, TypeOK, Stages, Interval, OpIds
<1>2. TypeOK /\ [Next]_vars => TypeOK'
  <2> SUFFICES ASSUME TypeOK, [Next]_vars
               PROVE  TypeOK'
    OBVIOUS
  <2>1. CASE VisitOp
    <3>1. visited \in 0 .. NumOps - 1 /\ visited' \in 0 .. NumOps
      BY <2>1, NumOpsAssumption DEF VisitOp, TypeOK
    <3>2. \A b \in Buffers : Extend(intervals[b], visited) \in Interval
      BY <3>1, NumOpsAssumption DEF Extend, Interval, TypeOK
    <3>3. intervals' \in [Buffers -> Interval]
      BY <2>1, <3>2 DEF VisitOp, TypeOK
    <3>4. QED
      BY <2>1, <3>1, <3>3 DEF VisitOp, TypeOK
  <2>2. CASE PinExternal
    <3>1. intervals' \in [Buffers -> Interval]
      BY <2>2, NumOpsAssumption DEF PinExternal, Pinned, TypeOK, Interval
    <3>2. QED
      BY <2>2, <3>1 DEF PinExternal, TypeOK, Stages
  <2>3. CASE Interference
    BY <2>3 DEF Interference, TypeOK, Stages, Activations
  <2>4. ASSUME NEW b \in Buffers, PlaceShared(b) PROVE TypeOK'
    <3>1. PICK k \in Donors(b) : PlaceAt(b, allocs[k].offset)
      BY <2>4 DEF PlaceShared
    <3>2. allocs[k] \in Allocation
      BY DonorType
    <3>3. allocs[k].offset \in Nat
      BY <3>2 DEF Allocation
    <3>4. QED
      BY <3>1, <3>3, PlaceAtType
  <2>5. ASSUME NEW b \in Buffers, PlaceFresh(b) PROVE TypeOK'
    BY <2>5, PlaceAtType DEF PlaceFresh, TypeOK
  <2>6. CASE EndOffsets
    BY <2>6 DEF EndOffsets, TypeOK, Stages
  <2>7. CASE AnalyzeInplace
    BY <2>7 DEF AnalyzeInplace, TypeOK, Stages
  <2>8. CASE UNCHANGED vars
    BY <2>8 DEF vars, TypeOK
  <2>9. QED
    BY <2>1, <2>2, <2>3, <2>4, <2>5, <2>6, <2>7, <2>8 DEF Next
<1>3. QED
  BY <1>1, <1>2, PTL DEF Spec

(***************************************************************************)
(* Liveness analysis.  While Stage 1 runs the intervals cover the uses of  *)
(* the operators already passed and end before the next one; that the      *)
(* lower end is set exactly when a use has been seen is what keeps a later *)
(* operator from moving it.                                                *)
(***************************************************************************)
CoversVisited ==
  stage = "liveness" =>
    /\ \A b \in Buffers : intervals[b].first < visited
    /\ \A o \in 0 .. visited - 1 : \A b \in Touched(o) :
         /\ 0 <= intervals[b].first
         /\ intervals[b].first <= o
         /\ o <= intervals[b].last

LivenessInv == CoversVisited /\ LivenessCoversUses

\* Every step keeps the intervals around the uses seen so far.
LEMMA LivenessInductive ==
  TypeOK /\ LivenessInv /\ [Next]_vars => LivenessInv'
<1> SUFFICES ASSUME TypeOK, LivenessInv, [Next]_vars
             PROVE  LivenessInv'
  OBVIOUS
<1>0. NumOps \in Nat \ {0} /\ visited \in 0 .. NumOps
  BY NumOpsAssumption DEF TypeOK
<1>1. CASE VisitOp
  <2>1. stage = "liveness" /\ visited < NumOps /\ visited' = visited + 1
        /\ stage' = "liveness" /\ graph' = graph
    BY <1>1 DEF VisitOp
  <2>2. \A b \in Buffers : intervals[b] \in Interval
    BY DEF TypeOK
  <2>3. ASSUME NEW b \in Buffers
        PROVE  intervals'[b].first < visited'
    BY <1>0, <1>1, <2>1, <2>2, <2>3 DEF VisitOp, Extend, Interval, LivenessInv, CoversVisited
  <2>4. ASSUME NEW o \in 0 .. visited' - 1, NEW b \in Touched(o)
        PROVE  /\ 0 <= intervals'[b].first
               /\ intervals'[b].first <= o
               /\ o <= intervals'[b].last
    <3>1. o \in OpIds /\ b \in Buffers
      BY <1>0, <2>1, TouchedBuffers DEF OpIds
    <3>2. intervals'[b] = IF b \in Touched(visited) THEN Extend(intervals[b], visited)
                                                    ELSE intervals[b]
      BY <1>1, <3>1 DEF VisitOp
    <3>3. CASE o = visited
      <4>1. intervals'[b] = Extend(intervals[b], visited)
        BY <3>2, <3>3
      <4>2. intervals[b].first < visited
        BY <2>1, <3>1 DEF LivenessInv, CoversVisited
      <4>3. QED
        BY <1>0, <2>2, <3>1, <3>3, <4>1, <4>2 DEF Extend, Interval
    <3>4. CASE o # visited
      <4>1. o \in 0 .. visited - 1
        BY <1>0, <2>1, <3>4
      <4>2. 0 <= intervals[b].first /\ intervals[b].first <= o /\ o <= intervals[b].last
        BY <2>1, <4>1 DEF LivenessInv, CoversVisited
      <4>3. QED
        BY <1>0, <2>2, <3>1, <3>2, <4>1, <4>2 DEF Extend, Interval
    <3>5. QED
      BY <3>3, <3>4
  <2>5. \A o : Touched(o)' = Touched(o)
    BY <2>1 DEF Touched, Written
  <2>6. QED
    BY <2>1, <2>3, <2>4, <2>5 DEF LivenessInv, CoversVisited, LivenessCoversUses
<1>2. CASE PinExternal
  <2>1. stage = "liveness" /\ visited = NumOps /\ graph' = graph
        /\ stage' = "interference"
    BY <1>2 DEF PinExternal
  <2>2. ASSUME NEW o \in OpIds, NEW b \in Touched(o)
        PROVE  intervals'[b].first <= o /\ o <= intervals'[b].last
    <3>1. b \in Buffers
      BY TouchedBuffers
    <3>2. intervals'[b] =
            [first |-> IF Is(b, "input") \/ Is(b, "weight") THEN 0
                                                        ELSE intervals[b].first,
             last  |-> IF Is(b, "output") \/ Is(b, "weight") THEN NumOps - 1
                                                         ELSE intervals[b].last]
      BY <1>2, <3>1 DEF PinExternal, Pinned
    <3>3. intervals[b].first <= o /\ o <= intervals[b].last
      BY <2>1 DEF LivenessInv, CoversVisited, OpIds
    <3>4. 0 <= o /\ o <= NumOps - 1
      BY <1>0 DEF OpIds
    <3>5. QED
      BY <3>2, <3>3, <3>4
  <2>3. \A o : Touched(o)' = Touched(o)
    BY <2>1 DEF Touched, Written
  <2>4. QED
    BY <2>1, <2>2, <2>3 DEF LivenessInv, CoversVisited, LivenessCoversUses
<1>3. CASE Interference
  BY <1>3 DEF Interference, LivenessInv, CoversVisited, LivenessCoversUses,
              Touched, Written
<1>4. ASSUME NEW b \in Buffers, PlaceShared(b) \/ PlaceFresh(b)
      PROVE  LivenessInv'
  BY <1>4 DEF PlaceShared, PlaceFresh, PlaceAt, LivenessInv, CoversVisited,
              LivenessCoversUses, Touched, Written
<1>5. CASE EndOffsets
  BY <1>5 DEF EndOffsets, LivenessInv, CoversVisited, LivenessCoversUses,
              Touched, Written
<1>6. CASE AnalyzeInplace
  BY <1>6 DEF AnalyzeInplace, LivenessInv, CoversVisited, LivenessCoversUses,
              Touched, Written
<1>7. CASE UNCHANGED vars
  BY <1>7 DEF vars, LivenessInv, CoversVisited, LivenessCoversUses,
              Touched, Written
<1>8. QED
  BY <1>1, <1>2, <1>3, <1>4, <1>5, <1>6, <1>7 DEF Next

\* Stage 1 loses no use, for every graph: the interval of a buffer covers
\* every operator that touches it.
THEOREM LivenessCovers == Spec => []LivenessCoversUses
<1>1. Init => LivenessInv
  BY DEF Init, LivenessInv, CoversVisited, LivenessCoversUses
<1>2. QED
  BY <1>1, LivenessInductive, TypeCorrect, PTL DEF Spec, LivenessInv

(***************************************************************************)
(* The arena.  Every allocation is appended either at the end of the arena *)
(* or on an earlier allocation at least as large, its donor.  A buffer     *)
(* inside its donor touches no bytes the donor does not, so offsets stay   *)
(* either equal or apart, and the arena has no bytes nobody uses.          *)
(***************************************************************************)
ArenaInv ==
  /\ stage \in {"liveness", "interference"} => allocs = <<>>
  /\ SlotsDisjoint
  /\ TotalIsHighWater
  /\ SharedOnlyWithDonor
  /\ NoHoles

\* The offsets Stage 3 chooses from.
LegalOffset(b, offset) ==
  \/ offset = total
  \/ \E k \in Donors(b) : offset = allocs[k].offset

\* Placing a buffer of Stage 3 at a legal offset keeps the invariant of the
\* arena.
LEMMA PlaceAtArena ==
  ASSUME TypeOK, ArenaInv, NEW b \in Buffers, NEW offset \in Nat,
         LegalOffset(b, offset), stage = "offsets", PlaceAt(b, offset)
  PROVE  ArenaInv'
<1> DEFINE n   == Len(allocs)
           new == [buf |-> b, offset |-> offset, size |-> AlignedSize(b)]
<1>1. n \in Nat /\ total \in Nat /\ AlignedSize(b) \in Nat
      /\ \A k \in 1 .. n : allocs[k] \in Allocation
  BY AlignedSizeNat DEF TypeOK
<1>2. new \in Allocation /\ new.buf = b /\ new.offset = offset
      /\ new.size = AlignedSize(b)
  BY <1>1 DEF Allocation
<1> HIDE DEF new
<1>3. /\ allocs' = Append(allocs, new)
      /\ total' = IF total < offset + new.size THEN offset + new.size ELSE total
      /\ conflict' = conflict /\ graph' = graph /\ stage' = "offsets"
  BY <1>2 DEF PlaceAt, HighWater, new
<1>4. /\ DOMAIN allocs = 1 .. n /\ DOMAIN allocs' = 1 .. n + 1
      /\ \A k \in 1 .. n : allocs'[k] = allocs[k]
      /\ allocs'[n + 1] = new
  BY <1>2, <1>3 DEF TypeOK
<1>5. \A k \in 1 .. n : /\ allocs[k].offset \in Nat /\ allocs[k].size \in Nat
                        /\ allocs[k].offset + allocs[k].size <= total
  BY <1>1, <1>4 DEF ArenaInv, TotalIsHighWater, Allocation
<1>6. new.offset \in Nat /\ new.size \in Nat /\ new.offset = offset
  BY <1>1, <1>2
<1>7. CASE offset = total
  <2>1. offset <= total /\ total' = total + new.size
    BY <1>1, <1>3, <1>6, <1>7
  <2>2. SlotsDisjoint'
    BY <1>1, <1>4, <1>5, <1>6, <1>7 DEF ArenaInv, SlotsDisjoint
  <2>3. \A j \in 1 .. n : ~ShareMemory(allocs[j], new)
    BY <1>1, <1>5, <1>6, <1>7 DEF ShareMemory
  <2>4. SharedOnlyWithDonor'
    <3> SUFFICES ASSUME NEW k \in 1 .. n + 1,
                        NEW i \in 1 .. k - 1, ShareMemory(allocs'[i], allocs'[k])
                 PROVE  \E j \in 1 .. k - 1 :
                          /\ allocs'[j].offset = allocs'[k].offset
                          /\ ~Conflicts(allocs'[k].buf, allocs'[j].buf)
                          /\ allocs'[j].size >= allocs'[k].size
      BY <1>3, <1>4 DEF SharedOnlyWithDonor, ShareMemory, Conflicts
    <3>1. k \in 1 .. n /\ i \in 1 .. n
      BY <1>1, <1>4, <2>3
    <3>2. ShareMemory(allocs[i], allocs[k])
      BY <1>4, <3>1
    <3>3. PICK j \in 1 .. k - 1 : /\ allocs[j].offset = allocs[k].offset
                                  /\ ~Conflicts(allocs[k].buf, allocs[j].buf)
                                  /\ allocs[j].size >= allocs[k].size
      BY <1>4, <3>1, <3>2 DEF ArenaInv, SharedOnlyWithDonor
    <3>4. j \in 1 .. n
      BY <1>1, <3>1
    <3>5. QED
      BY <1>3, <1>4, <3>1, <3>3, <3>4 DEF Conflicts
  <2>5. TotalIsHighWater'
    <3>1. new.offset + new.size = total'
      BY <1>6, <1>7, <2>1
    <3>2. ASSUME NEW k \in 1 .. n + 1
          PROVE  allocs'[k].offset + allocs'[k].size <= total'
      <4>1. total' \in Nat /\ total <= total'
        BY <1>1, <1>6, <2>1
      <4>2. CASE k \in 1 .. n
        <5>1. /\ allocs[k].offset \in Nat /\ allocs[k].size \in Nat
              /\ allocs[k].offset + allocs[k].size <= total
          BY <1>5, <4>2
        <5>2. allocs'[k] = allocs[k]
          BY <1>4, <4>2
        <5>3. QED
          BY <1>1, <4>1, <5>1, <5>2
      <4>3. CASE k = n + 1
        BY <1>4, <3>1, <4>1, <4>3
      <4>4. QED
        BY <1>1, <4>2, <4>3
    <3>3. n + 1 \in 1 .. n + 1
      BY <1>1
    <3>4. QED
      BY <1>4, <3>1, <3>2, <3>3 DEF TotalIsHighWater
  <2>6. NoHoles'
    <3> SUFFICES ASSUME NEW x \in 0 .. total' - 1
                 PROVE  \E k \in 1 .. n + 1 : /\ allocs'[k].offset <= x
                                              /\ x < allocs'[k].offset + allocs'[k].size
      BY <1>4 DEF NoHoles
    <3>1. CASE x < total
      BY <1>1, <1>4, <3>1 DEF ArenaInv, NoHoles
    <3>2. CASE x >= total
      BY <1>1, <1>4, <1>6, <1>7, <2>1, <3>2
    <3>3. QED
      BY <1>1, <1>6, <2>1, <3>1, <3>2
  <2>7. QED
    BY <1>3, <2>2, <2>4, <2>5, <2>6 DEF ArenaInv
<1>8. ASSUME NEW d \in Donors(b), offset = allocs[d].offset
      PROVE  ArenaInv'
  <2>1. /\ d \in 1 .. n
        /\ ~Conflicts(b, allocs[d].buf)
        /\ allocs[d].size >= new.size
    BY <1>2, <1>4, <1>8 DEF Donors
  <2>2. offset + new.size <= total /\ total' = total
    BY <1>1, <1>3, <1>5, <1>6, <1>8, <2>1
  <2>3. ASSUME NEW j \in 1 .. n
        PROVE  \/ allocs[j].offset = offset
               \/ allocs[j].offset + allocs[j].size <= offset
               \/ offset + new.size <= allocs[j].offset
    <3>1. \/ allocs[j].offset = allocs[d].offset
          \/ allocs[j].offset + allocs[j].size <= allocs[d].offset
          \/ allocs[d].offset + allocs[d].size <= allocs[j].offset
      BY <1>4, <2>1 DEF ArenaInv, SlotsDisjoint
    <3>2. /\ allocs[j].offset \in Nat /\ allocs[j].size \in Nat
          /\ allocs[d].offset \in Nat /\ allocs[d].size \in Nat
          /\ new.size \in Nat /\ allocs[d].size >= new.size
      BY <1>5, <1>6, <2>1
    <3>3. QED
      BY <1>8, <3>1, <3>2
  <2>4. SlotsDisjoint'
    <3> SUFFICES ASSUME NEW j \in 1 .. n + 1, NEW k \in 1 .. n + 1
                 PROVE  \/ allocs'[j].offset = allocs'[k].offset
                        \/ allocs'[j].offset + allocs'[j].size <= allocs'[k].offset
                        \/ allocs'[k].offset + allocs'[k].size <= allocs'[j].offset
      BY <1>4 DEF SlotsDisjoint
    <3>1. CASE j \in 1 .. n /\ k \in 1 .. n
      BY <1>4, <3>1 DEF ArenaInv, SlotsDisjoint
    <3>2. CASE j = n + 1 \/ k = n + 1
      <4>1. (j = n + 1 \/ j \in 1 .. n) /\ (k = n + 1 \/ k \in 1 .. n)
        BY <1>1
      <4>2. QED
        BY <1>4, <1>6, <2>3, <3>2, <4>1
    <3>3. QED
      BY <1>1, <3>1, <3>2
  <2>5. SharedOnlyWithDonor'
    <3> SUFFICES ASSUME NEW k \in 1 .. n + 1,
                        NEW i \in 1 .. k - 1, ShareMemory(allocs'[i], allocs'[k])
                 PROVE  \E j \in 1 .. k - 1 :
                          /\ allocs'[j].offset = allocs'[k].offset
                          /\ ~Conflicts(allocs'[k].buf, allocs'[j].buf)
                          /\ allocs'[j].size >= allocs'[k].size
      BY <1>3, <1>4 DEF SharedOnlyWithDonor, ShareMemory, Conflicts
    <3>1. CASE k = n + 1
      <4>1. d \in 1 .. k - 1
        BY <1>1, <2>1, <3>1
      <4>2. QED
        BY <1>2, <1>3, <1>4, <1>8, <2>1, <3>1, <4>1 DEF Conflicts
    <3>2. CASE k # n + 1
      <4>1. k \in 1 .. n /\ i \in 1 .. n
        BY <1>1, <3>2
      <4>2. ShareMemory(allocs[i], allocs[k])
        BY <1>4, <4>1
      <4>3. PICK j \in 1 .. k - 1 : /\ allocs[j].offset = allocs[k].offset
                                    /\ ~Conflicts(allocs[k].buf, allocs[j].buf)
                                    /\ allocs[j].size >= allocs[k].size
        BY <1>4, <4>1, <4>2 DEF ArenaInv, SharedOnlyWithDonor
      <4>4. j \in 1 .. n
        BY <1>1, <4>1
      <4>5. QED
        BY <1>3, <1>4, <4>1, <4>3, <4>4 DEF Conflicts
    <3>3. QED
      BY <3>1, <3>2
  <2>6. TotalIsHighWater'
    <3>1. \A k \in 1 .. n + 1 : allocs'[k].offset + allocs'[k].size <= total
      BY <1>1, <1>4, <1>5, <1>6, <2>2
    <3>2. total = 0 \/ \E k \in 1 .. n : allocs[k].offset + allocs[k].size = total
      BY <1>4 DEF ArenaInv, TotalIsHighWater
    <3>3. total = 0 \/ \E k \in 1 .. n + 1 : allocs'[k].offset + allocs'[k].size = total
      BY <1>1, <1>4, <3>2
    <3>4. QED
      BY <1>4, <2>2, <3>1, <3>3 DEF TotalIsHighWater
  <2>7. NoHoles'
    <3>1. \A x \in 0 .. total - 1 : \E k \in 1 .. n :
            allocs[k].offset <= x /\ x < allocs[k].offset + allocs[k].size
      BY <1>4 DEF ArenaInv, NoHoles
    <3>2. \A x \in 0 .. total - 1 : \E k \in 1 .. n + 1 :
            allocs'[k].offset <= x /\ x < allocs'[k].offset + allocs'[k].size
      BY <1>1, <1>4, <3>1
    <3>3. QED
      BY <1>4, <2>2, <3>2 DEF NoHoles
  <2>8. QED
    BY <1>3, <2>4, <2>5, <2>6, <2>7 DEF ArenaInv
<1>9. QED
  BY <1>7, <1>8 DEF LegalOffset

\* Every step keeps the invariant of the arena.
LEMMA ArenaInductive ==
  TypeOK /\ ArenaInv /\ [Next]_vars => ArenaInv'
<1> SUFFICES ASSUME TypeOK, ArenaInv, [Next]_vars
             PROVE  ArenaInv'
  OBVIOUS
<1> USE DEF ArenaInv, SlotsDisjoint, TotalIsHighWater, SharedOnlyWithDonor,
            ShareMemory, NoHoles, Conflicts
<1>1. CASE VisitOp
  BY <1>1 DEF VisitOp
<1>2. CASE PinExternal
  BY <1>2 DEF PinExternal
<1>3. CASE Interference
  <2>1. allocs = <<>> /\ allocs' = <<>> /\ total' = total
    BY <1>3 DEF Interference
  <2>2. DOMAIN allocs' = {} /\ DOMAIN allocs = {}
    BY <2>1
  <2>3. total = 0
    BY <2>2
  <2>4. QED
    BY <1>3, <2>1, <2>2, <2>3 DEF Interference
<1>4. ASSUME NEW b \in Buffers, PlaceShared(b) PROVE ArenaInv'
  <2>1. PICK k \in Donors(b) : PlaceAt(b, allocs[k].offset)
    BY <1>4 DEF PlaceShared
  <2>2. allocs[k].offset \in Nat
    BY DonorType DEF Allocation
  <2>3. LegalOffset(b, allocs[k].offset) /\ stage = "offsets"
    BY <1>4 DEF LegalOffset, PlaceShared
  <2>4. QED
    BY <2>1, <2>2, <2>3, PlaceAtArena
<1>5. ASSUME NEW b \in Buffers, PlaceFresh(b) PROVE ArenaInv'
  BY <1>5, PlaceAtArena DEF PlaceFresh, LegalOffset, TypeOK
<1>6. CASE EndOffsets
  BY <1>6 DEF EndOffsets
<1>7. CASE AnalyzeInplace
  BY <1>7 DEF AnalyzeInplace
<1>8. CASE UNCHANGED vars
  BY <1>8 DEF vars
<1>9. QED
  BY <1>1, <1>2, <1>3, <1>4, <1>5, <1>6, <1>7, <1>8 DEF Next

\* The invariant of the arena holds in every behaviour.
LEMMA ArenaInvariant == Spec => []ArenaInv
<1>1. Init => ArenaInv
  BY DEF Init, ArenaInv, SlotsDisjoint, TotalIsHighWater, SharedOnlyWithDonor,
         NoHoles
<1>2. QED
  BY <1>1, ArenaInductive, TypeCorrect, PTL DEF Spec

\* Whatever the graph, memory is shared only deliberately: two allocations lie
\* at one offset or have no byte in common, and one that shares has an earlier,
\* larger donor that is not live with it.
THEOREM SharingHasDonor == Spec => []SharingIsDeliberate
<1>1. ArenaInv => SharingIsDeliberate
  BY DEF ArenaInv, SharingIsDeliberate
<1>2. QED
  BY <1>1, ArenaInvariant, PTL

(***************************************************************************)
(* Completeness.  Stage 3 moves each activation from pending to exactly    *)
(* one allocation.                                                         *)
(***************************************************************************)
PlacedOnce(b) ==
  \E k \in DOMAIN allocs : \A j \in DOMAIN allocs : allocs[j].buf = b <=> j = k

NotPlaced(b) == \A j \in DOMAIN allocs : allocs[j].buf # b

PlacementInv ==
  /\ stage \in {"liveness", "interference"} => allocs = <<>>
  /\ stage = "offsets" =>
       \A b \in Activations : IF b \in pending THEN NotPlaced(b) ELSE PlacedOnce(b)
  /\ EveryActivationPlaced

\* Placing a pending buffer moves it from the pending to the placed ones.
LEMMA PlaceAtPlacement ==
  ASSUME TypeOK, PlacementInv, NEW b \in pending, NEW offset,
         stage = "offsets", PlaceAt(b, offset)
  PROVE  PlacementInv'
<1> DEFINE n == Len(allocs)
<1>1. /\ n \in Nat /\ DOMAIN allocs = 1 .. n /\ DOMAIN allocs' = 1 .. n + 1
      /\ \A k \in 1 .. n : allocs'[k] = allocs[k]
      /\ allocs'[n + 1].buf = b
      /\ pending' = pending \ {b} /\ graph' = graph /\ stage' = "offsets"
  BY DEF TypeOK, PlaceAt
<1>2. Activations' = Activations
  BY <1>1 DEF Activations
<1>3. ASSUME NEW c \in Activations
      PROVE  (IF c \in pending THEN NotPlaced(c) ELSE PlacedOnce(c))'
  <2>0. IF c \in pending THEN NotPlaced(c) ELSE PlacedOnce(c)
    BY DEF PlacementInv
  <2>1. CASE c = b
    <3>1. \A j \in 1 .. n : allocs[j].buf # b
      BY <1>1, <2>0, <2>1 DEF NotPlaced
    <3>2. \A j \in 1 .. n + 1 : allocs'[j].buf = b <=> j = n + 1
      BY <1>1, <3>1
    <3>3. PlacedOnce(c)'
      BY <1>1, <2>1, <3>2 DEF PlacedOnce
    <3>4. QED
      BY <1>1, <2>1, <3>3
  <2>2. CASE c # b /\ c \in pending
    <3>1. NotPlaced(c)'
      BY <1>1, <2>0, <2>2 DEF NotPlaced
    <3>2. QED
      BY <1>1, <2>2, <3>1
  <2>3. CASE c # b /\ c \notin pending
    <3>1. PICK k \in 1 .. n : \A j \in 1 .. n : allocs[j].buf = c <=> j = k
      BY <1>1, <2>0, <2>3 DEF PlacedOnce
    <3>2. \A j \in 1 .. n + 1 : allocs'[j].buf = c <=> j = k
      BY <1>1, <2>3, <3>1
    <3>3. PlacedOnce(c)'
      BY <1>1, <3>2 DEF PlacedOnce
    <3>4. QED
      BY <1>1, <2>3, <3>3
  <2>4. QED
    BY <2>1, <2>2, <2>3
<1>4. QED
  BY <1>1, <1>2, <1>3 DEF PlacementInv, EveryActivationPlaced

\* Every step keeps the pending and the placed activations apart.
LEMMA PlacementInductive ==
  TypeOK /\ PlacementInv /\ [Next]_vars => PlacementInv'
<1> SUFFICES ASSUME TypeOK, PlacementInv, [Next]_vars
             PROVE  PlacementInv'
  OBVIOUS
<1> USE DEF PlacementInv, EveryActivationPlaced, Activations, NotPlaced, PlacedOnce
<1>1. CASE VisitOp
  BY <1>1 DEF VisitOp
<1>2. CASE PinExternal
  BY <1>2 DEF PinExternal
<1>3. CASE Interference
  BY <1>3 DEF Interference
<1>4. ASSUME NEW b \in Buffers, PlaceShared(b) \/ PlaceFresh(b)
      PROVE  PlacementInv'
  BY <1>4, PlaceAtPlacement DEF PlaceShared, PlaceFresh, IsNext
<1>5. CASE EndOffsets
  BY <1>5 DEF EndOffsets
<1>6. CASE AnalyzeInplace
  BY <1>6 DEF AnalyzeInplace
<1>7. CASE UNCHANGED vars
  BY <1>7 DEF vars
<1>8. QED
  BY <1>1, <1>2, <1>3, <1>4, <1>5, <1>6, <1>7 DEF Next

\* Whatever the graph, the plan is exact: total_size is the highest byte an
\* allocation uses, no byte below it is wasted, and when Stage 3 is over every
\* activation has one allocation and only one.
THEOREM PlanExact == Spec => []PlanIsExact
<1>1. Init => PlacementInv
  BY DEF Init, PlacementInv, EveryActivationPlaced
<1>2. PlacementInv /\ ArenaInv => PlanIsExact
  BY DEF PlacementInv, ArenaInv, PlanIsExact
<1>3. QED
  BY <1>1, <1>2, PlacementInductive, ArenaInvariant, TypeCorrect, PTL DEF Spec

(***************************************************************************)
(* In-place rewrites.  A candidate marked Safe was checked against an      *)
(* interval that covers every use of its input.                            *)
(***************************************************************************)
KindsAreFresh ==
  /\ inplace # {} => stage = "done"
  /\ \A c \in inplace : c.kind = Kind(c.op, c.in)

\* Every step keeps the kind of each in-place candidate the one Kind gives.
LEMMA KindsInductive ==
  TypeOK /\ KindsAreFresh /\ [Next]_vars => KindsAreFresh'
<1> SUFFICES ASSUME TypeOK, KindsAreFresh, [Next]_vars
             PROVE  KindsAreFresh'
  OBVIOUS
<1> USE DEF KindsAreFresh, Kind, Is
<1>1. CASE VisitOp
  BY <1>1 DEF VisitOp
<1>2. CASE PinExternal
  BY <1>2 DEF PinExternal
<1>3. CASE Interference
  BY <1>3 DEF Interference
<1>4. ASSUME NEW b \in Buffers, PlaceShared(b) \/ PlaceFresh(b)
      PROVE  KindsAreFresh'
  BY <1>4 DEF PlaceShared, PlaceFresh, PlaceAt
<1>5. CASE EndOffsets
  BY <1>5 DEF EndOffsets
<1>6. CASE AnalyzeInplace
  BY <1>6 DEF AnalyzeInplace
<1>7. CASE UNCHANGED vars
  BY <1>7 DEF vars
<1>8. QED
  BY <1>1, <1>2, <1>3, <1>4, <1>5, <1>6, <1>7 DEF Next

\* Overwriting the input of a rewrite marked Safe destroys nothing: no later
\* operator reads or writes it and the graph does not return it.
THEOREM SafeRewritesAreSafe == Spec => []InplaceIsSafe
<1>1. Init => KindsAreFresh
  BY DEF Init, KindsAreFresh
<1>2. TypeOK /\ LivenessCoversUses /\ KindsAreFresh => InplaceIsSafe
  <2> SUFFICES ASSUME TypeOK, LivenessCoversUses, KindsAreFresh,
                      NEW c \in inplace, c.kind = "Safe"
               PROVE  /\ ~Is(c.in, "output")
                      /\ \A o \in OpIds : o > c.op => c.in \notin Touched(o)
    BY DEF InplaceIsSafe
  <2>1. stage # "liveness"
    BY DEF KindsAreFresh
  <2>2. c.op \in OpIds /\ c.in \in Buffers
    BY DEF TypeOK
  <2>3. intervals[c.in].last = c.op /\ ~Is(c.in, "output")
    BY DEF KindsAreFresh, Kind
  <2>4. ASSUME NEW o \in OpIds, o > c.op, c.in \in Touched(o)
        PROVE  FALSE
    BY <2>1, <2>2, <2>3, <2>4, NumOpsAssumption DEF LivenessCoversUses, OpIds
  <2>5. QED
    BY <2>3, <2>4
<1>3. QED
  BY <1>1, <1>2, KindsInductive, LivenessCovers, TypeCorrect, PTL DEF Spec
-----------------------------------------------------------------------------

(***************************************************************************)
(* Arithmetic of the slot assignment.                                      *)
(***************************************************************************)
\* The pages cover the window: rounding up loses no token.
LEMMA PagesCoverWindow ==
  /\ PagesPerLayerWindow \in Nat \ {0}
  /\ ActiveWindow <= PagesPerLayerWindow * PageTokens
<1> DEFINE n == ActiveWindow + PageTokens - 1
<1>1. n \in Nat /\ PageTokens \in Nat \ {0} /\ PageTokens <= n
  BY ActiveWindowAssumption, PageTokensAssumption
<1>2. /\ n \div PageTokens \in Int
      /\ (n \div PageTokens) * PageTokens <= n
      /\ n < (n \div PageTokens) * PageTokens + PageTokens
  BY <1>1
<1> QED
  BY <1>1, <1>2, ActiveWindowAssumption, PageTokensAssumption DEF PagesPerLayerWindow

\* Every decode step is given a place inside the buffer.
LEMMA PlaceInBuffer ==
  ASSUME NEW t \in Nat
  PROVE  Slot(t) \in Places
<1>1. t \div PageTokens \in Nat /\ t % PageTokens \in 0 .. PageTokens - 1
  BY PageTokensAssumption
<1>2. (t \div PageTokens) % PagesPerLayerWindow \in 0 .. PagesPerLayerWindow - 1
  BY <1>1, PagesCoverWindow
<1> QED
  BY <1>1, <1>2 DEF Slot, Places, Pages, Offsets

\* Numbers with one remainder that are apart are at least a divisor apart.
LEMMA SameRemainder ==
  ASSUME NEW n \in Nat \ {0}, NEW a \in Nat, NEW b \in Nat, b < a, a % n = b % n
  PROVE  a - b = n * (a \div n - b \div n) /\ a \div n - b \div n >= 1
<1> DEFINE p == a \div n
           q == b \div n
<1>1. /\ p \in Int /\ q \in Int
      /\ a = (n * p) + (a % n)
      /\ b = (n * q) + (b % n)
  OBVIOUS
<1>2. a - b = n * p - n * q
  BY <1>1
<1>3. a - b = n * (p - q)
  BY <1>1, <1>2
<1>4. p - q \in Int /\ (p - q <= 0 => n * (p - q) <= 0)
  BY <1>1
<1> QED
  BY <1>3, <1>4

\* Two tokens less than a round of the cache apart have different places.
LEMMA PlacesDiffer ==
  ASSUME NEW s \in Nat, NEW t \in Nat, t < s,
         s - t < PagesPerLayerWindow * PageTokens
  PROVE  Slot(s) # Slot(t)
<1> DEFINE a == s \div PageTokens
           b == t \div PageTokens
           W == PagesPerLayerWindow
<1> SUFFICES ASSUME Slot(s) = Slot(t)
             PROVE  FALSE
  OBVIOUS
<1>1. s % PageTokens = t % PageTokens /\ a % W = b % W
  BY DEF Slot
<1>2. a \in Nat /\ b \in Nat /\ W \in Nat \ {0}
  BY PageTokensAssumption, PagesCoverWindow
<1>3. s - t = PageTokens * (a - b) /\ a - b >= 1
  BY <1>1, PageTokensAssumption, SameRemainder
<1>4. a - b < W
  <2>1. PageTokens * (a - b) < PageTokens * W
    BY <1>2, <1>3, PageTokensAssumption
  <2>2. a - b >= W => PageTokens * (a - b) >= PageTokens * W
    BY <1>2, PageTokensAssumption
  <2> QED
    BY <1>2, <2>1, <2>2, PageTokensAssumption
<1>5. a - b = W * (a \div W - b \div W) /\ a \div W - b \div W >= 1
  <2>1. b < a
    BY <1>2, <1>3
  <2> QED
    BY <1>1, <1>2, <2>1, SameRemainder
<1>6. a \div W - b \div W \in Int
  BY <1>2
<1>7. W * (a \div W - b \div W) >= W
  BY <1>2, <1>5, <1>6
<1> QED
  BY <1>2, <1>4, <1>5, <1>7

(***************************************************************************)
(* The cache.  A place is overwritten only by a step more than a window    *)
(* later, because the window fits into one round of the cache.             *)
(***************************************************************************)
KvInv == KvTypeOK /\ WindowResident

\* A decode step keeps the window in the cache: the token it overwrites has
\* left it.
LEMMA DecodeKeepsWindow ==
  ASSUME KvInv, Decode
  PROVE  KvInv'
<1>1. step \in Nat /\ step < MaxSeqLen /\ step' = step + 1
  BY MaxSeqLenAssumption DEF KvInv, KvTypeOK, Decode
<1>2. slots \in [Places -> {Empty} \cup (0 .. MaxSeqLen - 1)] /\ Slot(step) \in Places
  BY <1>1, PlaceInBuffer DEF KvInv, KvTypeOK
<1>3. slots' = [slots EXCEPT ![Slot(step)] = step]
  BY DEF Decode
<1>4. KvTypeOK'
  <2>1. step \in 0 .. MaxSeqLen - 1 /\ step' \in 0 .. MaxSeqLen
    BY <1>1, MaxSeqLenAssumption
  <2> QED
    BY <1>2, <1>3, <2>1 DEF KvTypeOK
<1>5. ASSUME NEW t \in 0 .. step' - 1, step' - t <= ActiveWindow
      PROVE  Slot(t) \in Places /\ slots'[Slot(t)] = t
  <2>1. t \in Nat /\ t <= step
    BY <1>1, <1>5
  <2>2. Slot(t) \in Places
    BY <2>1, PlaceInBuffer
  <2>3. CASE t = step
    BY <1>2, <1>3, <2>2, <2>3
  <2>4. CASE t < step
    <3>1. slots[Slot(t)] = t
      BY <1>1, <1>5, <2>1, <2>4, ActiveWindowAssumption DEF KvInv, WindowResident
    <3>2. PagesPerLayerWindow * PageTokens \in Nat
      BY PagesCoverWindow, PageTokensAssumption
    <3>3. step - t < PagesPerLayerWindow * PageTokens
      BY <1>1, <1>5, <2>1, <3>2, PagesCoverWindow, ActiveWindowAssumption
    <3>4. Slot(step) # Slot(t)
      BY <1>1, <2>1, <2>4, <3>3, PlacesDiffer
    <3> QED
      BY <1>2, <1>3, <2>2, <3>1, <3>4
  <2> QED
    BY <1>1, <2>1, <2>3, <2>4
<1> QED
  BY <1>4, <1>5 DEF KvInv, WindowResident

\* At the start no token is in the window.
LEMMA KvInitially == KvInit => KvInv
<1> SUFFICES ASSUME KvInit
             PROVE  KvInv
  OBVIOUS
<1>1. KvTypeOK
  BY MaxSeqLenAssumption DEF KvInit, KvTypeOK
<1>2. WindowResident
  BY DEF KvInit, WindowResident
<1> QED
  BY <1>1, <1>2 DEF KvInv

\* Every step of Stage 7 keeps the window in the cache.
LEMMA KvInductive == KvInv /\ [Decode]_kvVars => KvInv'
<1> SUFFICES ASSUME KvInv, [Decode]_kvVars
             PROVE  KvInv'
  OBVIOUS
<1>1. CASE Decode
  BY <1>1, DecodeKeepsWindow
<1>2. CASE UNCHANGED kvVars
  BY <1>2 DEF kvVars, KvInv, KvTypeOK, WindowResident, Slot, Places, Pages, Offsets,
              PagesPerLayerWindow
<1> QED
  BY <1>1, <1>2

(***************************************************************************)
(* The pipeline: every step of main is a step of the planner or one of the *)
(* cache and leaves the other's state alone.                               *)
(***************************************************************************)
\* main runs the planner: what is proved of the planner holds of main.
THEOREM PipelinePlans == PipelineSpec => Spec
<1>1. PipelineInit => Init
  BY DEF PipelineInit
<1>2. [PipelineNext]_pipelineVars => [Next]_vars
  BY DEF PipelineNext, pipelineVars, Plan, DecodeStep, Returned
<1> QED
  BY <1>1, <1>2, PTL DEF PipelineSpec, Spec

\* main runs the decode steps of the cache.
THEOREM PipelineDecodes == PipelineSpec => KvSpec
<1>1. PipelineInit => KvInit
  BY DEF PipelineInit
<1>2. [PipelineNext]_pipelineVars => [Decode]_kvVars
  BY DEF PipelineNext, pipelineVars, Plan, DecodeStep, Returned
<1> QED
  BY <1>1, <1>2, PTL DEF PipelineSpec, KvSpec

\* For every sequence length, window and page size, the tokens the window
\* covers are in the cache after every step of main, each in its own place.
THEOREM WindowStaysResident == PipelineSpec => []WindowResident
<1>1. KvSpec => []KvInv
  BY KvInitially, KvInductive, PTL DEF KvSpec
<1>2. KvInv => WindowResident
  BY DEF KvInv
<1> QED
  BY <1>1, <1>2, PipelineDecodes, PTL
=============================================================================
