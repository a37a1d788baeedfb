------------------------- MODULE LoopPasses_proofs -------------------------
(***************************************************************************)
(* The loop passes take away the loops they mean to and nothing else, and  *)
(* values behind them stay, for functions of any size.                     *)
(*                                                                         *)
(* The argument.  Reached is the least set that holds the entry and is     *)
(* closed under successors; a natural loop is entered at its header only   *)
(* and every block of it leads on inside, and two loops share a block only *)
(* when one holds the other's header.  So a loop that lies in no other and *)
(* holds no other can go alone: the entry reaches afterwards what it       *)
(* reached before, less that loop's blocks (Takes).  FlowInv says this of  *)
(* all the loops gone so far.  ValueInv adds what the PHI needs: its       *)
(* entries are its predecessors, those in the loop that is followed bring  *)
(* its value, and once it is bypassed its preheader leads to the PHI.      *)
(***************************************************************************)
EXTENDS LoopPasses, FiniteSetTheorems, WellFoundedInduction, TLAPS

-----------------------------------------------------------------------------
(***************************************************************************)
(* Induction over a set of natural numbers: the library's theorems take an *)
(* operator, which the provers cannot instantiate.                         *)
(***************************************************************************)
\* A set of natural numbers has a least element.
LEMMA LeastNat ==
  ASSUME NEW T, T \subseteq Nat, T # {}
  PROVE  \E x \in T : \A y \in T : x <= y
<1>1. IsWellFoundedOn(OpToRel(<, Nat), Nat)
  BY NatLessThanWellFounded
<1>2. PICK x \in T : \A y \in T : ~(<<y, x>> \in OpToRel(<, Nat))
  BY <1>1, WFMin
<1>3. OpToRel(<, Nat) = {ss \in Nat \X Nat : ss[1] < ss[2]}
  BY Zenon DEF OpToRel
<1> DEFINE Less == {ss \in Nat \X Nat : ss[1] < ss[2]}
<1>4. \A y \in T : <<y, x>> \notin Less
  BY <1>2, <1>3, Zenon
<1>5. \A y \in T : ~(y < x)
  BY <1>4
<1>6. \A y \in T : x <= y
  BY <1>5, x \in Nat
<1>7. QED
  BY <1>6

\* A set with 0 and the successors of its elements up to a bound has the numbers up
\* to the bound.
LEMMA UpTo ==
  ASSUME NEW N \in Nat, NEW P, 0 \in P,
         \A n \in Nat : n < N /\ n \in P => n + 1 \in P
  PROVE  0 .. N \subseteq P
<1> DEFINE Q == (0 .. N) \ P
<1>1. SUFFICES ASSUME Q # {} PROVE FALSE
  OBVIOUS
<1>2. PICK x \in Q : \A y \in Q : x <= y
  <2>1. Q \subseteq Nat
    OBVIOUS
  <2> HIDE DEF Q
  <2>2. QED
    BY <1>1, <2>1, LeastNat
<1>3. x \in 0 .. N /\ x \notin P
  OBVIOUS
<1>4. x # 0
  BY <1>3
<1>5. x - 1 \in 0 .. N /\ x - 1 \in Nat /\ x - 1 < N /\ x - 1 + 1 = x /\ ~(x <= x - 1)
  BY <1>3, <1>4
<1>6. x - 1 \in P
  BY <1>2, <1>5
<1>7. x \in P
  BY <1>5, <1>6
<1>8. QED
  BY <1>3, <1>7

\* f starts with base and goes on by step up to k.
Recursion(f, k, base, step) ==
    /\ \E V : f \in [0 .. k -> V]
    /\ f[0] = base
    /\ \A n \in 0 .. k - 1 : f[n + 1] = step[<<n + 1, f[n]>>]

\* Such a function exists for any first value and any step.
LEMMA RecursionExists ==
  ASSUME NEW N \in Nat, NEW base, NEW step
  PROVE  \E f : Recursion(f, N, base, step)
<1> DEFINE StepsOn(V, f, k) == /\ f \in [0 .. k -> V]
                               /\ f[0] = base
                               /\ \A n \in 0 .. k - 1 : f[n + 1] = step[<<n + 1, f[n]>>]
           P == {k \in Nat : \E V, f : StepsOn(V, f, k)}
<1>1. 0 \in P
  <2> DEFINE first == [n \in 0 .. 0 |-> base]
  <2>1. StepsOn({base}, first, 0)
    OBVIOUS
  <2> HIDE DEF StepsOn, first
  <2>2. QED
    BY <2>1
<1>2. ASSUME NEW k \in Nat, k \in P PROVE k + 1 \in P
  <2>1. PICK V, f : StepsOn(V, f, k)
    BY <1>2
  <2> DEFINE last == step[<<k + 1, f[k]>>]
             W == V \cup {last}
             g == [n \in 0 .. k + 1 |-> IF n = k + 1 THEN last ELSE f[n]]
  <2>2. /\ g \in [0 .. k + 1 -> W]
        /\ g[k + 1] = last
        /\ \A n \in 0 .. k : g[n] = f[n]
    BY <2>1
  <2> HIDE DEF g, W
  <2>3. g[0] = base
    <3>1. 0 \in 0 .. k
      OBVIOUS
    <3>2. QED
      BY <2>1, <2>2, <3>1, Zenon
  <2>4. ASSUME NEW n \in 0 .. k PROVE g[n + 1] = step[<<n + 1, g[n]>>]
    <3>1. CASE n = k
      BY <2>2, <3>1
    <3>2. CASE n # k
      <4>1. n \in 0 .. k - 1 /\ n + 1 \in 0 .. k
        BY <3>2
      <4>2. QED
        BY <2>1, <2>2, <4>1
    <3>3. QED
      BY <3>1, <3>2
  <2>5. StepsOn(W, g, k + 1)
    <3>1. k + 1 - 1 = k
      OBVIOUS
    <3>2. QED
      BY <2>2, <2>3, <2>4, <3>1
  <2> HIDE DEF StepsOn
  <2>6. QED
    BY <2>5
<1> HIDE DEF P, StepsOn
<1>3. N \in P
  <2>1. 0 .. N \subseteq P
    BY <1>1, <1>2, UpTo
  <2>2. QED
    BY <2>1
<1>4. PICK V, f : StepsOn(V, f, N)
  BY <1>3 DEF P
<1>5. QED
  BY <1>4, Zenon DEF Recursion, StepsOn

(***************************************************************************)
(* Reached is the least set with the first block that successors stay in.  *)
(***************************************************************************)
\* A graph whose terminators lead to its own blocks.
IsGraph(s) == s \in [Blocks -> Seq(Blocks)]

\* One step further along the edges.
Forward(s, R, avoid) == R \cup ((UNION {Targets(s, b) : b \in R}) \ avoid)

\* Step by step, what Reached collects.
Collects(s, from, avoid, f) ==
    /\ f[0] = {from} \ avoid
    /\ \A n \in 0 .. Cardinality(Blocks) - 1 : f[n + 1] = Forward(s, f[n], avoid)
    /\ Reached(s, from, avoid) = f[Cardinality(Blocks)]

\* The number of blocks is a natural number.
LEMMA BlockCount == Cardinality(Blocks) \in Nat
  BY FunctionsAssumption, FS_CardinalityType

\* Targets are blocks.
LEMMA TargetsType ==
  ASSUME NEW s, IsGraph(s), NEW b \in Blocks
  PROVE  Targets(s, b) \subseteq Blocks
  BY DEF Targets, IsGraph

\* Going one step further stays among the blocks.
LEMMA ForwardType ==
  ASSUME NEW s, IsGraph(s), NEW avoid, NEW R \in SUBSET Blocks
  PROVE  Forward(s, R, avoid) \in SUBSET Blocks /\ R \subseteq Forward(s, R, avoid)
  BY TargetsType DEF Forward

\* Reached is computed that way.
LEMMA ReachedSteps ==
  ASSUME NEW s, IsGraph(s), NEW from \in Blocks, NEW avoid
  PROVE  \E f : Collects(s, from, avoid, f)
<1> DEFINE N == Cardinality(Blocks)
           first == {from} \ avoid
           Go(R) == Forward(s, R, avoid)
           step == [p \in (1 .. N) \X SUBSET Blocks |-> Go(p[2])]
           Unfolds(f) == f = [n \in 0 .. Cardinality(DOMAIN s) |->
                                IF n = 0 THEN {from} \ avoid
                                ELSE LET before == f[n - 1]
                                     IN before \cup
                                        ((UNION {Targets(s, b) : b \in before}) \ avoid)]
<1>1. N \in Nat /\ DOMAIN s = Blocks /\ first \in SUBSET Blocks
  BY BlockCount DEF IsGraph
<1>2. PICK f : Recursion(f, N, first, step)
  <2> HIDE DEF step, first
  <2>1. QED
    BY <1>1, RecursionExists
<1>3. /\ \E V : f \in [0 .. N -> V]
      /\ f[0] = first
      /\ \A n \in 0 .. N - 1 : f[n + 1] = step[<<n + 1, f[n]>>]
  <2> HIDE DEF step, first
  <2>1. QED
    BY <1>2 DEF Recursion
<1>4. ASSUME NEW R \in SUBSET Blocks PROVE Go(R) \in SUBSET Blocks
  BY ForwardType
<1> HIDE DEF Go
<1>5. ASSUME NEW n \in 0 .. N - 1, f[n] \in SUBSET Blocks
      PROVE  f[n + 1] = Go(f[n]) /\ f[n + 1] \in SUBSET Blocks
  <2> DEFINE p == <<n + 1, f[n]>>
  <2>1. p \in (1 .. N) \X SUBSET Blocks /\ p[2] = f[n]
    BY <1>1, <1>5
  <2> HIDE DEF p
  <2>2. step[p] = Go(f[n])
    BY <2>1
  <2> HIDE DEF step
  <2>3. f[n + 1] = Go(f[n])
    BY <1>3, <2>2 DEF p
  <2>4. QED
    BY <1>4, <1>5, <2>3
<1> HIDE DEF step
<1> DEFINE P == {n \in 0 .. N : f[n] \in SUBSET Blocks}
<1>6. 0 \in P
  BY <1>1, <1>3
<1>7. ASSUME NEW n \in Nat, n < N, n \in P PROVE n + 1 \in P
  <2>1. n \in 0 .. N - 1 /\ n + 1 \in 0 .. N
    BY <1>1, <1>7
  <2>2. f[n] \in SUBSET Blocks
    BY <1>7
  <2>3. QED
    BY <1>5, <2>1, <2>2
<1>8. 0 .. N \subseteq P
  <2> HIDE DEF P
  <2>1. QED
    BY <1>1, <1>6, <1>7, UpTo
<1>9. \A n \in 0 .. N - 1 : f[n + 1] = Go(f[n])
  <2>1. \A n \in 0 .. N - 1 : f[n] \in SUBSET Blocks
    BY <1>1, <1>8
  <2>2. QED
    BY <1>5, <2>1
<1>10. Unfolds(f)
  <2> HIDE DEF N
  <2>1. \A n \in 0 .. N : f[n] = IF n = 0 THEN first ELSE Go(f[n - 1])
    <3>1. \A n \in 0 .. N : n # 0 => n - 1 \in 0 .. N - 1 /\ n - 1 + 1 = n
      BY <1>1
    <3>2. QED
      BY <1>3, <1>9, <3>1
  <2>2. f = [n \in 0 .. N |-> f[n]]
    BY <1>3
  <2>3. f = [n \in 0 .. N |-> IF n = 0 THEN first ELSE Go(f[n - 1])]
    <3> HIDE DEF first
    <3>1. QED
      BY <2>1, <2>2
  <2>4. QED
    BY <1>1, <2>3, Zenon DEF Go, Forward, N
<1> DEFINE g == CHOOSE h : Unfolds(h)
<1>11. Unfolds(g)
  <2> HIDE DEF Unfolds
  <2>1. QED
    BY <1>10
<1>12. Reached(s, from, avoid) = g[Cardinality(DOMAIN s)]
  BY Zenon DEF Reached
<1> HIDE DEF g
<1>13. /\ g[0] = first
       /\ \A n \in 0 .. N - 1 : g[n + 1] = Go(g[n])
  <2>1. g = [n \in 0 .. N |-> IF n = 0 THEN first ELSE Go(g[n - 1])]
    BY <1>1, <1>11, Zenon DEF Go, Forward
  <2> HIDE DEF first, N
  <2>2. \A n \in 0 .. N : g[n] = IF n = 0 THEN first ELSE Go(g[n - 1])
    BY <2>1, Zenon
  <2>3. /\ 0 \in 0 .. N
        /\ \A n \in 0 .. N - 1 : n + 1 \in 0 .. N /\ n + 1 # 0 /\ n + 1 - 1 = n
    BY <1>1
  <2>4. QED
    BY <2>2, <2>3
<1>14. Collects(s, from, avoid, g)
  BY <1>1, <1>12, <1>13, Zenon DEF Collects, Go
<1>15. QED
  BY <1>14

\* Reached has its first block and every successor outside avoid.
LEMMA ReachedCloses ==
  ASSUME NEW s, IsGraph(s), NEW from \in Blocks, NEW avoid
  PROVE  /\ Reached(s, from, avoid) \in SUBSET (Blocks \ avoid)
         /\ from \notin avoid => from \in Reached(s, from, avoid)
         /\ \A b \in Reached(s, from, avoid) :
              \A t \in Targets(s, b) : t \in avoid \/ t \in Reached(s, from, avoid)
<1> DEFINE N == Cardinality(Blocks)
           Go(R) == Forward(s, R, avoid)
           T == Blocks \ avoid
<1>1. N \in Nat /\ IsFiniteSet(Blocks)
  BY BlockCount, FunctionsAssumption
<1>2. PICK f : Collects(s, from, avoid, f)
  BY ReachedSteps
<1>3. f[0] = {from} \ avoid /\ Reached(s, from, avoid) = f[N]
  BY <1>2 DEF Collects
<1>4. \A n \in 0 .. N - 1 : f[n + 1] = Go(f[n])
  BY <1>2 DEF Collects
<1>5. \A R \in SUBSET T : Go(R) \in SUBSET T /\ R \subseteq Go(R)
  <2>1. ASSUME NEW R \in SUBSET T PROVE Go(R) \in SUBSET T
    <3>1. R \in SUBSET Blocks
      OBVIOUS
    <3>2. Forward(s, R, avoid) \in SUBSET Blocks
      BY <3>1, ForwardType
    <3>3. Forward(s, R, avoid) \cap avoid = {}
      BY DEF Forward
    <3> DEFINE Q == Forward(s, R, avoid)
    <3>4. Q \in SUBSET Blocks /\ Q \cap avoid = {}
      BY <3>2, <3>3
    <3> HIDE DEF Q
    <3>5. Q \in SUBSET T
      BY <3>4
    <3>6. QED
      BY <3>5 DEF Q
  <2>2. ASSUME NEW R \in SUBSET T PROVE R \subseteq Go(R)
    BY DEF Forward
  <2>3. QED
    BY <2>1, <2>2
<1> HIDE DEF Go
<1> DEFINE Grown(n) ==
             /\ f[n] \in SUBSET T
             /\ from \notin avoid => from \in f[n]
             /\ Go(f[n]) = f[n] \/ Cardinality(f[n]) >= n
           P == {n \in 0 .. N : Grown(n)}
<1>6. 0 \in P
  <2>1. f[0] \in SUBSET T /\ (from \notin avoid => from \in f[0])
    BY <1>3
  <2>2. IsFiniteSet(f[0])
    BY <1>1, <2>1, FS_Subset
  <2>3. Cardinality(f[0]) >= 0
    BY <2>2, FS_CardinalityType
  <2>4. QED
    BY <1>1, <2>1, <2>3
<1>7. ASSUME NEW n \in Nat, n < N, n \in P PROVE n + 1 \in P
  <2>1. n \in 0 .. N - 1 /\ n + 1 \in 0 .. N
    BY <1>1, <1>7
  <2>2. Grown(n)
    BY <1>7
  <2>3. f[n + 1] = Go(f[n])
    BY <1>4, <2>1
  <2>4. f[n + 1] \in SUBSET T /\ f[n] \subseteq f[n + 1]
    BY <1>5, <2>2, <2>3
  <2>5. Go(f[n + 1]) = f[n + 1] \/ Cardinality(f[n + 1]) >= n + 1
    <3>1. CASE Go(f[n]) = f[n]
      BY <2>3, <3>1
    <3>2. CASE Go(f[n]) # f[n]
      <4>1. Cardinality(f[n]) >= n
        BY <2>2, <3>2
      <4> DEFINE A == f[n]
                 B == f[n + 1]
      <4>2. A \in SUBSET B /\ A # B /\ B \in SUBSET Blocks
        BY <2>3, <2>4, <3>2
      <4>3. Cardinality(A) >= n
        BY <4>1
      <4> HIDE DEF A, B
      <4>4. IsFiniteSet(B)
        BY <1>1, <4>2, FS_Subset
      <4>5. IsFiniteSet(A) /\ Cardinality(A) <= Cardinality(B)
            /\ (Cardinality(B) = Cardinality(A) => B = A)
        BY <4>2, <4>4, FS_Subset
      <4>6. Cardinality(A) \in Nat /\ Cardinality(B) \in Nat
        BY <4>4, <4>5, FS_CardinalityType
      <4>7. Cardinality(B) >= n + 1
        BY <4>2, <4>3, <4>5, <4>6
      <4>8. QED
        BY <4>7 DEF B
    <3>3. QED
      BY <3>1, <3>2
  <2>6. from \notin avoid => from \in f[n + 1]
    BY <2>2, <2>4
  <2>7. QED
    BY <2>1, <2>4, <2>5, <2>6
<1>8. 0 .. N \subseteq P
  <2> HIDE DEF P
  <2>1. QED
    BY <1>1, <1>6, <1>7, UpTo
<1>9. Grown(N)
  BY <1>1, <1>8
<1>10. Go(f[N]) = f[N]
  <2>1. CASE Cardinality(f[N]) >= N
    <3> DEFINE A == f[N]
    <3>1. A \in SUBSET Blocks /\ Cardinality(A) >= N
      BY <1>9, <2>1
    <3>2. Cardinality(A) \in Nat /\ Cardinality(A) <= N
          /\ (N = Cardinality(A) => Blocks = A)
      <4> HIDE DEF A
      <4>1. IsFiniteSet(A)
        BY <1>1, <3>1, FS_Subset
      <4>2. QED
        BY <1>1, <3>1, <4>1, FS_Subset, FS_CardinalityType
    <3>3. A = Blocks
      BY <1>1, <3>1, <3>2
    <3>4. Go(A) \in SUBSET T /\ A \subseteq Go(A)
      BY <1>5, <1>9
    <3>5. QED
      BY <3>3, <3>4
  <2>2. QED
    BY <1>9, <2>1
<1>11. \A b \in f[N] : \A t \in Targets(s, b) : t \in avoid \/ t \in f[N]
  BY <1>10 DEF Go, Forward
<1>12. QED
  BY <1>3, <1>9, <1>11

\* A set that has the first block, and with each of its reached blocks the
\* successors, has everything that is reached.
LEMMA ReachedLeast ==
  ASSUME NEW s, IsGraph(s), NEW from \in Blocks, NEW avoid, NEW S,
         from \notin avoid => from \in S,
         \A b \in S \cap Reached(s, from, avoid) :
            \A t \in Targets(s, b) : t \in avoid \/ t \in S
  PROVE  Reached(s, from, avoid) \subseteq S
<1> DEFINE N == Cardinality(Blocks)
           R == Reached(s, from, avoid)
           K == S \cap R
<1>1. N \in Nat
  BY BlockCount
<1>2. PICK f : Collects(s, from, avoid, f)
  BY ReachedSteps
<1>3. f[0] = {from} \ avoid /\ R = f[N]
  BY <1>2 DEF Collects
<1>4. \A n \in 0 .. N - 1 : f[n + 1] = Forward(s, f[n], avoid)
  BY <1>2 DEF Collects
<1>5. from \notin avoid => from \in K
  BY ReachedCloses
<1>6. \A b \in K : \A t \in Targets(s, b) : t \in avoid \/ t \in K
  <2>1. \A b \in R : \A t \in Targets(s, b) : t \in avoid \/ t \in R
    BY ReachedCloses
  <2>2. \A b \in S \cap R : \A t \in Targets(s, b) : t \in avoid \/ t \in S
    OBVIOUS
  <2> HIDE DEF R
  <2>3. QED
    BY <2>1, <2>2
<1> HIDE DEF R, K
<1> DEFINE P == {n \in 0 .. N : f[n] \subseteq K}
<1>7. 0 \in P
  BY <1>1, <1>3, <1>5
<1>8. ASSUME NEW n \in Nat, n < N, n \in P PROVE n + 1 \in P
  <2>1. n \in 0 .. N - 1 /\ n + 1 \in 0 .. N
    BY <1>1, <1>8
  <2>2. f[n] \subseteq K
    BY <1>8
  <2>3. Forward(s, f[n], avoid) \subseteq K
    BY <1>6, <2>2 DEF Forward
  <2>4. QED
    BY <1>4, <2>1, <2>3
<1>9. 0 .. N \subseteq P
  <2> HIDE DEF P
  <2>1. QED
    BY <1>1, <1>7, <1>8, UpTo
<1>10. QED
  BY <1>1, <1>3, <1>9 DEF K, R

\* What is reached from a reached block is reached.
LEMMA ReachedFurther ==
  ASSUME NEW s, IsGraph(s), NEW from \in Blocks, NEW avoid,
         NEW x \in Reached(s, from, avoid)
  PROVE  Reached(s, x, avoid) \subseteq Reached(s, from, avoid)
<1>1. x \in Blocks
  BY ReachedCloses
<1> DEFINE S == Reached(s, from, avoid)
<1>2. \A b \in S : \A t \in Targets(s, b) : t \in avoid \/ t \in S
  BY ReachedCloses
<1>3. x \in S
  OBVIOUS
<1> HIDE DEF S
<1>4. Reached(s, x, avoid) \subseteq S
  <2>1. \A b \in S \cap Reached(s, x, avoid) : \A t \in Targets(s, b) : t \in avoid \/ t \in S
    BY <1>2
  <2>2. x \notin avoid => x \in S
    BY <1>3
  <2>3. QED
    BY <1>1, <2>1, <2>2, ReachedLeast
<1>5. QED
  BY <1>4 DEF S

-----------------------------------------------------------------------------
(***************************************************************************)
(* The inductive invariant.                                                *)
(***************************************************************************)
\* The blocks the entry reached in the source.
InSource == Reached(source.succ, Entry, {})

\* The loops a pass may take away.
Simple == TopLevel(loops) \cap Innermost(loops)

\* Each step takes away one loop: always when bypassing, and when cutting as
\* long as a loop without exit block has no exit.
Exact == pass = "RemoveZeroTripLoop" \/ SingleExits

\* The loops are those of the source.
ShapeInv == TypeOK /\ loops = Loops(source.succ, Entry)

\* No new blocks are reached, and a loop is entered at its header only.
EdgesInv ==
    /\ Reached(succ, Entry, {}) \subseteq InSource \cap live
    /\ pass = "RemoveTrivialLoop" =>
        \A b \in Blocks : succ[b] = source.succ[b] \/ succ[b] = <<>>
    /\ \A l \in loops : \A x \in InSource \cap live :
        \A t \in Targets(succ, x) \cap l.blocks : t = l.header \/ x \in l.blocks

\* What is gone is whole loops, and what is left is still reached.
RemovalInv ==
    Exact =>
        /\ InSource \cap live \subseteq Reached(succ, Entry, {})
        /\ \A l \in todo \cap Innermost(loops) : l.blocks \subseteq live
        /\ InSource \ live \subseteq UNION {l.blocks : l \in Removed}
        /\ \A l \in Removed : l \in Simple /\ l.blocks \cap live = {}

\* The endless loops looked at so far are gone.
CutInv ==
    stage # "undefined" /\ pass = "RemoveTrivialLoop" =>
        \A l \in Simple \ todo :
            /\ ExitEdges(source.succ, l) = {}
            /\ \A b \in OutsidePreds(source.succ, l) : source.succ[b] = <<l.header>>
            => l.blocks \cap live = {}

FlowInv ==
    ShapeInv /\ EdgesInv /\ RemovalInv /\ CutInv /\ ReturnsKept /\ OnlyLoopsBypassed

\* The blocks of the loop whose values are followed.
Followed == UNION {l.blocks : l \in {m \in loops : m.header = source.header}}

\* What the instruction behind the loop uses.
OperandInv ==
    /\ source.of = "const" => operand = "const"
    /\ pass = "RemoveZeroTripLoop" /\ source.of = "iv" /\ source.at = "exit" =>
        operand = "init" \/ (operand = "iv" /\ source.header \in live)

\* The PHI: one entry per predecessor; exactly the edges from the loop that
\* is followed bring its value, and once it is bypassed its preheader brings the
\* value on entry.
PhiFacts ==
    /\ IncomingBlocks = predecessors(succ, source.join)
    /\ \A p, q \in phi : p[1] = q[1] => p = q
    /\ source.of # "body" => \A p \in phi :
        \E q \in Incoming(source, loops) : OnExit(p[2]) = OnExit(q[2])
    /\ source.of = "iv" /\ source.header \notin live => \A p \in phi :
        source.succ[p[1]] = <<source.header>> => p[2] = "init"
    /\ source.of = "const" => \A p \in phi : p[2] = "const"
    /\ source.of = "iv" => \A p \in phi :
        /\ p[2] \in {"const", "iv", "init"}
        /\ p[2] = "iv" <=> p[1] \in Followed

PhiInv == source.join \in live /\ stage # "undefined" => PhiFacts

\* Once the loop is bypassed, its preheader leads to the PHI.
JoinInv ==
    pass = "RemoveZeroTripLoop" /\ source.join \in live /\ source.header \notin live =>
        \A b \in live : source.succ[b] = <<source.header>> => succ[b] = <<source.join>>

\* A loop that leads to the PHI is not alone.
RepairInv ==
    Exact /\ RepairablePhi /\ source.join \in live =>
        \A l \in loops :
            l.header \in live /\ ExitEdges(source.succ, l) # {} =>
                \E p \in predecessors(succ, source.join) :
                    p \in Reached(succ, Entry, {}) /\ p # l.header

ValueInv == OperandInv /\ PhiInv /\ JoinInv /\ RepairInv /\ PassDefined

-----------------------------------------------------------------------------
(***************************************************************************)
(* The natural loops of a function.                                        *)
(***************************************************************************)
\* No block branches to the entry.
IsSource(s) == s \in [Blocks -> Seq(Blocks \ {Entry})]

\* The loop l is the natural loop of a header with a back edge.
IsLoop(s, l) ==
    /\ l.header \in Blocks /\ Latches(s, Entry, l.header) # {}
    /\ l.blocks = LoopBlocks(s, Entry, l.header)

\* Loops finds natural loops.
LEMMA LoopsAreLoops ==
  ASSUME NEW s, IsSource(s), NEW l \in Loops(s, Entry)
  PROVE  IsLoop(s, l)
<1>1. DOMAIN s = Blocks
  BY DEF IsSource
<1>2. PICK h \in {b \in Blocks : Latches(s, Entry, b) # {}} :
        l = [header |-> h, blocks |-> LoopBlocks(s, Entry, h)]
  BY <1>1, Zenon DEF Loops
<1>3. l.header = h /\ l.blocks = LoopBlocks(s, Entry, h)
  BY <1>2
<1>4. QED
  BY <1>2, <1>3, Zenon DEF IsLoop

\* Loops with the same header are the same.
LEMMA SameHeader ==
  ASSUME NEW s, IsSource(s), NEW l \in Loops(s, Entry), NEW m \in Loops(s, Entry),
         l.header = m.header
  PROVE  l = m
<1>1. PICK g \in DOMAIN s : l = [header |-> g, blocks |-> LoopBlocks(s, Entry, g)]
  BY Zenon DEF Loops
<1>2. PICK h \in DOMAIN s : m = [header |-> h, blocks |-> LoopBlocks(s, Entry, h)]
  BY Zenon DEF Loops
<1>3. g = h
  BY <1>1, <1>2
<1>4. QED
  BY <1>1, <1>2, <1>3

\* A function's terminators lead to its blocks, and the entry is nobody's
\* successor.
LEMMA SourceIsGraph ==
  ASSUME NEW s, IsSource(s)
  PROVE  IsGraph(s) /\ \A b \in Blocks : Entry \notin Targets(s, b)
<1>1. Seq(Blocks \ {Entry}) \subseteq Seq(Blocks)
  OBVIOUS
<1>2. ASSUME NEW b \in Blocks PROVE Entry \notin Targets(s, b)
  <2>1. s[b] \in Seq(Blocks \ {Entry})
    BY DEF IsSource
  <2>2. QED
    BY <2>1 DEF Targets
<1>3. QED
  BY <1>1, <1>2 DEF IsSource, IsGraph

\* A latch branches to the header and is reached only through it.
LEMMA LatchFacts ==
  ASSUME NEW s, IsSource(s), NEW h \in Blocks, NEW n \in Latches(s, Entry, h)
  PROVE  /\ n \in Blocks /\ h \in Targets(s, n)
         /\ n \in Reached(s, Entry, {}) /\ n \notin Reached(s, Entry, {h})
  BY DEF Latches, Dominates, predecessors, IsSource

\* The header of a loop is reached, and is not the entry.
LEMMA HeaderFacts ==
  ASSUME NEW s, IsSource(s), NEW l, IsLoop(s, l)
  PROVE  l.header \in Reached(s, Entry, {}) /\ l.header # Entry
<1> DEFINE h == l.header
           S == Reached(s, Entry, {h})
           R == Reached(s, Entry, {})
<1>1. h \in Blocks /\ IsGraph(s) /\ Entry \in Blocks
  BY SourceIsGraph, FunctionsAssumption DEF IsLoop
<1>2. PICK n \in Latches(s, Entry, h) : TRUE
  BY DEF IsLoop
<1>3. n \in Blocks /\ h \in Targets(s, n) /\ n \in R /\ n \notin S
  BY <1>1, <1>2, LatchFacts
<1>4. h # Entry
  BY <1>1, <1>3, SourceIsGraph
<1>5. ASSUME h \notin R PROVE FALSE
  <2>1. Entry \in S
    BY <1>1, <1>4, ReachedCloses
  <2>2. \A b \in S : \A t \in Targets(s, b) : t \in {h} \/ t \in S
    BY <1>1, ReachedCloses
  <2>3. \A b \in R : \A t \in Targets(s, b) : t \in {} \/ t \in R
    BY <1>1, ReachedCloses
  <2> HIDE DEF S
  <2>4. \A b \in S \cap R : \A t \in Targets(s, b) : t \in {} \/ t \in S
    BY <1>5, <2>2, <2>3
  <2>5. R \subseteq S
    BY <1>1, <2>1, <2>4, ReachedLeast
  <2>6. QED
    BY <1>3, <2>5
<1>6. QED
  BY <1>4, <1>5

\* The blocks of a loop: its header, and the reached blocks with a way to a
\* latch around it.
LEMMA LoopBlocksFacts ==
  ASSUME NEW s, IsSource(s), NEW l, IsLoop(s, l)
  PROVE  /\ l.header \in l.blocks
         /\ l.blocks \subseteq Reached(s, Entry, {}) /\ l.blocks \subseteq Blocks
         /\ \A b \in Blocks : b # l.header =>
              (b \in l.blocks <=>
                 /\ b \in Reached(s, Entry, {})
                 /\ Reached(s, b, {l.header}) \cap Latches(s, Entry, l.header) # {})
<1>1. IsGraph(s) /\ Entry \in Blocks
  BY SourceIsGraph, FunctionsAssumption
<1>2. Reached(s, Entry, {}) \subseteq Blocks
  BY <1>1, ReachedCloses
<1>3. l.header \in Reached(s, Entry, {})
  BY HeaderFacts
<1>4. QED
  BY <1>2, <1>3 DEF IsLoop, LoopBlocks

\* The entry lies in no loop.
LEMMA EntryOutside ==
  ASSUME NEW s, IsSource(s), NEW l, IsLoop(s, l)
  PROVE  Entry \notin l.blocks
<1>1. l.header # Entry /\ Entry \in Blocks
  BY HeaderFacts, FunctionsAssumption
<1>2. SUFFICES ASSUME Reached(s, Entry, {l.header}) \cap Latches(s, Entry, l.header) # {}
               PROVE  FALSE
  BY <1>1, LoopBlocksFacts
<1>3. PICK n \in Latches(s, Entry, l.header) : n \in Reached(s, Entry, {l.header})
  BY <1>2
<1>4. QED
  BY <1>3, LatchFacts DEF IsLoop

\* What leads from outside to a block of the loop leads to its header.
LEMMA EnteredAtHeader ==
  ASSUME NEW s, IsSource(s), NEW l, IsLoop(s, l),
         NEW x \in Reached(s, Entry, {}), NEW t \in Targets(s, x), t \in l.blocks
  PROVE  t = l.header \/ x \in l.blocks
<1> DEFINE h == l.header
<1>1. IsGraph(s) /\ x \in Blocks /\ t \in Blocks
  <2>1. IsGraph(s) /\ Entry \in Blocks
    BY SourceIsGraph, FunctionsAssumption
  <2>2. x \in Blocks
    BY <2>1, ReachedCloses
  <2>3. QED
    BY <2>1, <2>2, TargetsType
<1>2. SUFFICES ASSUME t # h, x # h PROVE x \in l.blocks
  BY LoopBlocksFacts
<1>3. x \in Reached(s, x, {h})
  BY <1>1, <1>2, ReachedCloses
<1>4. t \in Reached(s, x, {h})
  BY <1>1, <1>2, <1>3, ReachedCloses
<1>5. Reached(s, t, {h}) \subseteq Reached(s, x, {h})
  BY <1>1, <1>4, ReachedFurther
<1>6. Reached(s, t, {h}) \cap Latches(s, Entry, h) # {}
  BY <1>1, <1>2, LoopBlocksFacts
<1>7. Reached(s, x, {h}) \cap Latches(s, Entry, h) # {}
  BY <1>5, <1>6
<1>8. QED
  BY <1>1, <1>2, <1>7, LoopBlocksFacts

\* Every block of a loop leads to one of its blocks.
LEMMA LeadsInside ==
  ASSUME NEW s, IsSource(s), NEW l, IsLoop(s, l), NEW x \in l.blocks
  PROVE  \E t \in Targets(s, x) : t \in l.blocks
<1> DEFINE h == l.header
           L == Latches(s, Entry, h)
           R == Reached(s, Entry, {})
           A == Reached(s, Entry, {h})
           Lost == {y \in Blocks \ {h} : Reached(s, y, {h}) \cap L = {}}
<1>1. IsGraph(s) /\ x \in Blocks /\ Entry \in Blocks /\ h \in Blocks /\ x \in R
  BY SourceIsGraph, FunctionsAssumption, LoopBlocksFacts DEF IsLoop
<1>2. SUFFICES ASSUME \A t \in Targets(s, x) : t \notin l.blocks PROVE FALSE
  OBVIOUS
<1>3. \A t \in Targets(s, x) : t # h /\ t \in Lost
  <2>1. ASSUME NEW t \in Targets(s, x) PROVE t # h /\ t \in Blocks /\ t \in R
    <3>1. h \in l.blocks
      BY LoopBlocksFacts
    <3>2. t \in Blocks
      BY <1>1, TargetsType
    <3>3. \A b \in R : \A u \in Targets(s, b) : u \in {} \/ u \in R
      BY <1>1, ReachedCloses
    <3> HIDE DEF R
    <3>4. t \in R
      BY <1>1, <3>3
    <3>5. QED
      BY <1>2, <3>1, <3>2, <3>4
  <2>2. QED
    BY <1>2, <2>1, LoopBlocksFacts
<1>4. ASSUME NEW b \in Lost, NEW t \in Targets(s, b), t # h
      PROVE  t \in Lost
  <2>1. b \in Blocks /\ t \in Blocks /\ b # h
    BY <1>1, TargetsType
  <2>2. b \in Reached(s, b, {h})
    BY <1>1, <2>1, ReachedCloses
  <2>3. t \in Reached(s, b, {h})
    BY <1>1, <1>4, <2>1, <2>2, ReachedCloses
  <2>4. Reached(s, t, {h}) \subseteq Reached(s, b, {h})
    BY <1>1, <2>1, <2>3, ReachedFurther
  <2>5. QED
    BY <1>4, <2>1, <2>4
<1>5. \A n \in L : n \notin Lost /\ n # x
  <2>1. ASSUME NEW n \in L, n \in Lost PROVE FALSE
    <3>1. n \in Reached(s, n, {h})
      BY <1>1, <2>1, ReachedCloses
    <3>2. QED
      BY <2>1, <3>1
  <2>2. ASSUME NEW n \in L PROVE h \in Targets(s, n)
    BY <1>1, LatchFacts
  <2> HIDE DEF Lost, L
  <2>3. QED
    BY <1>3, <2>1, <2>2
<1>6. CASE x # h
  <2>1. PICK n \in L : n \in Reached(s, x, {h})
    BY <1>1, <1>6, LoopBlocksFacts
  <2> DEFINE S == {x} \cup Lost
  <2>2. \A b \in S : \A t \in Targets(s, b) : t \in {h} \/ t \in S
    <3> HIDE DEF Lost
    <3>1. QED
      BY <1>3, <1>4
  <2>3. x \in S
    OBVIOUS
  <2> HIDE DEF S
  <2>4. Reached(s, x, {h}) \subseteq S
    BY <1>1, <2>2, <2>3, ReachedLeast
  <2> HIDE DEF Lost, L
  <2>5. QED
    BY <1>5, <2>1, <2>4 DEF S
<1>7. CASE x = h
  <2>1. PICK n \in L : TRUE
    BY DEF IsLoop
  <2>2. n \in R /\ n \notin A
    BY <1>1, <2>1, LatchFacts
  <2> DEFINE S == A \cup {h} \cup Lost
  <2>3. \A b \in A : \A t \in Targets(s, b) : t \in {h} \/ t \in A
    BY <1>1, ReachedCloses
  <2>4. \A b \in S : \A t \in Targets(s, b) : t \in S
    <3> HIDE DEF Lost, A
    <3>1. QED
      BY <1>3, <1>4, <1>7, <2>3
  <2>5. Entry \in S
    <3>1. Entry # h
      BY HeaderFacts
    <3>2. Entry \in A
      BY <1>1, <3>1, ReachedCloses
    <3>3. QED
      BY <3>2
  <2> HIDE DEF S
  <2>6. R \subseteq S
    <3>1. \A b \in S \cap Reached(s, Entry, {}) : \A t \in Targets(s, b) : t \in {} \/ t \in S
      BY <2>4
    <3>2. QED
      BY <1>1, <2>5, <3>1, ReachedLeast
  <2> HIDE DEF Lost, L, A, R
  <2>7. QED
    BY <1>5, <1>7, <2>1, <2>2, <2>6 DEF S
<1>8. QED
  BY <1>6, <1>7

\* A smaller set to stay out of leaves more reached.
LEMMA ReachedMore ==
  ASSUME NEW s, IsGraph(s), NEW from \in Blocks, NEW avoid, NEW less,
         less \subseteq avoid
  PROVE  Reached(s, from, avoid) \subseteq Reached(s, from, less)
<1> DEFINE S == Reached(s, from, less)
<1>1. from \notin avoid => from \in S
  BY ReachedCloses
<1>2. \A b \in S : \A t \in Targets(s, b) : t \in less \/ t \in S
  BY ReachedCloses
<1> HIDE DEF S
<1>3. Reached(s, from, avoid) \subseteq S
  BY <1>1, <1>2, ReachedLeast
<1>4. QED
  BY <1>3 DEF S

\* Two loops share a block only when the header of one lies in the other.
LEMMA LoopsNest ==
  ASSUME NEW s, IsSource(s), NEW l, IsLoop(s, l), NEW m, IsLoop(s, m),
         l.header \notin m.blocks, m.header \notin l.blocks
  PROVE  l.blocks \cap m.blocks = {}
<1> DEFINE g == l.header
           h == m.header
           R == Reached(s, Entry, {})
           A == Reached(s, Entry, {g, h})
           G == Reached(s, g, {h})
           H == Reached(s, h, {g})
           S == A \cup G \cup H
<1>1. IsGraph(s) /\ Entry \in Blocks /\ g \in Blocks /\ h \in Blocks
  BY SourceIsGraph, FunctionsAssumption DEF IsLoop
<1>2. g # h /\ g # Entry /\ h # Entry /\ g \in R /\ h \in R
  BY HeaderFacts, LoopBlocksFacts
<1>3. R \subseteq S
  <2>1. Entry \in S
    BY <1>1, <1>2, ReachedCloses
  <2>2. g \in G /\ h \in H
    BY <1>1, <1>2, ReachedCloses
  <2>3. \A b \in A : \A t \in Targets(s, b) : t \in {g, h} \/ t \in A
    BY <1>1, ReachedCloses
  <2>4. \A b \in G : \A t \in Targets(s, b) : t \in {h} \/ t \in G
    BY <1>1, ReachedCloses
  <2>5. \A b \in H : \A t \in Targets(s, b) : t \in {g} \/ t \in H
    BY <1>1, ReachedCloses
  <2> HIDE DEF A, G, H
  <2>6. \A b \in S : \A t \in Targets(s, b) : t \in S
    BY <2>2, <2>3, <2>4, <2>5
  <2> HIDE DEF S
  <2>7. QED
    BY <1>1, <2>1, <2>6, ReachedLeast
<1>4. SUFFICES ASSUME NEW x \in l.blocks, x \in m.blocks PROVE FALSE
  OBVIOUS
<1>5. x \in R /\ x \in Blocks /\ x # g /\ x # h
  BY <1>4, LoopBlocksFacts
<1>6. PICK n \in Latches(s, Entry, g) : n \in Reached(s, x, {g})
  BY <1>4, <1>5, LoopBlocksFacts
<1>7. PICK k \in Latches(s, Entry, h) : k \in Reached(s, x, {h})
  BY <1>4, <1>5, LoopBlocksFacts
<1>8. ASSUME x \in A PROVE FALSE
  <2>1. A \subseteq Reached(s, Entry, {g})
    BY <1>1, ReachedMore
  <2>2. x \in Reached(s, Entry, {g})
    BY <1>8, <2>1
  <2>3. n \in Reached(s, Entry, {g})
    BY <1>1, <1>6, <2>2, ReachedFurther
  <2>4. QED
    BY <1>1, <2>3, LatchFacts
<1>9. ASSUME x \in G PROVE FALSE
  <2>1. k \in Reached(s, g, {h})
    BY <1>1, <1>7, <1>9, ReachedFurther
  <2>2. g \in m.blocks
    BY <1>1, <1>2, <2>1, LoopBlocksFacts
  <2>3. QED
    BY <2>2
<1>10. ASSUME x \in H PROVE FALSE
  <2>1. n \in Reached(s, h, {g})
    BY <1>1, <1>6, <1>10, ReachedFurther
  <2>2. h \in l.blocks
    BY <1>1, <1>2, <2>1, LoopBlocksFacts
  <2>3. QED
    BY <2>2
<1> HIDE DEF A, G, H, R
<1>11. QED
  BY <1>3, <1>5, <1>8, <1>9, <1>10

-----------------------------------------------------------------------------
(***************************************************************************)
(* One loop goes at a time.                                                *)
(***************************************************************************)
\* The terminators of the blocks that are reached decide what is reached.
LEMMA SameReached ==
  ASSUME NEW s, IsGraph(s), NEW r, IsGraph(r),
         \A b \in Reached(s, Entry, {}) : r[b] = s[b]
  PROVE  Reached(r, Entry, {}) = Reached(s, Entry, {})
<1> DEFINE S == Reached(s, Entry, {})
           T == Reached(r, Entry, {})
<1>1. Entry \in Blocks /\ S \subseteq Blocks /\ T \subseteq Blocks
  BY FunctionsAssumption, ReachedCloses
<1>2. \A b \in S : Targets(r, b) = Targets(s, b)
  BY DEF Targets
<1>3. Entry \in S /\ Entry \in T
  BY <1>1, ReachedCloses
<1>4. \A b \in S : \A t \in Targets(s, b) : t \in {} \/ t \in S
  BY <1>1, ReachedCloses
<1>5. \A b \in T : \A t \in Targets(r, b) : t \in {} \/ t \in T
  BY <1>1, ReachedCloses
<1>6. T \subseteq S
  <2>1. \A b \in S \cap Reached(r, Entry, {}) : \A t \in Targets(r, b) : t \in {} \/ t \in S
    BY <1>2, <1>4
  <2> HIDE DEF S
  <2>2. QED
    BY <1>1, <1>3, <2>1, ReachedLeast
<1>7. S \subseteq T
  <2>1. \A b \in T \cap Reached(s, Entry, {}) : \A t \in Targets(s, b) : t \in {} \/ t \in T
    BY <1>2, <1>5
  <2> HIDE DEF T
  <2>2. QED
    BY <1>1, <1>3, <2>1, ReachedLeast
<1>8. QED
  BY <1>6, <1>7

\* What the deletion of unreachable blocks leaves.
LEMMA Deletion ==
  ASSUME NEW l, NEW r, IsGraph(r), NEW used, NEW pairs,
         DeleteUnreachable(l, r, used, pairs)
  PROVE  /\ IsGraph(succ') /\ Reached(succ', Entry, {}) = Reached(r, Entry, {})
         /\ live' = live \cap Reached(r, Entry, {})
         /\ \A b \in Blocks :
              succ'[b] = IF b \in Reached(r, Entry, {}) THEN r[b] ELSE <<>>
<1> DEFINE kept == Reached(r, Entry, {})
<1>1. /\ live' = live \cap kept
      /\ succ' = [b \in Blocks |-> IF b \in kept THEN r[b] ELSE <<>>]
  BY Zenon DEF DeleteUnreachable
<1>2. kept \subseteq Blocks
  BY FunctionsAssumption, ReachedCloses
<1> HIDE DEF kept
<1>3. IsGraph(succ')
  <2>1. \A b \in Blocks : r[b] \in Seq(Blocks)
    BY DEF IsGraph
  <2>2. <<>> \in Seq(Blocks)
    OBVIOUS
  <2>3. \A b \in Blocks : (IF b \in kept THEN r[b] ELSE <<>>) \in Seq(Blocks)
    BY <2>1, <2>2
  <2>4. QED
    BY <1>1, <2>3 DEF IsGraph
<1>4. \A b \in Blocks : succ'[b] = IF b \in kept THEN r[b] ELSE <<>>
  BY <1>1
<1>5. \A b \in kept : succ'[b] = r[b]
  BY <1>2, <1>4
<1>6. Reached(succ', Entry, {}) = kept
  BY <1>3, <1>5, SameReached DEF kept
<1>7. QED
  BY <1>1, <1>3, <1>4, <1>6 DEF kept

\* The graph of the source and the one of the moment.
LEMMA StateFacts ==
  ASSUME ShapeInv
  PROVE  /\ IsSource(source.succ) /\ IsGraph(source.succ) /\ IsGraph(succ)
         /\ \A l \in loops : /\ IsLoop(source.succ, l)
                             /\ l.header \in l.blocks
                             /\ l.blocks \subseteq InSource /\ l.blocks \subseteq Blocks
                             /\ Entry \notin l.blocks
         /\ InSource \subseteq Blocks /\ Entry \in Blocks
<1>1. IsSource(source.succ) /\ IsGraph(succ) /\ Entry \in Blocks
  BY FunctionsAssumption DEF ShapeInv, TypeOK, IsFunction, IsSource, IsGraph
<1>2. IsGraph(source.succ)
  BY <1>1, SourceIsGraph
<1>3. \A l \in loops : IsLoop(source.succ, l)
  BY <1>1, LoopsAreLoops DEF ShapeInv
<1>4. ASSUME NEW l \in loops
      PROVE  /\ l.header \in l.blocks /\ l.blocks \subseteq InSource
             /\ l.blocks \subseteq Blocks /\ Entry \notin l.blocks
  BY <1>1, <1>3, LoopBlocksFacts, EntryOutside DEF InSource
<1>5. InSource \subseteq Blocks
  BY <1>1, <1>2, ReachedCloses DEF InSource
<1>6. QED
  BY <1>1, <1>2, <1>3, <1>4, <1>5

\* A loop that a pass may take away has no block of another loop.
LEMMA SimpleApart ==
  ASSUME ShapeInv, NEW l \in Simple, NEW m \in loops, l # m
  PROVE  /\ l \in loops /\ l.blocks \cap m.blocks = {}
         /\ m.header \notin l.blocks /\ l.header # m.header
<1>1. l \in loops /\ l.header \notin m.blocks /\ m.header \notin l.blocks
  BY DEF Simple, TopLevel, Innermost
<1>2. IsSource(source.succ) /\ IsLoop(source.succ, l) /\ IsLoop(source.succ, m)
  BY <1>1, StateFacts
<1>3. l.blocks \cap m.blocks = {}
  BY <1>1, <1>2, LoopsNest
<1>4. l.header # m.header
  BY <1>1, <1>2, SameHeader DEF ShapeInv
<1>5. QED
  BY <1>1, <1>3, <1>4

\* A loop is entered at its header.
LEMMA EnteredNow ==
  ASSUME ShapeInv, EdgesInv, NEW l \in loops,
         NEW x \in Reached(succ, Entry, {}), NEW t \in Targets(succ, x), t \in l.blocks
  PROVE  t = l.header \/ x \in l.blocks
  BY DEF EdgesInv

\* The step takes loop l away, alone if it is exact.
Takes(l) ==
    /\ l \in Simple /\ l \in todo /\ l.blocks \subseteq live
    /\ todo' = todo \ {l} /\ UNCHANGED <<pass, source, loops>>
    /\ IsGraph(succ') /\ live' = live \cap Reached(succ', Entry, {})
    /\ Reached(succ', Entry, {}) \subseteq Reached(succ, Entry, {}) \ l.blocks
    /\ Exact => Reached(succ, Entry, {}) \ l.blocks \subseteq Reached(succ', Entry, {})

\* What the steps leave alone.
LEMMA SameSource ==
  ASSUME UNCHANGED <<pass, source, loops>>
  PROVE  /\ InSource' = InSource /\ Simple' = Simple /\ Followed' = Followed
         /\ Exact' = Exact /\ pass' = pass /\ source' = source /\ loops' = loops
         /\ RepairablePhi' = RepairablePhi /\ SingleExits' = SingleExits
         /\ OnWayToReturn' = OnWayToReturn
         /\ Incoming(source, loops)' = Incoming(source, loops)
<1>1. pass' = pass /\ source' = source /\ loops' = loops
  OBVIOUS
<1>2. QED
  BY <1>1 DEF InSource, Simple, Followed, Exact, RepairablePhi, SingleExits, OnWayToReturn

\* What was reached and is gone: the loop's blocks, and what was gone before.
LEMMA TakesRemoval ==
  ASSUME ShapeInv, EdgesInv, RemovalInv, NEW l, Takes(l)
  PROVE  /\ RemovalInv'
         /\ Exact => Removed' = Removed \cup {l} /\ InSource \cap live' = (InSource \cap live) \ l.blocks
<1> DEFINE R == Reached(succ, Entry, {})
           R2 == Reached(succ', Entry, {})
<1>1. /\ InSource' = InSource /\ Simple' = Simple /\ Exact' = Exact
      /\ loops' = loops /\ source' = source /\ pass' = pass
  BY SameSource DEF Takes
<1>2. SUFFICES ASSUME Exact
               PROVE  /\ RemovalInv'
                      /\ Removed' = Removed \cup {l}
                      /\ InSource \cap live' = (InSource \cap live) \ l.blocks
  BY <1>1 DEF RemovalInv
<1>3. /\ InSource \cap live = R
      /\ \A m \in todo \cap Innermost(loops) : m.blocks \subseteq live
      /\ InSource \ live \subseteq UNION {m.blocks : m \in Removed}
      /\ \A m \in Removed : m \in Simple /\ m.blocks \cap live = {}
  BY <1>2 DEF RemovalInv, EdgesInv
<1>4. R2 = R \ l.blocks /\ live' = live \cap R2
  BY <1>2 DEF Takes
<1>5. l \in Simple /\ l \in loops /\ l.blocks \subseteq live /\ l.blocks \subseteq InSource
      /\ l.header \in l.blocks
  BY StateFacts DEF Takes, Simple, TopLevel
<1> HIDE DEF R, R2
<1>6. InSource \cap live' = (InSource \cap live) \ l.blocks
  BY <1>3, <1>4
<1>7. Removed' = Removed \cup {l}
  <2>1. Removed = {m \in loops : m.header \in InSource /\ m.header \notin live}
    BY DEF Removed, InSource
  <2>2. Removed' = {m \in loops : m.header \in InSource /\ m.header \notin live'}
    BY <1>1 DEF Removed, InSource
  <2>3. ASSUME NEW m \in loops, m # l PROVE m.header \notin l.blocks
    BY <1>5, <2>3, SimpleApart
  <2>4. ASSUME NEW m \in loops, m.header \in InSource
        PROVE  m.header \notin live' <=> (m.header \notin live \/ m = l)
    <3>1. m.header \in live' <=> (m.header \in live /\ m.header \notin l.blocks)
      BY <1>6, <2>4
    <3>2. QED
      BY <1>5, <2>3, <3>1
  <2>5. QED
    BY <1>5, <2>1, <2>2, <2>4
<1>8. RemovalInv'
  <2>1. InSource \cap live' \subseteq R2
    BY <1>4
  <2>2. ASSUME NEW m \in (todo \ {l}) \cap Innermost(loops) PROVE m.blocks \subseteq live'
    <3>1. m \in loops /\ m # l /\ m.blocks \subseteq live
      BY <1>3, <2>2 DEF Innermost
    <3>2. m.blocks \cap l.blocks = {} /\ m.blocks \subseteq InSource
      BY <1>5, <3>1, SimpleApart, StateFacts
    <3>3. QED
      BY <1>6, <3>1, <3>2
  <2>3. ASSUME NEW x \in InSource \ live' PROVE \E m \in Removed \cup {l} : x \in m.blocks
    <3>1. CASE x \in live
      BY <1>6, <2>3, <3>1
    <3>2. CASE x \notin live
      BY <1>3, <2>3, <3>2
    <3>3. QED
      BY <3>1, <3>2
  <2>4. ASSUME NEW m \in Removed \cup {l} PROVE m \in Simple /\ m.blocks \cap live' = {}
    <3>1. live' \subseteq live
      BY <1>4
    <3>2. l.blocks \cap live' = {}
      BY <1>5, <1>6
    <3>3. QED
      BY <1>3, <1>5, <2>4, <3>1, <3>2
  <2>5. todo' = todo \ {l}
    BY DEF Takes
  <2>6. InSource' \ live' \subseteq UNION {m.blocks : m \in Removed'}
    BY <1>1, <1>7, <2>3
  <2>7. \A m \in todo' \cap Innermost(loops') : m.blocks \subseteq live'
    BY <1>1, <2>2, <2>5
  <2>8. \A m \in Removed' : m \in Simple' /\ m.blocks \cap live' = {}
    BY <1>1, <1>7, <2>4
  <2>9. QED
    BY <1>1, <2>1, <2>6, <2>7, <2>8 DEF RemovalInv, R2
<1>9. QED
  BY <1>6, <1>7, <1>8

-----------------------------------------------------------------------------
(***************************************************************************)
(* RemoveTrivialLoopPass cuts a loop.                                      *)
(***************************************************************************)
\* The visit of loop l, with the loop marked as looked at.
Visit(l) ==
    /\ stage = "run" /\ l \in todo /\ todo' = todo \ {l}
    /\ UNCHANGED <<pass, source, loops>>

\* The blocks that branch to the loop from outside.
LEMMA OutsideFacts ==
  ASSUME NEW s, IsGraph(s), NEW l
  PROVE  \A b : b \in OutsidePreds(s, l) <=>
                  b \in Blocks /\ b \notin l.blocks /\ l.header \in Targets(s, b)
  BY DEF OutsidePreds, predecessors, IsGraph

\* The values of a function on a finite set are finitely many.
LEMMA FiniteImage ==
  ASSUME NEW S, IsFiniteSet(S), NEW f
  PROVE  IsFiniteSet({f[x] : x \in S})
<1> DEFINE T == {f[x] : x \in S}
           g == [x \in S |-> f[x]]
<1>1. g \in Surjection(S, T)
  BY DEF Surjection
<1> HIDE DEF g, T
<1>2. IsFiniteSet(T)
  BY <1>1, FS_Surjection
<1>3. QED
  BY <1>2 DEF T

\* The edges that leave a loop are finitely many.
LEMMA ExitsFinite ==
  ASSUME NEW s, IsGraph(s), NEW l, l.blocks \subseteq Blocks
  PROVE  IsFiniteSet(ExitEdges(s, l))
<1> DEFINE Edges(b) == {<<b, i>> : i \in DOMAIN s[b]}
           All == {Edges(b) : b \in l.blocks}
           edges == [b \in l.blocks |-> Edges(b)]
<1>1. ASSUME NEW b \in Blocks PROVE IsFiniteSet(Edges(b))
  <2>1. s[b] \in Seq(Blocks)
    BY DEF IsGraph
  <2>2. DOMAIN s[b] = 1 .. Len(s[b]) /\ Len(s[b]) \in Nat
    BY <2>1
  <2>3. IsFiniteSet(DOMAIN s[b])
    BY <2>2, FS_Interval
  <2> DEFINE D == DOMAIN s[b]
             f == [i \in D |-> <<b, i>>]
  <2>4. Edges(b) = {f[i] : i \in D}
    OBVIOUS
  <2> HIDE DEF f
  <2>5. IsFiniteSet({f[i] : i \in D})
    BY <2>3, FiniteImage
  <2>6. QED
    BY <2>4, <2>5
<1>2. IsFiniteSet(l.blocks)
  BY FunctionsAssumption, FS_Subset
<1>3. IsFiniteSet(All)
  <2>1. All = {edges[b] : b \in l.blocks}
    OBVIOUS
  <2> HIDE DEF edges
  <2>2. IsFiniteSet({edges[b] : b \in l.blocks})
    BY <1>2, FiniteImage
  <2>3. QED
    BY <2>1, <2>2
<1>4. \A E \in All : IsFiniteSet(E)
  BY <1>1
<1>5. IsFiniteSet(UNION All)
  BY <1>3, <1>4, FS_UNION
<1>6. ExitEdges(s, l) \subseteq UNION All
  BY DEF ExitEdges
<1> HIDE DEF All
<1>7. QED
  BY <1>5, <1>6, FS_Subset

\* A loop that is left by no edge keeps its blocks' successors.
LEMMA ExitEdgesFacts ==
  ASSUME NEW s, IsGraph(s), NEW l, l.blocks \subseteq Blocks
  PROVE  /\ \A b \in l.blocks : \A t \in Targets(s, b) :
              t \notin l.blocks =>
                \E i \in DOMAIN s[b] : s[b][i] = t /\ <<b, i>> \in ExitEdges(s, l)
         /\ \A e \in ExitEdges(s, l) :
              /\ e[1] \in l.blocks /\ e[2] \in DOMAIN s[e[1]]
              /\ s[e[1]][e[2]] \in Targets(s, e[1]) /\ s[e[1]][e[2]] \notin l.blocks
              /\ s[e[1]][e[2]] \in Blocks /\ e = <<e[1], e[2]>>
<1>1. ASSUME NEW b \in l.blocks, NEW t \in Targets(s, b), t \notin l.blocks
      PROVE  \E i \in DOMAIN s[b] : s[b][i] = t /\ <<b, i>> \in ExitEdges(s, l)
  <2>1. PICK i \in DOMAIN s[b] : s[b][i] = t
    BY DEF Targets
  <2>2. <<b, i>> \in ExitEdges(s, l)
    BY <1>1, <2>1 DEF ExitEdges
  <2>3. QED
    BY <2>1, <2>2
<1>2. ASSUME NEW e \in ExitEdges(s, l)
      PROVE  /\ e[1] \in l.blocks /\ e[2] \in DOMAIN s[e[1]]
             /\ s[e[1]][e[2]] \in Targets(s, e[1]) /\ s[e[1]][e[2]] \notin l.blocks
             /\ s[e[1]][e[2]] \in Blocks /\ e = <<e[1], e[2]>>
  <2>0. PICK b \in l.blocks : \E i \in DOMAIN s[b] : e = <<b, i>>
    BY DEF ExitEdges
  <2>1. PICK i \in DOMAIN s[b] : e = <<b, i>>
    BY <2>0
  <2>2. e[1] = b /\ e[2] = i /\ e = <<e[1], e[2]>>
    BY <2>1
  <2>3. s[b][i] \notin l.blocks
    BY <2>2 DEF ExitEdges
  <2>4. s[b][i] \in Targets(s, b)
    BY DEF Targets
  <2>5. s[b][i] \in Blocks
    BY <2>4, TargetsType
  <2>6. QED
    BY <2>2, <2>3, <2>4, <2>5
<1>3. QED
  BY <1>1, <1>2

\* A cut function has fewer edges.
LEMMA FewerEdges ==
  ASSUME NEW s, IsGraph(s), NEW r, IsGraph(r), NEW l, l.blocks \subseteq Blocks,
         \A b \in Blocks : r[b] = s[b] \/ r[b] = <<>>
  PROVE  /\ \A b \in Blocks : Targets(r, b) \subseteq Targets(s, b)
         /\ ExitEdges(r, l) \subseteq ExitEdges(s, l)
<1>1. DOMAIN <<>> = {}
  OBVIOUS
<1>2. ASSUME NEW b \in Blocks PROVE r[b] = s[b] \/ DOMAIN r[b] = {}
  BY <1>1
<1>3. \A b \in Blocks : Targets(r, b) \subseteq Targets(s, b)
  BY <1>2 DEF Targets
<1>4. ASSUME NEW e \in ExitEdges(r, l) PROVE e \in ExitEdges(s, l)
  <2>1. /\ e[1] \in l.blocks /\ e[2] \in DOMAIN r[e[1]]
        /\ r[e[1]][e[2]] \notin l.blocks /\ e = <<e[1], e[2]>>
    BY ExitEdgesFacts
  <2>2. r[e[1]] = s[e[1]]
    BY <1>2, <2>1
  <2>3. QED
    BY <2>1, <2>2 DEF ExitEdges
<1>5. QED
  BY <1>3, <1>4

\* Where no top-level loop has several exits, a loop without exit block has
\* no exit.
LEMMA NoExit ==
  ASSUME ShapeInv, EdgesInv, pass = "RemoveTrivialLoop", SingleExits,
         NEW l \in TopLevel(loops), LooksEndless(l)
  PROVE  ExitEdges(succ, l) = {}
<1>1. l \in loops /\ l.blocks \subseteq Blocks /\ IsGraph(succ) /\ IsGraph(source.succ)
  BY StateFacts DEF TopLevel
<1> DEFINE A == ExitEdges(succ, l)
           B == ExitEdges(source.succ, l)
<1>2. IsFiniteSet(A) /\ IsFiniteSet(B)
  BY <1>1, ExitsFinite
<1>3. A \subseteq B
  BY <1>1, FewerEdges DEF EdgesInv
<1>4. Cardinality(B) <= 1 /\ Cardinality(A) # 1
  BY DEF SingleExits, LooksEndless, HasExitBlock
<1> HIDE DEF A, B
<1>5. Cardinality(A) \in Nat /\ Cardinality(B) \in Nat /\ Cardinality(A) <= Cardinality(B)
  BY <1>2, <1>3, FS_CardinalityType, FS_Subset
<1>6. Cardinality(A) = 0
  BY <1>4, <1>5
<1>7. A = {}
  BY <1>2, <1>6, FS_EmptySet
<1>8. QED
  BY <1>7 DEF A

\* The loop that is cut, and nothing else that counts, is gone.
LEMMA CutTakes ==
  ASSUME ShapeInv, EdgesInv, RemovalInv, NEW l, Visit(l), l \in Innermost(loops),
         l.blocks \subseteq live, CutLoop(l)
  PROVE  /\ Takes(l)
         /\ \A b \in Blocks :
              succ'[b] = IF b \in Reached(succ', Entry, {}) /\ b \notin OutsidePreds(succ, l)
                         THEN succ[b] ELSE <<>>
<1> DEFINE Out == OutsidePreds(succ, l)
           r == [b \in Blocks |-> IF b \in Out THEN <<>> ELSE succ[b]]
           R == Reached(succ, Entry, {})
           K == Reached(r, Entry, {})
<1>1. pass = "RemoveTrivialLoop" /\ Endless(l) /\ DeleteUnreachable(l, r, operand, phi)
  BY DEF CutLoop
<1>2. IsGraph(succ) /\ Entry \in Blocks
  BY StateFacts
<1>3. IsGraph(r)
  <2>1. <<>> \in Seq(Blocks)
    OBVIOUS
  <2>2. \A b \in Blocks : succ[b] \in Seq(Blocks)
    BY <1>2 DEF IsGraph
  <2> HIDE DEF Out
  <2>3. QED
    BY <2>1, <2>2 DEF IsGraph
<1>4. l \in Simple /\ l \in loops /\ l \in TopLevel(loops)
  BY DEF ShapeInv, TypeOK, Simple, Visit, Innermost
<1>5. l.blocks \subseteq Blocks /\ Entry \notin l.blocks /\ l.header \in l.blocks
  BY <1>4, StateFacts
<1>6. /\ IsGraph(succ') /\ Reached(succ', Entry, {}) = K /\ live' = live \cap K
      /\ \A b \in Blocks : succ'[b] = IF b \in K THEN r[b] ELSE <<>>
  <2> HIDE DEF r
  <2>1. QED
    BY <1>1, <1>3, Deletion
<1>7. \A b \in Blocks : \A t \in Targets(r, b) : t \in Targets(succ, b) /\ b \notin Out
  <2>1. DOMAIN <<>> = {}
    OBVIOUS
  <2>2. ASSUME NEW b \in Blocks, b \in Out PROVE Targets(r, b) = {}
    BY <2>1, <2>2 DEF Targets
  <2>3. ASSUME NEW b \in Blocks, b \notin Out PROVE Targets(r, b) = Targets(succ, b)
    BY <2>3 DEF Targets
  <2> HIDE DEF Out, r
  <2>4. QED
    BY <2>2, <2>3
<1>8. K \subseteq Blocks /\ R \subseteq Blocks
  BY <1>2, <1>3, ReachedCloses
<1>9. K \subseteq R \ l.blocks
  <2> DEFINE S == R \ l.blocks
  <2>1. Entry \in S
    BY <1>2, <1>5, ReachedCloses
  <2>2. ASSUME NEW b \in S, NEW t \in Targets(r, b) PROVE t \in S
    <3>1. b \in R /\ b \notin l.blocks /\ b \in Blocks
      BY <1>8
    <3>2. t \in Targets(succ, b) /\ b \notin Out
      BY <1>7, <3>1
    <3>3. t \in R
      <4>1. \A x \in R : \A u \in Targets(succ, x) : u \in {} \/ u \in R
        BY <1>2, ReachedCloses
      <4> HIDE DEF R
      <4>2. QED
        BY <3>1, <3>2, <4>1
    <3>4. ASSUME t \in l.blocks PROVE FALSE
      <4>1. t = l.header
        BY <1>4, <3>1, <3>2, <3>4, EnteredNow
      <4>2. b \in Out
        BY <1>2, <3>1, <3>2, <4>1, OutsideFacts
      <4>3. QED
        BY <3>2, <4>2
    <3>5. QED
      BY <3>3, <3>4
  <2> HIDE DEF S, r
  <2>3. \A b \in S : \A t \in Targets(r, b) : t \in S
    BY <2>2
  <2>4. K \subseteq S
    BY <1>2, <1>3, <2>1, <2>3, ReachedLeast
  <2>5. QED
    BY <2>4 DEF S
<1>10. ASSUME Exact PROVE R \ l.blocks \subseteq K
  <2>1. ExitEdges(succ, l) = {}
    BY <1>1, <1>4, <1>10, NoExit DEF Exact, Endless
  <2>2. \A b \in l.blocks : \A t \in Targets(succ, b) : t \in l.blocks
    BY <1>2, <1>5, <2>1, ExitEdgesFacts
  <2>3. \A b \in Out : Targets(succ, b) = {l.header}
    <3>1. ASSUME NEW b \in Out PROVE succ[b] = <<l.header>>
      BY <1>1 DEF Endless, CanRewrite
    <3>2. DOMAIN <<l.header>> = {1}
      <4>1. DOMAIN <<l.header>> = 1 .. 1
        OBVIOUS
      <4>2. 1 .. 1 = {1}
        OBVIOUS
      <4>3. QED
        BY <4>1, <4>2
    <3> HIDE DEF Out
    <3>3. QED
      BY <3>1, <3>2 DEF Targets
  <2> DEFINE S == l.blocks \cup K
  <2>4. Entry \in S
    BY <1>2, <1>3, ReachedCloses
  <2>5. \A x \in K : \A u \in Targets(r, x) : u \in {} \/ u \in K
    BY <1>2, <1>3, ReachedCloses
  <2>6. \A b \in Blocks : b \notin Out => Targets(r, b) = Targets(succ, b)
    <3> HIDE DEF Out
    <3>1. QED
      BY DEF Targets
  <2> HIDE DEF Out, K, r
  <2>7. \A b \in S : \A t \in Targets(succ, b) : t \in S
    <3>1. ASSUME NEW b \in S, NEW t \in Targets(succ, b) PROVE t \in S
      <4>1. CASE b \in l.blocks
        BY <2>2, <3>1, <4>1
      <4>2. CASE b \in K /\ b \in Out
        BY <1>5, <2>3, <3>1, <4>2
      <4>3. CASE b \in K /\ b \notin Out
        BY <1>8, <2>5, <2>6, <3>1, <4>3
      <4>4. QED
        BY <3>1, <4>1, <4>2, <4>3
    <3>2. QED
      BY <3>1
  <2> HIDE DEF S
  <2>8. R \subseteq S
    BY <1>2, <2>4, <2>7, ReachedLeast
  <2>9. QED
    BY <2>8 DEF S
<1>11. Takes(l)
  <2> HIDE DEF K, R
  <2>1. QED
    BY <1>4, <1>6, <1>9, <1>10 DEF Takes, Visit, R
<1>12. ASSUME NEW b \in Blocks
       PROVE  succ'[b] = IF b \in K /\ b \notin Out THEN succ[b] ELSE <<>>
  BY <1>6
<1>13. QED
  BY <1>6, <1>11, <1>12

-----------------------------------------------------------------------------
(***************************************************************************)
(* RemoveZeroTripLoopPass bypasses a loop.                                 *)
(***************************************************************************)
\* The loop l with its preheader and its exit block, before the step.
Between(l, pre, exit) ==
    /\ OutsidePreds(succ, l) = {pre} /\ succ[pre] = <<l.header>>
    /\ pre \in Blocks \ l.blocks
    /\ exit = ExitBlock(succ, l) /\ exit \in Blocks \ l.blocks
    /\ \E z \in l.blocks : \A b \in l.blocks :
          /\ exit \in Targets(succ, b) <=> b = z
          /\ \A t \in Targets(succ, b) : t \in l.blocks \/ t = exit

\* A loop that the pass bypasses is one.
LEMMA ZeroTripFacts ==
  ASSUME ShapeInv, NEW l \in loops, ZeroTrip(l)
  PROVE  \E pre : Between(l, pre, ExitBlock(succ, l))
<1>1. IsGraph(succ) /\ l.blocks \subseteq Blocks
  BY StateFacts
<1> DEFINE X == ExitEdges(succ, l)
<1>2. IsFiniteSet(X) /\ Cardinality(X) = 1
  BY <1>1, ExitsFinite DEF ZeroTrip, HasExitBlock
<1>3. PICK e : X = {e}
  <2> HIDE DEF X
  <2>1. QED
    BY <1>2, FS_Singleton
<1>4. (CHOOSE x \in X : TRUE) = e
  BY <1>3
<1> DEFINE exit == succ[e[1]][e[2]]
<1>5. ExitBlock(succ, l) = exit
  <2> DEFINE c == CHOOSE x \in X : TRUE
  <2>1. ExitBlock(succ, l) = succ[c[1]][c[2]]
    BY Zenon DEF ExitBlock
  <2>2. c = e
    BY <1>4
  <2> HIDE DEF c
  <2>3. QED
    BY <2>1, <2>2
<1>6. e[1] \in l.blocks /\ exit \in Blocks /\ exit \notin l.blocks /\ exit \in Targets(succ, e[1])
  BY <1>1, <1>3, ExitEdgesFacts
<1>7. ASSUME NEW b \in l.blocks, NEW t \in Targets(succ, b), t \notin l.blocks
      PROVE  t = exit /\ b = e[1]
  <2>1. PICK i \in DOMAIN succ[b] : succ[b][i] = t /\ <<b, i>> \in X
    BY <1>1, <1>7, ExitEdgesFacts
  <2>2. e = <<b, i>>
    BY <1>3, <2>1
  <2>3. e[1] = b /\ e[2] = i
    BY <2>2
  <2>4. QED
    BY <2>1, <2>3
<1>8. PICK pre \in OutsidePreds(succ, l) :
        OutsidePreds(succ, l) = {pre} /\ succ[pre] = <<l.header>>
  BY DEF ZeroTrip, HasPreheader
<1>9. pre \in Blocks \ l.blocks
  BY <1>1, OutsideFacts
<1>10. \E z \in l.blocks : \A b \in l.blocks :
          /\ exit \in Targets(succ, b) <=> b = z
          /\ \A t \in Targets(succ, b) : t \in l.blocks \/ t = exit
  <2> HIDE DEF exit
  <2>1. QED
    BY <1>6, <1>7
<1>11. Between(l, pre, ExitBlock(succ, l))
  <2> HIDE DEF exit
  <2>1. QED
    BY <1>5, <1>6, <1>8, <1>9, <1>10 DEF Between
<1>12. QED
  BY <1>11

\* The preheader branches around the loop after the step.
Around(l, pre, exit) ==
    /\ pre \in Reached(succ', Entry, {}) /\ exit \in Reached(succ', Entry, {})
    /\ \A b \in Blocks :
          succ'[b] = IF b \notin Reached(succ', Entry, {}) THEN <<>>
                     ELSE IF b = pre THEN <<exit>> ELSE succ[b]

\* A terminator with one successor.
LEMMA OneTarget ==
  ASSUME NEW s, NEW b, NEW t, s[b] = <<t>>
  PROVE  Targets(s, b) = {t}
<1>1. DOMAIN <<t>> = {1}
  <2>1. DOMAIN <<t>> = 1 .. 1
    OBVIOUS
  <2>2. 1 .. 1 = {1}
    OBVIOUS
  <2>3. QED
    BY <2>1, <2>2
<1>2. QED
  BY <1>1 DEF Targets

\* What is reached when the preheader of a loop branches around it.
LEMMA AroundReached ==
  ASSUME ShapeInv, EdgesInv, RemovalInv, pass = "RemoveZeroTripLoop",
         NEW l \in Simple, l.blocks \subseteq live, NEW pre, NEW exit, Between(l, pre, exit),
         NEW r, IsGraph(r),
         \A b \in Blocks : r[b] = IF b = pre THEN <<exit>> ELSE succ[b]
  PROVE  /\ Reached(r, Entry, {}) = Reached(succ, Entry, {}) \ l.blocks
         /\ pre \in Reached(r, Entry, {}) /\ exit \in Reached(r, Entry, {})
<1> DEFINE R == Reached(succ, Entry, {})
           K == Reached(r, Entry, {})
<1>1. IsGraph(succ) /\ Entry \in Blocks /\ l \in loops
  BY StateFacts DEF Simple, TopLevel
<1>2. /\ l.blocks \subseteq Blocks /\ l.blocks \subseteq InSource /\ Entry \notin l.blocks
      /\ l.header \in l.blocks
  BY <1>1, StateFacts
<1>3. R = InSource \cap live
  BY DEF EdgesInv, RemovalInv, Exact
<1>4. K \subseteq Blocks /\ R \subseteq Blocks
  BY <1>1, ReachedCloses
<1>5. /\ OutsidePreds(succ, l) = {pre} /\ succ[pre] = <<l.header>> /\ pre \in Blocks
      /\ pre \notin l.blocks /\ exit \in Blocks /\ exit \notin l.blocks
  BY DEF Between
<1>6. PICK z \in l.blocks : \A b \in l.blocks :
          /\ exit \in Targets(succ, b) <=> b = z
          /\ \A t \in Targets(succ, b) : t \in l.blocks \/ t = exit
  BY DEF Between
<1>7. r[pre] = <<exit>> /\ \A b \in Blocks : b # pre => r[b] = succ[b]
  BY <1>5
<1>8. /\ Targets(r, pre) = {exit} /\ Targets(succ, pre) = {l.header}
      /\ \A b \in Blocks : b # pre => Targets(r, b) = Targets(succ, b)
  <2>1. Targets(r, pre) = {exit} /\ Targets(succ, pre) = {l.header}
    BY <1>5, <1>7, OneTarget
  <2>2. ASSUME NEW b \in Blocks, b # pre PROVE Targets(r, b) = Targets(succ, b)
    <3>1. r[b] = succ[b]
      BY <1>7, <2>2
    <3>2. QED
      BY <3>1 DEF Targets
  <2> HIDE DEF R, K
  <2>3. QED
    BY <2>1, <2>2
<1>9. /\ \A x \in R : \A u \in Targets(succ, x) : u \in {} \/ u \in R
      /\ \A x \in K : \A u \in Targets(r, x) : u \in {} \/ u \in K
      /\ Entry \in R /\ Entry \in K
  <2>1. (\A x \in R : \A u \in Targets(succ, x) : u \in {} \/ u \in R) /\ Entry \in R
    BY <1>1, ReachedCloses
  <2>2. (\A x \in K : \A u \in Targets(r, x) : u \in {} \/ u \in K) /\ Entry \in K
    BY <1>1, ReachedCloses
  <2>3. QED
    BY <2>1, <2>2
<1>10. ASSUME NEW x \in R, x \notin l.blocks, NEW t \in Targets(succ, x), t \in l.blocks
       PROVE  x = pre
  <2>1. t = l.header
    BY <1>1, <1>10, EnteredNow
  <2>2. x \in OutsidePreds(succ, l)
    BY <1>1, <1>4, <1>10, <2>1, OutsideFacts
  <2>3. QED
    BY <1>5, <2>2
<1>11. l.blocks \subseteq R
  BY <1>2, <1>3
<1>12. exit \in R
  BY <1>6, <1>9, <1>11
<1>13. pre \in R
  <2>1. SUFFICES ASSUME pre \notin R PROVE FALSE
    OBVIOUS
  <2> DEFINE S == R \ l.blocks
  <2>2. \A b \in S : \A t \in Targets(succ, b) : t \in S
    <3> HIDE DEF R
    <3>1. QED
      BY <1>9, <1>10, <2>1
  <2>3. Entry \in S
    BY <1>2, <1>9
  <2> HIDE DEF S
  <2>4. R \subseteq S
    BY <1>1, <2>2, <2>3, ReachedLeast
  <2> HIDE DEF R
  <2>5. QED
    BY <1>2, <1>11, <2>4 DEF S
<1>14. K \subseteq R \ l.blocks
  <2> DEFINE S == R \ l.blocks
  <2>1. \A b \in S : \A t \in Targets(r, b) : t \in S
    <3> HIDE DEF R
    <3>1. QED
      BY <1>4, <1>5, <1>8, <1>9, <1>10, <1>12
  <2>2. Entry \in S
    BY <1>2, <1>9
  <2> HIDE DEF S
  <2>3. K \subseteq S
    BY <1>1, <2>1, <2>2, ReachedLeast
  <2>4. QED
    BY <2>3 DEF S
<1>15. ASSUME NEW x \in R
       PROVE  IF x \in l.blocks THEN pre \in K ELSE x \in K
  <2> DEFINE S == {y \in R : IF y \in l.blocks THEN pre \in K ELSE y \in K}
  <2>1. ASSUME NEW b \in S, NEW t \in Targets(succ, b) PROVE t \in S
    <3> HIDE DEF R, K
    <3>1. b \in R /\ t \in R /\ b \in Blocks
      BY <1>4, <1>9
    <3>2. CASE b \in l.blocks
      <4>1. pre \in K
        BY <3>2
      <4>2. exit \in K
        BY <1>8, <1>9, <4>1
      <4>3. t \in l.blocks \/ t = exit
        BY <1>6, <3>2
      <4>4. QED
        BY <3>1, <4>1, <4>2, <4>3
    <3>3. CASE b \notin l.blocks
      <4>1. b \in K
        BY <3>3
      <4>2. CASE b = pre
        BY <1>2, <1>8, <3>1, <4>1, <4>2
      <4>3. CASE b # pre
        <5>1. t \notin l.blocks
          BY <1>10, <3>1, <3>3, <4>3
        <5>2. t \in K
          BY <1>8, <1>9, <3>1, <4>1, <4>3
        <5>3. QED
          BY <3>1, <5>1, <5>2
      <4>4. QED
        BY <4>2, <4>3
    <3>4. QED
      BY <3>2, <3>3
  <2>2. Entry \in S
    BY <1>2, <1>9
  <2>3. S \subseteq R
    OBVIOUS
  <2>4. R \subseteq S
    <3> HIDE DEF S
    <3>1. \A b \in S : \A t \in Targets(succ, b) : t \in S
      BY <2>1
    <3>2. QED
      BY <1>1, <2>2, <3>1, ReachedLeast
  <2> HIDE DEF R, K
  <2>5. QED
    BY <1>15, <2>4
<1> HIDE DEF R, K
<1>16. R \ l.blocks \subseteq K
  BY <1>15
<1>17. pre \in K /\ exit \in K
  BY <1>5, <1>12, <1>13, <1>16
<1>18. QED
  BY <1>14, <1>16, <1>17 DEF R, K

\* The loop that is bypassed, and nothing else, is gone.
LEMMA BypassTakes ==
  ASSUME ShapeInv, EdgesInv, RemovalInv, NEW l, Visit(l), l \in Innermost(loops),
         l.blocks \subseteq live, BypassLoop(l)
  PROVE  /\ Takes(l)
         /\ \E pre, exit : Between(l, pre, exit) /\ Around(l, pre, exit)
<1>1. pass = "RemoveZeroTripLoop" /\ ZeroTrip(l)
  BY DEF BypassLoop
<1>2. l \in Simple /\ l \in loops
  BY DEF ShapeInv, TypeOK, Simple, Visit, Innermost
<1> DEFINE exit == ExitBlock(succ, l)
<1>3. PICK pre : Between(l, pre, exit)
  BY <1>1, <1>2, ZeroTripFacts
<1>4. /\ OutsidePreds(succ, l) = {pre} /\ pre \in Blocks /\ pre \notin l.blocks
      /\ exit \in Blocks
  BY <1>3 DEF Between
<1>5. (CHOOSE p \in OutsidePreds(succ, l) : TRUE) = pre
  BY <1>4
<1> DEFINE r == [succ EXCEPT ![pre] = <<exit>>]
           c == CHOOSE p \in OutsidePreds(succ, l) : TRUE
<1>6. \E used, pairs :
        DeleteUnreachable(l, [succ EXCEPT ![c] = <<exit>>], used, pairs)
  BY Zenon DEF BypassLoop
<1>7. PICK used, pairs : DeleteUnreachable(l, r, used, pairs)
  <2> HIDE DEF exit
  <2>1. c = pre
    BY <1>5
  <2> HIDE DEF c
  <2>2. QED
    BY <1>6, <2>1
<1>8. IsGraph(r) /\ \A b \in Blocks : r[b] = IF b = pre THEN <<exit>> ELSE succ[b]
  <2>1. succ \in [Blocks -> Seq(Blocks)]
    BY StateFacts DEF IsGraph
  <2> HIDE DEF exit
  <2>2. <<exit>> \in Seq(Blocks)
    BY <1>4
  <2>3. QED
    BY <1>4, <2>1, <2>2 DEF IsGraph
<1> HIDE DEF r
<1> DEFINE K == Reached(r, Entry, {})
<1>9. /\ K = Reached(succ, Entry, {}) \ l.blocks
      /\ pre \in K /\ exit \in K
  <2> HIDE DEF exit
  <2>1. QED
    BY <1>1, <1>2, <1>3, <1>8, AroundReached
<1>10. /\ IsGraph(succ') /\ Reached(succ', Entry, {}) = K /\ live' = live \cap K
       /\ \A b \in Blocks : succ'[b] = IF b \in K THEN r[b] ELSE <<>>
  BY <1>7, <1>8, Deletion
<1> HIDE DEF K, exit
<1>11. Takes(l)
  BY <1>2, <1>9, <1>10 DEF Takes, Visit
<1>12. Around(l, pre, exit)
  BY <1>8, <1>9, <1>10 DEF Around
<1>13. QED
  BY <1>3, <1>11, <1>12

-----------------------------------------------------------------------------
(***************************************************************************)
(* The invariant of the flow is kept.                                      *)
(***************************************************************************)
\* What a step that takes nothing away does.
LEMMA SameGraph ==
  ASSUME FlowInv, UNCHANGED <<pass, source, loops, live, succ>>, todo' \subseteq todo
  PROVE  /\ EdgesInv' /\ RemovalInv' /\ ReturnsKept' /\ OnlyLoopsBypassed'
         /\ Removed' = Removed
<1>1. /\ pass' = pass /\ source' = source /\ loops' = loops /\ live' = live /\ succ' = succ
  OBVIOUS
<1>2. /\ InSource' = InSource /\ Simple' = Simple /\ Exact' = Exact
      /\ OnWayToReturn' = OnWayToReturn /\ SingleExits' = SingleExits
  BY <1>1, SameSource
<1>3. Removed' = Removed
  BY <1>1 DEF Removed
<1>4. EdgesInv'
  BY <1>1, <1>2 DEF FlowInv, EdgesInv
<1>5. RemovalInv'
  <2>1. \A l \in todo' \cap Innermost(loops) : l \in todo \cap Innermost(loops)
    OBVIOUS
  <2>2. QED
    BY <1>1, <1>2, <1>3, <2>1 DEF FlowInv, RemovalInv
<1>6. ReturnsKept'
  BY <1>1, <1>2 DEF FlowInv, ReturnsKept
<1>7. OnlyLoopsBypassed'
  BY <1>1, <1>3 DEF FlowInv, OnlyLoopsBypassed
<1>8. QED
  BY <1>3, <1>4, <1>5, <1>6, <1>7

\* No new edges, and so no new ways in, when a loop is cut.
LEMMA CutEdges ==
  ASSUME FlowInv, NEW l, Visit(l), l \in Innermost(loops),
         l.blocks \subseteq live, CutLoop(l)
  PROVE  EdgesInv'
<1>1. ShapeInv /\ EdgesInv /\ RemovalInv /\ pass = "RemoveTrivialLoop"
  BY DEF FlowInv, CutLoop
<1>2. /\ Takes(l)
      /\ \A b \in Blocks :
           succ'[b] = IF b \in Reached(succ', Entry, {}) /\ b \notin OutsidePreds(succ, l)
                      THEN succ[b] ELSE <<>>
  BY <1>1, CutTakes
<1>3. /\ InSource' = InSource /\ loops' = loops /\ source' = source /\ pass' = pass
      /\ live' \subseteq live /\ IsGraph(succ') /\ IsGraph(succ)
      /\ live' = live \cap Reached(succ', Entry, {})
      /\ Reached(succ', Entry, {}) \subseteq Reached(succ, Entry, {})
  BY <1>1, <1>2, SameSource, StateFacts DEF Takes
<1>4. \A b \in Blocks : succ'[b] = succ[b] \/ succ'[b] = <<>>
  BY <1>2
<1>5. \A b \in Blocks : Targets(succ', b) \subseteq Targets(succ, b)
  <2>1. \A b \in l.blocks : b \in Blocks
    BY <1>1, StateFacts DEF Innermost
  <2>2. QED
    BY <1>3, <1>4, <2>1, FewerEdges
<1>6. Reached(succ', Entry, {}) \subseteq InSource \cap live'
  BY <1>1, <1>3 DEF EdgesInv
<1>7. \A b \in Blocks : succ'[b] = source.succ[b] \/ succ'[b] = <<>>
  BY <1>1, <1>4 DEF EdgesInv
<1>8. ASSUME NEW m \in loops, NEW x \in InSource \cap live',
             NEW t \in Targets(succ', x) \cap m.blocks
      PROVE  t = m.header \/ x \in m.blocks
  <2>1. x \in Blocks /\ x \in live
    BY <1>1, <1>3, StateFacts
  <2>2. QED
    BY <1>1, <1>5, <1>8, <2>1 DEF EdgesInv
<1>9. QED
  BY <1>3, <1>6, <1>7, <1>8 DEF EdgesInv

\* No new ways into a loop when another is bypassed.
LEMMA BypassEdges ==
  ASSUME FlowInv, NEW l, Visit(l), l \in Innermost(loops),
         l.blocks \subseteq live, BypassLoop(l)
  PROVE  EdgesInv'
<1>1. ShapeInv /\ EdgesInv /\ RemovalInv /\ pass = "RemoveZeroTripLoop"
  BY DEF FlowInv, BypassLoop
<1>2. Takes(l) /\ \E pre, exit : Between(l, pre, exit) /\ Around(l, pre, exit)
  BY <1>1, BypassTakes
<1>3. PICK pre, exit : Between(l, pre, exit) /\ Around(l, pre, exit)
  BY <1>2
<1> DEFINE K == Reached(succ', Entry, {})
<1>4. /\ InSource' = InSource /\ loops' = loops /\ source' = source /\ pass' = pass
      /\ IsGraph(succ') /\ IsGraph(succ) /\ live' = live \cap K
      /\ K \subseteq Reached(succ, Entry, {})
  BY <1>1, <1>2, SameSource, StateFacts DEF Takes
<1>5. K \subseteq InSource \cap live'
  BY <1>1, <1>4 DEF EdgesInv
<1>6. ASSUME NEW m \in loops, NEW x \in InSource \cap live',
             NEW t \in Targets(succ', x) \cap m.blocks
      PROVE  t = m.header \/ x \in m.blocks
  <2>1. x \in Blocks /\ x \in live /\ x \in K
    BY <1>1, <1>4, StateFacts
  <2>2. CASE x # pre
    <3>1. succ'[x] = succ[x]
      BY <1>3, <2>1, <2>2 DEF Around
    <3>2. t \in Targets(succ, x)
      BY <3>1 DEF Targets
    <3>3. QED
      BY <1>1, <2>1, <3>2 DEF EdgesInv
  <2>3. CASE x = pre
    <3>1. succ'[x] = <<exit>>
      BY <1>3, <2>1, <2>3 DEF Around
    <3>2. t = exit
      BY <3>1, OneTarget
    <3>3. PICK z \in l.blocks : exit \in Targets(succ, z)
      BY <1>3 DEF Between
    <3>4. z \in InSource /\ z \in live /\ l \in loops /\ l \in Simple
      BY <1>1, <1>2, StateFacts DEF Takes, Simple, TopLevel
    <3>5. t = m.header \/ z \in m.blocks
      BY <1>1, <3>2, <3>3, <3>4 DEF EdgesInv
    <3>6. l # m
      BY <1>3, <3>2 DEF Between
    <3>7. QED
      BY <1>1, <3>3, <3>4, <3>5, <3>6, SimpleApart
  <2>4. QED
    BY <2>2, <2>3
<1>7. QED
  BY <1>1, <1>4, <1>5, <1>6 DEF EdgesInv

\* A loop that is cut has no block on a way to a return.
LEMMA CutOffReturns ==
  ASSUME FlowInv, pass = "RemoveTrivialLoop", SingleExits,
         NEW l \in Simple, LooksEndless(l), NEW x \in l.blocks
  PROVE  x \notin OnWayToReturn
<1>1. /\ ShapeInv /\ EdgesInv
      /\ \A b \in OnWayToReturn : succ[b] = source.succ[b]
  BY DEF FlowInv, ReturnsKept
<1>2. l \in loops /\ l \in TopLevel(loops)
  BY DEF Simple, TopLevel
<1>3. /\ IsSource(source.succ) /\ IsGraph(source.succ) /\ IsGraph(succ)
      /\ IsLoop(source.succ, l) /\ l.blocks \subseteq InSource /\ l.blocks \subseteq Blocks
      /\ InSource \subseteq Blocks
  BY <1>1, <1>2, StateFacts
<1>4. ExitEdges(succ, l) = {}
  BY <1>1, <1>2, NoExit
<1>5. \A b \in l.blocks : \A t \in Targets(succ, b) : t \in l.blocks
  BY <1>3, <1>4, ExitEdgesFacts
<1> DEFINE Way(y) == Reached(source.succ, y, {})
<1>6. SUFFICES ASSUME NEW r \in Way(x), source.succ[r] = <<>> PROVE FALSE
  BY DEF OnWayToReturn
<1>7. \A y \in Blocks : \A t \in Targets(source.succ, y) : t \in Blocks /\ Way(t) \subseteq Way(y)
  <2>1. ASSUME NEW y \in Blocks, NEW t \in Targets(source.succ, y)
        PROVE  t \in Blocks /\ Way(t) \subseteq Way(y)
    <3>1. t \in Blocks
      BY <1>3, TargetsType
    <3>2. y \in Way(y)
      BY <1>3, ReachedCloses
    <3>3. t \in Way(y)
      BY <1>3, <3>2, ReachedCloses
    <3>4. QED
      BY <1>3, <3>1, <3>3, ReachedFurther
  <2>2. QED
    BY <2>1
<1> DEFINE S == {y \in Blocks : y \in l.blocks \/ r \notin Way(y)}
<1>8. ASSUME NEW y \in S, NEW t \in Targets(source.succ, y) PROVE t \in S
  <2>1. y \in Blocks /\ t \in Blocks /\ Way(t) \subseteq Way(y)
    BY <1>7
  <2>2. CASE y \in l.blocks /\ r \in Way(t)
    <3>1. y \in OnWayToReturn
      BY <1>3, <1>6, <2>1, <2>2 DEF OnWayToReturn, InSource
    <3>2. t \in Targets(succ, y)
      BY <1>1, <3>1 DEF Targets
    <3>3. QED
      BY <1>5, <2>1, <2>2, <3>2
  <2>3. QED
    BY <2>1, <2>2
<1>9. x \in S /\ x \in Blocks
  BY <1>3
<1>10. Way(x) \subseteq S
  <2>1. \A y \in S : \A t \in Targets(source.succ, y) : t \in S
    BY <1>8
  <2> HIDE DEF S
  <2>2. QED
    BY <1>3, <1>9, <2>1, ReachedLeast
<1>11. r \in Blocks /\ r \in Way(r)
  BY <1>3, <1>9, ReachedCloses
<1>12. r \in l.blocks
  BY <1>10, <1>11
<1>13. \E t \in Targets(source.succ, r) : TRUE
  BY <1>3, <1>12, LeadsInside
<1>14. DOMAIN source.succ[r] = {}
  <2>1. DOMAIN <<>> = {}
    OBVIOUS
  <2>2. QED
    BY <1>6, <2>1
<1>15. QED
  BY <1>13, <1>14 DEF Targets

\* Cutting leaves every way to a return.
LEMMA CutReturns ==
  ASSUME FlowInv, NEW l, Visit(l), l \in Innermost(loops),
         l.blocks \subseteq live, CutLoop(l)
  PROVE  ReturnsKept'
<1>1. ShapeInv /\ EdgesInv /\ RemovalInv /\ pass = "RemoveTrivialLoop" /\ Endless(l)
  BY DEF FlowInv, CutLoop
<1>2. /\ Takes(l)
      /\ \A b \in Blocks :
           succ'[b] = IF b \in Reached(succ', Entry, {}) /\ b \notin OutsidePreds(succ, l)
                      THEN succ[b] ELSE <<>>
  BY <1>1, CutTakes
<1>3. /\ OnWayToReturn' = OnWayToReturn /\ SingleExits' = SingleExits
      /\ source' = source /\ pass' = pass
  BY <1>2, SameSource DEF Takes
<1>4. SUFFICES ASSUME SingleExits, NEW b \in OnWayToReturn
               PROVE  b \in live' /\ succ'[b] = source.succ[b]
  BY <1>3 DEF ReturnsKept
<1>5. Exact /\ b \in live /\ succ[b] = source.succ[b] /\ l \in Simple /\ b \in InSource
  BY <1>1, <1>2, <1>4 DEF FlowInv, ReturnsKept, Exact, Takes, OnWayToReturn, InSource
<1>6. \A x \in l.blocks : x \notin OnWayToReturn
  BY <1>1, <1>4, <1>5, CutOffReturns DEF Endless
<1>7. l \in loops /\ l.header \in l.blocks /\ l.header \in InSource
      /\ IsGraph(source.succ) /\ IsGraph(succ) /\ InSource \subseteq Blocks
  BY <1>1, <1>5, StateFacts DEF Simple, TopLevel
<1>8. ASSUME b \in OutsidePreds(succ, l) PROVE FALSE
  <2>1. source.succ[b] = <<l.header>>
    BY <1>1, <1>5, <1>8 DEF Endless, CanRewrite
  <2>2. PICK r \in Reached(source.succ, b, {}) : source.succ[r] = <<>>
    BY DEF OnWayToReturn
  <2> DEFINE W == Reached(source.succ, l.header, {})
             S == {b} \cup W
  <2>3. Targets(source.succ, b) = {l.header}
    BY <2>1, OneTarget
  <2>4. l.header \in W /\ \A y \in W : \A t \in Targets(source.succ, y) : t \in {} \/ t \in W
    BY <1>7, ReachedCloses
  <2>5. \A y \in S : \A t \in Targets(source.succ, y) : t \in S
    <3> HIDE DEF W
    <3>1. QED
      BY <2>3, <2>4
  <2>6. b \in S /\ b \in Blocks
    BY <1>5, <1>7
  <2> HIDE DEF S
  <2>7. Reached(source.succ, b, {}) \subseteq S
    BY <1>7, <2>5, <2>6, ReachedLeast
  <2>8. r # b
    BY <2>1, <2>2
  <2>9. r \in W
    BY <2>2, <2>7, <2>8 DEF S
  <2>10. l.header \in OnWayToReturn
    BY <1>7, <2>2, <2>9 DEF OnWayToReturn, InSource
  <2>11. QED
    BY <1>6, <1>7, <2>10
<1>9. b \in Reached(succ', Entry, {})
  <2>1. b \in Reached(succ, Entry, {})
    BY <1>1, <1>5 DEF RemovalInv
  <2>2. b \notin l.blocks
    BY <1>4, <1>6
  <2>3. QED
    BY <1>2, <1>5, <2>1, <2>2 DEF Takes
<1>10. QED
  BY <1>2, <1>5, <1>7, <1>8, <1>9 DEF Takes

\* An endless loop that only unconditional branches enter looks endless at
\* every moment.
LEMMA MustCut ==
  ASSUME ShapeInv, EdgesInv, pass = "RemoveTrivialLoop", NEW l \in loops,
         ExitEdges(source.succ, l) = {},
         \A b \in OutsidePreds(source.succ, l) : source.succ[b] = <<l.header>>
  PROVE  Endless(l)
<1>1. IsGraph(source.succ) /\ IsGraph(succ) /\ l.blocks \subseteq Blocks
  BY StateFacts
<1>2. \A b \in Blocks : succ[b] = source.succ[b] \/ succ[b] = <<>>
  BY DEF EdgesInv
<1>3. /\ \A b \in Blocks : Targets(succ, b) \subseteq Targets(source.succ, b)
      /\ ExitEdges(succ, l) \subseteq ExitEdges(source.succ, l)
  BY <1>1, <1>2, FewerEdges
<1>4. LooksEndless(l)
  <2>1. ExitEdges(succ, l) = {}
    BY <1>3
  <2>2. Cardinality({}) = 0
    BY FS_EmptySet
  <2>3. QED
    BY <2>1, <2>2 DEF LooksEndless, HasExitBlock
<1>5. ASSUME NEW b \in OutsidePreds(succ, l) PROVE succ[b] = <<l.header>>
  <2>1. b \in Blocks /\ b \notin l.blocks /\ l.header \in Targets(succ, b)
    BY <1>1, OutsideFacts
  <2>2. b \in OutsidePreds(source.succ, l)
    BY <1>1, <1>3, <2>1, OutsideFacts
  <2>3. DOMAIN <<>> = {}
    OBVIOUS
  <2>4. succ[b] # <<>>
    BY <2>1, <2>3 DEF Targets
  <2>5. QED
    BY <1>2, <2>1, <2>2, <2>4
<1>6. QED
  BY <1>4, <1>5 DEF Endless, CanRewrite

\* What survives a deletion is a value, and its PHI entries are ones.
LEMMA SurvivesType ==
  ASSUME NEW l, NEW r, NEW used \in Values, NEW pairs, pairs \subseteq Blocks \X Values,
         DeleteUnreachable(l, r, used, pairs)
  PROVE  operand' \in Values /\ phi' \subseteq Blocks \X Values
<1>1. \A v \in Values : \A kept : Survives(v, kept) \in Values
  BY DEF Survives, Values
<1> DEFINE kept == Reached(r, Entry, {})
<1>2. /\ operand' = Survives(used, kept)
      /\ phi' = {<<p[1], Survives(p[2], kept)>> : p \in {x \in pairs : x[1] \in kept}}
  BY Zenon DEF DeleteUnreachable
<1> HIDE DEF kept
<1>3. operand' \in Values
  BY <1>1, <1>2
<1>4. ASSUME NEW p \in pairs PROVE <<p[1], Survives(p[2], kept)>> \in Blocks \X Values
  <2>1. p[1] \in Blocks /\ p[2] \in Values
    OBVIOUS
  <2>2. QED
    BY <1>1, <2>1
<1>5. phi' \subseteq Blocks \X Values
  BY <1>2, <1>4
<1>6. QED
  BY <1>3, <1>5

\* Cutting keeps the types of values.
LEMMA CutType ==
  ASSUME ShapeInv, NEW l, CutLoop(l)
  PROVE  operand' \in Values /\ phi' \subseteq Blocks \X Values
<1>1. \E r : DeleteUnreachable(l, r, operand, phi)
  BY Zenon DEF CutLoop
<1>2. QED
  BY <1>1, SurvivesType DEF ShapeInv, TypeOK

\* Bypassing keeps the types of values.
LEMMA BypassType ==
  ASSUME ShapeInv, EdgesInv, NEW l \in loops, BypassLoop(l)
  PROVE  operand' \in Values /\ phi' \subseteq Blocks \X Values
<1> DEFINE used == IF source.at = "exit" THEN AtEntry(l, operand) ELSE operand
           pre == CHOOSE p \in OutsidePreds(succ, l) : TRUE
           entering == {<<p[1], AtEntry(l, p[2])>> : p \in phi}
           moved == MovedIncoming(entering, l.header, pre)
           pairs == IF RepairsPhi(l) THEN moved ELSE phi
<1>1. \E r : DeleteUnreachable(l, r, used, pairs)
  BY Zenon DEF BypassLoop
<1>2. \A v \in Values : AtEntry(l, v) \in Values
  BY DEF AtEntry, Values
<1>3. operand \in Values /\ phi \subseteq Blocks \X Values
  BY DEF ShapeInv, TypeOK
<1>4. pre \in Blocks
  <2>1. PICK p : OutsidePreds(succ, l) = {p}
    BY DEF BypassLoop, ZeroTrip, HasPreheader
  <2>2. p \in Blocks
    BY <2>1, StateFacts, OutsideFacts
  <2>3. QED
    BY <2>1, <2>2
<1>5. used \in Values
  BY <1>2, <1>3
<1>6. entering \subseteq Blocks \X Values
  <2>1. ASSUME NEW p \in phi PROVE <<p[1], AtEntry(l, p[2])>> \in Blocks \X Values
    <3>1. p[1] \in Blocks /\ p[2] \in Values
      BY <1>3
    <3>2. QED
      BY <1>2, <3>1
  <2>2. QED
    BY <2>1
<1> HIDE DEF entering, pre
<1>7. moved \subseteq Blocks \X Values
  <2>1. ASSUME NEW x \in moved PROVE x \in Blocks \X Values
    <3>1. CASE x \in entering
      BY <1>6, <3>1
    <3>2. CASE x \notin entering
      <4>1. PICK p \in entering : x = <<pre, p[2]>>
        BY <3>2 DEF MovedIncoming
      <4>2. p[2] \in Values
        BY <1>6
      <4>3. QED
        BY <1>4, <4>1, <4>2
    <3>3. QED
      BY <3>1, <3>2
  <2>2. QED
    BY <2>1
<1>8. pairs \subseteq Blocks \X Values
  BY <1>3, <1>7
<1> HIDE DEF used, pairs
<1>9. QED
  BY <1>1, <1>5, <1>8, SurvivesType

\* Bypassing a loop changes its preheader only.
LEMMA BypassOnly ==
  ASSUME FlowInv, NEW l, Visit(l), l \in Innermost(loops),
         l.blocks \subseteq live, BypassLoop(l)
  PROVE  OnlyLoopsBypassed'
<1>1. ShapeInv /\ EdgesInv /\ RemovalInv /\ OnlyLoopsBypassed /\ Exact
      /\ pass = "RemoveZeroTripLoop"
  BY DEF FlowInv, BypassLoop, Exact
<1>2. Takes(l) /\ \E pre, exit : Between(l, pre, exit) /\ Around(l, pre, exit)
  BY <1>1, BypassTakes
<1>3. PICK pre, exit : Between(l, pre, exit) /\ Around(l, pre, exit)
  BY <1>2
<1>4. RemovalInv' /\ Removed' = Removed \cup {l}
  BY <1>1, <1>2, TakesRemoval
<1>5. /\ Exact' = Exact /\ InSource' = InSource /\ source' = source /\ pass' = pass
      /\ live' = live \cap Reached(succ', Entry, {}) /\ live \subseteq Blocks
  BY <1>1, <1>2, SameSource DEF Takes, ShapeInv, TypeOK
<1>6. Reached(source.succ, Entry, {})' \ live' \subseteq UNION {m.blocks : m \in Removed'}
  BY <1>1, <1>4, <1>5 DEF RemovalInv, InSource
<1>7. ASSUME NEW b \in live', succ'[b] # source.succ[b]
      PROVE  \E m \in Removed' : source.succ[b] = <<m.header>>
  <2>1. b \in live /\ b \in Blocks /\ b \in Reached(succ', Entry, {})
    BY <1>5
  <2>2. CASE succ[b] # source.succ[b]
    BY <1>1, <1>4, <2>1, <2>2 DEF OnlyLoopsBypassed
  <2>3. CASE succ[b] = source.succ[b]
    <3>1. b = pre
      BY <1>3, <1>7, <2>1, <2>3 DEF Around
    <3>2. succ[pre] = <<l.header>>
      BY <1>3 DEF Between
    <3>3. QED
      BY <1>4, <2>3, <3>1, <3>2
  <2>4. QED
    BY <2>2, <2>3
<1>8. \A b \in live' : succ'[b] # source'.succ[b] =>
         \E m \in Removed' : source'.succ[b] = <<m.header>>
  BY <1>5, <1>7
<1>9. QED
  BY <1>6, <1>8 DEF OnlyLoopsBypassed

\* The loops a pass looks at lie in no other loop.
LEMMA VisitType ==
  ASSUME ShapeInv, NEW l, Visit(l), live' \subseteq live, IsGraph(succ'),
         operand' \in Values, phi' \subseteq Blocks \X Values,
         stage' \in {"run", "done", "undefined"}
  PROVE  ShapeInv'
<1>1. pass' = pass /\ source' = source /\ loops' = loops /\ todo' \subseteq todo
  BY DEF Visit
<1>2. TypeOK'
  BY <1>1 DEF ShapeInv, TypeOK, IsGraph
<1>3. QED
  BY <1>1, <1>2 DEF ShapeInv

\* Visits that leave the function as it is.
LEMMA SkipFlow ==
  ASSUME FlowInv, NEW l, Visit(l), UNCHANGED <<live, succ, operand, phi>>,
         \/ stage' = "undefined"
         \/ SkipLoop(l)
  PROVE  FlowInv'
<1>1. ShapeInv /\ EdgesInv /\ CutInv
  BY DEF FlowInv
<1>2. /\ pass' = pass /\ source' = source /\ loops' = loops /\ todo' = todo \ {l}
      /\ live' = live /\ succ' = succ /\ operand' = operand /\ phi' = phi
      /\ stage = "run" /\ stage' \in {"run", "undefined"}
  BY DEF Visit, SkipLoop
<1>3. ShapeInv'
  <2>1. IsGraph(succ')
    BY <1>1, <1>2, StateFacts
  <2>2. QED
    BY <1>1, <1>2, <2>1, VisitType DEF ShapeInv, TypeOK
<1>4. EdgesInv' /\ RemovalInv' /\ ReturnsKept' /\ OnlyLoopsBypassed'
  BY <1>2, SameGraph
<1>5. CutInv'
  <2>1. SUFFICES ASSUME stage' # "undefined", pass = "RemoveTrivialLoop",
                        NEW m \in Simple, m \notin todo',
                        ExitEdges(source.succ, m) = {},
                        \A b \in OutsidePreds(source.succ, m) : source.succ[b] = <<m.header>>
                 PROVE  m.blocks \cap live = {}
    BY <1>2 DEF CutInv, Simple
  <2>2. CASE m = l
    <3>1. l \in loops /\ l \in Innermost(loops)
      BY <2>1, <2>2 DEF Simple, TopLevel
    <3>2. Endless(l)
      BY <1>1, <2>1, <2>2, <3>1, MustCut
    <3>3. QED
      BY <2>1, <3>1, <3>2 DEF SkipLoop
  <2>3. CASE m # l
    BY <1>1, <1>2, <2>1, <2>3 DEF CutInv
  <2>4. QED
    BY <2>2, <2>3
<1>6. QED
  BY <1>3, <1>4, <1>5 DEF FlowInv

\* Cutting a loop keeps the invariant.
LEMMA CutFlow ==
  ASSUME FlowInv, NEW l, Visit(l), l \in Innermost(loops),
         l.blocks \subseteq live, CutLoop(l)
  PROVE  FlowInv'
<1>1. ShapeInv /\ EdgesInv /\ RemovalInv /\ CutInv /\ pass = "RemoveTrivialLoop"
  BY DEF FlowInv, CutLoop
<1>2. Takes(l)
  BY <1>1, CutTakes
<1>3. /\ pass' = pass /\ source' = source /\ loops' = loops /\ Simple' = Simple
      /\ todo' = todo \ {l} /\ IsGraph(succ')
      /\ live' = live \cap Reached(succ', Entry, {})
      /\ Reached(succ', Entry, {}) \cap l.blocks = {}
      /\ stage = "run" /\ stage' = "run"
  BY <1>2, SameSource DEF Takes, Visit, CutLoop
<1>4. operand' \in Values /\ phi' \subseteq Blocks \X Values
  BY <1>1, CutType
<1>5. ShapeInv'
  BY <1>1, <1>3, <1>4, VisitType
<1>6. EdgesInv'
  BY CutEdges
<1>7. RemovalInv'
  BY <1>1, <1>2, TakesRemoval
<1>8. CutInv'
  <2>1. SUFFICES ASSUME NEW m \in Simple, m \notin todo',
                        ExitEdges(source.succ, m) = {},
                        \A b \in OutsidePreds(source.succ, m) : source.succ[b] = <<m.header>>
                 PROVE  m.blocks \cap live' = {}
    BY <1>3 DEF CutInv
  <2>2. CASE m = l
    BY <1>3, <2>2
  <2>3. CASE m # l
    <3>1. m.blocks \cap live = {}
      BY <1>1, <1>3, <2>1, <2>3 DEF CutInv
    <3>2. QED
      BY <1>3, <3>1
  <2>4. QED
    BY <2>2, <2>3
<1>9. ReturnsKept'
  BY CutReturns
<1>10. OnlyLoopsBypassed'
  BY <1>1, <1>3 DEF OnlyLoopsBypassed
<1>11. QED
  BY <1>5, <1>6, <1>7, <1>8, <1>9, <1>10 DEF FlowInv

\* Bypassing a loop keeps the invariant.
LEMMA BypassFlow ==
  ASSUME FlowInv, NEW l, Visit(l), l \in Innermost(loops),
         l.blocks \subseteq live, BypassLoop(l)
  PROVE  FlowInv'
<1>1. ShapeInv /\ EdgesInv /\ RemovalInv /\ pass = "RemoveZeroTripLoop"
  BY DEF FlowInv, BypassLoop
<1>2. Takes(l) /\ l \in loops
  BY <1>1, BypassTakes DEF Innermost
<1>3. /\ pass' = pass /\ source' = source /\ loops' = loops
      /\ IsGraph(succ') /\ live' \subseteq live
      /\ stage = "run" /\ stage' = "run"
  BY <1>2 DEF Takes, Visit, BypassLoop
<1>4. operand' \in Values /\ phi' \subseteq Blocks \X Values
  BY <1>1, <1>2, BypassType
<1>5. ShapeInv'
  BY <1>1, <1>3, <1>4, VisitType
<1>6. EdgesInv'
  BY BypassEdges
<1>7. RemovalInv'
  BY <1>1, <1>2, TakesRemoval
<1>8. CutInv' /\ ReturnsKept'
  BY <1>1, <1>3 DEF CutInv, ReturnsKept
<1>9. OnlyLoopsBypassed'
  BY BypassOnly
<1>10. QED
  BY <1>5, <1>6, <1>7, <1>8, <1>9 DEF FlowInv

\* What a visit may be.
LEMMA VisitCases ==
  ASSUME VisitLoop
  PROVE  \E l : /\ Visit(l)
                /\ \/ /\ UNCHANGED <<live, succ, operand, phi>>
                      /\ \/ SkipLoop(l)
                         \/ stage' = "undefined" /\ BreakPhi(l)
                              /\ l \in Innermost(loops) /\ l.blocks \subseteq live
                         \/ stage' = "undefined" /\ ~ l.blocks \subseteq live
                              /\ l \in Innermost(loops)
                   \/ l \in Innermost(loops) /\ l.blocks \subseteq live /\ CutLoop(l)
                   \/ l \in Innermost(loops) /\ l.blocks \subseteq live /\ BypassLoop(l)
<1>1. PICK l \in todo :
        /\ \/ l \notin Innermost(loops) /\ SkipLoop(l)
           \/ l \in Innermost(loops) /\ ~ l.blocks \subseteq live /\ ReadDeleted
           \/ /\ l \in Innermost(loops) /\ l.blocks \subseteq live
              /\ SkipLoop(l) \/ CutLoop(l) \/ BreakPhi(l) \/ BypassLoop(l)
        /\ todo' = todo \ {l}
  BY Zenon DEF VisitLoop
<1>2. stage = "run" /\ UNCHANGED <<pass, source, loops>>
  BY DEF VisitLoop
<1>3. Visit(l)
  BY <1>1, <1>2 DEF Visit
<1>4. CASE l \notin Innermost(loops) /\ SkipLoop(l)
  BY <1>3, <1>4 DEF SkipLoop
<1>5. CASE l \in Innermost(loops) /\ ~ l.blocks \subseteq live /\ ReadDeleted
  BY <1>3, <1>5 DEF ReadDeleted
<1>6. CASE l \in Innermost(loops) /\ l.blocks \subseteq live /\ SkipLoop(l)
  BY <1>3, <1>6 DEF SkipLoop
<1>7. CASE l \in Innermost(loops) /\ l.blocks \subseteq live /\ BreakPhi(l)
  <2>1. stage' = "undefined" /\ UNCHANGED <<live, succ, operand, phi>>
    BY <1>7 DEF BreakPhi
  <2>2. QED
    BY <1>3, <1>7, <2>1
<1>8. CASE l \in Innermost(loops) /\ l.blocks \subseteq live /\ (CutLoop(l) \/ BypassLoop(l))
  BY <1>3, <1>8
<1>9. QED
  BY <1>1, <1>4, <1>5, <1>6, <1>7, <1>8

\* At the start nothing is gone.
LEMMA InitFlow == ASSUME Init PROVE FlowInv
<1>1. pass \in Passes /\ source \in Functions[pass] /\ IsFunction(source)
  BY FunctionsAssumption DEF Init
<1>2. /\ loops = Loops(source.succ, Entry) /\ todo = TopLevel(loops)
      /\ live = Blocks /\ succ = source.succ /\ operand = source.of /\ stage = "run"
  BY DEF Init, Visited
<1>3. succ \in [Blocks -> Seq(Blocks)]
  <2>1. IsSource(source.succ)
    BY <1>1 DEF IsFunction, IsSource
  <2>2. QED
    BY <1>2, <2>1, SourceIsGraph DEF IsGraph
<1>4. source.of \in Values
  BY <1>1 DEF IsFunction, Values
<1>5. phi \subseteq Blocks \X Values
  <2>1. CASE source.join = NoBlock
    BY <2>1 DEF Init
  <2>2. CASE source.join # NoBlock
    <3> DEFINE G == (CHOOSE l \in loops : l.header = source.header).blocks
    <3>1. phi = {<<p, IF p \in G THEN source.of ELSE "const">> :
                   p \in predecessors(source.succ, source.join)}
      BY <2>2, Zenon DEF Init, Incoming
    <3> HIDE DEF G
    <3>2. predecessors(source.succ, source.join) \subseteq Blocks
      BY <1>2, <1>3 DEF predecessors
    <3>3. "const" \in Values
      BY DEF Values
    <3>4. QED
      BY <1>4, <3>1, <3>2, <3>3
  <2>3. QED
    BY <2>1, <2>2
<1>6. ShapeInv
  BY <1>1, <1>2, <1>3, <1>4, <1>5 DEF ShapeInv, TypeOK
<1>7. /\ IsSource(source.succ) /\ IsGraph(source.succ) /\ InSource \subseteq Blocks
      /\ \A l \in loops : IsLoop(source.succ, l) /\ l.blocks \subseteq Blocks
  BY <1>6, StateFacts
<1>8. Reached(succ, Entry, {}) = InSource /\ InSource \subseteq live
  BY <1>2, <1>7 DEF InSource
<1>9. EdgesInv
  <2>1. ASSUME NEW l \in loops, NEW x \in InSource, NEW t \in Targets(source.succ, x),
               t \in l.blocks
        PROVE  t = l.header \/ x \in l.blocks
    BY <1>7, <2>1, EnteredAtHeader DEF InSource
  <2>2. QED
    BY <1>2, <1>8, <2>1 DEF EdgesInv
<1>10. Removed = {}
  BY <1>8 DEF Removed, InSource
<1>11. RemovalInv
  <2>1. \A l \in Innermost(loops) : l \in loops
    BY DEF Innermost
  <2>2. QED
    BY <1>2, <1>7, <1>8, <1>10, <2>1 DEF RemovalInv
<1>12. CutInv
  BY <1>2 DEF CutInv, Simple
<1>13. ReturnsKept
  BY <1>2, <1>8 DEF ReturnsKept, OnWayToReturn, InSource
<1>14. OnlyLoopsBypassed
  BY <1>2, <1>8 DEF OnlyLoopsBypassed, InSource
<1>15. QED
  BY <1>6, <1>9, <1>11, <1>12, <1>13, <1>14 DEF FlowInv

\* Every step keeps the invariant.
LEMMA NextFlow == ASSUME FlowInv, [Next]_vars PROVE FlowInv'
<1>1. CASE VisitLoop
  <2>1. PICK l : /\ Visit(l)
                 /\ \/ /\ UNCHANGED <<live, succ, operand, phi>>
                       /\ SkipLoop(l) \/ stage' = "undefined"
                    \/ l \in Innermost(loops) /\ l.blocks \subseteq live /\ CutLoop(l)
                    \/ l \in Innermost(loops) /\ l.blocks \subseteq live /\ BypassLoop(l)
    BY <1>1, VisitCases
  <2>2. QED
    BY <2>1, SkipFlow, CutFlow, BypassFlow
<1>2. CASE EndPass
  <2>1. /\ UNCHANGED <<pass, source, loops, live, succ>> /\ todo' = todo
        /\ operand' = operand /\ phi' = phi /\ stage = "run" /\ stage' = "done"
    BY <1>2 DEF EndPass
  <2>2. EdgesInv' /\ RemovalInv' /\ ReturnsKept' /\ OnlyLoopsBypassed'
    BY <2>1, SameGraph
  <2>3. ShapeInv'
    BY <2>1 DEF FlowInv, ShapeInv, TypeOK
  <2>4. CutInv'
    BY <2>1 DEF FlowInv, CutInv, Simple
  <2>5. QED
    BY <2>2, <2>3, <2>4 DEF FlowInv
<1>3. CASE UNCHANGED vars
  <2>1. /\ UNCHANGED <<pass, source, loops, live, succ>> /\ todo' = todo
        /\ operand' = operand /\ phi' = phi /\ stage' = stage
    BY <1>3 DEF vars
  <2>2. EdgesInv' /\ RemovalInv' /\ ReturnsKept' /\ OnlyLoopsBypassed'
    BY <2>1, SameGraph
  <2>3. ShapeInv'
    BY <2>1 DEF FlowInv, ShapeInv, TypeOK
  <2>4. CutInv'
    BY <2>1 DEF FlowInv, CutInv, Simple
  <2>5. QED
    BY <2>2, <2>3, <2>4 DEF FlowInv
<1>4. QED
  BY <1>1, <1>2, <1>3 DEF Next

\* The invariant of the flow holds in every behaviour.
THEOREM FlowInvariantHolds == Spec => []FlowInv
<1>1. Init => FlowInv
  BY InitFlow
<1>2. FlowInv /\ [Next]_vars => FlowInv'
  BY NextFlow
<1>3. QED
  BY <1>1, <1>2, PTL DEF Spec

\* When a pass is done, the loops it was to cut are gone.
LEMMA FlowImpliesGone == ASSUME FlowInv, stage = "done" => todo = {} PROVE EndlessLoopsGone
  BY DEF FlowInv, CutInv, EndlessLoopsGone, Simple

\* A pass is done when it has looked at every loop.
LEMMA DoneInv == Spec => [](stage = "done" => todo = {})
<1> DEFINE Done == stage = "done" => todo = {}
<1>1. Init => Done
  BY DEF Init
<1>2. Done /\ [Next]_vars => Done'
  <2> SUFFICES ASSUME Done, [Next]_vars PROVE Done'
    OBVIOUS
  <2>1. CASE VisitLoop
    <3>1. PICK l : /\ Visit(l)
                   /\ \/ SkipLoop(l) \/ stage' = "undefined"
                      \/ CutLoop(l) \/ BypassLoop(l)
      BY <2>1, VisitCases
    <3>2. stage' # "done"
      BY <3>1 DEF Visit, SkipLoop, CutLoop, BypassLoop
    <3>3. QED
      BY <3>2
  <2>2. CASE EndPass
    BY <2>2 DEF EndPass
  <2>3. CASE UNCHANGED vars
    BY <2>3 DEF vars
  <2>4. QED
    BY <2>1, <2>2, <2>3 DEF Next
<1>3. QED
  BY <1>1, <1>2, PTL DEF Spec

\* Both passes keep the types of their state, whatever the functions look like.
THEOREM TypesCorrect == Spec => []TypeOK
<1>1. FlowInv => TypeOK
  BY DEF FlowInv, ShapeInv
<1>2. QED
  BY <1>1, FlowInvariantHolds, PTL

\* Both passes take away the loops they mean to and nothing else: no block on
\* a way to a return is lost, every endless loop that can be cut is cut, and
\* bypassing removes nothing but the loops bypassed.
THEOREM FlowIsKept == Spec => []FlowKept
<1>1. FlowInv /\ (stage = "done" => todo = {}) => FlowKept
  BY FlowImpliesGone DEF FlowInv, FlowKept
<1>2. QED
  BY <1>1, FlowInvariantHolds, DoneInv, PTL

-----------------------------------------------------------------------------
(***************************************************************************)
(* The values behind the loops.                                            *)
(***************************************************************************)
\* The loop whose values are followed.
IsFollowed(g) ==
    /\ g \in loops /\ g.header = source.header /\ Followed = g.blocks
    /\ \A l \in loops : l.header = source.header => l = g
    /\ source.join # NoBlock =>
          /\ source.join \in Blocks /\ source.join \notin g.blocks
          /\ \E z \in g.blocks : source.join \in Targets(source.succ, z)

\* There is one when a value is used, and it leads to the PHI.
LEMMA FollowedExists ==
  ASSUME ShapeInv, source.of # "const" \/ source.join # NoBlock
  PROVE  \E g : IsFollowed(g)
<1>1. IsSource(source.succ) /\ IsGraph(source.succ)
  BY StateFacts
<1>2. PICK g \in loops :
        /\ g.header = source.header
        /\ source.join = NoBlock
           \/ \E e \in ExitEdges(source.succ, g) : source.join = source.succ[e[1]][e[2]]
  BY DEF ShapeInv, TypeOK, IsFunction
<1>3. \A l \in loops : l.header = source.header => l = g
  BY <1>1, <1>2, SameHeader DEF ShapeInv
<1>4. Followed = g.blocks
  <2>1. {m \in loops : m.header = source.header} = {g}
    BY <1>2, <1>3
  <2>2. Followed = UNION {l.blocks : l \in {g}}
    BY <2>1 DEF Followed
  <2>3. QED
    BY <2>2
<1>5. ASSUME source.join # NoBlock
      PROVE  /\ source.join \in Blocks /\ source.join \notin g.blocks
             /\ \E z \in g.blocks : source.join \in Targets(source.succ, z)
  <2>1. PICK e \in ExitEdges(source.succ, g) : source.join = source.succ[e[1]][e[2]]
    BY <1>2, <1>5
  <2>2. g.blocks \subseteq Blocks
    BY <1>2, StateFacts
  <2>3. QED
    BY <1>1, <2>1, <2>2, ExitEdgesFacts
<1>6. QED
  BY <1>2, <1>3, <1>4, <1>5 DEF IsFollowed

\* A loop is reached through its header.
LEMMA HeaderFirst ==
  ASSUME NEW s, IsGraph(s), NEW m, Entry \notin m.blocks,
         \A b \in Reached(s, Entry, {}) : \A t \in Targets(s, b) :
            t \in m.blocks => t = m.header \/ b \in m.blocks,
         NEW x \in m.blocks, x \in Reached(s, Entry, {})
  PROVE  m.header \in Reached(s, Entry, {})
<1> DEFINE R == Reached(s, Entry, {})
           S == R \ m.blocks
<1>1. SUFFICES ASSUME m.header \notin R PROVE FALSE
  OBVIOUS
<1>2. Entry \in Blocks
  BY FunctionsAssumption
<1>3. Entry \in R /\ \A b \in R : \A t \in Targets(s, b) : t \in {} \/ t \in R
  BY <1>2, ReachedCloses
<1>4. \A b \in R : \A t \in Targets(s, b) : t \in m.blocks => t = m.header \/ b \in m.blocks
  OBVIOUS
<1>5. \A b \in S : \A t \in Targets(s, b) : t \in S
  <2> HIDE DEF R
  <2>1. QED
    BY <1>1, <1>3, <1>4
<1>6. Entry \in S
  BY <1>3
<1> HIDE DEF S
<1>7. R \subseteq S
  BY <1>2, <1>5, <1>6, ReachedLeast
<1>8. QED
  BY <1>7 DEF S

\* Bypassing leaves the terminators in the loops that stay.
LEMMA LoopTerminators ==
  ASSUME FlowInv, pass = "RemoveZeroTripLoop", NEW m \in loops,
         NEW x \in m.blocks, x \in live
  PROVE  succ[x] = source.succ[x]
<1>1. SUFFICES ASSUME succ[x] # source.succ[x] PROVE FALSE
  OBVIOUS
<1>2. ShapeInv /\ RemovalInv /\ OnlyLoopsBypassed /\ Exact
  BY DEF FlowInv, Exact
<1>3. PICK k \in Removed : source.succ[x] = <<k.header>>
  BY <1>1, <1>2 DEF OnlyLoopsBypassed
<1>4. k \in Simple /\ k.blocks \cap live = {} /\ k \in loops
  BY <1>2 DEF RemovalInv, Removed
<1>5. k.header \in m.blocks
  <2>1. IsSource(source.succ) /\ IsLoop(source.succ, m)
    BY <1>2, StateFacts
  <2>2. PICK t \in Targets(source.succ, x) : t \in m.blocks
    BY <2>1, LeadsInside
  <2>3. t = k.header
    BY <1>3, <2>2, OneTarget
  <2>4. QED
    BY <2>2, <2>3
<1>6. k.header \in k.blocks
  BY <1>2, <1>4, StateFacts
<1>7. CASE m = k
  BY <1>4, <1>7
<1>8. CASE m # k
  BY <1>2, <1>4, <1>5, <1>6, <1>8, SimpleApart
<1>9. QED
  BY <1>7, <1>8

\* The preheader of a loop lies in no loop that does not contain it.
LEMMA PreheaderOutside ==
  ASSUME FlowInv, pass = "RemoveZeroTripLoop", NEW l \in Simple, l.blocks \subseteq live,
         NEW pre, NEW exit, Between(l, pre, exit), pre \in live,
         NEW m \in loops
  PROVE  pre \notin m.blocks
<1>1. SUFFICES ASSUME pre \in m.blocks PROVE FALSE
  OBVIOUS
<1>2. ShapeInv
  BY DEF FlowInv
<1>3. succ[pre] = <<l.header>> /\ pre \notin l.blocks
  BY DEF Between
<1>4. source.succ[pre] = <<l.header>>
  BY <1>1, <1>3, LoopTerminators
<1>5. l.header \in m.blocks
  <2>1. IsSource(source.succ) /\ IsLoop(source.succ, m)
    BY <1>2, StateFacts
  <2>2. PICK t \in Targets(source.succ, pre) : t \in m.blocks
    BY <1>1, <2>1, LeadsInside
  <2>3. t = l.header
    BY <1>4, <2>2, OneTarget
  <2>4. QED
    BY <2>2, <2>3
<1>6. QED
  BY <1>1, <1>3, <1>5 DEF Simple, TopLevel

\* The loop that is followed leads to the PHI until it is bypassed.
LEMMA FollowedExit ==
  ASSUME FlowInv, pass = "RemoveZeroTripLoop", NEW l \in Simple, l.blocks \subseteq live,
         IsFollowed(l), source.join # NoBlock, NEW pre, NEW exit, Between(l, pre, exit)
  PROVE  exit = source.join
<1>1. PICK z \in l.blocks : source.join \in Targets(source.succ, z) /\ source.join \notin l.blocks
  BY DEF IsFollowed
<1>2. succ[z] = source.succ[z]
  BY <1>1, LoopTerminators DEF IsFollowed
<1>3. source.join \in Targets(succ, z)
  BY <1>1, <1>2 DEF Targets
<1>4. QED
  BY <1>1, <1>3 DEF Between

\* The PHI entries a deletion leaves.
LEMMA DeletedEntries ==
  ASSUME NEW l, NEW r, NEW used, NEW pairs, DeleteUnreachable(l, r, used, pairs)
  PROVE  LET kept == Reached(r, Entry, {})
         IN /\ operand' = Survives(used, kept)
            /\ phi' = {<<p[1], Survives(p[2], kept)>> : p \in {x \in pairs : x[1] \in kept}}
  BY Zenon DEF DeleteUnreachable

\* The PHI when a loop is cut.
LEMMA CutPhi ==
  ASSUME FlowInv, PhiInv, NEW l, Visit(l), l \in Innermost(loops),
         l.blocks \subseteq live, CutLoop(l)
  PROVE  PhiInv'
<1> DEFINE K == Reached(succ', Entry, {})
           J == source.join
<1>1. /\ ShapeInv /\ EdgesInv /\ RemovalInv /\ pass = "RemoveTrivialLoop" /\ Endless(l)
      /\ stage = "run" /\ stage' = stage
  BY DEF FlowInv, CutLoop, Visit
<1>2. /\ Takes(l)
      /\ \A b \in Blocks :
           succ'[b] = IF b \in K /\ b \notin OutsidePreds(succ, l) THEN succ[b] ELSE <<>>
  BY <1>1, CutTakes
<1>3. /\ source' = source /\ loops' = loops /\ Followed' = Followed /\ pass' = pass
      /\ Incoming(source, loops)' = Incoming(source, loops)
      /\ live' = live \cap K /\ K \cap l.blocks = {} /\ IsGraph(succ') /\ IsGraph(succ)
  BY <1>1, <1>2, SameSource, StateFacts DEF Takes
<1>4. SUFFICES ASSUME J \in live' PROVE PhiFacts'
  BY <1>3 DEF PhiInv
<1>5. PhiFacts /\ J \in K /\ J \in live
  BY <1>1, <1>3, <1>4 DEF PhiInv
<1>6. phi' = {<<p[1], Survives(p[2], K)>> : p \in {x \in phi : x[1] \in K}}
  <2> DEFINE r == [b \in Blocks |-> IF b \in OutsidePreds(succ, l) THEN <<>> ELSE succ[b]]
  <2>1. DeleteUnreachable(l, r, operand, phi)
    BY DEF CutLoop
  <2>2. IsGraph(r)
    <3>1. <<>> \in Seq(Blocks)
      OBVIOUS
    <3>2. \A b \in Blocks : succ[b] \in Seq(Blocks)
      BY <1>3 DEF IsGraph
    <3>3. QED
      BY <3>1, <3>2 DEF IsGraph
  <2> HIDE DEF r
  <2>3. Reached(succ', Entry, {}) = Reached(r, Entry, {})
    BY <2>1, <2>2, Deletion
  <2>4. phi' = {<<p[1], Survives(p[2], Reached(r, Entry, {}))>> :
                  p \in {x \in phi : x[1] \in Reached(r, Entry, {})}}
    BY <2>1, DeletedEntries
  <2>5. QED
    BY <2>3, <2>4
<1>7. ShapeInv' /\ EdgesInv'
  BY CutFlow DEF FlowInv
<1> HIDE DEF K
<1>8. \A x : x \in phi' <=> \E p \in phi : p[1] \in K /\ x = <<p[1], Survives(p[2], K)>>
  BY <1>6
<1>9. \A p \in phi : p[1] \in Blocks /\ p[1] \in predecessors(succ, J)
  BY <1>1, <1>5 DEF ShapeInv, TypeOK, PhiFacts, IncomingBlocks
<1>10. predecessors(succ', J) = predecessors(succ, J) \cap K
  <2>1. J # l.header
    BY <1>1, <1>3, <1>5, StateFacts DEF Innermost
  <2>2. DOMAIN succ' = Blocks /\ DOMAIN succ = Blocks
    BY <1>3 DEF IsGraph
  <2>3. ASSUME NEW b \in Blocks
        PROVE  J \in Targets(succ', b) <=> J \in Targets(succ, b) /\ b \in K
    <3>1. CASE b \in OutsidePreds(succ, l)
      <4>1. succ[b] = <<l.header>>
        BY <1>1, <3>1 DEF Endless, CanRewrite
      <4>2. Targets(succ, b) = {l.header}
        BY <4>1, OneTarget
      <4>3. succ'[b] = <<>>
        BY <1>2, <3>1
      <4>4. DOMAIN <<>> = {}
        OBVIOUS
      <4>5. QED
        BY <2>1, <4>2, <4>3, <4>4 DEF Targets
    <3>2. CASE b \notin K
      <4>1. succ'[b] = <<>>
        BY <1>2, <3>2
      <4>2. DOMAIN <<>> = {}
        OBVIOUS
      <4>3. QED
        BY <3>2, <4>1, <4>2 DEF Targets
    <3>3. CASE b \in K /\ b \notin OutsidePreds(succ, l)
      <4>1. succ'[b] = succ[b]
        BY <1>2, <3>3
      <4>2. QED
        BY <3>3, <4>1 DEF Targets
    <3>4. QED
      BY <3>1, <3>2, <3>3
  <2>4. QED
    BY <2>2, <2>3 DEF predecessors
<1>11. ASSUME NEW p \in phi, p[1] \in K, source.of \in {"const", "iv"}
       PROVE  Survives(p[2], K) = p[2]
  <2>1. CASE source.of = "const"
    BY <1>5, <2>1 DEF PhiFacts, Survives
  <2>2. CASE source.of = "iv" /\ p[2] # "iv"
    BY <1>5, <2>2 DEF PhiFacts, Survives
  <2>3. CASE source.of = "iv" /\ p[2] = "iv"
    <3>1. PICK g : IsFollowed(g)
      BY <1>1, <2>3, FollowedExists
    <3>2. p[1] \in g.blocks /\ g \in loops /\ g.header = source.header
      BY <1>5, <2>3, <3>1 DEF PhiFacts, IsFollowed
    <3>3. g.header \in K
      <4> DEFINE x == p[1]
      <4>1. x \in g.blocks /\ g \in loops' /\ x \in Reached(succ', Entry, {})
        BY <1>3, <1>11, <3>2 DEF K
      <4>2. Entry \notin g.blocks
        BY <1>1, <3>2, StateFacts
      <4>3. \A b \in Reached(succ', Entry, {}) : \A t \in Targets(succ', b) :
              t \in g.blocks => t = g.header \/ b \in g.blocks
        BY <1>7, <4>1 DEF EdgesInv
      <4> HIDE DEF x
      <4>4. g.header \in Reached(succ', Entry, {})
        BY <1>3, <4>1, <4>2, <4>3, HeaderFirst
      <4>5. QED
        BY <4>4 DEF K
    <3>4. QED
      BY <3>2, <3>3, <2>3 DEF Survives
  <2>4. QED
    BY <1>11, <2>1, <2>2, <2>3
<1>12. IncomingBlocks' = predecessors(succ', J)
  <2>1. IncomingBlocks' = {x[1] : x \in phi'}
    BY DEF IncomingBlocks
  <2>2. {x[1] : x \in phi'} = IncomingBlocks \cap K
    <3>1. ASSUME NEW x \in phi' PROVE x[1] \in IncomingBlocks \cap K
      <4>1. PICK p \in phi : p[1] \in K /\ x = <<p[1], Survives(p[2], K)>>
        BY <1>8
      <4>2. QED
        BY <4>1 DEF IncomingBlocks
    <3>2. ASSUME NEW b \in IncomingBlocks, b \in K PROVE \E x \in phi' : x[1] = b
      <4>1. PICK p \in phi : p[1] = b
        BY <3>2 DEF IncomingBlocks
      <4>2. <<p[1], Survives(p[2], K)>> \in phi'
        BY <1>8, <3>2, <4>1
      <4>3. QED
        BY <4>1, <4>2
    <3>3. QED
      BY <3>1, <3>2
  <2>3. QED
    BY <1>5, <1>10, <2>1, <2>2 DEF PhiFacts
<1>13. \A p, q \in phi' : p[1] = q[1] => p = q
  <2>1. SUFFICES ASSUME NEW x \in phi', NEW y \in phi', x[1] = y[1] PROVE x = y
    OBVIOUS
  <2>2. PICK p \in phi : x = <<p[1], Survives(p[2], K)>>
    BY <1>8
  <2>3. PICK q \in phi : y = <<q[1], Survives(q[2], K)>>
    BY <1>8
  <2>4. p = q
    BY <1>5, <2>1, <2>2, <2>3 DEF PhiFacts
  <2>5. QED
    BY <2>2, <2>3, <2>4
<1>14. ASSUME source.of \in {"const", "iv"} PROVE phi' \subseteq phi
  <2>1. SUFFICES ASSUME NEW x \in phi' PROVE x \in phi
    OBVIOUS
  <2>2. PICK p \in phi : p[1] \in K /\ x = <<p[1], Survives(p[2], K)>>
    BY <1>8
  <2>3. Survives(p[2], K) = p[2]
    BY <1>11, <1>14, <2>2
  <2>4. p = <<p[1], p[2]>>
    BY <1>1 DEF ShapeInv, TypeOK
  <2>5. QED
    BY <2>2, <2>3, <2>4
<1>15. source.of \in {"const", "iv", "body"}
  BY <1>1 DEF ShapeInv, TypeOK, IsFunction
<1>16. source.of # "body" => \A p \in phi' :
         \E q \in Incoming(source, loops) : OnExit(p[2]) = OnExit(q[2])
  BY <1>5, <1>14, <1>15 DEF PhiFacts
<1>17. ASSUME source.header \notin live', NEW p \in phi', source.succ[p[1]] = <<source.header>>
       PROVE  FALSE
  <2>1. p[1] \in predecessors(succ', J)
    BY <1>12 DEF IncomingBlocks
  <2>2. p[1] \in Blocks /\ J \in Targets(succ', p[1])
    BY <1>3, <2>1 DEF predecessors, IsGraph
  <2>3. succ'[p[1]] = source.succ[p[1]] \/ succ'[p[1]] = <<>>
    BY <1>1, <1>3, <1>7, <2>2 DEF EdgesInv
  <2>4. DOMAIN <<>> = {}
    OBVIOUS
  <2>5. succ'[p[1]] = <<source.header>>
    BY <1>17, <2>2, <2>3, <2>4 DEF Targets
  <2>6. J = source.header
    BY <2>2, <2>5, OneTarget
  <2>7. QED
    BY <1>4, <1>17, <2>6
<1>18. /\ source.of = "const" => \A p \in phi' : p[2] = "const"
       /\ source.of = "iv" => \A p \in phi' :
            /\ p[2] \in {"const", "iv", "init"}
            /\ p[2] = "iv" <=> p[1] \in Followed
  BY <1>5, <1>14 DEF PhiFacts
<1>19. QED
  BY <1>3, <1>12, <1>13, <1>16, <1>17, <1>18 DEF PhiFacts

\* The block an entry of the PHI is for after the loop is bypassed.
Moved(l, pre, b) == IF RepairsPhi(l) /\ b = l.header THEN pre ELSE b

\* The value the entry has then.
Left(l, v) == Survives(AtEntry(l, v), Reached(succ', Entry, {}))

\* The PHI entries of a bypass, when the loop that is followed repairs the PHI.
LEMMA BypassEntries ==
  ASSUME FlowInv, NEW l, Visit(l), l \in Innermost(loops), l.blocks \subseteq live,
         BypassLoop(l), NEW pre, NEW exit, Between(l, pre, exit), Around(l, pre, exit),
         l.header = source.header => RepairsPhi(l)
  PROVE  \A x : x \in phi' <=>
            \E p \in phi : /\ Moved(l, pre, p[1]) \in Reached(succ', Entry, {})
                           /\ x = <<Moved(l, pre, p[1]), Left(l, p[2])>>
<1> DEFINE K == Reached(succ', Entry, {})
           entering == {<<p[1], AtEntry(l, p[2])>> : p \in phi}
           c == CHOOSE p \in OutsidePreds(succ, l) : TRUE
           out == ExitBlock(succ, l)
           pairs == IF RepairsPhi(l) THEN MovedIncoming(entering, l.header, c) ELSE phi
<1>1. ShapeInv /\ pass = "RemoveZeroTripLoop" /\ l \in Simple /\ l \in loops /\ EdgesInv
      /\ RemovalInv
  BY DEF FlowInv, BypassLoop, ShapeInv, TypeOK, Simple, Visit, Innermost
<1>2. c = pre
  BY DEF Between
<1> DEFINE r == [succ EXCEPT ![c] = <<out>>]
<1>3. \E used : DeleteUnreachable(l, r, used, pairs)
  BY Zenon DEF BypassLoop
<1>4. IsGraph(r)
  <2>1. succ \in [Blocks -> Seq(Blocks)]
    BY <1>1, StateFacts DEF IsGraph
  <2>2. out \in Blocks
    BY DEF Between
  <2> HIDE DEF out, c
  <2>3. <<out>> \in Seq(Blocks)
    BY <2>2
  <2>4. QED
    BY <2>1, <2>3 DEF IsGraph
<1> HIDE DEF r, pairs, c, out
<1>5. PICK used : DeleteUnreachable(l, r, used, pairs)
  BY <1>3
<1>6. K = Reached(r, Entry, {})
  BY <1>4, <1>5, Deletion
<1>7. phi' = {<<p[1], Survives(p[2], K)>> : p \in {x \in pairs : x[1] \in K}}
  <2> HIDE DEF K
  <2>1. phi' = {<<p[1], Survives(p[2], Reached(r, Entry, {}))>> :
                  p \in {x \in pairs : x[1] \in Reached(r, Entry, {})}}
    BY <1>5, DeletedEntries
  <2>2. QED
    BY <1>6, <2>1
<1>8. pre \in K /\ l.header \notin K
  BY <1>1, StateFacts, BypassTakes DEF Around, Takes
<1> DEFINE Sv(v) == Survives(v, K)
<1>9. \A x : x \in phi' <=> \E p \in pairs : p[1] \in K /\ x = <<p[1], Sv(p[2])>>
  <2> HIDE DEF K
  <2>1. QED
    BY <1>7
<1>10. \A v : Left(l, v) = Sv(AtEntry(l, v))
  BY DEF Left
<1> HIDE DEF Sv, K
<1>11. CASE RepairsPhi(l)
  <2>1. pairs = {p \in entering : p[1] # l.header} \cup
                {<<pre, p[2]>> : p \in {x \in entering : x[1] = l.header}}
    BY <1>2, <1>11 DEF pairs, MovedIncoming
  <2>2. \A y : y \in entering <=> \E p \in phi : y = <<p[1], AtEntry(l, p[2])>>
    OBVIOUS
  <2> HIDE DEF entering
  <2>3. \A b : Moved(l, pre, b) = IF b = l.header THEN pre ELSE b
    BY <1>11 DEF Moved
  <2>4. ASSUME NEW y
        PROVE  y \in pairs <=> \E p \in phi : y = <<Moved(l, pre, p[1]), AtEntry(l, p[2])>>
    <3>1. ASSUME y \in pairs
          PROVE  \E p \in phi : y = <<Moved(l, pre, p[1]), AtEntry(l, p[2])>>
      <4>1. CASE y \in entering /\ y[1] # l.header
        <5>1. PICK p \in phi : y = <<p[1], AtEntry(l, p[2])>>
          BY <2>2, <4>1
        <5>2. Moved(l, pre, p[1]) = p[1]
          BY <2>3, <4>1, <5>1
        <5>3. QED
          BY <5>1, <5>2
      <4>2. CASE \E q \in entering : q[1] = l.header /\ y = <<pre, q[2]>>
        <5>1. PICK q \in entering : q[1] = l.header /\ y = <<pre, q[2]>>
          BY <4>2
        <5>2. PICK p \in phi : q = <<p[1], AtEntry(l, p[2])>>
          BY <2>2
        <5>3. p[1] = l.header /\ q[2] = AtEntry(l, p[2])
          BY <5>1, <5>2
        <5>4. QED
          BY <2>3, <5>1, <5>3
      <4>3. QED
        BY <2>1, <3>1, <4>1, <4>2
    <3>2. ASSUME NEW p \in phi, y = <<Moved(l, pre, p[1]), AtEntry(l, p[2])>>
          PROVE  y \in pairs
      <4> DEFINE q == <<p[1], AtEntry(l, p[2])>>
      <4>1. q \in entering /\ q[1] = p[1] /\ q[2] = AtEntry(l, p[2])
        BY <2>2
      <4> HIDE DEF q
      <4>2. CASE p[1] = l.header
        <5>1. y = <<pre, q[2]>>
          BY <2>3, <3>2, <4>1, <4>2
        <5>2. QED
          BY <2>1, <4>1, <4>2, <5>1
      <4>3. CASE p[1] # l.header
        <5>1. y = q
          BY <2>3, <3>2, <4>3 DEF q
        <5>2. QED
          BY <2>1, <4>1, <4>3, <5>1
      <4>4. QED
        BY <4>2, <4>3
    <3>3. QED
      BY <3>1, <3>2
  <2>5. SUFFICES ASSUME NEW x
                 PROVE  x \in phi' <=>
                          \E p \in phi : /\ Moved(l, pre, p[1]) \in K
                                         /\ x = <<Moved(l, pre, p[1]), Left(l, p[2])>>
    BY DEF K
  <2>6. ASSUME x \in phi'
        PROVE  \E p \in phi : /\ Moved(l, pre, p[1]) \in K
                              /\ x = <<Moved(l, pre, p[1]), Left(l, p[2])>>
    <3>1. PICK y \in pairs : y[1] \in K /\ x = <<y[1], Sv(y[2])>>
      BY <1>9, <2>6
    <3>2. PICK p \in phi : y = <<Moved(l, pre, p[1]), AtEntry(l, p[2])>>
      BY <2>4
    <3>3. y[1] = Moved(l, pre, p[1]) /\ y[2] = AtEntry(l, p[2])
      BY <3>2
    <3>4. QED
      BY <1>10, <3>1, <3>3
  <2>7. ASSUME NEW p \in phi, Moved(l, pre, p[1]) \in K,
               x = <<Moved(l, pre, p[1]), Left(l, p[2])>>
        PROVE  x \in phi'
    <3> DEFINE y == <<Moved(l, pre, p[1]), AtEntry(l, p[2])>>
    <3>1. y \in pairs /\ y[1] = Moved(l, pre, p[1]) /\ y[2] = AtEntry(l, p[2])
      BY <2>4
    <3> HIDE DEF y
    <3>2. y[1] \in K /\ x = <<y[1], Sv(y[2])>>
      BY <1>10, <2>7, <3>1
    <3>3. QED
      BY <1>9, <3>1, <3>2
  <2>8. QED
    BY <2>6, <2>7
<1>12. CASE ~RepairsPhi(l)
  <2>1. pairs = phi /\ l.header # source.header
    BY <1>12 DEF pairs
  <2>2. \A b : Moved(l, pre, b) = b
    BY <1>12 DEF Moved
  <2>3. \A v : Left(l, v) = Sv(v)
    BY <1>10, <2>1 DEF AtEntry
  <2>4. QED
    BY <1>9, <2>1, <2>2, <2>3 DEF K
<1>13. QED
  BY <1>11, <1>12

\* The predecessors of the PHI's block after a bypass: the same, with the
\* preheader in the place of the header.
LEMMA BypassPreds ==
  ASSUME FlowInv, NEW l, Visit(l), l \in Innermost(loops), l.blocks \subseteq live,
         BypassLoop(l), NEW pre, NEW exit, Between(l, pre, exit), Around(l, pre, exit),
         source.join \in live', IncomingBlocks = predecessors(succ, source.join)
  PROVE  /\ source.join # l.header /\ source.join \notin l.blocks
         /\ pre \notin predecessors(succ, source.join)
         /\ \A b : b \in predecessors(succ', source.join) <=>
              /\ b \in Reached(succ', Entry, {})
              /\ \E c \in predecessors(succ, source.join) : b = Moved(l, pre, c)
<1> DEFINE K == Reached(succ', Entry, {})
           J == source.join
<1>1. ShapeInv /\ EdgesInv /\ RemovalInv /\ ~PhiBreaks(l) /\ l \in loops
  BY DEF FlowInv, BypassLoop, Innermost
<1>2. /\ IsGraph(succ') /\ IsGraph(succ) /\ live' = live \cap K /\ K \cap l.blocks = {}
      /\ l.header \in l.blocks
  BY <1>1, BypassTakes, StateFacts DEF Takes
<1>3. K \subseteq Blocks
  BY <1>2, FunctionsAssumption, ReachedCloses
<1>4. /\ pre \in K /\ exit \in K
      /\ \A b \in Blocks : succ'[b] = IF b \notin K THEN <<>>
                                      ELSE IF b = pre THEN <<exit>> ELSE succ[b]
  BY DEF Around
<1>5. succ[pre] = <<l.header>> /\ exit = ExitBlock(succ, l)
  BY DEF Between
<1> HIDE DEF K
<1>6. J \in K /\ J # l.header /\ J \notin l.blocks
  BY <1>2
<1>7. /\ \A b : b \in predecessors(succ, J) <=> b \in Blocks /\ J \in Targets(succ, b)
      /\ \A b : b \in predecessors(succ', J) <=> b \in Blocks /\ J \in Targets(succ', b)
  BY <1>2 DEF predecessors, IsGraph
<1>8. pre \notin predecessors(succ, J)
  <2>1. Targets(succ, pre) = {l.header}
    BY <1>5, OneTarget
  <2>2. QED
    BY <1>6, <1>7, <2>1
<1>9. \A b \in K : b # pre => (J \in Targets(succ', b) <=> J \in Targets(succ, b))
  <2>1. ASSUME NEW b \in K, b # pre
        PROVE  J \in Targets(succ', b) <=> J \in Targets(succ, b)
    <3>1. succ'[b] = succ[b]
      BY <1>3, <1>4, <2>1
    <3>2. QED
      BY <3>1 DEF Targets
  <2>2. QED
    BY <2>1
<1>10. J \in Targets(succ', pre) <=> RepairsPhi(l)
  <2>1. succ'[pre] = <<exit>>
    BY <1>3, <1>4
  <2>2. Targets(succ', pre) = {exit}
    BY <2>1, OneTarget
  <2>3. QED
    BY <1>5, <2>2 DEF RepairsPhi
<1>11. \A b \in Blocks : b \notin K => J \notin Targets(succ', b)
  <2>1. ASSUME NEW b \in Blocks, b \notin K PROVE J \notin Targets(succ', b)
    <3>1. succ'[b] = <<>>
      BY <1>4, <2>1
    <3>2. DOMAIN <<>> = {}
      OBVIOUS
    <3>3. QED
      BY <3>1, <3>2 DEF Targets
  <2>2. QED
    BY <2>1
<1>12. RepairsPhi(l) => l.header \in predecessors(succ, J)
  BY <1>1 DEF PhiBreaks
<1>13. l.header \notin K
  BY <1>2
<1>14. ASSUME NEW b \in predecessors(succ', J)
       PROVE  b \in K /\ \E c \in predecessors(succ, J) : b = Moved(l, pre, c)
  <2>1. b \in K
    BY <1>7, <1>11, <1>14
  <2>2. CASE b = pre
    BY <1>7, <1>10, <1>12, <1>14, <2>1, <2>2 DEF Moved
  <2>3. CASE b # pre
    <3>1. b \in predecessors(succ, J)
      BY <1>7, <1>9, <1>14, <2>1, <2>3
    <3>2. Moved(l, pre, b) = b
      BY <1>13, <2>1 DEF Moved
    <3>3. QED
      BY <2>1, <3>1, <3>2
  <2>4. QED
    BY <2>2, <2>3
<1>15. ASSUME NEW c \in predecessors(succ, J), Moved(l, pre, c) \in K
       PROVE  Moved(l, pre, c) \in predecessors(succ', J)
  <2>1. CASE RepairsPhi(l) /\ c = l.header
    <3>1. Moved(l, pre, c) = pre
      BY <2>1 DEF Moved
    <3>2. QED
      BY <1>3, <1>4, <1>7, <1>10, <2>1, <3>1
  <2>2. CASE ~(RepairsPhi(l) /\ c = l.header)
    <3>1. Moved(l, pre, c) = c
      BY <2>2 DEF Moved
    <3>2. c # pre /\ c \in K /\ J \in Targets(succ, c)
      BY <1>7, <1>8, <1>15, <3>1
    <3>3. QED
      BY <1>3, <1>7, <1>9, <3>1, <3>2
  <2>3. QED
    BY <2>1, <2>2
<1>16. QED
  BY <1>6, <1>8, <1>14, <1>15 DEF K

\* What is left of a value: the one it is on entry, when its own loop goes.
LEMMA LeftFacts ==
  ASSUME NEW l, NEW v \in {"const", "iv", "init"},
         v = "iv" /\ l.header # source.header =>
            source.header \in Reached(succ', Entry, {})
  PROVE  Left(l, v) = IF v = "iv" /\ l.header = source.header THEN "init" ELSE v
<1>1. CASE v = "iv" /\ l.header = source.header
  <2>1. AtEntry(l, v) = "init"
    BY <1>1 DEF AtEntry
  <2>2. QED
    BY <1>1, <2>1 DEF Left, Survives
<1>2. CASE v = "iv" /\ l.header # source.header
  BY <1>2 DEF Left, Survives, AtEntry
<1>3. CASE v # "iv"
  BY <1>3 DEF Left, Survives, AtEntry
<1>4. QED
  BY <1>1, <1>2, <1>3

\* The PHI when a loop is bypassed.
LEMMA BypassPhi ==
  ASSUME FlowInv, PhiInv, JoinInv, NEW l, Visit(l), l \in Innermost(loops),
         l.blocks \subseteq live, BypassLoop(l)
  PROVE  PhiInv'
<1> DEFINE K == Reached(succ', Entry, {})
           J == source.join
<1>1. /\ ShapeInv /\ EdgesInv /\ RemovalInv /\ OnlyLoopsBypassed /\ Exact
      /\ pass = "RemoveZeroTripLoop" /\ stage = "run" /\ stage' = stage
  BY DEF FlowInv, BypassLoop, Visit, Exact
<1>2. Takes(l) /\ \E pre, exit : Between(l, pre, exit) /\ Around(l, pre, exit)
  BY <1>1, BypassTakes
<1>3. PICK pre, exit : Between(l, pre, exit) /\ Around(l, pre, exit)
  BY <1>2
<1>4. /\ source' = source /\ loops' = loops /\ Followed' = Followed /\ pass' = pass
      /\ Incoming(source, loops)' = Incoming(source, loops)
      /\ live' = live \cap K /\ K \cap l.blocks = {} /\ IsGraph(succ') /\ IsGraph(succ)
      /\ l \in Simple /\ l \in loops /\ l.header \in l.blocks
      /\ live \subseteq Blocks /\ K \subseteq live
  BY <1>1, <1>2, SameSource, StateFacts
  DEF Takes, Simple, TopLevel, ShapeInv, TypeOK, EdgesInv
<1>5. SUFFICES ASSUME J \in live' PROVE PhiFacts'
  BY <1>4 DEF PhiInv
<1>6. PhiFacts /\ J \in K /\ J \in live /\ J # NoBlock
  BY <1>1, <1>4, <1>5, FunctionsAssumption DEF PhiInv
<1>7. PICK g : IsFollowed(g)
  BY <1>1, <1>6, FollowedExists
<1>8. /\ g \in loops /\ g.header = source.header /\ Followed = g.blocks
      /\ l.header = source.header => l = g
      /\ g.header \in g.blocks /\ g.blocks \subseteq InSource /\ Entry \notin g.blocks
  BY <1>1, <1>4, <1>7, StateFacts DEF IsFollowed
<1>9. l # g => l.blocks \cap g.blocks = {} /\ g.header \notin l.blocks
  BY <1>1, <1>4, <1>8, SimpleApart
<1>10. l = g => RepairsPhi(l)
  BY <1>1, <1>3, <1>4, <1>6, <1>7, FollowedExit DEF Between, RepairsPhi
<1>11. /\ IncomingBlocks = predecessors(succ, J)
       /\ J # l.header /\ pre \notin predecessors(succ, J)
       /\ \A b : b \in predecessors(succ', J) <=>
            b \in K /\ \E c \in predecessors(succ, J) : b = Moved(l, pre, c)
  <2>1. IncomingBlocks = predecessors(succ, J)
    BY <1>6 DEF PhiFacts
  <2>2. QED
    BY <1>3, <1>5, <2>1, BypassPreds
<1>12. \A x : x \in phi' <=>
         \E p \in phi : Moved(l, pre, p[1]) \in K /\ x = <<Moved(l, pre, p[1]), Left(l, p[2])>>
  BY <1>3, <1>8, <1>10, BypassEntries
<1>13. pre \in K /\ pre \in live /\ succ[pre] = <<l.header>> /\ pre \notin g.blocks
  <2>1. pre \in K /\ succ[pre] = <<l.header>>
    BY <1>3 DEF Around, Between
  <2>2. pre \in live
    BY <1>4, <2>1
  <2>3. QED
    BY <1>1, <1>3, <1>4, <1>8, <2>1, <2>2, PreheaderOutside
<1>14. EdgesInv'
  BY BypassEdges
<1>15. \A p \in phi : p[1] \in predecessors(succ, J)
  BY <1>11 DEF IncomingBlocks
<1>16. \A b : /\ RepairsPhi(l) /\ b = l.header => Moved(l, pre, b) = pre
              /\ ~(RepairsPhi(l) /\ b = l.header) => Moved(l, pre, b) = b
  BY DEF Moved
<1>17. source.of \in {"const", "iv", "body"}
  BY <1>1 DEF ShapeInv, TypeOK, IsFunction
<1>18. source.header \notin live' /\ source.header \in live => l = g
  <2>1. InSource \cap live' = (InSource \cap live) \ l.blocks
    BY <1>1, <1>2, TakesRemoval
  <2>2. QED
    BY <1>8, <1>9, <2>1
<1>19. g.header \in K \/ \A b \in K : b \notin g.blocks
  <2>1. SUFFICES ASSUME NEW b \in K, b \in g.blocks PROVE g.header \in K
    OBVIOUS
  <2>2. \A x \in K : \A t \in Targets(succ', x) : t \in g.blocks => t = g.header \/ x \in g.blocks
    BY <1>4, <1>8, <1>14 DEF EdgesInv
  <2>3. QED
    BY <1>4, <1>8, <2>1, <2>2, HeaderFirst
<1>20. predecessors(succ, J) \subseteq Blocks
  BY <1>4 DEF predecessors, IsGraph
<1>21. JoinInv
  OBVIOUS
<1> HIDE DEF K
<1>22. ASSUME NEW p \in phi, Moved(l, pre, p[1]) \in K, source.of \in {"const", "iv"}
       PROVE  Left(l, p[2]) = IF p[2] = "iv" /\ l = g THEN "init" ELSE p[2]
  <2>1. p[2] \in {"const", "iv", "init"}
    BY <1>6, <1>22 DEF PhiFacts
  <2>2. ASSUME p[2] = "iv", l.header # source.header PROVE source.header \in K
    <3>1. p[1] \in g.blocks
      BY <1>6, <1>8, <1>22, <2>2 DEF PhiFacts
    <3>2. p[1] # l.header
      BY <1>4, <1>8, <1>9, <2>2, <3>1
    <3>3. p[1] \in K
      BY <1>16, <1>22, <3>2
    <3>4. QED
      BY <1>8, <1>19, <3>1, <3>3
  <2>3. Left(l, p[2]) = IF p[2] = "iv" /\ l.header = source.header THEN "init" ELSE p[2]
    BY <2>1, <2>2, LeftFacts DEF K
  <2>4. l.header = source.header <=> l = g
    BY <1>8
  <2>5. QED
    BY <2>3, <2>4
<1>23. IncomingBlocks' = predecessors(succ', J)
  <2>1. IncomingBlocks' = {x[1] : x \in phi'}
    BY DEF IncomingBlocks
  <2>2. ASSUME NEW x \in phi' PROVE x[1] \in predecessors(succ', J)
    <3>1. PICK p \in phi : /\ Moved(l, pre, p[1]) \in K
                           /\ x = <<Moved(l, pre, p[1]), Left(l, p[2])>>
      BY <1>12
    <3>2. x[1] = Moved(l, pre, p[1])
      BY <3>1
    <3>3. QED
      BY <1>11, <1>15, <3>1, <3>2
  <2>3. ASSUME NEW b \in predecessors(succ', J) PROVE \E x \in phi' : x[1] = b
    <3>1. PICK c \in predecessors(succ, J) : b \in K /\ b = Moved(l, pre, c)
      BY <1>11
    <3>2. PICK p \in phi : p[1] = c
      BY <1>11 DEF IncomingBlocks
    <3>3. <<Moved(l, pre, p[1]), Left(l, p[2])>> \in phi'
      BY <1>12, <3>1, <3>2
    <3>4. QED
      BY <3>1, <3>2, <3>3
  <2>4. QED
    BY <2>1, <2>2, <2>3
<1>24. \A x, y \in phi' : x[1] = y[1] => x = y
  <2>1. SUFFICES ASSUME NEW x \in phi', NEW y \in phi', x[1] = y[1] PROVE x = y
    OBVIOUS
  <2>2. PICK p \in phi : x = <<Moved(l, pre, p[1]), Left(l, p[2])>>
    BY <1>12
  <2>3. PICK q \in phi : y = <<Moved(l, pre, q[1]), Left(l, q[2])>>
    BY <1>12
  <2>4. Moved(l, pre, p[1]) = Moved(l, pre, q[1])
    BY <2>1, <2>2, <2>3
  <2>5. p[1] = q[1]
    BY <1>11, <1>15, <1>16, <2>4
  <2>6. p = q
    BY <1>6, <2>5 DEF PhiFacts
  <2>7. QED
    BY <2>2, <2>3, <2>6
<1>25. ASSUME source.of # "body", NEW x \in phi'
       PROVE  \E q \in Incoming(source, loops) : OnExit(x[2]) = OnExit(q[2])
  <2>1. PICK p \in phi : /\ Moved(l, pre, p[1]) \in K
                         /\ x = <<Moved(l, pre, p[1]), Left(l, p[2])>>
    BY <1>12
  <2>2. OnExit(x[2]) = OnExit(p[2])
    BY <1>17, <1>22, <1>25, <2>1 DEF OnExit
  <2>3. PICK q \in Incoming(source, loops) : OnExit(p[2]) = OnExit(q[2])
    BY <1>6, <1>25 DEF PhiFacts
  <2>4. QED
    BY <2>2, <2>3
<1>26. ASSUME source.of = "const", NEW x \in phi' PROVE x[2] = "const"
  <2>1. PICK p \in phi : /\ Moved(l, pre, p[1]) \in K
                         /\ x = <<Moved(l, pre, p[1]), Left(l, p[2])>>
    BY <1>12
  <2>2. p[2] = "const"
    BY <1>6, <1>26 DEF PhiFacts
  <2>3. QED
    BY <1>22, <1>26, <2>1, <2>2
<1>27. ASSUME source.of = "iv", NEW x \in phi'
       PROVE  x[2] \in {"const", "iv", "init"} /\ (x[2] = "iv" <=> x[1] \in Followed)
  <2>1. PICK p \in phi : /\ Moved(l, pre, p[1]) \in K
                         /\ x = <<Moved(l, pre, p[1]), Left(l, p[2])>>
    BY <1>12
  <2>2. /\ x[1] = Moved(l, pre, p[1])
        /\ x[2] = IF p[2] = "iv" /\ l = g THEN "init" ELSE p[2]
    BY <1>22, <1>27, <2>1
  <2>3. p[2] \in {"const", "iv", "init"} /\ (p[2] = "iv" <=> p[1] \in g.blocks)
    BY <1>6, <1>8, <1>27 DEF PhiFacts
  <2>4. CASE l = g
    BY <1>4, <1>8, <2>1, <2>2, <2>3, <2>4
  <2>5. CASE l # g
    BY <1>4, <1>8, <1>9, <1>13, <1>16, <2>1, <2>2, <2>3, <2>5
  <2>6. QED
    BY <2>4, <2>5
<1>28. ASSUME source.of = "iv", source.header \notin live', NEW x \in phi',
              source.succ[x[1]] = <<source.header>>
       PROVE  x[2] = "init"
  <2>1. PICK p \in phi : /\ Moved(l, pre, p[1]) \in K
                         /\ x = <<Moved(l, pre, p[1]), Left(l, p[2])>>
    BY <1>12
  <2>2. /\ x[1] = Moved(l, pre, p[1]) /\ x[1] \in live
        /\ x[2] = IF p[2] = "iv" /\ l = g THEN "init" ELSE p[2]
    BY <1>4, <1>22, <1>28, <2>1
  <2>3. p[2] = "iv" <=> p[1] \in g.blocks
    BY <1>6, <1>8, <1>28 DEF PhiFacts
  <2>4. CASE source.header \in live
    <3>1. l = g /\ RepairsPhi(l)
      BY <1>10, <1>18, <1>28, <2>4
    <3>2. CASE p[1] = l.header
      BY <1>8, <2>2, <2>3, <3>1, <3>2
    <3>3. CASE p[1] # l.header
      <4>1. x[1] = p[1]
        BY <1>16, <2>2, <3>3
      <4>2. succ[p[1]] = source.succ[p[1]]
        <5>1. SUFFICES ASSUME succ[p[1]] # source.succ[p[1]] PROVE FALSE
          OBVIOUS
        <5>2. PICK k \in Removed : source.succ[p[1]] = <<k.header>>
          BY <1>1, <2>2, <4>1, <5>1 DEF OnlyLoopsBypassed
        <5>3. k.header = source.header
          BY <1>28, <4>1, <5>2
        <5>4. QED
          BY <2>4, <5>3 DEF Removed
      <4>3. Targets(succ, p[1]) = {source.header}
        BY <1>28, <4>1, <4>2, OneTarget
      <4>4. J \in Targets(succ, p[1])
        BY <1>15 DEF predecessors
      <4>5. QED
        BY <1>8, <1>11, <3>1, <4>3, <4>4
    <3>4. QED
      BY <3>2, <3>3
  <2>5. CASE source.header \notin live
    <3>1. l # g
      BY <1>4, <1>8, <2>5
    <3>2. CASE RepairsPhi(l) /\ p[1] = l.header
      <4>1. x[1] = pre
        BY <1>16, <2>2, <3>2
      <4>2. succ[pre] = <<J>>
        BY <1>1, <1>6, <1>13, <1>21, <1>28, <2>5, <4>1 DEF JoinInv
      <4>3. QED
        BY <1>11, <1>13, <4>2
    <3>3. CASE ~(RepairsPhi(l) /\ p[1] = l.header)
      <4>1. x[1] = p[1]
        BY <1>16, <2>2, <3>3
      <4>2. p[2] = "init"
        BY <1>6, <1>28, <2>5, <4>1 DEF PhiFacts
      <4>3. QED
        BY <2>2, <4>2
    <3>4. QED
      BY <3>2, <3>3
  <2>6. QED
    BY <2>4, <2>5
<1>29. QED
  BY <1>4, <1>23, <1>24, <1>25, <1>26, <1>27, <1>28 DEF PhiFacts

\* The preheader of the loop that is followed leads to the PHI after a bypass.
LEMMA BypassJoin ==
  ASSUME FlowInv, PhiInv, JoinInv, NEW l, Visit(l), l \in Innermost(loops),
         l.blocks \subseteq live, BypassLoop(l)
  PROVE  JoinInv'
<1> DEFINE K == Reached(succ', Entry, {})
           J == source.join
<1>1. /\ ShapeInv /\ EdgesInv /\ RemovalInv /\ OnlyLoopsBypassed /\ Exact
      /\ pass = "RemoveZeroTripLoop" /\ stage = "run"
  BY DEF FlowInv, BypassLoop, Visit, Exact
<1>2. Takes(l) /\ \E pre, exit : Between(l, pre, exit) /\ Around(l, pre, exit)
  BY <1>1, BypassTakes
<1>3. PICK pre, exit : Between(l, pre, exit) /\ Around(l, pre, exit)
  BY <1>2
<1>4. /\ source' = source /\ pass' = pass /\ live' = live \cap K
      /\ l \in Simple /\ l \in loops /\ live \subseteq Blocks
  BY <1>1, <1>2, SameSource DEF Takes, Simple, TopLevel, ShapeInv, TypeOK
<1> HIDE DEF K
<1>5. SUFFICES ASSUME J \in live', source.header \notin live', NEW b \in live',
                      source.succ[b] = <<source.header>>
               PROVE  succ'[b] = <<J>>
  BY <1>4 DEF JoinInv
<1>6. b \in live /\ J \in live /\ b \in Blocks /\ b \in K /\ J # NoBlock
  BY <1>4, <1>5, FunctionsAssumption
<1>7. /\ succ'[b] = IF b = pre THEN <<exit>> ELSE succ[b]
      /\ succ[pre] = <<l.header>> /\ OutsidePreds(succ, l) = {pre}
  BY <1>3, <1>6 DEF Around, Between, K
<1>8. CASE source.header \in live
  <2>1. PICK g : IsFollowed(g)
    BY <1>1, <1>6, FollowedExists
  <2>2. /\ g \in loops /\ g.header = source.header /\ g.header \in InSource
        /\ g.header \in g.blocks
    BY <1>1, <2>1, StateFacts DEF IsFollowed
  <2>3. l = g
    <3>1. InSource \cap live' = (InSource \cap live) \ l.blocks
      BY <1>1, <1>2, TakesRemoval
    <3>2. g.header \in l.blocks
      BY <1>5, <1>8, <2>2, <3>1
    <3>3. QED
      BY <1>1, <1>4, <2>2, <3>2, SimpleApart
  <2>4. exit = J
    BY <1>1, <1>3, <1>4, <1>6, <2>1, <2>3, FollowedExit
  <2>5. succ[b] = source.succ[b]
    <3>1. SUFFICES ASSUME succ[b] # source.succ[b] PROVE FALSE
      OBVIOUS
    <3>2. PICK k \in Removed : source.succ[b] = <<k.header>>
      BY <1>1, <1>6, <3>1 DEF OnlyLoopsBypassed
    <3>3. k.header = source.header
      BY <1>5, <3>2
    <3>4. QED
      BY <1>8, <3>3 DEF Removed
  <2>6. l.header \in Targets(succ, b)
    <3>1. succ[b] = <<l.header>>
      BY <1>5, <2>2, <2>3, <2>5
    <3>2. QED
      BY <3>1, OneTarget
  <2>7. b \notin l.blocks
    <3>1. IsSource(source.succ) /\ IsLoop(source.succ, l)
      BY <1>1, <1>4, StateFacts
    <3>2. Takes(l) => K \cap l.blocks = {}
      BY DEF Takes, K
    <3>3. QED
      BY <1>2, <1>6, <3>2
  <2>8. b \in OutsidePreds(succ, l)
    BY <1>1, <1>6, <2>6, <2>7, StateFacts, OutsideFacts
  <2>9. QED
    BY <1>7, <2>4, <2>8
<1>9. CASE source.header \notin live
  <2>1. succ[b] = <<J>>
    BY <1>1, <1>5, <1>6, <1>9 DEF JoinInv
  <2>2. b # pre
    <3>1. SUFFICES ASSUME b = pre PROVE FALSE
      OBVIOUS
    <3>2. J = l.header
      BY <1>7, <2>1, <3>1
    <3>3. l.header \in l.blocks /\ K \cap l.blocks = {}
      BY <1>1, <1>2, <1>4, StateFacts DEF Takes, K
    <3>4. J \in K
      BY <1>4, <1>5
    <3>5. QED
      BY <3>2, <3>3, <3>4
  <2>3. QED
    BY <1>7, <2>1, <2>2
<1>10. QED
  BY <1>8, <1>9

\* What the instruction uses when a loop is cut: nothing of a loop that is gone.
LEMMA CutOperand ==
  ASSUME OperandInv, NEW l, Visit(l), CutLoop(l)
  PROVE  OperandInv'
<1> DEFINE r == [b \in Blocks |-> IF b \in OutsidePreds(succ, l) THEN <<>> ELSE succ[b]]
<1>1. DeleteUnreachable(l, r, operand, phi)
  BY DEF CutLoop
<1>2. pass = "RemoveTrivialLoop" /\ pass' = pass /\ source' = source
  BY DEF CutLoop, Visit
<1> HIDE DEF r
<1>3. operand' = Survives(operand, Reached(r, Entry, {}))
  BY <1>1, DeletedEntries
<1>4. QED
  BY <1>2, <1>3 DEF OperandInv, Survives

\* What the instruction uses when a loop is bypassed: with the loop it is
\* followed for, the value on entry.
LEMMA BypassOperand ==
  ASSUME FlowInv, OperandInv, NEW l, Visit(l), l \in Innermost(loops),
         l.blocks \subseteq live, BypassLoop(l)
  PROVE  OperandInv'
<1> DEFINE K == Reached(succ', Entry, {})
           c == CHOOSE p \in OutsidePreds(succ, l) : TRUE
           out == ExitBlock(succ, l)
           r == [succ EXCEPT ![c] = <<out>>]
           used == IF source.at = "exit" THEN AtEntry(l, operand) ELSE operand
<1>1. /\ ShapeInv /\ EdgesInv /\ RemovalInv /\ pass = "RemoveZeroTripLoop" /\ Exact
  BY DEF FlowInv, BypassLoop, Exact
<1>2. Takes(l) /\ \E pre, exit : Between(l, pre, exit) /\ Around(l, pre, exit)
  BY <1>1, BypassTakes
<1>3. PICK pre, exit : Between(l, pre, exit)
  BY <1>2
<1>4. /\ source' = source /\ pass' = pass /\ live' = live \cap K
      /\ l \in Simple /\ l \in loops
      /\ InSource \cap live' = (InSource \cap live) \ l.blocks
  BY <1>1, <1>2, SameSource, TakesRemoval DEF Takes, Simple, TopLevel
<1>5. \E pairs : DeleteUnreachable(l, r, used, pairs)
  BY Zenon DEF BypassLoop
<1>6. IsGraph(r)
  <2>1. succ \in [Blocks -> Seq(Blocks)]
    BY <1>1, StateFacts DEF IsGraph
  <2>2. out \in Blocks
    <3>1. PICK pre2 : Between(l, pre2, out)
      BY <1>1, <1>4, ZeroTripFacts DEF BypassLoop
    <3>2. QED
      BY <3>1 DEF Between
  <2> HIDE DEF out, c
  <2>3. <<out>> \in Seq(Blocks)
    BY <2>2
  <2>4. QED
    BY <2>1, <2>3 DEF IsGraph
<1> HIDE DEF r, used
<1>7. PICK pairs : DeleteUnreachable(l, r, used, pairs)
  BY <1>5
<1>8. operand' = Survives(used, K)
  <2>1. Reached(succ', Entry, {}) = Reached(r, Entry, {})
    BY <1>6, <1>7, Deletion
  <2>2. operand' = Survives(used, Reached(r, Entry, {}))
    BY <1>7, DeletedEntries
  <2>3. QED
    BY <2>1, <2>2
<1> HIDE DEF K
<1>9. source.of = "const" => operand' = "const"
  BY <1>8 DEF OperandInv, used, AtEntry, Survives
<1>10. ASSUME source.of = "iv", source.at = "exit"
       PROVE  operand' = "init" \/ (operand' = "iv" /\ source.header \in live')
  <2>1. used = AtEntry(l, operand)
    BY <1>10 DEF used
  <2>2. operand = "init" \/ (operand = "iv" /\ source.header \in live)
    BY <1>1, <1>10 DEF OperandInv
  <2>3. CASE operand = "init" \/ l.header = source.header
    BY <1>8, <2>1, <2>2, <2>3 DEF AtEntry, Survives
  <2>4. CASE operand = "iv" /\ l.header # source.header
    <3>1. PICK g : IsFollowed(g)
      BY <1>1, <1>10, FollowedExists
    <3>2. /\ g \in loops /\ g.header = source.header /\ l # g
          /\ g.header \in g.blocks /\ g.blocks \subseteq InSource
      BY <1>1, <2>4, <3>1, StateFacts DEF IsFollowed
    <3>3. g.header \notin l.blocks
      BY <1>1, <1>4, <3>2, SimpleApart
    <3>4. source.header \in live' /\ source.header \in K
      BY <1>4, <2>2, <2>4, <3>2, <3>3
    <3>5. QED
      BY <1>8, <2>1, <2>4, <3>4 DEF AtEntry, Survives
  <2>5. QED
    BY <2>2, <2>3, <2>4
<1>11. QED
  BY <1>4, <1>9, <1>10 DEF OperandInv

\* Cutting a loop without exits leaves the ways to the PHI.
LEMMA CutRepair ==
  ASSUME FlowInv, RepairInv, NEW l, Visit(l), l \in Innermost(loops),
         l.blocks \subseteq live, CutLoop(l)
  PROVE  RepairInv'
<1> DEFINE R == Reached(succ, Entry, {})
           K == Reached(succ', Entry, {})
           J == source.join
<1>1. /\ ShapeInv /\ EdgesInv /\ RemovalInv /\ pass = "RemoveTrivialLoop" /\ Endless(l)
  BY DEF FlowInv, CutLoop
<1>2. /\ Takes(l)
      /\ \A b \in Blocks :
           succ'[b] = IF b \in K /\ b \notin OutsidePreds(succ, l) THEN succ[b] ELSE <<>>
  BY <1>1, CutTakes
<1>3. /\ source' = source /\ loops' = loops /\ Exact' = Exact /\ RepairablePhi' = RepairablePhi
      /\ live' = live \cap K /\ IsGraph(succ') /\ IsGraph(succ)
      /\ K \subseteq R \ l.blocks /\ (Exact => R \ l.blocks \subseteq K)
      /\ l \in Simple /\ l \in loops /\ l \in TopLevel(loops)
      /\ l.header \in l.blocks /\ l.blocks \subseteq Blocks
  BY <1>1, <1>2, SameSource, StateFacts DEF Takes, Simple, TopLevel
<1> HIDE DEF K, R
<1>4. SUFFICES ASSUME Exact, RepairablePhi, J \in live', NEW m \in loops,
                      m.header \in live', ExitEdges(source.succ, m) # {}
               PROVE  \E p \in predecessors(succ', J) : p \in K /\ p # m.header
  BY <1>3 DEF RepairInv, K
<1>5. J \in K /\ J \in live /\ m.header \in live /\ J \notin l.blocks
  BY <1>3, <1>4
<1>6. PICK p \in predecessors(succ, J) : p \in R /\ p # m.header
  BY <1>4, <1>5 DEF RepairInv, R
<1>7. p \in Blocks /\ J \in Targets(succ, p)
  BY <1>3, <1>6 DEF predecessors, IsGraph
<1>8. p \notin l.blocks
  <2>1. ExitEdges(succ, l) = {}
    BY <1>1, <1>3, <1>4, NoExit DEF Endless, Exact
  <2>2. QED
    BY <1>3, <1>5, <1>7, <2>1, ExitEdgesFacts
<1>9. p \notin OutsidePreds(succ, l)
  <2>1. SUFFICES ASSUME p \in OutsidePreds(succ, l) PROVE FALSE
    OBVIOUS
  <2>2. succ[p] = <<l.header>>
    BY <1>1, <2>1 DEF Endless, CanRewrite
  <2>3. Targets(succ, p) = {l.header}
    BY <2>2, OneTarget
  <2>4. QED
    BY <1>3, <1>5, <1>7, <2>3
<1>10. p \in K
  BY <1>3, <1>4, <1>6, <1>8
<1>11. succ'[p] = succ[p]
  BY <1>2, <1>7, <1>9, <1>10
<1>12. J \in Targets(succ', p)
  BY <1>7, <1>11 DEF Targets
<1>13. p \in predecessors(succ', J)
  BY <1>3, <1>7, <1>12 DEF predecessors, IsGraph
<1>14. QED
  BY <1>6, <1>10, <1>13

\* Where a bypassed loop led to the PHI its preheader does.
LEMMA BypassRepair ==
  ASSUME FlowInv, RepairInv, NEW l, Visit(l), l \in Innermost(loops),
         l.blocks \subseteq live, BypassLoop(l)
  PROVE  RepairInv'
<1> DEFINE R == Reached(succ, Entry, {})
           K == Reached(succ', Entry, {})
           J == source.join
<1>1. /\ ShapeInv /\ EdgesInv /\ RemovalInv /\ pass = "RemoveZeroTripLoop" /\ Exact
  BY DEF FlowInv, BypassLoop, Exact
<1>2. Takes(l) /\ \E pre, exit : Between(l, pre, exit) /\ Around(l, pre, exit)
  BY <1>1, BypassTakes
<1>3. PICK pre, exit : Between(l, pre, exit) /\ Around(l, pre, exit)
  BY <1>2
<1>4. /\ source' = source /\ loops' = loops /\ Exact' = Exact /\ RepairablePhi' = RepairablePhi
      /\ live' = live \cap K /\ IsGraph(succ') /\ IsGraph(succ)
      /\ K \subseteq R \ l.blocks /\ R \ l.blocks \subseteq K /\ R \subseteq live
      /\ l \in Simple /\ l \in loops /\ l.header \in l.blocks
  BY <1>1, <1>2, SameSource, StateFacts DEF Takes, Simple, TopLevel, EdgesInv
<1>5. SUFFICES ASSUME RepairablePhi, J \in live', NEW m \in loops,
                      m.header \in live', ExitEdges(source.succ, m) # {}
               PROVE  \E p \in predecessors(succ', J) : p \in K /\ p # m.header
  BY <1>4 DEF RepairInv
<1>6. /\ pre \in K /\ pre \in Blocks /\ succ[pre] = <<l.header>>
      /\ \A b \in Blocks : succ'[b] = IF b \notin K THEN <<>>
                                      ELSE IF b = pre THEN <<exit>> ELSE succ[b]
      /\ \A b \in l.blocks : \A t \in Targets(succ, b) : t \in l.blocks \/ t = exit
  BY <1>3 DEF Around, Between
<1>7. pre \notin m.blocks /\ m.header \in m.blocks
  <2>1. pre \in live
    BY <1>4, <1>6
  <2>2. QED
    BY <1>1, <1>3, <1>4, <2>1, PreheaderOutside, StateFacts
<1> HIDE DEF K, R
<1>8. J \in K /\ J \in live /\ m.header \in live /\ J \notin l.blocks
  BY <1>4, <1>5
<1>9. PICK p \in predecessors(succ, J) : p \in R /\ p # m.header
  BY <1>1, <1>5, <1>8 DEF RepairInv, R
<1>10. p \in Blocks /\ J \in Targets(succ, p)
  BY <1>4, <1>9 DEF predecessors, IsGraph
<1>11. CASE p \in l.blocks
  <2>1. succ'[pre] = <<J>>
    BY <1>6, <1>8, <1>10, <1>11
  <2>2. J \in Targets(succ', pre)
    BY <2>1, OneTarget
  <2>3. pre \in predecessors(succ', J)
    BY <1>4, <1>6, <2>2 DEF predecessors, IsGraph
  <2>4. QED
    BY <1>6, <1>7, <2>3
<1>12. CASE p \notin l.blocks
  <2>1. p # pre
    <3>1. Targets(succ, pre) = {l.header}
      BY <1>6, OneTarget
    <3>2. QED
      BY <1>4, <1>8, <1>10, <3>1
  <2>2. p \in K /\ succ'[p] = succ[p]
    BY <1>4, <1>6, <1>9, <1>10, <1>12, <2>1
  <2>3. J \in Targets(succ', p)
    BY <1>10, <2>2 DEF Targets
  <2>4. p \in predecessors(succ', J)
    BY <1>4, <1>10, <2>3 DEF predecessors, IsGraph
  <2>5. QED
    BY <1>9, <2>2, <2>4
<1>13. QED
  BY <1>11, <1>12

\* No PHI breaks: the header's entry is there, and another one.
LEMMA NoBreak ==
  ASSUME FlowInv, PhiInv, RepairInv, RepairablePhi, NEW l, Visit(l),
         l \in Innermost(loops), l.blocks \subseteq live, BreakPhi(l)
  PROVE  FALSE
<1> DEFINE J == source.join
           A == ExitEdges(succ, l)
           B == ExitEdges(source.succ, l)
<1>1. /\ ShapeInv /\ EdgesInv /\ RemovalInv /\ pass = "RemoveZeroTripLoop" /\ Exact
      /\ ZeroTrip(l) /\ ExitBlock(succ, l) = J /\ stage = "run"
      /\ l.header \notin IncomingBlocks \/ IncomingBlocks = {l.header}
  BY DEF FlowInv, BreakPhi, Exact, PhiBreaks, RepairsPhi, Visit
<1>2. /\ IsGraph(succ) /\ IsGraph(source.succ) /\ l \in loops /\ Entry \in Blocks
      /\ l.blocks \subseteq Blocks /\ l.blocks \subseteq InSource /\ l.header \in l.blocks
  BY <1>1, StateFacts DEF Innermost
<1>3. PICK pre : Between(l, pre, J)
  BY <1>1, <1>2, ZeroTripFacts
<1>4. PICK z \in l.blocks : J \in Targets(succ, z) /\ J \in Blocks /\ J \notin l.blocks
  BY <1>3 DEF Between
<1>5. J \in live /\ J # NoBlock
  <2>1. z \in Reached(succ, Entry, {})
    BY <1>1, <1>2 DEF RemovalInv
  <2>2. J \in Reached(succ, Entry, {})
    BY <1>2, <1>4, <2>1, ReachedCloses
  <2>3. QED
    BY <1>1, <1>4, <2>2, FunctionsAssumption DEF EdgesInv
<1>6. \A b \in l.blocks : succ[b] = source.succ[b]
  BY <1>1, <1>2, LoopTerminators
<1>7. \A b \in l.blocks : Targets(succ, b) = Targets(source.succ, b)
  BY <1>6 DEF Targets
<1>8. \E t \in Targets(source.succ, z) : t \notin l.blocks
  BY <1>4, <1>7
<1>9. B # {}
  BY <1>2, <1>8, ExitEdgesFacts
<1> DEFINE e == CHOOSE x \in B : TRUE
<1>10. e \in B
  BY <1>9
<1>11. ExitBlock(source.succ, l) = source.succ[e[1]][e[2]] /\ ExitingBlock(source.succ, l) = e[1]
  BY Zenon DEF ExitBlock, ExitingBlock
<1> HIDE DEF e
<1>12. /\ e[1] \in l.blocks /\ source.succ[e[1]][e[2]] \in Targets(source.succ, e[1])
       /\ source.succ[e[1]][e[2]] \notin l.blocks
  BY <1>2, <1>10, ExitEdgesFacts
<1>13. source.succ[e[1]][e[2]] = J
  <2>1. source.succ[e[1]][e[2]] \in Targets(succ, e[1])
    BY <1>7, <1>12
  <2>2. QED
    BY <1>3, <1>12, <2>1 DEF Between
<1>14. e[1] = l.header
  BY <1>2, <1>5, <1>9, <1>11, <1>13 DEF RepairablePhi
<1>15. l.header \in predecessors(succ, J)
  BY <1>2, <1>7, <1>12, <1>13, <1>14 DEF predecessors, IsGraph
<1>16. IncomingBlocks = predecessors(succ, J)
  BY <1>1, <1>5 DEF PhiInv, PhiFacts
<1>17. PICK p \in predecessors(succ, J) : p # l.header
  BY <1>1, <1>2, <1>5, <1>9 DEF RepairInv
<1>18. QED
  BY <1>1, <1>15, <1>16, <1>17

\* What a step that takes nothing away does to the values.
LEMMA SameValues ==
  ASSUME FlowInv, ValueInv, UNCHANGED <<pass, source, loops, live, succ, operand, phi>>
  PROVE  OperandInv' /\ JoinInv' /\ RepairInv' /\ PhiFacts' = PhiFacts
<1>1. /\ pass' = pass /\ source' = source /\ loops' = loops /\ live' = live /\ succ' = succ
      /\ operand' = operand /\ phi' = phi
  OBVIOUS
<1>2. /\ Exact' = Exact /\ RepairablePhi' = RepairablePhi /\ Followed' = Followed
      /\ Incoming(source, loops)' = Incoming(source, loops)
  BY <1>1, SameSource
<1>3. OperandInv' /\ JoinInv'
  BY <1>1 DEF ValueInv, OperandInv, JoinInv
<1>4. RepairInv'
  BY <1>1, <1>2 DEF ValueInv, RepairInv
<1>5. PhiFacts' = PhiFacts
  BY <1>1, <1>2 DEF PhiFacts, IncomingBlocks
<1>6. QED
  BY <1>3, <1>4, <1>5

\* At the start the PHI has its entries from the source.
LEMMA InitPhi ==
  ASSUME Init, ShapeInv, source.join \in live
  PROVE  PhiFacts
<1>1. /\ source.join \in Blocks /\ source.join # NoBlock /\ phi = Incoming(source, loops)
      /\ live = Blocks /\ succ = source.succ
  BY FunctionsAssumption DEF Init
<1>2. PICK g : IsFollowed(g)
  BY <1>1, FollowedExists
<1>3. /\ g \in loops /\ g.header = source.header /\ Followed = g.blocks
      /\ \A m \in loops : m.header = source.header => m = g
      /\ g.header \in Blocks
  BY <1>2, StateFacts DEF IsFollowed
<1> DEFINE c == CHOOSE l \in loops : l.header = source.header
           P == predecessors(source.succ, source.join)
<1>4. c = g
  BY <1>3
<1>5. phi = {<<p, IF p \in c.blocks THEN source.of ELSE "const">> : p \in P}
  BY <1>1, Zenon DEF Incoming
<1> HIDE DEF c, P
<1>6. \A x : x \in phi <=>
         \E p \in P : x = <<p, IF p \in g.blocks THEN source.of ELSE "const">>
  BY <1>4, <1>5
<1>7. \A x \in phi : /\ x[1] \in P
                     /\ x[2] = IF x[1] \in g.blocks THEN source.of ELSE "const"
                     /\ x = <<x[1], x[2]>>
  BY <1>6
<1>8. IncomingBlocks = P
  <2>1. ASSUME NEW p \in P PROVE \E x \in phi : x[1] = p
    <3> DEFINE v == IF p \in g.blocks THEN source.of ELSE "const"
    <3>1. <<p, v>> \in phi
      BY <1>6
    <3> HIDE DEF v
    <3>2. QED
      BY <3>1
  <2>2. QED
    BY <1>7, <2>1 DEF IncomingBlocks
<1>9. \A x, y \in phi : x[1] = y[1] => x = y
  <2>1. ASSUME NEW x \in phi, NEW y \in phi, x[1] = y[1] PROVE x = y
    <3>1. x = <<x[1], x[2]>> /\ y = <<y[1], y[2]>> /\ x[2] = y[2]
      BY <1>7, <2>1
    <3>2. QED
      BY <2>1, <3>1
  <2>2. QED
    BY <2>1
<1>10. \A p \in phi : \E q \in Incoming(source, loops) : OnExit(p[2]) = OnExit(q[2])
  BY <1>1
<1>11. source.header \in live
  BY <1>1, <1>3
<1>12. source.of = "const" => \A p \in phi : p[2] = "const"
  BY <1>7
<1>13. source.of = "iv" => \A p \in phi :
         /\ p[2] \in {"const", "iv", "init"}
         /\ p[2] = "iv" <=> p[1] \in Followed
  BY <1>3, <1>7
<1>14. IncomingBlocks = predecessors(succ, source.join)
  BY <1>1, <1>8 DEF P
<1>15. QED
  BY <1>9, <1>10, <1>11, <1>12, <1>13, <1>14 DEF PhiFacts

\* At the start the values are those of the source.
LEMMA InitValue == ASSUME Init PROVE ValueInv
<1>1. ShapeInv
  BY InitFlow DEF FlowInv
<1>2. /\ live = Blocks /\ succ = source.succ /\ operand = source.of /\ stage = "run"
  BY DEF Init
<1>3. source.of # "const" \/ source.join # NoBlock => source.header \in live
  <2>1. ASSUME source.of # "const" \/ source.join # NoBlock PROVE source.header \in live
    <3>1. PICK g : IsFollowed(g)
      BY <1>1, <2>1, FollowedExists
    <3>2. QED
      BY <1>1, <1>2, <3>1, StateFacts DEF IsFollowed
  <2>2. QED
    BY <2>1
<1>4. source.join \in live => source.join # NoBlock
  BY <1>2, FunctionsAssumption
<1>5. OperandInv
  BY <1>2, <1>3 DEF OperandInv
<1>6. PhiInv
  BY <1>1, InitPhi DEF PhiInv
<1>7. JoinInv
  BY <1>3, <1>4 DEF JoinInv
<1>8. RepairInv
  BY <1>2, <1>4 DEF RepairInv, RepairablePhi
<1>9. PassDefined
  BY <1>2 DEF PassDefined
<1>10. QED
  BY <1>5, <1>6, <1>7, <1>8, <1>9 DEF ValueInv

\* Visits that leave the function as it is, and what would break one.
LEMMA SkipValue ==
  ASSUME FlowInv, ValueInv, NEW l, Visit(l), UNCHANGED <<live, succ, operand, phi>>,
         \/ SkipLoop(l)
         \/ stage' = "undefined" /\ BreakPhi(l)
              /\ l \in Innermost(loops) /\ l.blocks \subseteq live
         \/ stage' = "undefined" /\ ~ l.blocks \subseteq live /\ l \in Innermost(loops)
  PROVE  ValueInv'
<1>1. UNCHANGED <<pass, source, loops, live, succ, operand, phi>> /\ stage = "run"
  BY DEF Visit
<1>2. OperandInv' /\ JoinInv' /\ RepairInv' /\ PhiFacts' = PhiFacts
  BY <1>1, SameValues
<1>3. PhiInv'
  <2>1. stage' = "undefined" \/ stage' = stage
    BY DEF SkipLoop
  <2>2. QED
    BY <1>1, <1>2, <2>1 DEF ValueInv, PhiInv
<1>4. PassDefined'
  <2>1. /\ pass' = pass /\ SingleExits' = SingleExits /\ RepairablePhi' = RepairablePhi
    BY <1>1, SameSource
  <2>2. SUFFICES ASSUME pass = "RemoveTrivialLoop" => SingleExits, RepairablePhi,
                        stage' = "undefined"
                 PROVE  FALSE
    BY <2>1 DEF PassDefined
  <2>3. CASE SkipLoop(l)
    BY <1>1, <2>2, <2>3 DEF SkipLoop
  <2>4. CASE BreakPhi(l) /\ l \in Innermost(loops) /\ l.blocks \subseteq live
    BY <2>2, <2>4, NoBreak DEF ValueInv
  <2>5. CASE ~ l.blocks \subseteq live /\ l \in Innermost(loops)
    BY <2>2, <2>5 DEF FlowInv, RemovalInv, Exact, Visit, ShapeInv, TypeOK, Passes
  <2>6. QED
    BY <2>3, <2>4, <2>5
<1>5. QED
  BY <1>2, <1>3, <1>4 DEF ValueInv

\* Every step keeps what the values need.
LEMMA NextValue == ASSUME FlowInv, ValueInv, [Next]_vars PROVE ValueInv'
<1>1. CASE VisitLoop
  <2>1. PICK l : /\ Visit(l)
                 /\ \/ /\ UNCHANGED <<live, succ, operand, phi>>
                       /\ \/ SkipLoop(l)
                          \/ stage' = "undefined" /\ BreakPhi(l)
                               /\ l \in Innermost(loops) /\ l.blocks \subseteq live
                          \/ stage' = "undefined" /\ ~ l.blocks \subseteq live
                               /\ l \in Innermost(loops)
                    \/ l \in Innermost(loops) /\ l.blocks \subseteq live /\ CutLoop(l)
                    \/ l \in Innermost(loops) /\ l.blocks \subseteq live /\ BypassLoop(l)
    BY <1>1, VisitCases
  <2>2. ASSUME stage' = stage PROVE PassDefined'
    BY <2>1, <2>2, SameSource DEF Visit, ValueInv, PassDefined
  <2>3. CASE l \in Innermost(loops) /\ l.blocks \subseteq live /\ CutLoop(l)
    <3>1. pass' = "RemoveTrivialLoop" /\ stage' = stage
      BY <2>1, <2>3 DEF CutLoop, Visit
    <3>2. JoinInv'
      BY <3>1 DEF JoinInv
    <3>3. OperandInv' /\ PhiInv' /\ RepairInv'
      BY <2>1, <2>3, CutOperand, CutPhi, CutRepair DEF ValueInv
    <3>4. QED
      BY <2>2, <3>1, <3>2, <3>3 DEF ValueInv
  <2>4. CASE l \in Innermost(loops) /\ l.blocks \subseteq live /\ BypassLoop(l)
    <3>1. stage' = stage
      BY <2>4 DEF BypassLoop
    <3>2. OperandInv' /\ PhiInv' /\ JoinInv' /\ RepairInv'
      BY <2>1, <2>4, BypassOperand, BypassPhi, BypassJoin, BypassRepair DEF ValueInv
    <3>3. QED
      BY <2>2, <3>1, <3>2 DEF ValueInv
  <2>5. QED
    BY <2>1, <2>3, <2>4, SkipValue
<1>2. CASE EndPass \/ UNCHANGED vars
  <2>1. /\ UNCHANGED <<pass, source, loops, live, succ, operand, phi>>
        /\ stage' = stage \/ (stage = "run" /\ stage' = "done")
    BY <1>2 DEF EndPass, vars
  <2>2. OperandInv' /\ JoinInv' /\ RepairInv' /\ PhiFacts' = PhiFacts
    BY <2>1, SameValues
  <2>3. PhiInv'
    BY <2>1, <2>2 DEF ValueInv, PhiInv
  <2>4. PassDefined'
    BY <2>1, SameSource DEF ValueInv, PassDefined
  <2>5. QED
    BY <2>2, <2>3, <2>4 DEF ValueInv
<1>3. QED
  BY <1>1, <1>2 DEF Next

\* The values' part of the invariant holds in every behaviour.
LEMMA ValueInvariant == Spec => []ValueInv
<1>1. Init => ValueInv
  BY InitValue
<1>2. FlowInv /\ ValueInv /\ [Next]_vars => ValueInv'
  BY NextValue
<1>3. QED
  BY <1>1, <1>2, FlowInvariantHolds, PTL DEF Spec

\* Behind the loops every use and every PHI has the value it had in the source,
\* and neither pass looks at what it has deleted, for every function and in
\* every order of its loops.
THEOREM ValuesAreKept == Spec => []ValuesKept
<1>1. ASSUME ValueInv PROVE ValueKept
  <2>1. OperandInv
    BY <1>1 DEF ValueInv
  <2>2. QED
    BY <2>1 DEF OperandInv, ValueKept, OnExit
<1>2. ASSUME ValueInv PROVE PhiKept
  <2>1. SUFFICES ASSUME source.join \in live, stage # "undefined"
                 PROVE  /\ IncomingBlocks = predecessors(succ, source.join)
                        /\ \A p, q \in phi : p[1] = q[1] => p = q
                        /\ source.of # "body" =>
                             {OnExit(p[2]) : p \in phi} \subseteq
                               {OnExit(p[2]) : p \in Incoming(source, loops)}
                        /\ \A l \in Removed : \A p \in phi :
                             /\ l.header = source.header /\ source.of = "iv"
                             /\ source.succ[p[1]] = <<l.header>>
                             => p[2] = "init"
    BY DEF PhiKept
  <2>2. PhiFacts
    BY <1>2, <2>1 DEF ValueInv, PhiInv
  <2>3. \A l \in Removed : l.header \notin live
    BY DEF Removed
  <2>4. \A l \in Removed : \A p \in phi :
          /\ l.header = source.header /\ source.of = "iv"
          /\ source.succ[p[1]] = <<l.header>>
          => p[2] = "init"
    BY <2>2, <2>3 DEF PhiFacts
  <2>5. source.of # "body" =>
          {OnExit(p[2]) : p \in phi} \subseteq {OnExit(p[2]) : p \in Incoming(source, loops)}
    BY <2>2 DEF PhiFacts
  <2>6. QED
    BY <2>2, <2>4, <2>5 DEF PhiFacts
<1>3. ValueInv => ValuesKept
  BY <1>1, <1>2 DEF ValuesKept, ValueInv
<1>4. QED
  BY <1>3, ValueInvariant, PTL
=============================================================================
