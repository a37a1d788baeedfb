------------------------ MODULE TrivialBlocks_proofs ------------------------
(***************************************************************************)
(* The block-removing passes keep every route of the function: types,      *)
(* destinations and PHI values, for functions of any size.                 *)
(*                                                                         *)
(* The argument.  Where no cycle of trivial blocks exists, every block has *)
(* a rank that drops along the branch of a trivial block.  Splicing a      *)
(* block out never raises the rank a branch leads to, so no cycle appears, *)
(* and each branch of a block that stays leads to a block of its route in  *)
(* the source: to the end of the route, or to a trivial block with the     *)
(* same end.                                                               *)
(***************************************************************************)
EXTENDS TrivialBlocks, FiniteSetTheorems, WellFoundedInduction, TLAPS

-----------------------------------------------------------------------------
(***************************************************************************)
(* Induction over a set of natural numbers: the library's theorems take an *)
(* operator, which the provers cannot instantiate.                         *)
(***************************************************************************)
\* A set of natural numbers has a least element.
LEMMA LeastNat ==
  ASSUME NEW T, T \subseteq Nat, T # {}
  PROVE  \E x \in T : \A y \in T : x <= y
<1>1. IsWellFoundedOn(OpToRel(<, Nat), Nat)
  BY NatLessThanWellFounded
<1>2. PICK x \in T : \A y \in T : ~(<<y, x>> \in OpToRel(<, Nat))
  BY <1>1, WFMin
<1>3. OpToRel(<, Nat) = {ss \in Nat \X Nat : ss[1] < ss[2]}
  BY Zenon DEF OpToRel
<1> DEFINE Less == {ss \in Nat \X Nat : ss[1] < ss[2]}
<1>4. \A y \in T : <<y, x>> \notin Less
  BY <1>2, <1>3, Zenon
<1>5. \A y \in T : ~(y < x)
  BY <1>4
<1>6. \A y \in T : x <= y
  BY <1>5, x \in Nat
<1>7. QED
  BY <1>6

\* A set with 0 and the successors of its elements has all natural numbers.
LEMMA NatSetInduction ==
  ASSUME NEW P, 0 \in P, \A n \in Nat : n \in P => n + 1 \in P
  PROVE  Nat \subseteq P
<1>1. SUFFICES ASSUME Nat \ P # {} PROVE FALSE
  OBVIOUS
<1>2. PICK x \in Nat \ P : \A y \in Nat \ P : x <= y
  BY <1>1, LeastNat
<1>3. x # 0 /\ x - 1 \in Nat
  BY <1>2
<1>4. x - 1 \in P
  BY <1>2, <1>3
<1>5. x - 1 + 1 = x
  BY <1>2
<1>6. QED
  BY <1>2, <1>3, <1>4, <1>5

\* The same up to a bound.
LEMMA UpTo ==
  ASSUME NEW N \in Nat, NEW P, 0 \in P,
         \A n \in Nat : n < N /\ n \in P => n + 1 \in P
  PROVE  0 .. N \subseteq P
<1> DEFINE Q == {n \in Nat : n <= N => n \in P}
<1>1. 0 \in Q
  OBVIOUS
<1>2. ASSUME NEW n \in Nat, n \in Q PROVE n + 1 \in Q
  BY <1>2
<1> HIDE DEF Q
<1>3. Nat \subseteq Q
  BY <1>1, <1>2, NatSetInduction
<1>4. QED
  BY <1>3 DEF Q

\* f starts with base and goes on by step up to k.
Recursion(f, k, base, step) ==
    /\ \E V : f \in [0 .. k -> V]
    /\ f[0] = base
    /\ \A n \in 0 .. k - 1 : f[n + 1] = step[<<n + 1, f[n]>>]

\* Such a function exists for any first value and any step.
LEMMA RecursionExists ==
  ASSUME NEW N \in Nat, NEW base, NEW step
  PROVE  \E f : Recursion(f, N, base, step)
<1> DEFINE StepsOn(V, f, k) == /\ f \in [0 .. k -> V]
                               /\ f[0] = base
                               /\ \A n \in 0 .. k - 1 : f[n + 1] = step[<<n + 1, f[n]>>]
           P == {k \in Nat : \E V, f : StepsOn(V, f, k)}
<1>1. 0 \in P
  <2> DEFINE first == [n \in 0 .. 0 |-> base]
  <2>1. StepsOn({base}, first, 0)
    OBVIOUS
  <2> HIDE DEF StepsOn, first
  <2>2. QED
    BY <2>1
<1>2. ASSUME NEW k \in Nat, k \in P PROVE k + 1 \in P
  <2>1. PICK V, f : StepsOn(V, f, k)
    BY <1>2
  <2> DEFINE last == step[<<k + 1, f[k]>>]
             W == V \cup {last}
             g == [n \in 0 .. k + 1 |-> IF n = k + 1 THEN last ELSE f[n]]
  <2>2. /\ g \in [0 .. k + 1 -> W]
        /\ g[k + 1] = last
        /\ \A n \in 0 .. k : g[n] = f[n]
    BY <2>1
  <2> HIDE DEF g, W
  <2>3. g[0] = base
    <3>1. 0 \in 0 .. k
      OBVIOUS
    <3>2. QED
      BY <2>1, <2>2, <3>1, Zenon
  <2>4. ASSUME NEW n \in 0 .. k PROVE g[n + 1] = step[<<n + 1, g[n]>>]
    <3>1. CASE n = k
      BY <2>2, <3>1
    <3>2. CASE n # k
      <4>1. n \in 0 .. k - 1 /\ n + 1 \in 0 .. k
        BY <3>2
      <4>2. QED
        BY <2>1, <2>2, <4>1
    <3>3. QED
      BY <3>1, <3>2
  <2>5. StepsOn(W, g, k + 1)
    <3>1. k + 1 - 1 = k
      OBVIOUS
    <3>2. QED
      BY <2>2, <2>3, <2>4, <3>1
  <2> HIDE DEF StepsOn
  <2>6. QED
    BY <2>5
<1> HIDE DEF P
<1>3. Nat \subseteq P
  BY <1>1, <1>2, NatSetInduction
<1>4. PICK V, f : StepsOn(V, f, N)
  BY <1>3 DEF P
<1>5. QED
  BY <1>4, Zenon DEF Recursion

-----------------------------------------------------------------------------
\* The blocks of "empty" a route goes on from.
Going(s, empty) == {x \in empty : s[x] # <<>>}

\* One step of a route.
Move(s, empty, last) ==
    IF last[2] \in Going(s, empty) THEN <<last[2], s[last[2]][1]>> ELSE last

\* r drops along the branches of the blocks a route goes on from.
Ranked(s, empty, r) ==
    /\ r \in [Blocks -> 0 .. Len(Layout) + 1]
    /\ \A x \in Going(s, empty) : r[s[x][1]] < r[x]

\* What phi takes from block b.
Taken(pairs, b) == {p[2] : p \in {x \in pairs : x[1] = b}}

-----------------------------------------------------------------------------
\* What the passes never disturb, on any function: a block keeps the number
\* of its successors until it is removed, only candidates are removed, each
\* once, and those not yet removed are still to come.
ShapeInv ==
    /\ TypeOK
    /\ Blocks \ Forwarders \subseteq live
    /\ \A b \in live : Len(succ[b]) = Len(source.succ[b])
    /\ \A b \in Blocks \ live : succ[b] = <<>>
    /\ \A b \in Blocks : \A i \in DOMAIN succ[b] : succ[b][i] # Entry
    /\ \A b \in source.empty : phi[b] = {}
    /\ \A i, j \in DOMAIN todo : todo[i] = todo[j] => i = j
    /\ stage = "collect" =>
            live = Blocks /\ succ = source.succ /\ phi = source.phi
    /\ stage = "remove" /\ pass = "RemoveTrivialBlock" =>
            Range(todo) \subseteq live \cap Forwarders
    /\ stage \in {"remove", "done"} => live \cap Forwarders \subseteq Range(todo)
    /\ stage = "done" => todo = <<>>

\* The rank a branch leads to has not grown.
RankInv ==
    \E r \in [Blocks -> 0 .. Len(Layout) + 1] :
        /\ Ranked(source.succ, Forwarders, r)
        /\ \A b \in live : \A i \in DOMAIN succ[b] :
                r[succ[b][i]] <= r[source.succ[b][i]]

\* Where the route of b's i-th branch ends in the source.
End(b, i) == LastEdge(source.succ, Forwarders, b, i)[2]

\* A branch leads to the end of its route in the source, or to a trivial
\* block whose route ends there.
RouteInv ==
    \A b \in live : \A i \in DOMAIN succ[b] :
        /\ succ[b][i] \in live
        /\ succ[b][i] \in Forwarders => End(succ[b][i], 1) = End(b, i)
        /\ succ[b][i] \notin Forwarders => End(b, i) = succ[b][i]

\* The block a route of function g ends in and what its PHI selects.
Lands(g, empty, b, i) ==
    LET last == LastEdge(g.succ, empty, b, i)
    IN <<last[2], Taken(g.phi[last[2]], last[1])>>

\* The same as RouteInv with what the PHI at the end selects.
LandingInv ==
    \A b \in live : \A i \in DOMAIN succ[b] :
        /\ succ[b][i] \in Forwarders =>
                Lands(source, Forwarders, succ[b][i], 1)
                    = Lands(source, Forwarders, b, i)
        /\ succ[b][i] \notin Forwarders =>
                Lands(source, Forwarders, b, i)
                    = <<succ[b][i], Taken(phi[succ[b][i]], b)>>

\* The inductive invariant.
FlowInv ==
    /\ ShapeInv
    /\ NoEmptyLoop => RankInv /\ RouteInv
    /\ NoEmptyLoop /\ pass = "RemoveTrivialBlock" => PhisMatchPredecessors
    /\ NoEmptyLoop /\ NoForkedPhi /\ pass = "RemoveTrivialBlock" => LandingInv

-----------------------------------------------------------------------------
(***************************************************************************)
(* Routes in any graph.                                                    *)
(***************************************************************************)
\* There is an entry, so the layout has at least one block.
LEMMA LayoutFacts == Len(Layout) \in Nat \ {0} /\ Layout \in Seq(Blocks) /\ Entry \in Blocks
<1>1. Layout \in Seq(Blocks) /\ Layout # <<>>
  BY LayoutAssumption
<1>2. Len(Layout) \in Nat \ {0} /\ DOMAIN Layout = 1 .. Len(Layout)
  BY <1>1
<1>3. Layout[1] \in Blocks
  BY <1>1, <1>2
<1>4. QED
  BY <1>1, <1>2, <1>3 DEF Entry

\* A route's edges, one by one.
IsRoute(s, empty, b, i, edge) ==
    /\ edge \in [0 .. Len(Layout) -> Blocks \X Blocks]
    /\ edge[0] = <<b, s[b][i]>>
    /\ \A n \in 0 .. Len(Layout) - 1 : edge[n + 1] = Move(s, empty, edge[n])
    /\ LastEdge(s, empty, b, i) = edge[Len(Layout)]

\* A step stays among the blocks.
LEMMA MoveType ==
  ASSUME NEW s \in [Blocks -> Seq(Blocks)], NEW empty, NEW last \in Blocks \X Blocks
  PROVE  Move(s, empty, last) \in Blocks \X Blocks
<1>1. CASE last[2] \in Going(s, empty)
  <2>1. s[last[2]] \in Seq(Blocks) /\ s[last[2]] # <<>>
    BY <1>1 DEF Going
  <2>2. s[last[2]][1] \in Blocks
    BY <2>1
  <2>3. QED
    BY <1>1, <2>2 DEF Move
<1>2. CASE last[2] \notin Going(s, empty)
  BY <1>2 DEF Move
<1>3. QED
  BY <1>1, <1>2

\* LastEdge is the end of such a route.
LEMMA RouteExists ==
  ASSUME NEW s \in [Blocks -> Seq(Blocks)], NEW empty,
         NEW b \in Blocks, NEW i \in DOMAIN s[b]
  PROVE  \E edge : IsRoute(s, empty, b, i, edge)
<1> DEFINE N == Len(Layout)
           first == <<b, s[b][i]>>
           step == [p \in (1 .. N) \X (Blocks \X Blocks) |-> Move(s, empty, p[2])]
           Unfolds(f) == f = [n \in 0 .. N |->
                                IF n = 0 THEN first ELSE Move(s, empty, f[n - 1])]
<1>1. N \in Nat \ {0}
  BY LayoutFacts
<1>2. first \in Blocks \X Blocks
  <2>1. s[b] \in Seq(Blocks)
    OBVIOUS
  <2>2. s[b][i] \in Blocks
    BY <2>1
  <2>3. QED
    BY <2>2
<1>3. PICK f : Recursion(f, N, first, step)
  <2> HIDE DEF step, first
  <2>1. QED
    BY <1>1, RecursionExists
<1>3a. f[0] = first /\ \E V : f \in [0 .. N -> V]
  <2> HIDE DEF step, first
  <2>1. QED
    BY <1>3 DEF Recursion
<1>4. \A n \in 1 .. N : f[n] = step[<<n, f[n - 1]>>]
  <2> HIDE DEF step, first, N
  <2>1. \A n \in 1 .. N : n - 1 \in 0 .. N - 1 /\ n - 1 + 1 = n
    BY <1>1
  <2>2. QED
    BY <1>3, <2>1 DEF Recursion
<1>5. ASSUME NEW n \in 1 .. N, f[n - 1] \in Blocks \X Blocks
      PROVE  f[n] = Move(s, empty, f[n - 1])
  <2> DEFINE p == <<n, f[n - 1]>>
  <2>1. p \in (1 .. N) \X (Blocks \X Blocks) /\ p[2] = f[n - 1]
    BY <1>5
  <2> HIDE DEF p
  <2>2. step[p] = Move(s, empty, p[2])
    BY <2>1
  <2> HIDE DEF step
  <2>3. QED
    BY <1>4, <2>1, <2>2 DEF p
<1> HIDE DEF step, first
<1>6. 0 .. N \subseteq {n \in 0 .. N : f[n] \in Blocks \X Blocks}
  <2> DEFINE P == {n \in 0 .. N : f[n] \in Blocks \X Blocks}
  <2>1. 0 \in P
    BY <1>1, <1>2, <1>3a
  <2>2. ASSUME NEW n \in Nat, n < N, n \in P PROVE n + 1 \in P
    <3>1. n + 1 \in 1 .. N /\ n + 1 - 1 = n
      BY <1>1, <2>2
    <3>2. f[n] \in Blocks \X Blocks
      BY <2>2
    <3>3. f[n + 1] = Move(s, empty, f[n])
      BY <1>5, <3>1, <3>2
    <3>4. f[n + 1] \in Blocks \X Blocks
      BY <3>2, <3>3, MoveType
    <3>5. QED
      BY <3>1, <3>4
  <2>3. 0 .. N \subseteq P
    <3> HIDE DEF P
    <3>1. QED
      BY <1>1, <2>1, <2>2, UpTo
  <2>4. QED
    BY <2>3
<1>7. \A n \in 0 .. N : f[n] \in Blocks \X Blocks
  BY <1>6
<1>8. \A n \in 1 .. N : f[n] = Move(s, empty, f[n - 1])
  <2>1. SUFFICES ASSUME NEW n \in 1 .. N PROVE f[n] = Move(s, empty, f[n - 1])
    OBVIOUS
  <2>2. n - 1 \in 0 .. N
    BY <1>1
  <2>3. QED
    BY <1>5, <1>7, <2>2
<1>9. f \in [0 .. N -> Blocks \X Blocks]
  BY <1>3a, <1>7
<1>10. Unfolds(f)
  <2>1. \A n \in 0 .. N : f[n] = IF n = 0 THEN first ELSE Move(s, empty, f[n - 1])
    <3>1. \A n \in 0 .. N : n # 0 => n \in 1 .. N
      BY <1>1
    <3>2. QED
      BY <1>3a, <1>8, <3>1
  <2>2. f = [n \in 0 .. N |-> f[n]]
    BY <1>9
  <2>3. QED
    BY <2>1, <2>2
<1> DEFINE g == CHOOSE h : Unfolds(h)
<1>11. Unfolds(g)
  <2> HIDE DEF Unfolds
  <2>1. QED
    BY <1>10
<1>12. LastEdge(s, empty, b, i) = g[N]
  <2>1. \A h, n : Move(s, empty, h[n - 1]) =
             LET last == h[n - 1]
             IN IF last[2] \in empty /\ s[last[2]] # <<>>
                  THEN <<last[2], s[last[2]][1]>> ELSE last
    BY DEF Move, Going
  <2>2. QED
    BY Zenon DEF LastEdge, first, Move, Going
<1> HIDE DEF g
<1>13. g = f
  <2>1. g[0] = first /\ \A n \in 1 .. N : g[n] = Move(s, empty, g[n - 1])
    <3> HIDE DEF N
    <3>1. \A n \in 0 .. N : g[n] = IF n = 0 THEN first ELSE Move(s, empty, g[n - 1])
      BY <1>11, Zenon
    <3>2. 0 \in 0 .. N /\ \A n \in 1 .. N : n \in 0 .. N /\ n # 0
      BY <1>1
    <3>3. QED
      BY <3>1, <3>2
  <2> DEFINE P == {n \in 0 .. N : g[n] = f[n]}
  <2>2. 0 \in P
    BY <1>1, <1>3a, <2>1
  <2>3. ASSUME NEW n \in Nat, n < N, n \in P PROVE n + 1 \in P
    <3>1. n + 1 \in 1 .. N /\ n + 1 - 1 = n
      BY <1>1, <2>3
    <3>2. QED
      BY <1>8, <2>1, <2>3, <3>1
  <2>4. 0 .. N \subseteq P
    <3> HIDE DEF P
    <3>1. QED
      BY <1>1, <2>2, <2>3, UpTo
  <2>5. \A n \in 0 .. N : g[n] = f[n]
    BY <2>4
  <2>6. DOMAIN g = 0 .. N /\ g = [n \in 0 .. N |-> g[n]]
    BY <1>11
  <2>7. f = [n \in 0 .. N |-> f[n]]
    BY <1>9
  <2>8. QED
    BY <2>5, <2>6, <2>7
<1>14. \A n \in 0 .. N - 1 : f[n + 1] = Move(s, empty, f[n])
  <2>1. \A n \in 0 .. N - 1 : n + 1 \in 1 .. N /\ n + 1 - 1 = n
    BY <1>1
  <2>2. QED
    BY <1>8, <2>1
<1>15. IsRoute(s, empty, b, i, f)
  BY <1>3a, <1>9, <1>12, <1>13, <1>14 DEF IsRoute, first
<1>16. QED
  BY <1>15

\* A route is determined by the blocks it goes on from.
LEMMA SameGoing ==
  ASSUME NEW s \in [Blocks -> Seq(Blocks)], NEW e1, NEW e2,
         Going(s, e1) = Going(s, e2), NEW b \in Blocks, NEW i \in DOMAIN s[b]
  PROVE  LastEdge(s, e1, b, i) = LastEdge(s, e2, b, i)
<1> DEFINE N == Len(Layout)
<1>1. PICK f : IsRoute(s, e1, b, i, f)
  BY RouteExists
<1>2. PICK g : IsRoute(s, e2, b, i, g)
  BY RouteExists
<1>3. \A last : Move(s, e1, last) = Move(s, e2, last)
  BY DEF Move
<1> DEFINE P == {n \in 0 .. N : f[n] = g[n]}
<1>4. N \in Nat
  BY LayoutFacts
<1>5. 0 \in P
  <2>1. f[0] = <<b, s[b][i]>> /\ g[0] = <<b, s[b][i]>>
    BY <1>1, <1>2 DEF IsRoute
  <2>2. f[0] = g[0]
    BY <2>1, Zenon
  <2>3. 0 \in 0 .. N
    BY <1>4
  <2>4. QED
    BY <2>2, <2>3
<1>6. ASSUME NEW n \in Nat, n < N, n \in P PROVE n + 1 \in P
  <2>1. n \in 0 .. N - 1 /\ n + 1 \in 0 .. N
    BY <1>4, <1>6
  <2>2. QED
    BY <1>1, <1>2, <1>3, <1>6, <2>1 DEF IsRoute
<1>7. 0 .. N \subseteq P
  <2> HIDE DEF P
  <2>1. QED
    BY <1>4, <1>5, <1>6, UpTo
<1>8. f[N] = g[N]
  BY <1>4, <1>7
<1>9. QED
  BY <1>1, <1>2, <1>8 DEF IsRoute

\* Once a route stops, it stays where it is.
LEMMA RouteStays ==
  ASSUME NEW s, NEW empty, NEW b, NEW i, NEW edge, IsRoute(s, empty, b, i, edge),
         NEW k \in 0 .. Len(Layout), edge[k][2] \notin Going(s, empty)
  PROVE  LastEdge(s, empty, b, i) = edge[k]
<1> DEFINE N == Len(Layout)
           P == {n \in 0 .. N : n >= k => edge[n] = edge[k]}
<1>1. N \in Nat
  BY LayoutFacts
<1>2. 0 \in P
  BY <1>1
<1>3. ASSUME NEW n \in Nat, n < N, n \in P PROVE n + 1 \in P
  <2>1. n \in 0 .. N - 1 /\ n + 1 \in 0 .. N
    BY <1>1, <1>3
  <2>2. CASE n >= k
    <3>1. edge[n] = edge[k]
      BY <1>3, <2>2
    <3>2. edge[n + 1] = Move(s, empty, edge[n])
      BY <2>1 DEF IsRoute
    <3>3. edge[n + 1] = edge[k]
      BY <3>1, <3>2 DEF Move
    <3>4. QED
      BY <2>1, <3>3
  <2>3. CASE ~(n >= k)
    BY <2>1, <2>3
  <2>4. QED
    BY <2>2, <2>3
<1>4. 0 .. N \subseteq P
  <2> HIDE DEF P
  <2>1. QED
    BY <1>1, <1>2, <1>3, UpTo
<1>5. edge[N] = edge[k]
  BY <1>1, <1>4
<1>6. QED
  BY <1>5 DEF IsRoute

\* A branch to a block the route does not go on from is the route.
LEMMA RouteBase ==
  ASSUME NEW s \in [Blocks -> Seq(Blocks)], NEW empty,
         NEW b \in Blocks, NEW i \in DOMAIN s[b], s[b][i] \notin Going(s, empty)
  PROVE  LastEdge(s, empty, b, i) = <<b, s[b][i]>>
<1>1. PICK f : IsRoute(s, empty, b, i, f)
  BY RouteExists
<1>2. f[0] = <<b, s[b][i]>>
  BY <1>1 DEF IsRoute
<1>3. f[0][2] \notin Going(s, empty)
  BY <1>2
<1>4. 0 \in 0 .. Len(Layout)
  BY LayoutFacts
<1>5. LastEdge(s, empty, b, i) = f[0]
  <2>1. \A k \in 0 .. Len(Layout) :
            f[k][2] \notin Going(s, empty) => LastEdge(s, empty, b, i) = f[k]
    BY <1>1, RouteStays
  <2>2. QED
    BY <1>3, <1>4, <2>1, Zenon
<1>6. QED
  BY <1>2, <1>5

\* A graph has no more blocks than the layout.
LEMMA FewBlocks ==
  ASSUME NEW p \in [0 .. Len(Layout) -> Blocks]
  PROVE  \E x, y \in 0 .. Len(Layout) : x # y /\ p[x] = p[y]
<1> DEFINE N == Len(Layout)
           f == [n \in 0 .. N |-> CHOOSE j \in 1 .. N : Layout[j] = p[n]]
<1>1. N \in Nat /\ DOMAIN Layout = 1 .. N
  BY LayoutFacts
<1>2. \A n \in 0 .. N : \E j \in 1 .. N : Layout[j] = p[n]
  BY <1>1 DEF Blocks, Range
<1>3. \A n \in 0 .. N : f[n] \in 1 .. N /\ Layout[f[n]] = p[n]
  BY <1>2
<1>4. f \in [0 .. N -> 1 .. N]
  BY <1>3
<1>5. /\ IsFiniteSet(0 .. N) /\ Cardinality(0 .. N) = N + 1
      /\ IsFiniteSet(1 .. N) /\ Cardinality(1 .. N) = N
  BY <1>1, FS_Interval
<1> HIDE DEF f
<1>6. \E x, y \in 0 .. N : x # y /\ f[x] = f[y]
  <2>1. Cardinality(1 .. N) < Cardinality(0 .. N)
    BY <1>1, <1>5
  <2>2. QED
    BY <1>4, <1>5, <2>1, FS_PigeonHole
<1>7. QED
  BY <1>3, <1>6

\* Where ranks drop, every route stops.
LEMMA RankedStops ==
  ASSUME NEW s \in [Blocks -> Seq(Blocks)], NEW empty, NEW r, Ranked(s, empty, r),
         NEW b \in Blocks, NEW i \in DOMAIN s[b]
  PROVE  LastEdge(s, empty, b, i)[2] \notin Going(s, empty)
<1> DEFINE N == Len(Layout)
<1>1. N \in Nat
  BY LayoutFacts
<1>2. PICK f : IsRoute(s, empty, b, i, f)
  BY RouteExists
<1>3. SUFFICES ASSUME LastEdge(s, empty, b, i)[2] \in Going(s, empty) PROVE FALSE
  OBVIOUS
<1>4. \A n \in 0 .. N : f[n][2] \in Going(s, empty)
  BY <1>2, <1>3, RouteStays
<1> DEFINE p == [n \in 0 .. N |-> f[n][2]]
<1>5. p \in [0 .. N -> Blocks]
  <2>1. \A n \in 0 .. N : f[n] \in Blocks \X Blocks
    BY <1>2 DEF IsRoute
  <2>2. QED
    BY <2>1
<1>6. \A n \in 0 .. N : p[n] \in Going(s, empty)
  BY <1>4
<1>7. ASSUME NEW n \in 0 .. N - 1 PROVE r[p[n + 1]] < r[p[n]]
  <2>1. n \in 0 .. N /\ n + 1 \in 0 .. N
    BY <1>1
  <2>2. f[n + 1] = Move(s, empty, f[n]) /\ f[n][2] \in Going(s, empty)
    BY <1>2, <1>4, <2>1 DEF IsRoute
  <2>3. f[n + 1][2] = s[f[n][2]][1]
    BY <2>2 DEF Move
  <2>4. p[n + 1] = s[p[n]][1] /\ p[n] \in Going(s, empty)
    BY <1>6, <2>1, <2>3
  <2> HIDE DEF p
  <2>5. QED
    BY <2>4 DEF Ranked
<1> HIDE DEF p
<1>8. \A n \in 0 .. N : r[p[n]] \in Int
  <2>1. r \in [Blocks -> 0 .. N + 1]
    BY DEF Ranked
  <2>2. \A x \in Blocks : r[x] \in Int
    BY <1>1, <2>1
  <2>3. QED
    BY <1>5, <2>2
<1> DEFINE P == {n \in 0 .. N : \A m \in 0 .. N : m < n => r[p[n]] < r[p[m]]}
<1>9. 0 \in P
  BY <1>1
<1>10. ASSUME NEW n \in Nat, n < N, n \in P PROVE n + 1 \in P
  <2>1. n \in 0 .. N - 1 /\ n \in 0 .. N /\ n + 1 \in 0 .. N
    BY <1>1, <1>10
  <2>2. r[p[n + 1]] < r[p[n]]
    BY <1>7, <2>1
  <2>3. ASSUME NEW m \in 0 .. N, m < n + 1 PROVE r[p[n + 1]] < r[p[m]]
    <3>1. CASE m = n
      BY <2>2, <3>1
    <3>2. CASE m # n
      <4>1. r[p[n]] < r[p[m]]
        BY <1>10, <2>1, <2>3, <3>2
      <4>2. QED
        BY <1>8, <2>1, <2>2, <4>1
    <3>3. QED
      BY <3>1, <3>2
  <2>4. QED
    BY <2>1, <2>3
<1>11. 0 .. N \subseteq P
  <2> HIDE DEF P
  <2>1. QED
    BY <1>1, <1>9, <1>10, UpTo
<1>12. \A n, m \in 0 .. N : m < n => r[p[n]] < r[p[m]]
  BY <1>11
<1>13. PICK x, y \in 0 .. N : x # y /\ p[x] = p[y]
  BY <1>5, FewBlocks
<1>14. r[p[x]] = r[p[y]] /\ r[p[x]] \in Int
  BY <1>8, <1>13
<1>15. ~(x < y) /\ ~(y < x)
  <2>1. (x < y => r[p[y]] < r[p[x]]) /\ (y < x => r[p[x]] < r[p[y]])
    BY <1>12
  <2>2. QED
    BY <1>14, <2>1
<1>16. QED
  BY <1>1, <1>13, <1>15

\* A branch to a block the route goes on from has the route of its branch.
LEMMA RouteStep ==
  ASSUME NEW s \in [Blocks -> Seq(Blocks)], NEW empty, NEW r, Ranked(s, empty, r),
         NEW b \in Blocks, NEW i \in DOMAIN s[b], s[b][i] \in Going(s, empty)
  PROVE  /\ s[b][i] \in Blocks /\ 1 \in DOMAIN s[s[b][i]]
         /\ LastEdge(s, empty, b, i) = LastEdge(s, empty, s[b][i], 1)
<1> DEFINE N == Len(Layout)
           x == s[b][i]
<1>1. N \in Nat /\ N > 0
  BY LayoutFacts
<1>2. x \in Blocks /\ 1 \in DOMAIN s[x]
  <2>1. s[b] \in Seq(Blocks)
    OBVIOUS
  <2>2. x \in Blocks
    BY <2>1
  <2>3. s[x] \in Seq(Blocks) /\ s[x] # <<>>
    BY <2>2 DEF Going
  <2>4. QED
    BY <2>2, <2>3
<1>3. PICK f : IsRoute(s, empty, b, i, f)
  BY RouteExists
<1>4. PICK g : IsRoute(s, empty, x, 1, g)
  BY <1>2, RouteExists
<1> DEFINE P == {n \in 0 .. N - 1 : f[n + 1] = g[n]}
<1>5. 0 \in P
  <2>1. 0 \in 0 .. N - 1 /\ f[0] = <<b, x>> /\ g[0] = <<x, s[x][1]>>
    BY <1>1, <1>3, <1>4 DEF IsRoute
  <2>2. f[0 + 1] = Move(s, empty, f[0])
    BY <1>3, <2>1 DEF IsRoute
  <2>3. f[0 + 1] = <<x, s[x][1]>>
    BY <2>1, <2>2 DEF Move
  <2>4. QED
    BY <2>1, <2>3
<1>6. ASSUME NEW n \in Nat, n < N - 1, n \in P PROVE n + 1 \in P
  <2>1. n \in 0 .. N - 1 /\ n + 1 \in 0 .. N - 1
    BY <1>1, <1>6
  <2>2. f[n + 1 + 1] = Move(s, empty, f[n + 1]) /\ g[n + 1] = Move(s, empty, g[n])
    BY <1>3, <1>4, <2>1 DEF IsRoute
  <2>3. QED
    BY <1>6, <2>1, <2>2
<1>7. 0 .. N - 1 \subseteq P
  <2>1. N - 1 \in Nat
    BY <1>1
  <2> HIDE DEF P
  <2>2. QED
    BY <1>5, <1>6, <2>1, UpTo
<1>8. f[N] = g[N - 1] /\ N - 1 \in 0 .. N
  <2>1. N - 1 \in 0 .. N - 1 /\ N - 1 + 1 = N
    BY <1>1
  <2>2. N - 1 \in P
    BY <1>7, <2>1
  <2>3. QED
    BY <2>1, <2>2
<1>9. LastEdge(s, empty, b, i) = f[N]
  BY <1>3 DEF IsRoute
<1>10. g[N - 1][2] \notin Going(s, empty)
  BY <1>8, <1>9, RankedStops
<1>11. LastEdge(s, empty, x, 1) = g[N - 1]
  <2> HIDE DEF x
  <2>1. QED
    BY <1>4, <1>8, <1>10, RouteStays
<1>12. QED
  BY <1>2, <1>8, <1>9, <1>11

\* Where no route from a block it goes on from stays in one, ranks exist.
LEMMA RankExists ==
  ASSUME NEW s \in [Blocks -> Seq(Blocks)], NEW empty, empty \subseteq Blocks,
         \A x \in Going(s, empty) : LastEdge(s, empty, x, 1)[2] \notin Going(s, empty)
  PROVE  \E r \in [Blocks -> 0 .. Len(Layout) + 1] : Ranked(s, empty, r)
<1> DEFINE N == Len(Layout)
           G == Going(s, empty)
           Edge(x) == CHOOSE e : IsRoute(s, empty, x, 1, e)
           Stops(x) == {n \in 0 .. N : Edge(x)[n][2] \notin G}
           Least(x) == CHOOSE n \in Stops(x) : \A k \in Stops(x) : n <= k
           r == [x \in Blocks |-> IF x \in G THEN Least(x) + 1 ELSE 0]
<1>1. N \in Nat /\ N > 0
  BY LayoutFacts
<1>2. ASSUME NEW x \in G
      PROVE  /\ x \in Blocks /\ 1 \in DOMAIN s[x]
             /\ IsRoute(s, empty, x, 1, Edge(x))
  <2>1. x \in Blocks /\ s[x] \in Seq(Blocks) /\ s[x] # <<>>
    BY DEF Going
  <2>2. 1 \in DOMAIN s[x]
    BY <2>1
  <2>3. \E e : IsRoute(s, empty, x, 1, e)
    BY <2>1, <2>2, RouteExists
  <2>4. QED
    BY <2>1, <2>2, <2>3
<1>3. ASSUME NEW x \in G
      PROVE  Least(x) \in Stops(x) /\ \A k \in Stops(x) : Least(x) <= k
  <2>1. LastEdge(s, empty, x, 1) = Edge(x)[N]
    BY <1>2 DEF IsRoute
  <2>2. N \in Stops(x)
    <3>1. Edge(x)[N][2] \notin G
      BY <2>1
    <3> HIDE DEF Edge, G
    <3>2. QED
      BY <1>1, <3>1
  <2>3. Stops(x) \subseteq Nat /\ Stops(x) # {}
    <3> HIDE DEF Edge, G
    <3>1. QED
      BY <1>1, <2>2
  <2>4. \E n \in Stops(x) : \A k \in Stops(x) : n <= k
    <3> HIDE DEF Stops
    <3>1. QED
      BY <2>3, LeastNat
  <2> HIDE DEF Stops
  <2>5. QED
    BY <2>4
<1>4. \A x \in G : Least(x) \in 0 .. N
  <2>1. \A x : Stops(x) \subseteq 0 .. N
    OBVIOUS
  <2> HIDE DEF Stops, Least
  <2>2. QED
    BY <1>3, <2>1
<1>5. r \in [Blocks -> 0 .. N + 1]
  <2> HIDE DEF Least, G
  <2>1. \A x \in Blocks : r[x] \in 0 .. N + 1
    BY <1>1, <1>4
  <2>2. QED
    BY <2>1
<1>6. ASSUME NEW x \in G PROVE s[x][1] \in Blocks /\ r[s[x][1]] < r[x]
  <2> DEFINE y == s[x][1]
  <2>1. y \in Blocks
    <3>1. s[x] \in Seq(Blocks) /\ 1 \in DOMAIN s[x]
      BY <1>2
    <3>2. QED
      BY <3>1
  <2>2. r[x] = Least(x) + 1 /\ Least(x) \in 0 .. N
    BY <1>2, <1>4
  <2>3. CASE y \notin G
    <3>1. r[y] = 0
      BY <2>1, <2>3
    <3> HIDE DEF r, y, Least
    <3>2. QED
      BY <2>1, <2>2, <3>1 DEF y
  <2>4. CASE y \in G
    <3>1. Edge(x)[0] = <<x, y>> /\ Edge(y)[0] = <<y, s[y][1]>>
      BY <1>2, <2>4 DEF IsRoute
    <3>2. \A n \in 0 .. N - 1 : /\ Edge(x)[n + 1] = Move(s, empty, Edge(x)[n])
                                /\ Edge(y)[n + 1] = Move(s, empty, Edge(y)[n])
      BY <1>2, <2>4 DEF IsRoute
    <3> HIDE DEF Edge, y
    <3> DEFINE P == {n \in 0 .. N - 1 : Edge(x)[n + 1] = Edge(y)[n]}
    <3>3. 0 \in P
      <4>1. 0 \in 0 .. N - 1
        BY <1>1
      <4>2. Edge(x)[0 + 1] = Move(s, empty, Edge(x)[0])
        BY <3>2, <4>1
      <4>3. Edge(x)[0 + 1] = <<y, s[y][1]>>
        BY <2>4, <3>1, <4>2 DEF Move
      <4>4. QED
        BY <3>1, <4>1, <4>3
    <3>4. ASSUME NEW n \in Nat, n < N - 1, n \in P PROVE n + 1 \in P
      <4>1. n \in 0 .. N - 1 /\ n + 1 \in 0 .. N - 1
        BY <1>1, <3>4
      <4>2. /\ Edge(x)[n + 1 + 1] = Move(s, empty, Edge(x)[n + 1])
            /\ Edge(y)[n + 1] = Move(s, empty, Edge(y)[n])
        BY <3>2, <4>1
      <4>3. QED
        BY <3>4, <4>1, <4>2
    <3>5. 0 .. N - 1 \subseteq P
      <4>1. N - 1 \in Nat
        BY <1>1
      <4> HIDE DEF P
      <4>2. QED
        BY <3>3, <3>4, <4>1, UpTo
    <3>6. Least(x) # 0
      <4>1. 0 \notin Stops(x)
        BY <2>4, <3>1
      <4> HIDE DEF Stops, Least
      <4>2. QED
        BY <1>3, <4>1
    <3> DEFINE m == Least(x) - 1
    <3>7. m \in 0 .. N - 1 /\ m + 1 = Least(x) /\ m \in 0 .. N
      <4> HIDE DEF Least
      <4>1. QED
        BY <1>1, <2>2, <3>6
    <3>8. Edge(x)[Least(x)][2] \notin G
      <4> HIDE DEF Least, Edge, G
      <4>1. QED
        BY <1>3
    <3>9. m \in Stops(y)
      <4> HIDE DEF m, Least, G
      <4>1. Edge(x)[m + 1] = Edge(y)[m]
        BY <3>5, <3>7
      <4>2. QED
        BY <3>7, <3>8, <4>1
    <3>10. Least(y) <= m /\ Least(y) \in 0 .. N
      <4> HIDE DEF Least, Stops, m
      <4>1. QED
        BY <1>3, <1>4, <2>4, <3>9
    <3>11. r[y] = Least(y) + 1
      BY <2>1, <2>4
    <3> HIDE DEF r, Least
    <3>12. QED
      BY <1>1, <2>1, <2>2, <3>7, <3>10, <3>11 DEF y
  <2>5. QED
    BY <2>3, <2>4
<1> HIDE DEF r
<1>7. Ranked(s, empty, r)
  BY <1>5, <1>6 DEF Ranked
<1>8. QED
  BY <1>5, <1>7

-----------------------------------------------------------------------------
(***************************************************************************)
(* The source, the candidates and the current graph.                       *)
(***************************************************************************)
\* A trivial block of the source has one successor, and routes go on there.
LEMMA SourceFacts ==
  ASSUME IsFunction(source)
  PROVE  /\ source.succ \in [Blocks -> Seq(Blocks)]
         /\ source.empty \subseteq Blocks /\ Entry \notin source.empty
         /\ Forwarders \subseteq source.empty
         /\ \A x \in Forwarders : source.succ[x] # <<>> /\ DOMAIN source.succ[x] = {1}
         /\ Going(source.succ, Forwarders) = Forwarders
<1>1. /\ source.succ \in [Blocks -> Seq(Blocks \ {Entry})]
      /\ source.empty \subseteq Blocks /\ Entry \notin source.empty
  BY DEF IsFunction
<1>2. \A x \in Blocks : source.succ[x] \in Seq(Blocks)
  <2>1. SUFFICES ASSUME NEW x \in Blocks PROVE source.succ[x] \in Seq(Blocks)
    OBVIOUS
  <2>2. source.succ[x] \in Seq(Blocks \ {Entry})
    BY <1>1
  <2>3. QED
    BY <2>2
<1>3. source.succ \in [Blocks -> Seq(Blocks)]
  BY <1>1, <1>2
<1>4. Forwarders \subseteq source.empty
  BY DEF Forwarders
<1>5. ASSUME NEW x \in Forwarders
      PROVE  source.succ[x] # <<>> /\ DOMAIN source.succ[x] = {1}
  <2>1. source.succ[x] \in Seq(Blocks) /\ Len(source.succ[x]) = 1
    BY <1>1, <1>2, <1>4 DEF Forwarders
  <2>2. DOMAIN source.succ[x] = 1 .. 1 /\ source.succ[x] # <<>>
    BY <2>1
  <2>3. 1 .. 1 = {1}
    OBVIOUS
  <2>4. QED
    BY <2>2, <2>3
<1>6. Going(source.succ, Forwarders) = Forwarders
  BY <1>5 DEF Going
<1>7. QED
  BY <1>1, <1>3, <1>4, <1>5, <1>6

\* Step by step, what the snapshot of the candidates holds.
IsSnapshot(f) ==
    /\ f[0] = <<>>
    /\ \A n \in 0 .. Len(Layout) - 1 :
          f[n + 1] = IF IsTrivial(Layout[n + 1]) THEN Append(f[n], Layout[n + 1])
                     ELSE f[n]
    /\ Candidates = f[Len(Layout)]

\* The snapshot is made that way.
LEMMA SnapshotExists == \E f : IsSnapshot(f)
<1> DEFINE N == Len(Layout)
           Take(n, c) == IF IsTrivial(Layout[n]) THEN Append(c, Layout[n]) ELSE c
           step == [p \in (1 .. N) \X Seq(Blocks) |-> Take(p[1], p[2])]
           Unfolds(f) == f = [n \in 0 .. N |->
                                IF n = 0 THEN <<>> ELSE Take(n, f[n - 1])]
<1>1. N \in Nat /\ \A n \in 1 .. N : Layout[n] \in Blocks
  BY LayoutFacts
<1>2. PICK f : Recursion(f, N, <<>>, step)
  <2> HIDE DEF step
  <2>1. QED
    BY <1>1, RecursionExists
<1>3. /\ \E V : f \in [0 .. N -> V]
      /\ f[0] = <<>>
      /\ \A n \in 0 .. N - 1 : f[n + 1] = step[<<n + 1, f[n]>>]
  <2> HIDE DEF step
  <2>1. QED
    BY <1>2 DEF Recursion
<1>4. ASSUME NEW n \in 0 .. N - 1, f[n] \in Seq(Blocks)
      PROVE  f[n + 1] = Take(n + 1, f[n]) /\ f[n + 1] \in Seq(Blocks)
  <2> DEFINE p == <<n + 1, f[n]>>
  <2>1. p \in (1 .. N) \X Seq(Blocks) /\ p[1] = n + 1 /\ p[2] = f[n]
    BY <1>1, <1>4
  <2> HIDE DEF p
  <2>2. step[p] = Take(n + 1, f[n])
    BY <2>1
  <2> HIDE DEF step
  <2>3. f[n + 1] = Take(n + 1, f[n])
    BY <1>3, <2>2 DEF p
  <2>4. Layout[n + 1] \in Blocks
    BY <1>1
  <2>5. Take(n + 1, f[n]) \in Seq(Blocks)
    BY <1>4, <2>4
  <2>6. QED
    BY <2>3, <2>5
<1> HIDE DEF step
<1> DEFINE P == {n \in 0 .. N : f[n] \in Seq(Blocks)}
<1>5. 0 \in P
  <2>1. <<>> \in Seq(Blocks)
    OBVIOUS
  <2>2. QED
    BY <1>1, <1>3, <2>1
<1>6. ASSUME NEW n \in Nat, n < N, n \in P PROVE n + 1 \in P
  <2>1. n \in 0 .. N - 1 /\ n + 1 \in 0 .. N
    BY <1>1, <1>6
  <2>2. f[n] \in Seq(Blocks)
    BY <1>6
  <2>3. f[n + 1] \in Seq(Blocks)
    <3> HIDE DEF Take
    <3>1. QED
      BY <1>4, <2>1, <2>2
  <2>4. QED
    BY <2>1, <2>3
<1>7. 0 .. N \subseteq P
  <2> HIDE DEF P
  <2>1. QED
    BY <1>1, <1>5, <1>6, UpTo
<1>8. \A n \in 0 .. N - 1 : f[n + 1] = Take(n + 1, f[n])
  <2> HIDE DEF Take
  <2>1. \A n \in 0 .. N - 1 : f[n] \in Seq(Blocks)
    BY <1>1, <1>7
  <2>2. QED
    BY <1>4, <2>1
<1>9. Unfolds(f)
  <2> HIDE DEF Take
  <2>1. \A n \in 0 .. N : f[n] = IF n = 0 THEN <<>> ELSE Take(n, f[n - 1])
    <3>1. \A n \in 0 .. N : n # 0 => n - 1 \in 0 .. N - 1 /\ n - 1 + 1 = n
      BY <1>1
    <3>2. QED
      BY <1>3, <1>8, <3>1
  <2>2. f = [n \in 0 .. N |-> f[n]]
    BY <1>3
  <2>3. QED
    BY <2>1, <2>2
<1> DEFINE g == CHOOSE h : Unfolds(h)
<1>10. Unfolds(g)
  <2> HIDE DEF Unfolds
  <2>1. QED
    BY <1>9
<1>11. Candidates = g[N]
  BY Zenon DEF Candidates
<1> HIDE DEF g
<1>12. /\ g[0] = <<>>
       /\ \A n \in 0 .. N - 1 : g[n + 1] = Take(n + 1, g[n])
  <2> HIDE DEF Take, N
  <2>1. \A n \in 0 .. N : g[n] = IF n = 0 THEN <<>> ELSE Take(n, g[n - 1])
    BY <1>10, Zenon
  <2>2. /\ 0 \in 0 .. N
        /\ \A n \in 0 .. N - 1 : n + 1 \in 0 .. N /\ n + 1 # 0 /\ n + 1 - 1 = n
    BY <1>1
  <2>3. QED
    BY <2>1, <2>2
<1>13. IsSnapshot(g)
  BY <1>11, <1>12, Zenon DEF IsSnapshot
<1>14. QED
  BY <1>13

\* The snapshot has every trivial block once.
LEMMA CandidateFacts ==
  /\ Candidates \in Seq(Blocks)
  /\ \A i \in DOMAIN Candidates : IsTrivial(Candidates[i])
  /\ \A b \in Blocks : IsTrivial(b) => \E i \in DOMAIN Candidates : Candidates[i] = b
  /\ \A i, j \in DOMAIN Candidates : Candidates[i] = Candidates[j] => i = j
<1> DEFINE N == Len(Layout)
<1>1. /\ N \in Nat /\ DOMAIN Layout = 1 .. N
      /\ \A n \in 1 .. N : Layout[n] \in Blocks
      /\ \A b \in Blocks : \E n \in 1 .. N : Layout[n] = b
  BY LayoutFacts DEF Blocks, Range
<1>2. \A n, m \in 1 .. N : Layout[n] = Layout[m] => n = m
  BY <1>1, LayoutAssumption DEF IsInjective
<1>3. PICK f : IsSnapshot(f)
  BY SnapshotExists
<1> DEFINE Good(c, n) ==
             /\ c \in Seq(Blocks)
             /\ \A i \in DOMAIN c : IsTrivial(c[i])
             /\ \A i \in DOMAIN c : \E k \in 1 .. n : Layout[k] = c[i]
             /\ \A k \in 1 .. n : IsTrivial(Layout[k]) =>
                    \E i \in DOMAIN c : c[i] = Layout[k]
             /\ \A i, j \in DOMAIN c : c[i] = c[j] => i = j
           P == {n \in 0 .. N : Good(f[n], n)}
<1>4. 0 \in P
  <2>1. f[0] = <<>>
    BY <1>3 DEF IsSnapshot
  <2>2. Good(<<>>, 0)
    OBVIOUS
  <2>3. Good(f[0], 0) /\ 0 \in 0 .. N
    BY <1>1, <2>1, <2>2
  <2> HIDE DEF Good
  <2>4. QED
    BY <2>3
<1>5. ASSUME NEW n \in Nat, n < N, n \in P PROVE n + 1 \in P
  <2>1. n \in 0 .. N - 1 /\ n + 1 \in 1 .. N /\ n + 1 \in 0 .. N
    BY <1>1, <1>5
  <2> DEFINE c == f[n]
             b == Layout[n + 1]
             d == Append(c, b)
  <2>2. Good(c, n)
    BY <1>5
  <2>3. b \in Blocks
    BY <1>1, <2>1
  <2>4. f[n + 1] = IF IsTrivial(b) THEN d ELSE c
    BY <1>3, <2>1 DEF IsSnapshot
  <2>5. \A k \in 1 .. n + 1 : k = n + 1 \/ k \in 1 .. n
    OBVIOUS
  <2>6. \A k \in 1 .. n : k \in 1 .. n + 1 /\ k \in 1 .. N /\ k # n + 1
    BY <2>1
  <2>7. CASE ~IsTrivial(b)
    <3>1. Good(c, n + 1)
      <4> HIDE DEF c
      <4>1. QED
        BY <2>2, <2>5, <2>6, <2>7
    <3> HIDE DEF Good
    <3>2. QED
      BY <2>1, <2>4, <2>7, <3>1
  <2>8. CASE IsTrivial(b)
    <3>1. c \in Seq(Blocks)
      BY <2>2
    <3>2. /\ d \in Seq(Blocks) /\ Len(d) = Len(c) + 1 /\ d[Len(c) + 1] = b
          /\ \A i \in DOMAIN c : i \in DOMAIN d /\ d[i] = c[i]
          /\ \A i \in DOMAIN d : i \in DOMAIN c \/ i = Len(c) + 1
          /\ Len(c) + 1 \in DOMAIN d
      <4> HIDE DEF c, b
      <4>1. QED
        BY <2>3, <3>1
    <3>3. \A i \in DOMAIN c : c[i] # b
      <4>1. SUFFICES ASSUME NEW i \in DOMAIN c, c[i] = b PROVE FALSE
        OBVIOUS
      <4>2. PICK k \in 1 .. n : Layout[k] = c[i]
        BY <2>2
      <4>3. QED
        BY <1>2, <2>1, <2>6, <4>1, <4>2
    <3> HIDE DEF c, d, b
    <3>4. Good(d, n + 1)
      <4>1. \A i \in DOMAIN d : IsTrivial(d[i])
        BY <2>2, <2>8, <3>2
      <4>2. \A i \in DOMAIN d : \E k \in 1 .. n + 1 : Layout[k] = d[i]
        <5>1. SUFFICES ASSUME NEW i \in DOMAIN d
                       PROVE  \E k \in 1 .. n + 1 : Layout[k] = d[i]
          OBVIOUS
        <5>2. CASE i \in DOMAIN c
          BY <2>2, <2>6, <3>2, <5>2
        <5>3. CASE i = Len(c) + 1
          <6>1. n + 1 \in 1 .. n + 1 /\ Layout[n + 1] = d[i]
            BY <3>2, <5>3 DEF b
          <6>2. QED
            BY <6>1
        <5>4. QED
          BY <3>2, <5>2, <5>3
      <4>3. \A k \in 1 .. n + 1 : IsTrivial(Layout[k]) =>
                \E i \in DOMAIN d : d[i] = Layout[k]
        <5>1. SUFFICES ASSUME NEW k \in 1 .. n + 1, IsTrivial(Layout[k])
                       PROVE  \E i \in DOMAIN d : d[i] = Layout[k]
          OBVIOUS
        <5>2. CASE k \in 1 .. n
          BY <2>2, <3>2, <5>1, <5>2
        <5>3. CASE k = n + 1
          BY <3>2, <5>3 DEF b
        <5>4. QED
          BY <2>5, <5>2, <5>3
      <4>4. \A i, j \in DOMAIN d : d[i] = d[j] => i = j
        BY <2>2, <3>2, <3>3
      <4>5. QED
        BY <3>2, <4>1, <4>2, <4>3, <4>4
    <3> HIDE DEF Good
    <3>5. QED
      BY <2>1, <2>4, <2>8, <3>4
  <2>9. QED
    BY <2>7, <2>8
<1>6. 0 .. N \subseteq P
  <2> HIDE DEF P
  <2>1. QED
    BY <1>1, <1>4, <1>5, UpTo
<1>7. Good(f[N], N)
  <2> HIDE DEF Good
  <2>1. QED
    BY <1>1, <1>6
<1>8. Candidates = f[N]
  BY <1>3 DEF IsSnapshot
<1>9. Good(Candidates, N)
  <2> HIDE DEF Good
  <2>1. QED
    BY <1>7, <1>8
<1>10. \A b \in Blocks : IsTrivial(b) => \E i \in DOMAIN Candidates : Candidates[i] = b
  BY <1>1, <1>9
<1>11. QED
  BY <1>9, <1>10

\* Ranks and routes of a source without a cycle of trivial blocks.
LEMMA SourceRoutes ==
  ASSUME IsFunction(source), NoEmptyLoop
  PROVE  /\ \E r \in [Blocks -> 0 .. Len(Layout) + 1] :
                Ranked(source.succ, Forwarders, r)
         /\ \A b \in Blocks : \A i \in DOMAIN source.succ[b] :
                /\ source.succ[b][i] \in Blocks
                /\ source.succ[b][i] \in Forwarders =>
                      LastEdge(source.succ, Forwarders, source.succ[b][i], 1)
                         = LastEdge(source.succ, Forwarders, b, i)
                /\ source.succ[b][i] \notin Forwarders =>
                      LastEdge(source.succ, Forwarders, b, i)
                         = <<b, source.succ[b][i]>>
<1> DEFINE S == source.succ
<1>1. /\ S \in [Blocks -> Seq(Blocks)]
      /\ Forwarders \subseteq Blocks
      /\ Going(S, Forwarders) = Forwarders
  BY SourceFacts
<1>2. \A x \in Forwarders : LastEdge(S, Forwarders, x, 1)[2] \notin Forwarders
  BY DEF NoEmptyLoop
<1> HIDE DEF S
<1>3. PICK r \in [Blocks -> 0 .. Len(Layout) + 1] : Ranked(S, Forwarders, r)
  BY <1>1, <1>2, RankExists
<1>4. ASSUME NEW b \in Blocks, NEW i \in DOMAIN S[b]
      PROVE  /\ S[b][i] \in Blocks
             /\ S[b][i] \in Forwarders =>
                   LastEdge(S, Forwarders, S[b][i], 1) = LastEdge(S, Forwarders, b, i)
             /\ S[b][i] \notin Forwarders =>
                   LastEdge(S, Forwarders, b, i) = <<b, S[b][i]>>
  <2>1. S[b][i] \in Blocks
    <3>1. S[b] \in Seq(Blocks)
      BY <1>1
    <3>2. QED
      BY <3>1
  <2>2. CASE S[b][i] \in Forwarders
    BY <1>1, <1>3, <2>1, <2>2, RouteStep
  <2>3. CASE S[b][i] \notin Forwarders
    BY <1>1, <2>1, <2>3, RouteBase
  <2>4. QED
    BY <2>1, <2>2, <2>3
<1>5. QED
  BY <1>3, <1>4 DEF S

\* The invariant holds of the functions the passes find.
LEMMA InitInv == ASSUME Init PROVE FlowInv
<1>1. IsFunction(source) /\ live = Blocks /\ succ = source.succ /\ phi = source.phi
      /\ todo = <<>> /\ stage = "collect" /\ pass \in Passes
  BY LayoutAssumption DEF Init
<1>2. ShapeInv
  <2>1. TypeOK
    <3>1. succ \in [Blocks -> Seq(Blocks)] /\ phi \in [Blocks -> SUBSET (Blocks \X Vals)]
      BY <1>1, SourceFacts DEF IsFunction
    <3>2. QED
      BY <1>1, <3>1 DEF TypeOK
  <2>2. \A b \in source.empty : phi[b] = {}
    BY <1>1 DEF IsFunction
  <2>3. DOMAIN todo = {}
    BY <1>1
  <2>4. ASSUME NEW b \in Blocks, NEW i \in DOMAIN succ[b] PROVE succ[b][i] # Entry
    <3>1. succ[b] \in Seq(Blocks \ {Entry})
      BY <1>1 DEF IsFunction
    <3>2. succ[b][i] \in Blocks \ {Entry}
      BY <3>1
    <3>3. QED
      BY <3>2
  <2>5. QED
    BY <1>1, <2>1, <2>2, <2>3, <2>4 DEF ShapeInv
<1>3. ASSUME NoEmptyLoop PROVE RankInv /\ RouteInv
  <2>1. PICK r \in [Blocks -> 0 .. Len(Layout) + 1] : Ranked(source.succ, Forwarders, r)
    BY <1>1, <1>3, SourceRoutes
  <2>2. \A b \in live : \A i \in DOMAIN succ[b] : source.succ[b][i] \in Blocks
    BY <1>1, <1>3, SourceRoutes
  <2>3. \A x \in Blocks : r[x] <= r[x]
    <3>1. \A x \in Blocks : r[x] \in Int
      BY LayoutFacts
    <3>2. QED
      BY <3>1
  <2>4. RankInv
    BY <1>1, <2>1, <2>2, <2>3 DEF RankInv
  <2>5. ASSUME NEW b \in live, NEW i \in DOMAIN succ[b]
        PROVE  /\ succ[b][i] \in live
               /\ succ[b][i] \in Forwarders => End(succ[b][i], 1) = End(b, i)
               /\ succ[b][i] \notin Forwarders => End(b, i) = succ[b][i]
    <3>1. /\ source.succ[b][i] \in Blocks
          /\ source.succ[b][i] \in Forwarders =>
                LastEdge(source.succ, Forwarders, source.succ[b][i], 1)
                   = LastEdge(source.succ, Forwarders, b, i)
          /\ source.succ[b][i] \notin Forwarders =>
                LastEdge(source.succ, Forwarders, b, i) = <<b, source.succ[b][i]>>
      BY <1>1, <1>3, SourceRoutes
    <3>2. QED
      BY <1>1, <3>1 DEF End
  <2>6. QED
    BY <2>4, <2>5 DEF RouteInv
<1>4. PhisMatchPredecessors
  BY <1>1 DEF PhisMatchPredecessors, IsFunction
<1>5. ASSUME NoEmptyLoop PROVE LandingInv
  <2>1. ASSUME NEW b \in live, NEW i \in DOMAIN succ[b]
        PROVE  /\ succ[b][i] \in Forwarders =>
                     Lands(source, Forwarders, succ[b][i], 1)
                         = Lands(source, Forwarders, b, i)
               /\ succ[b][i] \notin Forwarders =>
                     Lands(source, Forwarders, b, i)
                         = <<succ[b][i], Taken(phi[succ[b][i]], b)>>
    <3>1. /\ source.succ[b][i] \in Blocks
          /\ source.succ[b][i] \in Forwarders =>
                LastEdge(source.succ, Forwarders, source.succ[b][i], 1)
                   = LastEdge(source.succ, Forwarders, b, i)
          /\ source.succ[b][i] \notin Forwarders =>
                LastEdge(source.succ, Forwarders, b, i) = <<b, source.succ[b][i]>>
      BY <1>1, <1>5, SourceRoutes
    <3>2. QED
      BY <1>1, <3>1 DEF Lands
  <2>2. QED
    BY <2>1 DEF LandingInv
<1>6. QED
  BY <1>2, <1>3, <1>4, <1>5 DEF FlowInv

\* What is said of the graph stays true where the graph does.
LEMMA SameFlow ==
  ASSUME UNCHANGED <<source, pass, live, succ, phi>>
  PROVE  /\ Forwarders' = Forwarders
         /\ RankInv' = RankInv
         /\ RouteInv' = RouteInv
         /\ LandingInv' = LandingInv
         /\ PhisMatchPredecessors' = PhisMatchPredecessors
         /\ NoEmptyLoop' = NoEmptyLoop
         /\ NoForkedPhi' = NoForkedPhi
<1>1. Forwarders' = Forwarders
  BY DEF Forwarders
<1>2. RankInv' = RankInv
  BY <1>1 DEF RankInv, Ranked, Going
<1>3. RouteInv' = RouteInv
  BY <1>1 DEF RouteInv, End
<1>4. LandingInv' = LandingInv
  BY <1>1 DEF LandingInv
<1>5. NoEmptyLoop' = NoEmptyLoop
  BY <1>1 DEF NoEmptyLoop
<1>6. PhisMatchPredecessors' = PhisMatchPredecessors
  BY <1>5 DEF PhisMatchPredecessors
<1>7. NoForkedPhi' = NoForkedPhi
  BY <1>1 DEF NoForkedPhi, Landing
<1>8. QED
  BY <1>1, <1>2, <1>3, <1>4, <1>5, <1>6, <1>7

-----------------------------------------------------------------------------
(***************************************************************************)
(* The steps that leave the graph alone.                                   *)
(***************************************************************************)
\* The invariant survives if the part about the work to do does.
LEMMA FlowStays ==
  ASSUME FlowInv, UNCHANGED <<source, pass, live, succ, phi>>, ShapeInv'
  PROVE  FlowInv'
<1>1. pass' = pass
  OBVIOUS
<1>2. QED
  BY <1>1, SameFlow DEF FlowInv

\* The rest of a list without repetitions lacks the first element only.
LEMMA TailFacts ==
  ASSUME NEW t \in Seq(Blocks), t # <<>>,
         \A i, j \in DOMAIN t : t[i] = t[j] => i = j
  PROVE  /\ Head(t) \in Blocks /\ Head(t) \in Range(t)
         /\ Tail(t) \in Seq(Blocks)
         /\ \A i, j \in DOMAIN Tail(t) : Tail(t)[i] = Tail(t)[j] => i = j
         /\ Range(Tail(t)) = Range(t) \ {Head(t)}
<1> DEFINE u == Tail(t)
<1>1. /\ u \in Seq(Blocks) /\ Len(u) = Len(t) - 1 /\ Len(t) \in Nat \ {0}
      /\ \A i \in 1 .. Len(u) : u[i] = t[i + 1]
      /\ DOMAIN t = 1 .. Len(t) /\ DOMAIN u = 1 .. Len(u)
      /\ Head(t) = t[1] /\ 1 \in DOMAIN t /\ t[1] \in Blocks
  OBVIOUS
<1> HIDE DEF u
<1>2. \A i \in DOMAIN u : i + 1 \in DOMAIN t /\ u[i] = t[i + 1] /\ i + 1 # 1
  BY <1>1
<1>3. \A i \in DOMAIN t : i = 1 \/ (i - 1 \in DOMAIN u /\ u[i - 1] = t[i])
  <2>1. SUFFICES ASSUME NEW i \in DOMAIN t, i # 1
                 PROVE  i - 1 \in DOMAIN u /\ u[i - 1] = t[i]
    OBVIOUS
  <2>2. i - 1 \in 1 .. Len(u) /\ i - 1 + 1 = i
    BY <1>1, <2>1
  <2>3. QED
    BY <1>1, <2>2
<1>4. \A i, j \in DOMAIN u : u[i] = u[j] => i = j
  <2>1. SUFFICES ASSUME NEW i \in DOMAIN u, NEW j \in DOMAIN u, u[i] = u[j] PROVE i = j
    OBVIOUS
  <2>2. i + 1 = j + 1
    BY <1>2, <2>1
  <2>3. QED
    BY <1>1, <2>2
<1>5. Range(u) \subseteq Range(t) \ {t[1]}
  BY <1>1, <1>2 DEF Range
<1>6. Range(t) \ {t[1]} \subseteq Range(u)
  BY <1>3 DEF Range
<1>7. Head(t) \in Range(t)
  BY <1>1 DEF Range
<1>8. QED
  BY <1>1, <1>4, <1>5, <1>6, <1>7 DEF u

\* Among the blocks that are left, a candidate is still trivial.
LEMMA StillTrivial ==
  ASSUME ShapeInv, NEW b \in live
  PROVE  IsTrivial(b) <=> b \in Forwarders
<1>1. /\ IsFunction(source) /\ Len(succ[b]) = Len(source.succ[b])
      /\ Entry \notin source.empty
  BY SourceFacts DEF ShapeInv, TypeOK
<1>2. QED
  BY <1>1 DEF IsTrivial, Forwarders

\* The candidates are collected.
LEMMA CollectInv == ASSUME FlowInv, Collect PROVE FlowInv'
<1>1. /\ ShapeInv /\ live = Blocks /\ stage' = "remove" /\ pass \in Passes
      /\ source' = source /\ pass' = pass /\ live' = live
      /\ succ' = succ /\ phi' = phi
  BY DEF FlowInv, ShapeInv, Collect, TypeOK
<1>2. /\ todo' \in Seq(Blocks)
      /\ \A i, j \in DOMAIN todo' : todo'[i] = todo'[j] => i = j
      /\ live \cap Forwarders \subseteq Range(todo')
      /\ pass = "RemoveTrivialBlock" => Range(todo') \subseteq live \cap Forwarders
  <2>1. CASE pass = "RemoveTrivialBlock"
    <3>1. todo' = Candidates
      BY <2>1 DEF Collect
    <3>2. /\ todo' \in Seq(Blocks)
          /\ \A i \in DOMAIN todo' : IsTrivial(todo'[i]) /\ todo'[i] \in Blocks
          /\ \A b \in Blocks : IsTrivial(b) => \E i \in DOMAIN todo' : todo'[i] = b
          /\ \A i, j \in DOMAIN todo' : todo'[i] = todo'[j] => i = j
      BY <3>1, CandidateFacts
    <3>3. Range(todo') = live \cap Forwarders
      BY <1>1, <3>2, StillTrivial DEF Range
    <3>4. QED
      BY <3>2, <3>3
  <2>2. CASE pass # "RemoveTrivialBlock"
    <3>1. todo' = Layout
      BY <2>2 DEF Collect
    <3>2. Layout \in Seq(Blocks) /\ Range(Layout) = Blocks
      BY LayoutFacts DEF Blocks
    <3>3. \A i, j \in DOMAIN Layout : Layout[i] = Layout[j] => i = j
      BY LayoutAssumption DEF IsInjective
    <3>4. QED
      BY <1>1, <2>2, <3>1, <3>2, <3>3
  <2>3. QED
    BY <2>1, <2>2
<1>3. Forwarders' = Forwarders
  BY <1>1, SameFlow
<1>4. TypeOK'
  BY <1>1, <1>2 DEF ShapeInv, TypeOK
<1>5. ShapeInv'
  BY <1>1, <1>2, <1>3, <1>4 DEF ShapeInv
<1>6. QED
  BY <1>1, <1>5, FlowStays

\* A block that stays is passed over.
LEMMA SkipInv == ASSUME FlowInv, SkipBlock PROVE FlowInv'
<1>1. /\ ShapeInv /\ stage = "remove" /\ stage' = "remove"
      /\ pass = "RemoveEmptyBlock" /\ todo # <<>> /\ ~IsTrivial(Head(todo))
      /\ todo' = Tail(todo)
      /\ source' = source /\ pass' = pass /\ live' = live
      /\ succ' = succ /\ phi' = phi
  BY DEF FlowInv, SkipBlock
<1>2. /\ todo \in Seq(Blocks)
      /\ \A i, j \in DOMAIN todo : todo[i] = todo[j] => i = j
      /\ live \cap Forwarders \subseteq Range(todo)
  BY <1>1 DEF ShapeInv, TypeOK
<1>3. /\ todo' \in Seq(Blocks)
      /\ \A i, j \in DOMAIN todo' : todo'[i] = todo'[j] => i = j
      /\ Range(todo') = Range(todo) \ {Head(todo)}
  BY <1>1, <1>2, TailFacts
<1>4. Head(todo) \notin live \cap Forwarders
  BY <1>1, StillTrivial
<1>5. Forwarders' = Forwarders
  BY <1>1, SameFlow
<1>6. TypeOK'
  BY <1>1, <1>3 DEF ShapeInv, TypeOK
<1>7. ShapeInv'
  BY <1>1, <1>2, <1>3, <1>4, <1>5, <1>6 DEF ShapeInv
<1>8. QED
  BY <1>1, <1>7, FlowStays

\* The pass ends.
LEMMA EndPassInv == ASSUME FlowInv, EndPass PROVE FlowInv'
<1>1. /\ ShapeInv /\ stage = "remove" /\ stage' = "done"
      /\ todo = <<>> /\ todo' = todo
      /\ source' = source /\ pass' = pass /\ live' = live
      /\ succ' = succ /\ phi' = phi
  BY DEF FlowInv, EndPass
<1>2. Forwarders' = Forwarders
  BY <1>1, SameFlow
<1>3. TypeOK'
  BY <1>1 DEF ShapeInv, TypeOK
<1>4. ShapeInv'
  BY <1>1, <1>2, <1>3 DEF ShapeInv
<1>5. QED
  BY <1>1, <1>4, FlowStays

-----------------------------------------------------------------------------
(***************************************************************************)
(* The steps that splice a block out.                                      *)
(***************************************************************************)
\* What both passes do to the graph: block B goes, and what led to it leads
\* to its successor.
Spliced(B) ==
    /\ B \in live \cap Forwarders
    /\ live' = live \ {B}
    /\ succ' = [b \in Blocks |->
                  IF b = B THEN <<>> ELSE Retarget(succ[b], B, succ[B][1])]
    /\ source' = source
    /\ pass' = pass

\* The successors of the blocks that are left.
LEMMA LiveSuccessors ==
  ASSUME ShapeInv, NEW b \in live
  PROVE  /\ b \in Blocks /\ succ[b] \in Seq(Blocks)
         /\ DOMAIN succ[b] = DOMAIN source.succ[b]
         /\ \A i \in DOMAIN succ[b] : succ[b][i] \in Blocks /\ source.succ[b][i] \in Blocks
         /\ b \in Forwarders => DOMAIN succ[b] = {1}
<1>1. /\ b \in Blocks /\ succ[b] \in Seq(Blocks) /\ source.succ[b] \in Seq(Blocks)
      /\ Len(succ[b]) = Len(source.succ[b])
  BY SourceFacts DEF ShapeInv, TypeOK
<1>2. DOMAIN succ[b] = DOMAIN source.succ[b]
  BY <1>1
<1>3. \A i \in DOMAIN succ[b] : succ[b][i] \in Blocks /\ source.succ[b][i] \in Blocks
  BY <1>1, <1>2
<1>4. b \in Forwarders => DOMAIN succ[b] = {1}
  BY <1>2, SourceFacts DEF ShapeInv, TypeOK
<1>5. QED
  BY <1>1, <1>2, <1>3, <1>4

\* The graph after a splice, branch by branch.
LEMMA SplicedFacts ==
  ASSUME ShapeInv, NEW B, Spliced(B)
  PROVE  /\ B \in Blocks /\ succ[B][1] \in Blocks /\ DOMAIN succ[B] = {1}
         /\ succ' \in [Blocks -> Seq(Blocks)]
         /\ succ'[B] = <<>>
         /\ Forwarders' = Forwarders
         /\ \A b \in Blocks \ {B} :
                /\ DOMAIN succ'[b] = DOMAIN succ[b]
                /\ Len(succ'[b]) = Len(succ[b])
                /\ \A i \in DOMAIN succ[b] :
                      succ'[b][i] = IF succ[b][i] = B THEN succ[B][1] ELSE succ[b][i]
<1> DEFINE T == succ[B][1]
<1>1. B \in Blocks /\ T \in Blocks /\ DOMAIN succ[B] = {1}
  BY LiveSuccessors DEF Spliced
<1>2. succ \in [Blocks -> Seq(Blocks)]
  BY DEF ShapeInv, TypeOK
<1>3. succ'[B] = <<>>
  BY <1>1 DEF Spliced
<1>4. ASSUME NEW b \in Blocks \ {B}
      PROVE  /\ succ'[b] \in Seq(Blocks)
             /\ DOMAIN succ'[b] = DOMAIN succ[b]
             /\ Len(succ'[b]) = Len(succ[b])
             /\ \A i \in DOMAIN succ[b] :
                   succ'[b][i] = IF succ[b][i] = B THEN T ELSE succ[b][i]
  <2> DEFINE t == succ[b]
             u == Retarget(t, B, T)
  <2>1. succ'[b] = u
    BY DEF Spliced
  <2>2. t \in Seq(Blocks) /\ Len(t) \in Nat /\ DOMAIN t = 1 .. Len(t)
    BY <1>2
  <2> HIDE DEF t, T
  <2>3. u = [i \in 1 .. Len(t) |-> IF t[i] = B THEN T ELSE t[i]]
    BY <2>2 DEF Retarget
  <2>4. \A i \in 1 .. Len(t) : (IF t[i] = B THEN T ELSE t[i]) \in Blocks
    BY <1>1, <2>2
  <2> HIDE DEF u
  <2>5. u \in Seq(Blocks) /\ DOMAIN u = 1 .. Len(t) /\ Len(u) = Len(t)
    BY <2>2, <2>3, <2>4
  <2>6. QED
    BY <2>1, <2>2, <2>3, <2>5 DEF t
<1>5. succ' \in [Blocks -> Seq(Blocks)]
  <2>1. succ' = [b \in Blocks |-> succ'[b]]
    BY DEF Spliced
  <2>2. succ'[B] \in Seq(Blocks)
    BY <1>3
  <2>3. \A b \in Blocks \ {B} : succ'[b] \in Seq(Blocks)
    BY <1>4
  <2>4. QED
    BY <2>1, <2>2, <2>3
<1>6. Forwarders' = Forwarders
  BY DEF Forwarders, Spliced
<1>7. QED
  BY <1>1, <1>3, <1>4, <1>5, <1>6

\* A splice keeps the shape; B was the next in the list.
LEMMA SplicedShape ==
  ASSUME ShapeInv, NEW B, Spliced(B), todo # <<>>, B = Head(todo),
         todo' = Tail(todo), stage = "remove", stage' = "remove",
         phi' \in [Blocks -> SUBSET (Blocks \X Vals)],
         \A b \in source.empty : phi'[b] = {}
  PROVE  ShapeInv'
<1>1. /\ IsFunction(source) /\ pass \in Passes /\ live \subseteq Blocks
      /\ todo \in Seq(Blocks)
      /\ \A i, j \in DOMAIN todo : todo[i] = todo[j] => i = j
      /\ live \cap Forwarders \subseteq Range(todo)
  BY DEF ShapeInv, TypeOK
<1>2. /\ todo' \in Seq(Blocks)
      /\ \A i, j \in DOMAIN todo' : todo'[i] = todo'[j] => i = j
      /\ Range(todo') = Range(todo) \ {B}
  BY <1>1, TailFacts
<1>3. /\ source' = source /\ pass' = pass /\ live' = live \ {B}
      /\ B \in live \cap Forwarders
  BY DEF Spliced
<1>4. /\ succ' \in [Blocks -> Seq(Blocks)] /\ Forwarders' = Forwarders
      /\ succ'[B] = <<>>
      /\ \A b \in Blocks \ {B} : /\ DOMAIN succ'[b] = DOMAIN succ[b]
                                 /\ Len(succ'[b]) = Len(succ[b])
  BY SplicedFacts
<1>5. TypeOK'
  BY <1>1, <1>2, <1>3, <1>4 DEF TypeOK
<1>6. (Blocks \ Forwarders \subseteq live)'
  BY <1>3, <1>4 DEF ShapeInv
<1>7. \A b \in live' : Len(succ'[b]) = Len(source'.succ[b])
  BY <1>1, <1>3, <1>4 DEF ShapeInv
<1>8. \A b \in Blocks \ live' : succ'[b] = <<>>
  <2>1. ASSUME NEW b \in Blocks \ live', b # B PROVE succ'[b] = <<>>
    <3>1. succ[b] = <<>> /\ succ'[b] \in Seq(Blocks) /\ Len(succ'[b]) = Len(succ[b])
      BY <1>3, <1>4, <2>1 DEF ShapeInv
    <3>2. Len(succ'[b]) = 0
      BY <3>1
    <3>3. QED
      BY <3>1, <3>2
  <2>2. QED
    BY <1>4, <2>1
<1>12. ASSUME NEW b \in Blocks, NEW i \in DOMAIN succ'[b] PROVE succ'[b][i] # Entry
  <2>1. b # B
    BY <1>4, <1>12
  <2>2. 1 \in DOMAIN succ[B] /\ B \in Blocks /\ DOMAIN succ'[b] = DOMAIN succ[b]
    BY <2>1, SplicedFacts
  <2>3. succ'[b][i] = IF succ[b][i] = B THEN succ[B][1] ELSE succ[b][i]
    BY <1>12, <2>1, <2>2, SplicedFacts
  <2>4. QED
    BY <1>12, <2>2, <2>3 DEF ShapeInv
<1>9. (stage = "remove" /\ pass = "RemoveTrivialBlock" =>
          Range(todo) \subseteq live \cap Forwarders)'
  BY <1>2, <1>3, <1>4 DEF ShapeInv
<1>10. (live \cap Forwarders \subseteq Range(todo))'
  BY <1>1, <1>2, <1>3, <1>4
<1>11. QED
  BY <1>2, <1>3, <1>5, <1>6, <1>7, <1>8, <1>9, <1>10, <1>12 DEF ShapeInv

\* Where ranks drop no trivial block branches to itself.
LEMMA NoSelfBranch ==
  ASSUME ShapeInv, RankInv, NEW B \in live \cap Forwarders
  PROVE  succ[B][1] # B
<1>1. PICK r \in [Blocks -> 0 .. Len(Layout) + 1] :
          /\ Ranked(source.succ, Forwarders, r)
          /\ \A b \in live : \A i \in DOMAIN succ[b] :
                r[succ[b][i]] <= r[source.succ[b][i]]
  BY DEF RankInv
<1>2. /\ B \in Blocks /\ 1 \in DOMAIN succ[B]
      /\ succ[B][1] \in Blocks /\ source.succ[B][1] \in Blocks
  BY LiveSuccessors
<1>3. B \in Going(source.succ, Forwarders)
  BY SourceFacts DEF ShapeInv, TypeOK
<1>4. r[source.succ[B][1]] < r[B]
  BY <1>1, <1>3 DEF Ranked
<1>5. r[succ[B][1]] <= r[source.succ[B][1]]
  BY <1>1, <1>2
<1>6. \A x \in Blocks : r[x] \in Int
  BY LayoutFacts
<1>7. QED
  BY <1>2, <1>4, <1>5, <1>6

\* A splice raises no rank.
LEMMA SplicedRank ==
  ASSUME ShapeInv, RankInv, NEW B, Spliced(B)
  PROVE  RankInv'
<1>1. PICK r \in [Blocks -> 0 .. Len(Layout) + 1] :
          /\ Ranked(source.succ, Forwarders, r)
          /\ \A b \in live : \A i \in DOMAIN succ[b] :
                r[succ[b][i]] <= r[source.succ[b][i]]
  BY DEF RankInv
<1>2. /\ B \in live \cap Forwarders /\ live' = live \ {B} /\ live \subseteq Blocks
      /\ source' = source
  BY DEF Spliced, ShapeInv, TypeOK
<1>3. Forwarders' = Forwarders
  BY SplicedFacts
<1>4. \A x \in Blocks : r[x] \in Int
  BY LayoutFacts
<1>5. ASSUME NEW b \in live', NEW i \in DOMAIN succ'[b]
      PROVE  r[succ'[b][i]] <= r[source.succ[b][i]]
  <2>1. b \in live /\ b # B /\ b \in Blocks
    BY <1>2
  <2>2. /\ i \in DOMAIN succ[b]
        /\ succ'[b][i] = IF succ[b][i] = B THEN succ[B][1] ELSE succ[b][i]
    BY <2>1, SplicedFacts
  <2>3. r[succ[b][i]] <= r[source.succ[b][i]]
    BY <1>1, <2>1, <2>2
  <2>4. CASE succ[b][i] = B
    <3>1. /\ succ[B][1] \in Blocks /\ source.succ[B][1] \in Blocks
          /\ 1 \in DOMAIN succ[B]
      BY <1>2, LiveSuccessors
    <3>2. source.succ[b][i] \in Blocks
      BY <2>1, <2>2, LiveSuccessors
    <3>3. r[succ[B][1]] <= r[source.succ[B][1]]
      BY <1>1, <1>2, <3>1
    <3>4. r[source.succ[B][1]] < r[B]
      BY <1>1, <1>2, SourceFacts DEF Ranked, ShapeInv, TypeOK
    <3>5. r[B] <= r[source.succ[b][i]]
      BY <2>3, <2>4
    <3>6. r[succ[B][1]] <= r[source.succ[b][i]]
      BY <1>2, <1>4, <3>1, <3>2, <3>3, <3>4, <3>5
    <3>7. QED
      BY <2>2, <2>4, <3>6
  <2>5. CASE succ[b][i] # B
    BY <2>2, <2>3, <2>5
  <2>6. QED
    BY <2>4, <2>5
<1>6. Ranked(source.succ, Forwarders, r)'
  BY <1>1, <1>2, <1>3 DEF Ranked, Going
<1>7. QED
  BY <1>1, <1>2, <1>5, <1>6 DEF RankInv

\* A splice keeps every branch on its route.
LEMMA SplicedRoute ==
  ASSUME ShapeInv, RankInv, RouteInv, NEW B, Spliced(B)
  PROVE  RouteInv'
<1>1. /\ B \in live \cap Forwarders /\ live' = live \ {B} /\ live \subseteq Blocks
      /\ source' = source
  BY DEF Spliced, ShapeInv, TypeOK
<1>2. Forwarders' = Forwarders
  BY SplicedFacts
<1>3. \A b, i : End(b, i)' = End(b, i)
  BY <1>1, <1>2 DEF End
<1> DEFINE T == succ[B][1]
<1>4. /\ T \in live /\ T # B
      /\ T \in Forwarders => End(T, 1) = End(B, 1)
      /\ T \notin Forwarders => End(B, 1) = T
  <2>1. 1 \in DOMAIN succ[B]
    BY SplicedFacts
  <2>2. QED
    BY <1>1, <2>1, NoSelfBranch DEF RouteInv
<1>5. ASSUME NEW b \in live', NEW i \in DOMAIN succ'[b]
      PROVE  /\ succ'[b][i] \in live'
             /\ succ'[b][i] \in Forwarders => End(succ'[b][i], 1) = End(b, i)
             /\ succ'[b][i] \notin Forwarders => End(b, i) = succ'[b][i]
  <2>1. b \in live /\ b # B /\ b \in Blocks
    BY <1>1
  <2>2. /\ i \in DOMAIN succ[b]
        /\ succ'[b][i] = IF succ[b][i] = B THEN T ELSE succ[b][i]
    BY <2>1, SplicedFacts
  <2>3. /\ succ[b][i] \in live
        /\ succ[b][i] \in Forwarders => End(succ[b][i], 1) = End(b, i)
        /\ succ[b][i] \notin Forwarders => End(b, i) = succ[b][i]
    BY <2>1, <2>2 DEF RouteInv
  <2> HIDE DEF T
  <2>4. CASE succ[b][i] = B
    BY <1>1, <1>4, <2>2, <2>3, <2>4
  <2>5. CASE succ[b][i] # B
    BY <1>1, <2>2, <2>3, <2>5
  <2>6. QED
    BY <2>4, <2>5
<1>6. QED
  BY <1>2, <1>3, <1>5 DEF RouteInv

\* What Reincoming makes of the entries of a PHI.
LEMMA ReincomingFacts ==
  ASSUME NEW pairs \in SUBSET (Blocks \X Vals), NEW from \in Blocks,
         NEW preds \in SUBSET Blocks
  PROVE  /\ Reincoming(pairs, from, preds) \in SUBSET (Blocks \X Vals)
         /\ pairs = {} => Reincoming(pairs, from, preds) = {}
         /\ {p[1] : p \in Reincoming(pairs, from, preds)} =
                ({p[1] : p \in pairs} \ {from}) \cup
                (IF from \in {p[1] : p \in pairs} THEN preds ELSE {})
         /\ \A b \in Blocks \ {from} :
                Taken(Reincoming(pairs, from, preds), b) =
                    Taken(pairs, b) \cup
                    (IF b \in preds THEN Taken(pairs, from) ELSE {})
<1> DEFINE R == Reincoming(pairs, from, preds)
<1>1. \A x : x \in R <=> \/ x \in pairs /\ x[1] # from
                         \/ \E q \in preds : \E p \in pairs :
                                p[1] = from /\ x = <<q, p[2]>>
  BY DEF Reincoming
<1>2. \A p \in pairs : p[1] \in Blocks /\ p[2] \in Vals
  OBVIOUS
<1> HIDE DEF R
<1>3. R \in SUBSET (Blocks \X Vals)
  <2>1. SUFFICES ASSUME NEW x \in R PROVE x \in Blocks \X Vals
    OBVIOUS
  <2>2. CASE x \in pairs
    BY <2>2
  <2>3. CASE x \notin pairs
    BY <1>1, <1>2, <2>3
  <2>4. QED
    BY <2>2, <2>3
<1>4. pairs = {} => R = {}
  BY <1>1
<1>5. {p[1] : p \in R} = ({p[1] : p \in pairs} \ {from}) \cup
                         (IF from \in {p[1] : p \in pairs} THEN preds ELSE {})
  <2>1. ASSUME NEW x \in R
        PROVE  x[1] \in ({p[1] : p \in pairs} \ {from}) \cup
                        (IF from \in {p[1] : p \in pairs} THEN preds ELSE {})
    <3>1. CASE x \in pairs /\ x[1] # from
      BY <3>1
    <3>2. CASE \E q \in preds : \E p \in pairs : p[1] = from /\ x = <<q, p[2]>>
      <4>1. PICK q \in preds, p \in pairs : p[1] = from /\ x = <<q, p[2]>>
        BY <3>2
      <4>2. x[1] = q /\ from \in {z[1] : z \in pairs}
        BY <4>1
      <4>3. QED
        BY <4>2
    <3>3. QED
      BY <1>1, <3>1, <3>2
  <2>2. ASSUME NEW p \in pairs, p[1] # from PROVE p[1] \in {x[1] : x \in R}
    <3>1. p \in R
      BY <1>1, <2>2
    <3>2. QED
      BY <3>1
  <2>3. ASSUME NEW p \in pairs, p[1] = from, NEW q \in preds
        PROVE  q \in {x[1] : x \in R}
    <3>1. <<q, p[2]>> \in R
      BY <1>1, <2>3
    <3>2. <<q, p[2]>>[1] = q
      OBVIOUS
    <3>3. QED
      BY <3>1, <3>2
  <2>4. {p[1] : p \in R} \subseteq ({p[1] : p \in pairs} \ {from}) \cup
                         (IF from \in {p[1] : p \in pairs} THEN preds ELSE {})
    BY <2>1
  <2>5. ({p[1] : p \in pairs} \ {from}) \subseteq {p[1] : p \in R}
    BY <2>2
  <2>6. (IF from \in {p[1] : p \in pairs} THEN preds ELSE {}) \subseteq {p[1] : p \in R}
    BY <2>3
  <2>7. QED
    BY <2>4, <2>5, <2>6
<1>6. ASSUME NEW b \in Blocks \ {from}
      PROVE  Taken(R, b) = Taken(pairs, b) \cup
                           (IF b \in preds THEN Taken(pairs, from) ELSE {})
  <2>1. \A S, c, v : v \in Taken(S, c) <=> \E p \in S : p[1] = c /\ v = p[2]
    BY DEF Taken
  <2>2. ASSUME NEW v \in Taken(R, b)
        PROVE  \/ v \in Taken(pairs, b)
               \/ b \in preds /\ v \in Taken(pairs, from)
    <3>1. PICK x \in R : x[1] = b /\ v = x[2]
      BY <2>1, <2>2
    <3>2. CASE x \in pairs
      BY <2>1, <3>1, <3>2
    <3>3. CASE x \notin pairs
      <4>1. PICK q \in preds, p \in pairs : p[1] = from /\ x = <<q, p[2]>>
        BY <1>1, <3>1, <3>3
      <4>2. q = b /\ v = p[2]
        BY <3>1, <4>1
      <4>3. QED
        BY <2>1, <4>1, <4>2
    <3>4. QED
      BY <3>2, <3>3
  <2>3. ASSUME NEW v \in Taken(pairs, b) PROVE v \in Taken(R, b)
    <3>1. PICK p \in pairs : p[1] = b /\ v = p[2]
      BY <2>1, <2>3
    <3>2. p \in R
      BY <1>1, <3>1
    <3>3. QED
      BY <2>1, <3>1, <3>2
  <2>4. ASSUME NEW v \in Taken(pairs, from), b \in preds PROVE v \in Taken(R, b)
    <3>1. PICK p \in pairs : p[1] = from /\ v = p[2]
      BY <2>1, <2>4
    <3>2. <<b, p[2]>> \in R
      BY <1>1, <2>4, <3>1
    <3>3. <<b, p[2]>>[1] = b /\ <<b, p[2]>>[2] = v
      BY <3>1
    <3>4. QED
      BY <2>1, <3>2, <3>3
  <2>5. QED
    BY <2>2, <2>3, <2>4
<1>7. QED
  BY <1>3, <1>4, <1>5, <1>6 DEF R

\* RemoveTrivialBlockPass splices the next candidate out.
LEMMA RemoveTrivialSplices ==
  ASSUME ShapeInv, RemoveTrivial
  PROVE  /\ Spliced(Head(todo))
         /\ phi' = [phi EXCEPT ![succ[Head(todo)][1]] =
                       Reincoming(@, Head(todo), predecessors(succ, Head(todo)))]
         /\ stage = "remove" /\ stage' = "remove" /\ todo # <<>>
         /\ todo' = Tail(todo) /\ pass = "RemoveTrivialBlock"
<1> DEFINE B == Head(todo)
           T == succ[B][1]
           Preds == predecessors(succ, B)
<1>1. /\ stage = "remove" /\ stage' = "remove" /\ todo # <<>>
      /\ todo' = Tail(todo) /\ pass = "RemoveTrivialBlock"
      /\ source' = source /\ pass' = pass
      /\ live' = live \ {B}
      /\ succ' = [b \in Blocks |-> IF b = B THEN <<>>
                                   ELSE IF b \in Preds THEN Retarget(succ[b], B, T)
                                   ELSE succ[b]]
      /\ phi' = [phi EXCEPT ![T] = Reincoming(@, B, Preds)]
  BY DEF RemoveTrivial
<1>2. B \in live \cap Forwarders
  <2>1. B \in Range(todo)
    BY <1>1, TailFacts DEF ShapeInv, TypeOK
  <2>2. QED
    BY <1>1, <2>1 DEF ShapeInv
<1>3. succ \in [Blocks -> Seq(Blocks)]
  BY DEF ShapeInv, TypeOK
<1> HIDE DEF T, B
<1>4. ASSUME NEW b \in Blocks, b \notin Preds PROVE Retarget(succ[b], B, T) = succ[b]
  <2>1. \A i \in DOMAIN succ[b] : succ[b][i] # B
    BY <1>3, <1>4 DEF predecessors, Targets
  <2>2. succ[b] \in Seq(Blocks)
    BY <1>3
  <2>3. succ[b] = [i \in DOMAIN succ[b] |-> succ[b][i]]
    BY <2>2
  <2>4. Retarget(succ[b], B, T) = [i \in DOMAIN succ[b] |-> succ[b][i]]
    BY <2>1 DEF Retarget
  <2>5. QED
    BY <2>3, <2>4
<1>5. succ' = [b \in Blocks |-> IF b = B THEN <<>> ELSE Retarget(succ[b], B, T)]
  BY <1>1, <1>4
<1>6. Spliced(B)
  BY <1>1, <1>2, <1>5 DEF Spliced, T
<1>7. QED
  BY <1>1, <1>6 DEF B, T

\* After a splice the predecessors of B are predecessors of its successor.
LEMMA SplicedPreds ==
  ASSUME ShapeInv, RankInv, NEW B, Spliced(B)
  PROVE  /\ predecessors(succ', succ[B][1]) =
                (predecessors(succ, succ[B][1]) \ {B}) \cup predecessors(succ, B)
         /\ B \in predecessors(succ, succ[B][1])
         /\ predecessors(succ, B) \in SUBSET Blocks
         /\ \A b \in Blocks \ {B, succ[B][1]} :
                predecessors(succ', b) = predecessors(succ, b)
<1> DEFINE T == succ[B][1]
<1>1. /\ B \in Blocks /\ T \in Blocks /\ DOMAIN succ[B] = {1}
      /\ succ' \in [Blocks -> Seq(Blocks)] /\ succ'[B] = <<>>
      /\ \A b \in Blocks \ {B} :
            /\ DOMAIN succ'[b] = DOMAIN succ[b]
            /\ \A i \in DOMAIN succ[b] :
                  succ'[b][i] = IF succ[b][i] = B THEN T ELSE succ[b][i]
  BY SplicedFacts
<1>2. T # B
  BY NoSelfBranch DEF Spliced
<1>3. DOMAIN succ = Blocks /\ DOMAIN succ' = Blocks
  BY <1>1 DEF ShapeInv, TypeOK
<1>4. \A q, b : /\ q \in predecessors(succ, b) <=>
                       q \in Blocks /\ \E i \in DOMAIN succ[q] : succ[q][i] = b
                /\ q \in predecessors(succ', b) <=>
                       q \in Blocks /\ \E i \in DOMAIN succ'[q] : succ'[q][i] = b
  BY <1>3 DEF predecessors, Targets
<1> HIDE DEF T
<1>5. \A b : B \in predecessors(succ, b) <=> b = T
  BY <1>1, <1>4 DEF T
<1>6. \A b : B \notin predecessors(succ', b)
  <2>1. DOMAIN succ'[B] = {}
    BY <1>1
  <2>2. QED
    BY <1>4, <2>1
<1>7. ASSUME NEW q \in Blocks, q # B
      PROVE  q \in predecessors(succ', T) <=>
                q \in predecessors(succ, T) \/ q \in predecessors(succ, B)
  <2>1. /\ DOMAIN succ'[q] = DOMAIN succ[q]
        /\ \A i \in DOMAIN succ[q] :
              succ'[q][i] = IF succ[q][i] = B THEN T ELSE succ[q][i]
    BY <1>1, <1>7
  <2>2. (\E i \in DOMAIN succ'[q] : succ'[q][i] = T) <=>
            \/ \E i \in DOMAIN succ[q] : succ[q][i] = T
            \/ \E i \in DOMAIN succ[q] : succ[q][i] = B
    BY <1>2, <2>1
  <2>3. QED
    BY <1>4, <1>7, <2>2
<1>8. ASSUME NEW b \in Blocks \ {B, T}, NEW q \in Blocks, q # B
      PROVE  q \in predecessors(succ', b) <=> q \in predecessors(succ, b)
  <2>1. /\ DOMAIN succ'[q] = DOMAIN succ[q]
        /\ \A i \in DOMAIN succ[q] :
              succ'[q][i] = IF succ[q][i] = B THEN T ELSE succ[q][i]
    BY <1>1, <1>8
  <2>2. (\E i \in DOMAIN succ'[q] : succ'[q][i] = b) <=>
            \E i \in DOMAIN succ[q] : succ[q][i] = b
    BY <1>8, <2>1
  <2>3. QED
    BY <1>4, <1>8, <2>2
<1>9. \A s : predecessors(succ, s) \subseteq Blocks /\ predecessors(succ', s) \subseteq Blocks
  BY <1>4
<1>10. predecessors(succ', T) = (predecessors(succ, T) \ {B}) \cup predecessors(succ, B)
  BY <1>2, <1>5, <1>6, <1>7, <1>9
<1>11. \A b \in Blocks \ {B, T} : predecessors(succ', b) = predecessors(succ, b)
  BY <1>5, <1>6, <1>8, <1>9
<1>12. QED
  BY <1>5, <1>9, <1>10, <1>11 DEF T

\* RemoveTrivialBlockPass keeps the entries of the PHIs in step with the
\* predecessors.
LEMMA RemoveTrivialPhis ==
  ASSUME ShapeInv, RankInv, NoEmptyLoop, PhisMatchPredecessors, RemoveTrivial
  PROVE  PhisMatchPredecessors'
<1> DEFINE B == Head(todo)
           T == succ[B][1]
           Preds == predecessors(succ, B)
<1>1. /\ Spliced(B)
      /\ phi' = [phi EXCEPT ![T] = Reincoming(@, B, Preds)]
      /\ pass = "RemoveTrivialBlock"
  BY RemoveTrivialSplices
<1>2. B \in Blocks /\ T \in Blocks
  BY <1>1, SplicedFacts
<1>3. phi \in [Blocks -> SUBSET (Blocks \X Vals)] /\ live \subseteq Blocks
  BY DEF ShapeInv, TypeOK
<1>4. /\ predecessors(succ', T) = (predecessors(succ, T) \ {B}) \cup Preds
      /\ B \in predecessors(succ, T) /\ Preds \in SUBSET Blocks
      /\ \A b \in Blocks \ {B, T} : predecessors(succ', b) = predecessors(succ, b)
  BY <1>1, SplicedPreds
<1>5. source' = source /\ live' = live \ {B}
  BY <1>1 DEF Spliced
<1> HIDE DEF B, T, Preds
<1>6. ASSUME NEW b \in live' \ source'.empty, b # Entry
      PROVE  {p[1] : p \in phi'[b]} = predecessors(succ', b)
  <2>1. b \in live \ source.empty /\ b \in Blocks /\ b # B
    BY <1>3, <1>5
  <2>2. {p[1] : p \in phi[b]} = predecessors(succ, b)
    BY <1>1, <1>6, <2>1 DEF PhisMatchPredecessors
  <2>3. CASE b = T
    <3>1. phi'[T] = Reincoming(phi[T], B, Preds)
      BY <1>1, <1>2, <1>3
    <3> DEFINE ps == phi[T]
    <3>2. ps \in SUBSET (Blocks \X Vals)
      BY <1>2, <1>3
    <3> HIDE DEF ps
    <3>3. {p[1] : p \in Reincoming(ps, B, Preds)} =
              ({p[1] : p \in ps} \ {B}) \cup
              (IF B \in {p[1] : p \in ps} THEN Preds ELSE {})
      BY <1>2, <1>4, <3>2, ReincomingFacts
    <3>4. phi'[b] = Reincoming(ps, B, Preds) /\ {p[1] : p \in ps} = predecessors(succ, T)
      BY <2>2, <2>3, <3>1 DEF ps
    <3>5. QED
      BY <1>4, <2>3, <3>3, <3>4
  <2>4. CASE b # T
    <3>1. phi'[b] = phi[b]
      BY <1>1, <1>3, <2>1, <2>4
    <3>2. QED
      BY <1>4, <2>1, <2>2, <2>4, <3>1
  <2>5. QED
    BY <2>3, <2>4
<1>7. QED
  BY <1>6 DEF PhisMatchPredecessors

\* A PHI takes nothing from a block that does not lead to it.
LEMMA NothingTaken ==
  ASSUME ShapeInv, NoEmptyLoop, PhisMatchPredecessors, pass = "RemoveTrivialBlock",
         NEW T \in live, T # Entry, NEW b, b \notin predecessors(succ, T)
  PROVE  Taken(phi[T], b) = {}
<1>1. CASE T \in source.empty
  BY <1>1 DEF ShapeInv, Taken
<1>2. CASE T \notin source.empty
  <2>1. {p[1] : p \in phi[T]} = predecessors(succ, T)
    BY <1>2 DEF PhisMatchPredecessors
  <2>2. QED
    BY <2>1 DEF Taken
<1>3. QED
  BY <1>1, <1>2

\* Lands is what Landing says of the source.
LEMMA LandsFacts ==
  \A b, i : Landing(source.succ, source.phi, b, i) = Lands(source, Forwarders, b, i)
BY DEF Landing, Lands, Taken

\* The values two branches bring to the same PHI are the same.
LEMMA SameTaken ==
  ASSUME ShapeInv, NoForkedPhi, LandingInv,
         NEW b \in live, NEW i \in DOMAIN succ[b], NEW j \in DOMAIN succ[b], i # j,
         Lands(source, Forwarders, b, i)[1]
            = Lands(source, Forwarders, b, j)[1]
  PROVE  Lands(source, Forwarders, b, i) = Lands(source, Forwarders, b, j)
<1>1. /\ b \in Blocks /\ DOMAIN succ[b] = DOMAIN source.succ[b]
      /\ b \in Forwarders => DOMAIN succ[b] = {1}
  BY LiveSuccessors
<1>2. b \in Blocks \ Forwarders
  BY <1>1
<1>3. Lands(source, Forwarders, b, i)[2]
            = Lands(source, Forwarders, b, j)[2]
  BY <1>1, <1>2, LandsFacts DEF NoForkedPhi
<1>4. QED
  BY <1>3, Zenon DEF Lands

\* RemoveTrivialBlockPass keeps what every route brings to its PHI.
LEMMA RemoveTrivialLandings ==
  ASSUME ShapeInv, RankInv, RouteInv, NoEmptyLoop, NoForkedPhi,
         PhisMatchPredecessors, LandingInv, RemoveTrivial
  PROVE  LandingInv'
<1> DEFINE B == Head(todo)
           T == succ[B][1]
           Preds == predecessors(succ, B)
           Land(b, i) == Lands(source, Forwarders, b, i)
<1>1. /\ Spliced(B)
      /\ phi' = [phi EXCEPT ![T] = Reincoming(@, B, Preds)]
      /\ pass = "RemoveTrivialBlock"
  BY RemoveTrivialSplices
<1>2. /\ B \in Blocks /\ T \in Blocks /\ 1 \in DOMAIN succ[B] /\ Forwarders' = Forwarders
      /\ T # Entry
  BY <1>1, SplicedFacts DEF ShapeInv
<1>3. phi \in [Blocks -> SUBSET (Blocks \X Vals)] /\ live \subseteq Blocks
  BY DEF ShapeInv, TypeOK
<1>4. /\ source' = source /\ live' = live \ {B} /\ B \in live \cap Forwarders
      /\ Preds \in SUBSET Blocks
  BY <1>1, SplicedPreds DEF Spliced
<1>5. T # B /\ T \in live
  BY <1>2, <1>4, NoSelfBranch DEF RouteInv
<1>6. \A b \in Blocks \ {B} :
          Taken(phi'[T], b) = Taken(phi[T], b) \cup
                              (IF b \in Preds THEN Taken(phi[T], B) ELSE {})
  <2>1. phi'[T] = Reincoming(phi[T], B, Preds) /\ phi[T] \in SUBSET (Blocks \X Vals)
    BY <1>1, <1>2, <1>3
  <2> HIDE DEF B, T, Preds
  <2>2. QED
    BY <1>2, <1>4, <2>1, ReincomingFacts
<1>7. \A x \in Blocks \ {T} : phi'[x] = phi[x]
  BY <1>1, <1>3
<1>9. \A b \in live : \A i \in DOMAIN succ[b] :
          /\ succ[b][i] \in Forwarders => Land(succ[b][i], 1) = Land(b, i)
          /\ succ[b][i] \notin Forwarders =>
                Land(b, i) = <<succ[b][i], Taken(phi[succ[b][i]], b)>>
  BY DEF LandingInv
<1>10. /\ T \in Forwarders => Land(T, 1) = Land(B, 1)
       /\ T \notin Forwarders => Land(B, 1) = <<T, Taken(phi[T], B)>>
  BY <1>2, <1>4, <1>9
<1>11. \A b \in live : \A i \in DOMAIN succ[b] : succ[b][i] = B => b \in Preds
  BY <1>3 DEF predecessors, Targets, ShapeInv, TypeOK
<1>12. \A b \in live : b \notin predecessors(succ, T) => Taken(phi[T], b) = {}
  BY <1>1, <1>2, <1>5, NothingTaken
<1>13. \A b \in live : \A i, j \in DOMAIN succ[b] :
           i # j /\ Land(b, i)[1] = Land(b, j)[1] => Land(b, i) = Land(b, j)
  BY SameTaken
<1>14. ASSUME NEW b \in live, b # B, T \notin Forwarders,
              NEW i \in DOMAIN succ[b], NEW j \in DOMAIN succ[b],
              succ[b][i] = B, succ[b][j] = T
       PROVE  Taken(phi[T], b) = Taken(phi[T], B)
  <2>1. i # j
    BY <1>5, <1>14
  <2>2. Land(b, i) = <<T, Taken(phi[T], B)>>
    BY <1>4, <1>9, <1>10, <1>14
  <2>3. Land(b, j) = <<T, Taken(phi[T], b)>>
    BY <1>9, <1>14
  <2> HIDE DEF Land, T, B
  <2>4. Land(b, i)[1] = Land(b, j)[1]
    BY <2>2, <2>3
  <2>5. Land(b, i) = Land(b, j)
    BY <1>13, <2>1, <2>4
  <2>6. QED
    BY <2>2, <2>3, <2>5
<1> HIDE DEF Land, T, B, Preds
<1>15. \A b \in live : \A i \in DOMAIN succ[b] : b # B =>
           /\ DOMAIN succ'[b] = DOMAIN succ[b]
           /\ succ'[b][i] = IF succ[b][i] = B THEN T ELSE succ[b][i]
  BY <1>1, <1>3, SplicedFacts DEF T
<1>16. ASSUME NEW b \in live', NEW i \in DOMAIN succ'[b]
       PROVE  /\ succ'[b][i] \in Forwarders => Land(succ'[b][i], 1) = Land(b, i)
              /\ succ'[b][i] \notin Forwarders =>
                    Land(b, i) = <<succ'[b][i], Taken(phi'[succ'[b][i]], b)>>
  <2>1. b \in live /\ b # B /\ b \in Blocks
    BY <1>3, <1>4
  <2>2. DOMAIN succ'[b] = DOMAIN succ[b]
    BY <1>1, <1>3, <2>1, SplicedFacts
  <2>3. /\ i \in DOMAIN succ[b]
        /\ succ'[b][i] = IF succ[b][i] = B THEN T ELSE succ[b][i]
    BY <1>15, <2>1, <2>2
  <2>4. CASE succ[b][i] = B
    <3>1. succ'[b][i] = T /\ Land(b, i) = Land(B, 1) /\ b \in Preds
      BY <1>4, <1>9, <1>11, <2>1, <2>3, <2>4
    <3>2. CASE T \in Forwarders
      BY <1>10, <3>1, <3>2
    <3>3. CASE T \notin Forwarders
      <4>1. Taken(phi'[T], b) = Taken(phi[T], b) \cup Taken(phi[T], B)
        BY <1>6, <2>1, <3>1
      <4>2. Taken(phi[T], b) = {} \/ Taken(phi[T], b) = Taken(phi[T], B)
        <5>1. CASE b \notin predecessors(succ, T)
          BY <1>12, <2>1, <5>1
        <5>2. CASE b \in predecessors(succ, T)
          <6>1. PICK j \in DOMAIN succ[b] : succ[b][j] = T
            BY <5>2 DEF predecessors, Targets
          <6>2. QED
            BY <1>14, <2>1, <2>3, <2>4, <3>3, <6>1
        <5>3. QED
          BY <5>1, <5>2
      <4>3. Taken(phi'[T], b) = Taken(phi[T], B)
        BY <4>1, <4>2
      <4>4. QED
        BY <1>10, <3>1, <3>3, <4>3
    <3>4. QED
      BY <3>2, <3>3
  <2>5. CASE succ[b][i] # B
    <3> DEFINE x == succ[b][i]
    <3>1. succ'[b][i] = x /\ x \in Blocks
      BY <2>1, <2>3, <2>5, LiveSuccessors
    <3>2. CASE x \in Forwarders
      BY <1>9, <2>1, <2>3, <3>1, <3>2
    <3>3. CASE x \notin Forwarders
      <4>1. Land(b, i) = <<x, Taken(phi[x], b)>>
        BY <1>9, <2>1, <2>3, <3>3
      <4>2. Taken(phi'[x], b) = Taken(phi[x], b)
        <5>1. CASE x # T
          BY <1>7, <3>1, <5>1
        <5>2. CASE x = T /\ b \notin Preds
          BY <1>6, <2>1, <5>2
        <5>3. CASE x = T /\ b \in Preds
          <6>1. PICK j \in DOMAIN succ[b] : succ[b][j] = B
            BY <5>3 DEF Preds, predecessors, Targets
          <6>2. Taken(phi[T], b) = Taken(phi[T], B)
            BY <1>14, <2>1, <2>3, <3>3, <5>3, <6>1
          <6>3. QED
            BY <1>6, <2>1, <5>3, <6>2
        <5>4. QED
          BY <5>1, <5>2, <5>3
      <4> HIDE DEF x
      <4>3. QED
        BY <3>1, <3>3, <4>1, <4>2
    <3>4. QED
      BY <3>2, <3>3
  <2>6. QED
    BY <2>4, <2>5
<1>17. QED
  BY <1>2, <1>4, <1>16 DEF LandingInv, Land

\* The PHI entries of one block are rewritten and stay what they must be.
LEMMA PhiTypes ==
  ASSUME ShapeInv, NEW B \in Blocks, NEW T \in Blocks, NEW Q \in SUBSET Blocks,
         phi' = [phi EXCEPT ![T] = Reincoming(@, B, Q)]
  PROVE  /\ phi' \in [Blocks -> SUBSET (Blocks \X Vals)]
         /\ \A b \in source.empty : phi'[b] = {}
<1>1. phi \in [Blocks -> SUBSET (Blocks \X Vals)] /\ \A b \in source.empty : phi[b] = {}
  BY DEF ShapeInv, TypeOK
<1>2. source.empty \subseteq Blocks
  BY SourceFacts DEF ShapeInv, TypeOK
<1>3. /\ Reincoming(phi[T], B, Q) \in SUBSET (Blocks \X Vals)
      /\ phi[T] = {} => Reincoming(phi[T], B, Q) = {}
  <2>1. phi[T] \in SUBSET (Blocks \X Vals)
    BY <1>1
  <2>2. QED
    BY <2>1, ReincomingFacts
<1> DEFINE R == Reincoming(phi[T], B, Q)
<1>4. phi' = [phi EXCEPT ![T] = R]
  OBVIOUS
<1> HIDE DEF R
<1>5. phi' \in [Blocks -> SUBSET (Blocks \X Vals)]
  <2>1. R \in SUBSET (Blocks \X Vals)
    BY <1>3 DEF R
  <2>2. QED
    BY <1>1, <1>4, <2>1
<1>6. ASSUME NEW b \in source.empty PROVE phi'[b] = {}
  <2>1. phi'[b] = IF b = T THEN R ELSE phi[b]
    BY <1>1, <1>2, <1>4
  <2>2. phi[b] = {} /\ (phi[T] = {} => R = {})
    BY <1>1, <1>3 DEF R
  <2>3. QED
    BY <2>1, <2>2
<1>7. QED
  BY <1>5, <1>6

\* RemoveTrivialBlockPass splices a candidate out.
LEMMA RemoveTrivialInv == ASSUME FlowInv, RemoveTrivial PROVE FlowInv'
<1> DEFINE B == Head(todo)
           T == succ[B][1]
<1>1. /\ Spliced(B)
      /\ phi' = [phi EXCEPT ![T] = Reincoming(@, B, predecessors(succ, B))]
      /\ stage = "remove" /\ stage' = "remove" /\ todo # <<>>
      /\ todo' = Tail(todo) /\ pass = "RemoveTrivialBlock"
  BY RemoveTrivialSplices DEF FlowInv
<1>2. ShapeInv
  BY DEF FlowInv
<1>3. B \in Blocks /\ T \in Blocks
  BY <1>1, <1>2, SplicedFacts
<1>4. predecessors(succ, B) \in SUBSET Blocks
  BY <1>2 DEF predecessors, ShapeInv, TypeOK
<1>5. /\ phi' \in [Blocks -> SUBSET (Blocks \X Vals)]
      /\ \A b \in source.empty : phi'[b] = {}
  <2> DEFINE Q == predecessors(succ, B)
  <2>1. phi' = [phi EXCEPT ![T] = Reincoming(@, B, Q)] /\ Q \in SUBSET Blocks
    BY <1>1, <1>4
  <2> HIDE DEF Q, T, B
  <2>2. QED
    BY <1>2, <1>3, <2>1, PhiTypes
<1> HIDE DEF B, T
<1>6. ShapeInv'
  BY <1>1, <1>2, <1>5, SplicedShape DEF B
<1>7. source' = source /\ pass' = pass /\ Forwarders' = Forwarders
  BY <1>1, <1>2, SplicedFacts DEF Spliced
<1>8. NoEmptyLoop' = NoEmptyLoop /\ NoForkedPhi' = NoForkedPhi
  BY <1>7 DEF NoEmptyLoop, NoForkedPhi, Landing
<1>9. NoEmptyLoop => RankInv' /\ RouteInv'
  BY <1>1, <1>2, SplicedRank, SplicedRoute DEF FlowInv
<1>10. NoEmptyLoop => PhisMatchPredecessors'
  BY <1>1, <1>2, RemoveTrivialPhis DEF FlowInv
<1>11. NoEmptyLoop /\ NoForkedPhi => LandingInv'
  BY <1>1, <1>2, RemoveTrivialLandings DEF FlowInv
<1>12. QED
  BY <1>6, <1>7, <1>8, <1>9, <1>10, <1>11 DEF FlowInv

\* RemoveEmptyBlockPass splices a block out, or fails on a self-loop.
LEMMA ReplaceBlockInv == ASSUME FlowInv, ReplaceBlock PROVE FlowInv'
<1> DEFINE B == Head(todo)
           T == succ[B][1]
<1>1. /\ ShapeInv /\ stage = "remove" /\ pass = "RemoveEmptyBlock" /\ todo # <<>>
      /\ IsTrivial(B) /\ todo' = Tail(todo) /\ source' = source /\ pass' = pass
  BY DEF ReplaceBlock, FlowInv
<1>2. /\ todo \in Seq(Blocks)
      /\ \A i, j \in DOMAIN todo : todo[i] = todo[j] => i = j
      /\ B \in Blocks
  BY <1>1, TailFacts DEF ShapeInv, TypeOK
<1>3. B \in live \cap Forwarders
  <2>1. Len(succ[B]) = 1
    BY <1>1 DEF IsTrivial
  <2>2. Len(<<>>) # 1
    OBVIOUS
  <2>3. B \in live
    BY <1>1, <1>2, <2>1, <2>2 DEF ShapeInv
  <2>4. QED
    BY <1>1, <2>3, StillTrivial
<1>4. CASE T = B
  <2>1. stage' = "undefined" /\ live' = live /\ succ' = succ /\ phi' = phi
    BY <1>4 DEF ReplaceBlock
  <2>2. /\ todo' \in Seq(Blocks)
        /\ \A i, j \in DOMAIN todo' : todo'[i] = todo'[j] => i = j
    BY <1>1, <1>2, TailFacts
  <2>3. Forwarders' = Forwarders
    BY <1>1, <2>1, SameFlow
  <2>4. TypeOK'
    BY <1>1, <2>1, <2>2 DEF ShapeInv, TypeOK
  <2>5. ShapeInv'
    BY <1>1, <2>1, <2>2, <2>3, <2>4 DEF ShapeInv
  <2>6. QED
    BY <1>1, <2>1, <2>5, FlowStays
<1>5. CASE T # B
  <2>1. /\ live' = live \ {B} /\ stage' = "remove"
        /\ succ' = [b \in Blocks |->
                      IF b = B THEN <<>> ELSE Retarget(succ[b], B, T)]
        /\ phi' = [phi EXCEPT ![T] = Reincoming(@, B, {T})]
    BY <1>1, <1>5 DEF ReplaceBlock
  <2>2. Spliced(B)
    BY <1>1, <1>3, <2>1 DEF Spliced
  <2>3. T \in Blocks
    BY <1>1, <2>2, SplicedFacts
  <2> HIDE DEF B, T
  <2>4. /\ phi' \in [Blocks -> SUBSET (Blocks \X Vals)]
        /\ \A b \in source.empty : phi'[b] = {}
    <3> DEFINE Q == {T}
    <3>1. phi' = [phi EXCEPT ![T] = Reincoming(@, B, Q)] /\ Q \in SUBSET Blocks
      BY <2>1, <2>3
    <3> HIDE DEF Q
    <3>2. QED
      BY <1>1, <1>2, <2>3, <3>1, PhiTypes
  <2>5. ShapeInv'
    BY <1>1, <2>1, <2>2, <2>4, SplicedShape DEF B
  <2>6. Forwarders' = Forwarders
    BY <1>1, <2>2, SplicedFacts
  <2>7. NoEmptyLoop' = NoEmptyLoop /\ pass' # "RemoveTrivialBlock"
    BY <1>1, <2>6 DEF NoEmptyLoop
  <2>8. NoEmptyLoop => RankInv' /\ RouteInv'
    BY <1>1, <2>2, SplicedRank, SplicedRoute DEF FlowInv
  <2>9. QED
    BY <2>5, <2>7, <2>8 DEF FlowInv
<1>6. QED
  BY <1>4, <1>5

\* Every step keeps the invariant.
LEMMA NextInv == ASSUME FlowInv, [Next]_vars PROVE FlowInv'
<1>1. CASE Collect
  BY <1>1, CollectInv
<1>2. CASE RemoveTrivial
  BY <1>2, RemoveTrivialInv
<1>3. CASE SkipBlock
  BY <1>3, SkipInv
<1>4. CASE ReplaceBlock
  BY <1>4, ReplaceBlockInv
<1>5. CASE EndPass
  BY <1>5, EndPassInv
<1>6. CASE UNCHANGED vars
  <2>1. /\ source' = source /\ pass' = pass /\ todo' = todo /\ live' = live
        /\ succ' = succ /\ phi' = phi /\ stage' = stage
    BY <1>6 DEF vars
  <2>2. Forwarders' = Forwarders
    BY <2>1, SameFlow
  <2>3. ShapeInv'
    BY <2>1, <2>2 DEF ShapeInv, TypeOK, FlowInv
  <2>4. QED
    BY <2>1, <2>3, FlowStays
<1>7. QED
  BY <1>1, <1>2, <1>3, <1>4, <1>5, <1>6 DEF Next

\* The invariant holds in every behaviour.
THEOREM FlowInvariantHolds == Spec => []FlowInv
<1>1. Init => FlowInv
  BY InitInv
<1>2. FlowInv /\ [Next]_vars => FlowInv'
  BY NextInv
<1>3. QED
  BY <1>1, <1>2, PTL DEF Spec

-----------------------------------------------------------------------------
(***************************************************************************)
(* What the invariant says of routes.                                      *)
(***************************************************************************)
\* In the middle of the pass too, ranks drop, and the routes go on exactly
\* from the trivial blocks that are left.
LEMMA CurrentFacts ==
  ASSUME ShapeInv, RankInv
  PROVE  /\ succ \in [Blocks -> Seq(Blocks)]
         /\ Going(succ, live \cap Forwarders) = live \cap Forwarders
         /\ Going(succ, Forwarders) = live \cap Forwarders
         /\ \E r \in [Blocks -> 0 .. Len(Layout) + 1] :
               Ranked(succ, live \cap Forwarders, r)
<1>1. /\ succ \in [Blocks -> Seq(Blocks)] /\ Forwarders \subseteq Blocks
      /\ live \subseteq Blocks
      /\ \A b \in Blocks \ live : succ[b] = <<>>
  BY SourceFacts DEF ShapeInv, TypeOK
<1>2. \A b \in live \cap Forwarders : DOMAIN succ[b] = {1} /\ succ[b] # <<>>
  <2>1. SUFFICES ASSUME NEW b \in live \cap Forwarders
                 PROVE  DOMAIN succ[b] = {1} /\ succ[b] # <<>>
    OBVIOUS
  <2>2. DOMAIN succ[b] = {1}
    BY LiveSuccessors
  <2>3. DOMAIN <<>> = {}
    OBVIOUS
  <2>4. QED
    BY <2>2, <2>3
<1>3. Going(succ, live \cap Forwarders) = live \cap Forwarders
  BY <1>2 DEF Going
<1>4. Going(succ, Forwarders) = live \cap Forwarders
  BY <1>1, <1>2 DEF Going
<1>5. PICK r \in [Blocks -> 0 .. Len(Layout) + 1] :
          /\ Ranked(source.succ, Forwarders, r)
          /\ \A b \in live : \A i \in DOMAIN succ[b] :
                r[succ[b][i]] <= r[source.succ[b][i]]
  BY DEF RankInv
<1>6. \A x \in Blocks : r[x] \in Int
  BY LayoutFacts
<1>7. ASSUME NEW x \in live \cap Forwarders PROVE r[succ[x][1]] < r[x]
  <2>1. x \in Going(source.succ, Forwarders)
    BY SourceFacts DEF ShapeInv, TypeOK
  <2>2. r[source.succ[x][1]] < r[x]
    BY <1>5, <2>1 DEF Ranked
  <2>3. r[succ[x][1]] <= r[source.succ[x][1]]
    BY <1>2, <1>5
  <2>4. succ[x][1] \in Blocks /\ source.succ[x][1] \in Blocks /\ x \in Blocks
    BY <1>2, LiveSuccessors
  <2>5. QED
    BY <1>6, <2>2, <2>3, <2>4
<1>8. Ranked(succ, live \cap Forwarders, r)
  BY <1>3, <1>7 DEF Ranked
<1>9. QED
  BY <1>1, <1>3, <1>4, <1>8

\* A branch to a block that stays is the end of the route; a branch to a
\* trivial block has the route of that block, which is of lower rank.
LEMMA CurrentRoutes ==
  ASSUME ShapeInv, RankInv, RouteInv, NEW b \in live, NEW i \in DOMAIN succ[b]
  PROVE  /\ succ[b][i] \in live /\ b \in Blocks /\ succ[b][i] \in Blocks
         /\ succ[b][i] \notin Forwarders =>
               LastEdge(succ, live \cap Forwarders, b, i) = <<b, succ[b][i]>>
         /\ succ[b][i] \in Forwarders =>
               /\ 1 \in DOMAIN succ[succ[b][i]]
               /\ LastEdge(succ, live \cap Forwarders, b, i)
                     = LastEdge(succ, live \cap Forwarders, succ[b][i], 1)
<1> DEFINE x == succ[b][i]
           L == live \cap Forwarders
<1>1. x \in live /\ b \in Blocks /\ x \in Blocks
  BY LiveSuccessors DEF RouteInv
<1>2. /\ succ \in [Blocks -> Seq(Blocks)] /\ Going(succ, L) = L
      /\ \E r \in [Blocks -> 0 .. Len(Layout) + 1] : Ranked(succ, L, r)
  BY CurrentFacts
<1>3. CASE x \notin Forwarders
  <2>1. succ[b][i] \notin Going(succ, L)
    BY <1>2, <1>3
  <2>2. LastEdge(succ, L, b, i) = <<b, succ[b][i]>>
    <3> HIDE DEF L
    <3>1. succ \in [Blocks -> Seq(Blocks)] /\ b \in Blocks
      BY <1>1, <1>2
    <3>2. QED
      BY <2>1, <3>1, RouteBase
  <2>3. QED
    BY <1>1, <1>3, <2>2
<1>4. CASE x \in Forwarders
  <2>1. x \in Going(succ, L)
    BY <1>1, <1>2, <1>4
  <2>2. PICK r : Ranked(succ, L, r)
    BY <1>2
  <2>3. /\ 1 \in DOMAIN succ[succ[b][i]]
        /\ LastEdge(succ, L, b, i) = LastEdge(succ, L, succ[b][i], 1)
    <3> HIDE DEF L
    <3>1. succ \in [Blocks -> Seq(Blocks)] /\ b \in Blocks
      BY <1>1, <1>2
    <3>2. QED
      BY <2>1, <2>2, <3>1, RouteStep
  <2>4. QED
    BY <1>1, <1>4, <2>3
<1>5. QED
  BY <1>3, <1>4

\* What holds of the branches to blocks that stay, and of a branch to a
\* trivial block when it holds of that block's, holds of all branches.
LEMMA RankInduction ==
  ASSUME ShapeInv, RankInv, RouteInv, NEW Q,
         \A b \in live : \A i \in DOMAIN succ[b] :
            (succ[b][i] \in Forwarders => <<succ[b][i], 1>> \in Q) => <<b, i>> \in Q
  PROVE  \A b \in live : \A i \in DOMAIN succ[b] : <<b, i>> \in Q
<1>1. PICK r \in [Blocks -> 0 .. Len(Layout) + 1] : Ranked(succ, live \cap Forwarders, r)
  BY CurrentFacts
<1>2. \A x \in Blocks : r[x] \in Nat
  BY LayoutFacts
<1> DEFINE P == {n \in Nat : \A b \in live : \A i \in DOMAIN succ[b] :
                                r[succ[b][i]] < n => <<b, i>> \in Q}
<1>3. 0 \in P
  <2>1. \A b \in live : \A i \in DOMAIN succ[b] : ~(r[succ[b][i]] < 0)
    BY <1>2, LiveSuccessors
  <2>2. QED
    BY <2>1
<1>4. ASSUME NEW n \in Nat, n \in P PROVE n + 1 \in P
  <2>1. ASSUME NEW b \in live, NEW i \in DOMAIN succ[b], r[succ[b][i]] < n + 1
        PROVE  <<b, i>> \in Q
    <3> DEFINE x == succ[b][i]
    <3>1. x \in live /\ x \in Blocks
      BY CurrentRoutes
    <3>2. ASSUME x \in Forwarders PROVE <<x, 1>> \in Q
      <4>1. 1 \in DOMAIN succ[x]
        BY <3>2, CurrentRoutes
      <4>2. r[succ[x][1]] < r[x]
        BY <1>1, <3>1, <3>2, CurrentFacts DEF Ranked
      <4>3. succ[x][1] \in Blocks
        BY <3>1, <4>1, LiveSuccessors
      <4>4. r[succ[x][1]] < n
        BY <1>2, <2>1, <3>1, <4>2, <4>3
      <4> HIDE DEF x
      <4>5. QED
        BY <1>4, <3>1, <4>1, <4>4
    <3>3. QED
      BY <3>2
  <2>2. QED
    BY <2>1
<1> HIDE DEF P
<1>5. Nat \subseteq P
  BY <1>3, <1>4, NatSetInduction
<1>6. ASSUME NEW b \in live, NEW i \in DOMAIN succ[b] PROVE <<b, i>> \in Q
  <2>1. r[succ[b][i]] \in Nat
    BY <1>2, LiveSuccessors
  <2>2. r[succ[b][i]] + 1 \in P /\ r[succ[b][i]] < r[succ[b][i]] + 1
    BY <1>5, <2>1
  <2>3. QED
    BY <2>2 DEF P
<1>7. QED
  BY <1>6

\* Every way out of a block ends where it ended in the source.
LEMMA RoutesFollow ==
  ASSUME ShapeInv, RankInv, RouteInv
  PROVE  \A b \in live : \A i \in DOMAIN succ[b] :
            LastEdge(succ, live \cap Forwarders, b, i)[2] = End(b, i)
<1> DEFINE Cur(b, i) == LastEdge(succ, live \cap Forwarders, b, i)
           Q == {p \in live \X Nat : Cur(p[1], p[2])[2] = End(p[1], p[2])}
<1>1. ASSUME NEW b \in live, NEW i \in DOMAIN succ[b],
             succ[b][i] \in Forwarders => <<succ[b][i], 1>> \in Q
      PROVE  <<b, i>> \in Q
  <2>1. Cur(b, i)[2] = End(b, i)
    <3>1. CASE succ[b][i] \in Forwarders
      <4>1. Cur(succ[b][i], 1)[2] = End(succ[b][i], 1)
        BY <1>1, <3>1
      <4>2. Cur(b, i) = Cur(succ[b][i], 1)
        BY <3>1, CurrentRoutes
      <4> HIDE DEF Cur
      <4>3. End(succ[b][i], 1) = End(b, i)
        BY <3>1 DEF RouteInv
      <4>4. QED
        BY <4>1, <4>2, <4>3
    <3>2. CASE succ[b][i] \notin Forwarders
      <4>1. Cur(b, i) = <<b, succ[b][i]>>
        BY <3>2, CurrentRoutes
      <4>2. End(b, i) = succ[b][i]
        BY <3>2 DEF RouteInv
      <4> HIDE DEF Cur
      <4>3. QED
        BY <4>1, <4>2
    <3>3. QED
      BY <3>1, <3>2
  <2>2. i \in Nat
    <3>1. succ[b] \in Seq(Blocks)
      BY LiveSuccessors
    <3>2. QED
      BY <3>1
  <2> DEFINE p == <<b, i>>
  <2>3. p \in live \X Nat /\ p[1] = b /\ p[2] = i
    BY <2>2
  <2> HIDE DEF p, Cur
  <2>4. p \in Q
    BY <2>1, <2>3
  <2> HIDE DEF Q
  <2>5. QED
    BY <2>4 DEF p
<1>2. \A b \in live : \A i \in DOMAIN succ[b] : <<b, i>> \in Q
  <2> HIDE DEF Q
  <2>1. QED
    BY <1>1, RankInduction
<1>3. QED
  BY <1>2

\* Every way out of a block brings its PHI what it brought in the source.
LEMMA LandingsFollow ==
  ASSUME ShapeInv, RankInv, RouteInv, LandingInv
  PROVE  \A b \in live : \A i \in DOMAIN succ[b] :
            Lands([succ |-> succ, phi |-> phi], live \cap Forwarders, b, i)
               = Lands(source, Forwarders, b, i)
<1> DEFINE Cur(b, i) == LastEdge(succ, live \cap Forwarders, b, i)
           Land(b, i) == Lands([succ |-> succ, phi |-> phi], live \cap Forwarders, b, i)
           Q == {p \in live \X Nat :
                    Land(p[1], p[2]) = Lands(source, Forwarders, p[1], p[2])}
<1>1. \A b, i : Land(b, i) = <<Cur(b, i)[2], Taken(phi[Cur(b, i)[2]], Cur(b, i)[1])>>
  BY DEF Lands
<1>2. ASSUME NEW b \in live, NEW i \in DOMAIN succ[b],
             succ[b][i] \in Forwarders => <<succ[b][i], 1>> \in Q
      PROVE  <<b, i>> \in Q
  <2>1. Land(b, i) = Lands(source, Forwarders, b, i)
    <3>1. CASE succ[b][i] \in Forwarders
      <4>1. Land(succ[b][i], 1) = Lands(source, Forwarders, succ[b][i], 1)
        BY <1>2, <3>1
      <4>2. Cur(b, i) = Cur(succ[b][i], 1)
        BY <3>1, CurrentRoutes
      <4> HIDE DEF Cur, Land
      <4>3. Land(b, i) = Land(succ[b][i], 1)
        BY <1>1, <4>2
      <4>4. Lands(source, Forwarders, succ[b][i], 1) = Lands(source, Forwarders, b, i)
        BY <3>1 DEF LandingInv
      <4>5. QED
        BY <4>1, <4>3, <4>4
    <3>2. CASE succ[b][i] \notin Forwarders
      <4>1. Cur(b, i) = <<b, succ[b][i]>>
        BY <3>2, CurrentRoutes
      <4>2. Lands(source, Forwarders, b, i) = <<succ[b][i], Taken(phi[succ[b][i]], b)>>
        BY <3>2 DEF LandingInv
      <4> HIDE DEF Cur, Land
      <4>3. Cur(b, i)[1] = b /\ Cur(b, i)[2] = succ[b][i]
        BY <4>1
      <4>4. QED
        BY <1>1, <4>2, <4>3
    <3>3. QED
      BY <3>1, <3>2
  <2>2. i \in Nat
    <3>1. succ[b] \in Seq(Blocks)
      BY LiveSuccessors
    <3>2. QED
      BY <3>1
  <2> DEFINE p == <<b, i>>
  <2>3. p \in live \X Nat /\ p[1] = b /\ p[2] = i
    BY <2>2
  <2> HIDE DEF p, Land
  <2>4. p \in Q
    BY <2>1, <2>3
  <2> HIDE DEF Q
  <2>5. QED
    BY <2>4 DEF p
<1>3. \A b \in live : \A i \in DOMAIN succ[b] : <<b, i>> \in Q
  <2> HIDE DEF Q
  <2>1. QED
    BY <1>2, RankInduction
<1>4. QED
  BY <1>3

-----------------------------------------------------------------------------
(***************************************************************************)
(* The properties.                                                         *)
(***************************************************************************)
\* The branches of the blocks that stay are those of the source.
LEMMA StayingBlocks ==
  ASSUME ShapeInv, NEW b \in Blocks \ Forwarders
  PROVE  b \in live /\ DOMAIN succ[b] = DOMAIN source.succ[b]
<1>1. b \in live
  BY DEF ShapeInv
<1>2. QED
  BY <1>1, LiveSuccessors

\* The current graph's routes keep their ends.
LEMMA FlowImpliesRoutes == ASSUME FlowInv PROVE RoutesKept
<1>1. ShapeInv
  BY DEF FlowInv
<1>2. ASSUME NoEmptyLoop, NEW b \in Blocks \ Forwarders, NEW i \in DOMAIN source.succ[b]
      PROVE  /\ i \in DOMAIN succ[b]
             /\ LastEdge(succ, live \cap Forwarders, b, i)[2]
                   = LastEdge(source.succ, Forwarders, b, i)[2]
  <2>1. RankInv /\ RouteInv
    BY <1>2 DEF FlowInv
  <2>2. b \in live /\ i \in DOMAIN succ[b]
    BY <1>1, StayingBlocks
  <2>3. QED
    BY <1>1, <2>1, <2>2, RoutesFollow DEF End
<1>3. SameDestinations
  BY <1>2 DEF SameDestinations
<1>4. NoTrivialLeft
  <2>1. ASSUME stage = "done" PROVE live \cap Forwarders = {}
    <3>1. todo = <<>> /\ live \cap Forwarders \subseteq Range(todo)
      BY <1>1, <2>1 DEF ShapeInv
    <3>2. DOMAIN todo = {}
      BY <3>1
    <3>3. QED
      BY <3>1, <3>2 DEF Range
  <2>2. QED
    BY <2>1 DEF NoTrivialLeft
<1>5. QED
  BY <1>3, <1>4 DEF RoutesKept

\* The PHIs of RemoveTrivialBlockPass are right.
LEMMA FlowImpliesPhis == ASSUME FlowInv PROVE PhisKept
<1>1. ShapeInv
  BY DEF FlowInv
<1>2. ASSUME NoEmptyLoop, NoForkedPhi, pass = "RemoveTrivialBlock",
             NEW b \in Blocks \ Forwarders, NEW i \in DOMAIN source.succ[b]
      PROVE  Landing(succ, phi, b, i) = Landing(source.succ, source.phi, b, i)
  <2>1. RankInv /\ RouteInv /\ LandingInv
    BY <1>2 DEF FlowInv
  <2>2. b \in live /\ b \in Blocks /\ i \in DOMAIN succ[b]
    BY <1>1, StayingBlocks
  <2>3. LastEdge(succ, Forwarders, b, i) = LastEdge(succ, live \cap Forwarders, b, i)
    <3> DEFINE L == live \cap Forwarders
    <3>1. succ \in [Blocks -> Seq(Blocks)] /\ Going(succ, Forwarders) = Going(succ, L)
      BY <1>1, <2>1, CurrentFacts
    <3> HIDE DEF L
    <3>2. LastEdge(succ, Forwarders, b, i) = LastEdge(succ, L, b, i)
      BY <2>2, <3>1, SameGoing
    <3>3. QED
      BY <3>2 DEF L
  <2>4. Landing(succ, phi, b, i)
           = Lands([succ |-> succ, phi |-> phi], live \cap Forwarders, b, i)
    BY <2>3 DEF Landing, Lands, Taken
  <2>5. QED
    BY <1>1, <2>1, <2>2, <2>4, LandingsFollow, LandsFacts
<1>3. PhiValuesKept
  BY <1>2 DEF PhiValuesKept
<1>4. PhisMatchPredecessors
  BY DEF FlowInv, PhisMatchPredecessors
<1>5. QED
  BY <1>3, <1>4 DEF PhisKept

\* Both passes keep the types of their state, with self-loops, unreachable
\* blocks and doubled branches too.
THEOREM TypesCorrect == Spec => []TypeOK
<1>1. FlowInv => TypeOK
  BY DEF FlowInv, ShapeInv
<1>2. QED
  BY <1>1, FlowInvariantHolds, PTL

\* After every removal, each way out of a block that stays ends where it
\* ended in the source, and no trivial block is left at the end.
THEOREM RoutesAreKept == Spec => []RoutesKept
<1>1. FlowInv => RoutesKept
  BY FlowImpliesRoutes
<1>2. QED
  BY <1>1, FlowInvariantHolds, PTL

\* After every removal of RemoveTrivialBlockPass the entries of the PHIs are
\* those of the predecessors, and each route selects the value it selected.
THEOREM PhisAreKept == Spec => []PhisKept
<1>1. FlowInv => PhisKept
  BY FlowImpliesPhis
<1>2. QED
  BY <1>1, FlowInvariantHolds, PTL
=============================================================================
