------------------------ MODULE GraphRewrite_proofs ------------------------
(***************************************************************************)
(* The rewrites of P3 keep the graph in single-assignment form, and in     *)
(* order as long as no name is taken from its readers, for graphs of any   *)
(* size.                                                                   *)
(*                                                                         *)
(* The argument.  Every rewrite erases one node, or two, and changes at    *)
(* most the one that defined what the erased node read.  Where nobody else *)
(* reads the name that goes, each reader of the erased node's output comes *)
(* after the node that defines it now.                                     *)
(*                                                                         *)
(* What the graph computes is a function of its names by position in the   *)
(* list.  A rewrite that touches nothing others read leaves every name     *)
(* that stays defined with the value it had: before the erased node by     *)
(* induction on the list, after it because the new node's value is that    *)
(* of the old pair, by the arithmetic of the fused scale and bias, of      *)
(* composed permutations and of folded constants.                          *)
(***************************************************************************)
EXTENDS GraphRewrite, WellFoundedInduction, TLAPS

-----------------------------------------------------------------------------
(***************************************************************************)
(* Induction over a set of natural numbers: the library's theorems take an *)
(* operator, which the provers cannot instantiate.                         *)
(***************************************************************************)
\* A set of natural numbers has a least element.
LEMMA LeastNat ==
  ASSUME NEW T, T \subseteq Nat, T # {}
  PROVE  \E x \in T : \A y \in T : x <= y
<1>1. IsWellFoundedOn(OpToRel(<, Nat), Nat)
  BY NatLessThanWellFounded
<1>2. PICK x \in T : \A y \in T : ~(<<y, x>> \in OpToRel(<, Nat))
  BY <1>1, WFMin
<1>3. OpToRel(<, Nat) = {ss \in Nat \X Nat : ss[1] < ss[2]}
  BY Zenon DEF OpToRel
<1> DEFINE Less == {ss \in Nat \X Nat : ss[1] < ss[2]}
<1>4. \A y \in T : <<y, x>> \notin Less
  BY <1>2, <1>3, Zenon
<1>5. \A y \in T : ~(y < x)
  BY <1>4
<1>6. \A y \in T : x <= y
  BY <1>5, x \in Nat
<1>7. QED
  BY <1>6

\* A set with 0 and the successors of its elements up to a bound has the numbers up
\* to the bound.
LEMMA UpTo ==
  ASSUME NEW N \in Nat, NEW P, 0 \in P,
         \A n \in Nat : n < N /\ n \in P => n + 1 \in P
  PROVE  0 .. N \subseteq P
<1> DEFINE Q == (0 .. N) \ P
<1>1. SUFFICES ASSUME Q # {} PROVE FALSE
  OBVIOUS
<1>2. PICK x \in Q : \A y \in Q : x <= y
  <2>1. Q \subseteq Nat
    OBVIOUS
  <2> HIDE DEF Q
  <2>2. QED
    BY <1>1, <2>1, LeastNat
<1>3. x \in 0 .. N /\ x \notin P
  OBVIOUS
<1>4. x # 0
  BY <1>3
<1>5. x - 1 \in 0 .. N /\ x - 1 \in Nat /\ x - 1 < N /\ x - 1 + 1 = x /\ ~(x <= x - 1)
  BY <1>3, <1>4
<1>6. x - 1 \in P
  BY <1>2, <1>5
<1>7. x \in P
  BY <1>5, <1>6
<1>8. QED
  BY <1>3, <1>7

\* f starts with base and goes on by step up to k.
Recursion(f, k, base, step) ==
    /\ \E V : f \in [0 .. k -> V]
    /\ f[0] = base
    /\ \A n \in 0 .. k - 1 : f[n + 1] = step[<<n + 1, f[n]>>]

\* Such a function exists for any first value and any step.
LEMMA RecursionExists ==
  ASSUME NEW N \in Nat, NEW base, NEW step
  PROVE  \E f : Recursion(f, N, base, step)
<1> DEFINE StepsOn(V, f, k) == /\ f \in [0 .. k -> V]
                               /\ f[0] = base
                               /\ \A n \in 0 .. k - 1 : f[n + 1] = step[<<n + 1, f[n]>>]
           P == {k \in Nat : \E V, f : StepsOn(V, f, k)}
<1>1. 0 \in P
  <2> DEFINE first == [n \in 0 .. 0 |-> base]
  <2>1. StepsOn({base}, first, 0)
    OBVIOUS
  <2> HIDE DEF StepsOn, first
  <2>2. QED
    BY <2>1
<1>2. ASSUME NEW k \in Nat, k \in P PROVE k + 1 \in P
  <2>1. PICK V, f : StepsOn(V, f, k)
    BY <1>2
  <2> DEFINE last == step[<<k + 1, f[k]>>]
             W == V \cup {last}
             g == [n \in 0 .. k + 1 |-> IF n = k + 1 THEN last ELSE f[n]]
  <2>2. /\ g \in [0 .. k + 1 -> W]
        /\ g[k + 1] = last
        /\ \A n \in 0 .. k : g[n] = f[n]
    BY <2>1
  <2> HIDE DEF g, W
  <2>3. g[0] = base
    <3>1. 0 \in 0 .. k
      OBVIOUS
    <3>2. QED
      BY <2>1, <2>2, <3>1, Zenon
  <2>4. ASSUME NEW n \in 0 .. k PROVE g[n + 1] = step[<<n + 1, g[n]>>]
    <3>1. CASE n = k
      BY <2>2, <3>1
    <3>2. CASE n # k
      <4>1. n \in 0 .. k - 1 /\ n + 1 \in 0 .. k
        BY <3>2
      <4>2. QED
        BY <2>1, <2>2, <4>1
    <3>3. QED
      BY <3>1, <3>2
  <2>5. StepsOn(W, g, k + 1)
    <3>1. k + 1 - 1 = k
      OBVIOUS
    <3>2. QED
      BY <2>2, <2>3, <2>4, <3>1
  <2> HIDE DEF StepsOn
  <2>6. QED
    BY <2>5
<1> HIDE DEF P, StepsOn
<1>3. N \in P
  <2>1. 0 .. N \subseteq P
    BY <1>1, <1>2, UpTo
  <2>2. QED
    BY <2>1
<1>4. PICK V, f : StepsOn(V, f, N)
  BY <1>3 DEF P
<1>5. QED
  BY <1>4, Zenon DEF Recursion, StepsOn

(***************************************************************************)
(* Erasing from a list.                                                    *)
(***************************************************************************)
\* Where position k of a list is in the list that has lost position j.
Kept(j, k) == IF k < j THEN k ELSE k + 1

\* e is s without position j.
IsErasure(e, s, j) ==
    /\ \E S : e \in Seq(S)
    /\ Len(e) = Len(s) - 1
    /\ \A k \in 1 .. Len(e) : e[k] = s[Kept(j, k)]

\* RemoveAt erases.
LEMMA RemoveAtErases ==
  ASSUME NEW S, NEW s \in Seq(S), NEW j \in 1 .. Len(s)
  PROVE  RemoveAt(s, j) \in Seq(S) /\ IsErasure(RemoveAt(s, j), s, j)
<1> DEFINE front == SubSeq(s, 1, j - 1)
           back == SubSeq(s, j + 1, Len(s))
           e == RemoveAt(s, j)
           N == Len(s)
<1>1. N \in Nat /\ j \in 1 .. N
  OBVIOUS
<1>2. /\ front \in Seq(S)
      /\ Len(front) = j - 1
      /\ \A k \in 1 .. j - 1 : front[k] = s[k]
  BY <1>1
<1>3. /\ back \in Seq(S)
      /\ Len(back) = N - j
      /\ \A k \in 1 .. N - j : back[k] = s[k + j]
  BY <1>1
<1>4. e = front \o back
  BY DEF RemoveAt
<1> HIDE DEF front, back, e
<1>5. e \in Seq(S) /\ Len(e) = N - 1
  BY <1>1, <1>2, <1>3, <1>4
<1>6. ASSUME NEW k \in 1 .. N - 1 PROVE e[k] = s[Kept(j, k)]
  BY <1>1, <1>2, <1>3, <1>4 DEF Kept
<1>7. QED
  BY <1>5, <1>6 DEF e, IsErasure

\* Removing at position 0 removes nothing.
LEMMA RemoveAtZero ==
  ASSUME NEW S, NEW s \in Seq(S)
  PROVE  RemoveAt(s, 0) = s
<1>1. SubSeq(s, 1, 0 - 1) = <<>>
  OBVIOUS
<1>2. SubSeq(s, 0 + 1, Len(s)) = s
  OBVIOUS
<1>3. <<>> \o s = s
  OBVIOUS
<1>4. QED
  BY Zenon, <1>1, <1>2, <1>3 DEF RemoveAt

\* The positions of an erasure are the other positions, in their order.
LEMMA KeptPositions ==
  ASSUME NEW N \in Nat, NEW j \in 1 .. N
  PROVE  /\ \A k \in 1 .. N - 1 : Kept(j, k) \in (1 .. N) \ {j}
         /\ \A a \in (1 .. N) \ {j} : \E k \in 1 .. N - 1 : Kept(j, k) = a
         /\ \A k, l \in 1 .. N - 1 : Kept(j, k) < Kept(j, l) => k < l
         /\ \A k, l \in 1 .. N - 1 : Kept(j, k) = Kept(j, l) => k = l
<1>1. ASSUME NEW a \in (1 .. N) \ {j} PROVE \E k \in 1 .. N - 1 : Kept(j, k) = a
  <2>1. CASE a < j
    BY <2>1 DEF Kept
  <2>2. CASE a > j
    <3>1. a - 1 \in 1 .. N - 1 /\ Kept(j, a - 1) = a
      BY <2>2 DEF Kept
    <3>2. QED
      BY <3>1
  <2>3. QED
    BY <2>1, <2>2
<1>2. QED
  BY <1>1 DEF Kept

\* The first of some positions is one of them.
LEMMA FirstIsOne ==
  ASSUME NEW I, I \subseteq Nat \ {0}
  PROVE  IF I = {} THEN First(I) = 0 ELSE First(I) \in I /\ First(I) # 0
<1>1. CASE I = {}
  BY <1>1 DEF First
<1>2. CASE I # {}
  <2>1. \E x \in I : \A y \in I : x <= y
    BY <1>2, LeastNat
  <2>2. Min(I) \in I
    BY <2>1 DEF Min
  <2>3. QED
    BY <1>2, <2>2 DEF First
<1>3. QED
  BY <1>1, <1>2

-----------------------------------------------------------------------------
(***************************************************************************)
(* Lists of nodes in single-assignment form.                               *)
(***************************************************************************)
\* No two of the nodes ns define the same name.
Distinct(ns) == \A a, b \in DOMAIN ns : ns[a].output = ns[b].output => a = b

\* The producer of a name defines it.
LEMMA ProducerDefines ==
  ASSUME NEW S, NEW ns \in Seq(S), NEW x
  PROVE  \/ Producer(ns, x) \in DOMAIN ns /\ ns[Producer(ns, x)].output = x
         \/ Producer(ns, x) = 0 /\ \A a \in DOMAIN ns : ns[a].output # x
<1> DEFINE I == {a \in DOMAIN ns : ns[a].output = x}
<1>1. I \subseteq Nat \ {0}
  OBVIOUS
<1>2. Producer(ns, x) = First(I)
  BY DEF Producer
<1>3. IF I = {} THEN First(I) = 0 ELSE First(I) \in I
  BY <1>1, FirstIsOne
<1>4. QED
  BY <1>2, <1>3

\* Where no two nodes define a name, the producer is the only node that does.
LEMMA ProducerIs ==
  ASSUME NEW S, NEW ns \in Seq(S), Distinct(ns), NEW a \in DOMAIN ns
  PROVE  Producer(ns, ns[a].output) = a
<1> DEFINE x == ns[a].output
<1>1. \/ Producer(ns, x) \in DOMAIN ns /\ ns[Producer(ns, x)].output = x
      \/ Producer(ns, x) = 0 /\ \A b \in DOMAIN ns : ns[b].output # x
  BY ProducerDefines
<1>2. QED
  BY <1>1 DEF Distinct

\* erase_node erases the node that defines the name.
LEMMA EraseNode ==
  ASSUME NEW S, NEW ns \in Seq(S), Distinct(ns), NEW j \in DOMAIN ns
  PROVE  /\ erase_node(ns, ns[j].output) \in Seq(S)
         /\ IsErasure(erase_node(ns, ns[j].output), ns, j)
<1>1. Producer(ns, ns[j].output) = j
  BY ProducerIs
<1>2. erase_node(ns, ns[j].output) = RemoveAt(ns, j)
  BY <1>1 DEF erase_node
<1>3. j \in 1 .. Len(ns)
  OBVIOUS
<1>4. QED
  BY <1>2, <1>3, RemoveAtErases

\* An erasure is in single-assignment form if the other nodes are.
LEMMA ErasureSingle ==
  ASSUME NEW S, NEW ns \in Seq(S), NEW j \in 1 .. Len(ns), NEW e, IsErasure(e, ns, j),
         NEW given,
         \A a, b \in (1 .. Len(ns)) \ {j} : ns[a].output = ns[b].output => a = b,
         \A a \in (1 .. Len(ns)) \ {j} : ns[a].output \notin given
  PROVE  SingleAssignment(e, given)
<1> DEFINE N == Len(ns)
           at(k) == Kept(j, k)
<1>1. N \in Nat /\ j \in 1 .. N
  OBVIOUS
<1>2. PICK T : e \in Seq(T)
  BY DEF IsErasure
<1>3. Len(e) = N - 1 /\ \A k \in 1 .. N - 1 : e[k] = ns[at(k)]
  BY Zenon DEF IsErasure
<1>4. DOMAIN e = 1 .. N - 1
  BY <1>2, <1>3
<1>5. /\ \A k \in 1 .. N - 1 : at(k) \in (1 .. N) \ {j}
      /\ \A k, l \in 1 .. N - 1 : at(k) = at(l) => k = l
  BY <1>1, KeptPositions
<1>6. /\ \A a, b \in (1 .. N) \ {j} : ns[a].output = ns[b].output => a = b
      /\ \A a \in (1 .. N) \ {j} : ns[a].output \notin given
  OBVIOUS
<1> HIDE DEF N, at
<1>7. ASSUME NEW k \in DOMAIN e, NEW l \in DOMAIN e, e[k].output = e[l].output
      PROVE  k = l
  BY <1>3, <1>4, <1>5, <1>6, <1>7
<1>8. ASSUME NEW k \in DOMAIN e PROVE e[k].output \notin given
  BY <1>3, <1>4, <1>5, <1>6
<1>9. QED
  BY <1>7, <1>8 DEF SingleAssignment

\* An erasure is in order if no other node needs the one that goes.
LEMMA ErasureInOrder ==
  ASSUME NEW S, NEW ns \in Seq(S), NEW j \in 1 .. Len(ns), NEW e, IsErasure(e, ns, j),
         NEW given, NEW outs,
         \A a \in (1 .. Len(ns)) \ {j} : \A x \in ToSet(ns[a].inputs) :
           x \in given \/ \E b \in 1 .. a - 1 : b # j /\ ns[b].output = x,
         \A x \in ToSet(outs) :
           x \in given \/ \E b \in (1 .. Len(ns)) \ {j} : ns[b].output = x
  PROVE  InOrder(e, given, outs)
<1> DEFINE N == Len(ns)
           at(k) == Kept(j, k)
<1>1. N \in Nat /\ j \in 1 .. N
  OBVIOUS
<1>2. PICK T : e \in Seq(T)
  BY DEF IsErasure
<1>3. Len(e) = N - 1 /\ \A k \in 1 .. N - 1 : e[k] = ns[at(k)]
  BY Zenon DEF IsErasure
<1>4. DOMAIN e = 1 .. N - 1
  BY <1>2, <1>3
<1>5. /\ \A k \in 1 .. N - 1 : at(k) \in (1 .. N) \ {j}
      /\ \A a \in (1 .. N) \ {j} : \E k \in 1 .. N - 1 : at(k) = a
      /\ \A k, l \in 1 .. N - 1 : at(k) < at(l) => k < l
  BY <1>1, KeptPositions
<1>6. /\ \A a \in (1 .. N) \ {j} : \A x \in ToSet(ns[a].inputs) :
           x \in given \/ \E b \in 1 .. a - 1 : b # j /\ ns[b].output = x
      /\ \A x \in ToSet(outs) :
           x \in given \/ \E b \in (1 .. N) \ {j} : ns[b].output = x
  OBVIOUS
<1> HIDE DEF N, at
<1>7. ASSUME NEW k \in DOMAIN e, NEW x \in ToSet(e[k].inputs), x \notin given
      PROVE  \E l \in 1 .. k - 1 : e[l].output = x
  <2>1. k \in 1 .. N - 1 /\ at(k) \in (1 .. N) \ {j} /\ e[k] = ns[at(k)]
    BY <1>3, <1>4, <1>5
  <2>2. PICK b \in 1 .. at(k) - 1 : b # j /\ ns[b].output = x
    BY <1>6, <1>7, <2>1
  <2>3. b \in (1 .. N) \ {j} /\ b < at(k)
    BY <1>1, <2>1, <2>2
  <2>4. PICK l \in 1 .. N - 1 : at(l) = b
    BY <1>5, <2>3
  <2>5. l < k /\ e[l] = ns[b]
    BY <1>3, <1>5, <2>1, <2>3, <2>4
  <2>6. l \in 1 .. k - 1
    BY <1>1, <2>1, <2>5
  <2>7. QED
    BY <2>2, <2>5, <2>6
<1>8. ASSUME NEW x \in ToSet(outs), x \notin given
      PROVE  \E k \in DOMAIN e : e[k].output = x
  <2>1. PICK b \in (1 .. N) \ {j} : ns[b].output = x
    BY <1>6, <1>8
  <2>2. PICK k \in 1 .. N - 1 : at(k) = b
    BY <1>5, <2>1
  <2>3. QED
    BY <1>3, <1>4, <2>1, <2>2
<1>9. QED
  BY <1>7, <1>8 DEF InOrder

-----------------------------------------------------------------------------
(***************************************************************************)
(* What the rewrites make of the nodes.                                    *)
(***************************************************************************)
\* The names nodes may read: those of the graph, and of fused biases.
Names == STRING \cup Inputs \cup {x \o "_fused_bias" : x \in STRING}

\* No node has the name of another's fused bias.
Fresh(ns) == \A a, b \in DOMAIN ns : FusedBiasName(ns[a]) # ns[b].output

\* Nodes that the rewrites can work on, where the names in given are given.
Sound(ns, given) ==
    /\ ns \in Seq(Nodes(Names))
    /\ Fresh(ns)
    /\ SingleAssignment(ns, given)

\* The same of all positions of ns but j.
SoundBut(ns, j, given) ==
    /\ \A a \in (1 .. Len(ns)) \ {j} : ns[a] \in Nodes(Names) /\ ns[a].output \notin given
    /\ \A a, b \in (1 .. Len(ns)) \ {j} :
         /\ ns[a].output = ns[b].output => a = b
         /\ FusedBiasName(ns[a]) # ns[b].output

\* An erasure is sound if the other nodes are.
LEMMA ErasureSound ==
  ASSUME NEW S, NEW ns \in Seq(S), NEW j \in 1 .. Len(ns), NEW e, IsErasure(e, ns, j),
         NEW given, SoundBut(ns, j, given)
  PROVE  Sound(e, given)
<1> DEFINE N == Len(ns)
           at(k) == Kept(j, k)
<1>1. N \in Nat /\ j \in 1 .. N
  OBVIOUS
<1>2. PICK T : e \in Seq(T)
  BY DEF IsErasure
<1>3. Len(e) = N - 1 /\ \A k \in 1 .. N - 1 : e[k] = ns[at(k)]
  BY Zenon DEF IsErasure
<1>4. DOMAIN e = 1 .. N - 1 /\ N - 1 = Len(e) /\ e = [k \in 1 .. Len(e) |-> e[k]]
      /\ Len(e) \in Nat
  BY <1>2, <1>3
<1>5. \A k \in 1 .. N - 1 : at(k) \in (1 .. N) \ {j}
  BY <1>1, KeptPositions
<1>6. /\ \A a \in (1 .. N) \ {j} : ns[a] \in Nodes(Names) /\ ns[a].output \notin given
      /\ \A a, b \in (1 .. N) \ {j} : ns[a].output = ns[b].output => a = b
      /\ \A a, b \in (1 .. N) \ {j} : FusedBiasName(ns[a]) # ns[b].output
  BY Zenon DEF SoundBut
<1>7. SingleAssignment(e, given)
  BY <1>6, ErasureSingle
<1> HIDE DEF N, at
<1>8. \A k \in 1 .. Len(e) : e[k] \in Nodes(Names)
  BY <1>3, <1>4, <1>5, <1>6
<1>9. e \in Seq(Nodes(Names))
  BY <1>4, <1>8
<1>10. Fresh(e)
  BY <1>3, <1>4, <1>5, <1>6 DEF Fresh
<1>11. QED
  BY <1>7, <1>9, <1>10 DEF Sound

\* Without a node, the nodes are sound for a larger set of given names, if the
\* others define none of them.
LEMMA EraseSound ==
  ASSUME NEW ns, NEW given, Sound(ns, given), NEW j \in DOMAIN ns, NEW more,
         \A a \in DOMAIN ns : a # j => ns[a].output \notin more
  PROVE  /\ IsErasure(erase_node(ns, ns[j].output), ns, j)
         /\ Sound(erase_node(ns, ns[j].output), given \cup more)
<1> DEFINE e == erase_node(ns, ns[j].output)
<1>1. ns \in Seq(Nodes(Names)) /\ Fresh(ns) /\ Distinct(ns)
      /\ \A a \in DOMAIN ns : ns[a].output \notin given
  BY Zenon DEF Sound, SingleAssignment, Distinct
<1>2. DOMAIN ns = 1 .. Len(ns) /\ j \in 1 .. Len(ns)
  BY <1>1
<1>3. IsErasure(e, ns, j)
  BY <1>1, EraseNode
<1>4. \A a \in 1 .. Len(ns) : ns[a] \in Nodes(Names)
  BY <1>1
<1>5. SoundBut(ns, j, given \cup more)
  BY <1>1, <1>2, <1>4 DEF SoundBut, Fresh, Distinct
<1> HIDE DEF e
<1>6. Sound(e, given \cup more)
  BY <1>1, <1>2, <1>3, <1>5, ErasureSound
<1>7. QED
  BY <1>3, <1>6 DEF e

\* Erasing the node at j and replacing the one at i erases j from the list
\* that has the new node at i.
LEMMA EraseAndReplace ==
  ASSUME NEW S, NEW ns \in Seq(S), Distinct(ns), NEW i \in DOMAIN ns, NEW j \in DOMAIN ns,
         i # j, NEW new
  PROVE  IsErasure(ReplaceAll(erase_node(ns, ns[j].output), ns[i], new),
                   [ns EXCEPT ![i] = new], j)
<1> DEFINE e == erase_node(ns, ns[j].output)
           r == ReplaceAll(e, ns[i], new)
           n1 == [ns EXCEPT ![i] = new]
           N == Len(ns)
           at(k) == Kept(j, k)
<1>1. e \in Seq(S) /\ IsErasure(e, ns, j)
  BY EraseNode
<1>2. N \in Nat /\ i \in 1 .. N /\ j \in 1 .. N /\ DOMAIN ns = 1 .. N
  OBVIOUS
<1>3. Len(e) = N - 1 /\ \A k \in 1 .. N - 1 : e[k] = ns[at(k)]
  BY Zenon, <1>1 DEF IsErasure
<1>4. r = [k \in 1 .. Len(e) |-> IF e[k] = ns[i] THEN new ELSE e[k]]
  BY Zenon DEF ReplaceAll
<1>5. n1 \in Seq(S \cup {new}) /\ Len(n1) = N
      /\ \A a \in 1 .. N : n1[a] = IF a = i THEN new ELSE ns[a]
  BY <1>2
<1>6. \A k \in 1 .. N - 1 : at(k) \in (1 .. N) \ {j}
  BY <1>2, KeptPositions
<1>7. \A a \in 1 .. N : ns[a] = ns[i] => a = i
  BY <1>2 DEF Distinct
<1> HIDE DEF e, r, n1, N, at
<1>8. N - 1 \in Nat
  BY <1>2
<1>9. r \in Seq(S \cup {new}) /\ Len(r) = N - 1
  BY <1>1, <1>3, <1>4, <1>8
<1>10. ASSUME NEW k \in 1 .. N - 1 PROVE r[k] = n1[at(k)]
  <2>1. r[k] = IF e[k] = ns[i] THEN new ELSE e[k]
    BY <1>3, <1>4
  <2>2. at(k) \in 1 .. N
    BY <1>6
  <2>3. QED
    BY <2>1, <2>2, <1>3, <1>5, <1>7
<1>11. \A k \in 1 .. Len(r) : r[k] = n1[Kept(j, k)]
  BY <1>9, <1>10 DEF at
<1>12. Len(r) = Len(n1) - 1
  BY <1>5, <1>9
<1>13. IsErasure(r, n1, j)
  BY <1>9, <1>11, <1>12 DEF IsErasure
<1>14. QED
  BY <1>13 DEF r, n1, e

\* What it is to be a node.
LEMMA NodeFacts ==
  ASSUME NEW names, NEW n
  PROVE  n \in Nodes(names) <=>
           /\ n \in [op_type : STRING, inputs : Seq(names), output : STRING,
                     perm : Permutations3]
           /\ n.op_type = "BatchNormalization" => Len(n.inputs) = 5
           /\ n.op_type = "Conv" => Len(n.inputs) \in {2, 3}
           /\ n.op_type = "Transpose" => Len(n.inputs) = 1
           /\ n.op_type \in Elementwise => Len(n.inputs) = 2
BY DEF Nodes, Elementwise

\* Permutations compose.
LEMMA ComposedPermutes ==
  ASSUME NEW p \in Permutations3, NEW q \in Permutations3
  PROVE  Composed(p, q) \in Permutations3
<1> DEFINE c == Composed(p, q)
           D == 1 .. Rank
<1>1. /\ p \in [D -> D] /\ \A y \in D : \E a \in D : p[a] = y
      /\ q \in [D -> D] /\ \A y \in D : \E a \in D : q[a] = y
  BY DEF Permutations3, Range
<1>2. c = [a \in D |-> p[q[a]]]
  BY Zenon DEF Composed
<1> HIDE DEF c, D
<1>3. c \in [D -> D] /\ \A y \in D : \E a \in D : c[a] = y
  BY <1>1, <1>2
<1>4. Range(c) = D
  BY <1>3 DEF Range
<1>5. QED
  BY <1>3, <1>4 DEF Permutations3, c, D

\* Where the graph is in order, the producer of what a node reads comes before
\* the node.
LEMMA ProducerBefore ==
  ASSUME NEW S, NEW ns \in Seq(S), NEW given, NEW outs, SingleAssignment(ns, given),
         InOrder(ns, given, outs), NEW j \in DOMAIN ns, NEW i \in DOMAIN ns,
         ns[i].output \in ToSet(ns[j].inputs)
  PROVE  i < j
<1>1. ns[i].output \notin given
  BY DEF SingleAssignment
<1>2. PICK k \in 1 .. j - 1 : ns[k].output = ns[i].output
  BY <1>1 DEF InOrder
<1>3. k \in DOMAIN ns /\ k < j
  BY <1>2
<1>4. k = i
  BY <1>2, <1>3 DEF SingleAssignment
<1>5. QED
  BY <1>3, <1>4

-----------------------------------------------------------------------------
(***************************************************************************)
(* The invariant.                                                          *)
(***************************************************************************)
Given == Inputs \cup DOMAIN initializers

IInv ==
    /\ pass \in Passes /\ lapses \subseteq Lapses
    /\ Sound(nodes, Given)
    /\ \E S : outputs \in Seq(S)
    /\ DefinedBeforeUse

\* It says what the run checks.
LEMMA IInvImplies ==
  IInv => TypeOK /\ DefinedBeforeUse
<1>1. SUFFICES ASSUME IInv PROVE TypeOK
  BY Zenon DEF IInv
<1>2. /\ pass \in Passes /\ lapses \subseteq Lapses
      /\ nodes \in Seq(Nodes(Names))
      /\ SingleAssignment(nodes, Inputs \cup DOMAIN initializers)
  BY Zenon, <1>1 DEF IInv, Sound, Given
<1>3. ASSUME NEW n \in ToSet(nodes) PROVE n.perm \in Permutations3
  <2>1. n \in Nodes(Names)
    BY <1>2 DEF ToSet
  <2>2. QED
    BY <2>1, NodeFacts
<1>4. QED
  BY Zenon, <1>2, <1>3 DEF TypeOK

\* It holds of the graphs that are loaded.
LEMMA InitInvariant ==
  Init => IInv
<1> SUFFICES ASSUME Init PROVE IInv
  OBVIOUS
<1>1. PICK g \in Graphs : nodes = g.nodes /\ initializers = g.initializers
                          /\ outputs = g.outputs
  BY Zenon DEF Init
<1>2. /\ nodes \in Seq(Nodes(STRING)) /\ outputs \in Seq(STRING)
      /\ SingleAssignment(nodes, Given)
      /\ InOrder(nodes, Given, outputs)
      /\ \A m, n \in ToSet(nodes) : FusedBiasName(m) # n.output
  BY Zenon, <1>1, GraphsAssumption DEF Given
<1>3. \A n \in Nodes(STRING) : n \in Nodes(Names)
  <2>1. STRING \subseteq Names
    BY DEF Names
  <2>2. ASSUME NEW s \in Seq(STRING) PROVE s \in Seq(Names)
    <3>1. Len(s) \in Nat /\ s = [k \in 1 .. Len(s) |-> s[k]]
          /\ \A k \in 1 .. Len(s) : s[k] \in STRING
      OBVIOUS
    <3>2. \A k \in 1 .. Len(s) : s[k] \in Names
      BY <2>1, <3>1
    <3>3. QED
      BY <3>1, <3>2
  <2>3. QED
    BY <2>2, NodeFacts
<1>4. nodes \in Seq(Nodes(Names))
  BY <1>2, <1>3
<1>5. Fresh(nodes)
  BY <1>2 DEF Fresh, ToSet
<1>6. Sound(nodes, Given)
  BY Zenon, <1>2, <1>4, <1>5 DEF Sound
<1>7. pass \in Passes /\ lapses \subseteq Lapses
  BY DEF Init, Passes
<1>8. DefinedBeforeUse
  BY Zenon, <1>2 DEF DefinedBeforeUse, Given
<1>9. QED
  BY Zenon, <1>2, <1>6, <1>7, <1>8 DEF IInv

\* What the producer of a name with an operator op is.
LEMMA ProducedByFacts ==
  ASSUME IInv, NEW x, NEW op, ProducedBy(x, op)
  PROVE  /\ find_producer(x) \in DOMAIN nodes
         /\ nodes[find_producer(x)].output = x
         /\ nodes[find_producer(x)].op_type = op
<1>1. nodes \in Seq(Nodes(Names))
  BY Zenon DEF IInv, Sound
<1>2. find_producer(x) # 0 /\ nodes[find_producer(x)].op_type = op
  BY Zenon DEF ProducedBy
<1>3. find_producer(x) \in DOMAIN nodes /\ nodes[find_producer(x)].output = x
  BY <1>1, <1>2, ProducerDefines DEF find_producer
<1>4. QED
  BY <1>2, <1>3

-----------------------------------------------------------------------------
(***************************************************************************)
(* The steps.                                                              *)
(***************************************************************************)
\* The node at i takes over what the node at j defines, which is erased:
\* both the fusion of a normalization and the merging of transposes do that.
LEMMA TakeOver ==
  ASSUME NEW ns, NEW given, Sound(ns, given), NEW i \in DOMAIN ns, NEW j \in DOMAIN ns,
         NEW new \in Nodes(Names), new.output = ns[j].output,
         NEW more, \A a \in DOMAIN ns : ns[a].output \notin more,
         NEW outs
  PROVE  LET e == ReplaceAll(erase_node(ns, ns[j].output), ns[i], new) IN
         /\ Sound(e, given \cup more)
         /\ (/\ InOrder(ns, given, outs)
             /\ ns[i].output \in ToSet(ns[j].inputs)
             /\ ns[i].output \notin ToSet(outs)
             /\ \A a \in DOMAIN ns \ {j} : ns[i].output \notin ToSet(ns[a].inputs)
             /\ ToSet(new.inputs) \subseteq ToSet(ns[i].inputs) \cup given \cup more)
            => InOrder(e, given \cup more, outs)
<1> DEFINE e == ReplaceAll(erase_node(ns, ns[j].output), ns[i], new)
           n1 == [ns EXCEPT ![i] = new]
           N == Len(ns)
           known == given \cup more
<1>1. ns \in Seq(Nodes(Names)) /\ Fresh(ns) /\ Distinct(ns)
      /\ SingleAssignment(ns, given)
      /\ \A a \in DOMAIN ns : ns[a].output \notin known
  BY Zenon DEF Sound, SingleAssignment, Distinct
<1>2. N \in Nat /\ DOMAIN ns = 1 .. N /\ i \in 1 .. N /\ j \in 1 .. N
      /\ \A a \in 1 .. N : ns[a] \in Nodes(Names)
  BY <1>1
<1>3. n1 \in Seq(Nodes(Names)) /\ Len(n1) = N
      /\ \A a \in 1 .. N : n1[a] = IF a = i THEN new ELSE ns[a]
  BY <1>1, <1>2
<1>4. CASE i = j
  \* A node that reads itself: it is erased, and nothing takes over.
  <2> DEFINE e0 == erase_node(ns, ns[j].output)
  <2>1. IsErasure(e0, ns, j) /\ Sound(e0, known)
    BY <1>1, EraseSound
  <2>2. e0 \in Seq(Nodes(Names))
    BY <2>1 DEF Sound
  <2>3. Len(e0) = N - 1 /\ \A k \in 1 .. N - 1 : e0[k] = ns[Kept(j, k)]
    BY Zenon, <2>1 DEF IsErasure
  <2>4. \A k \in 1 .. N - 1 : Kept(j, k) \in (1 .. N) \ {j}
    BY <1>2, KeptPositions
  <2>5. e = [k \in 1 .. Len(e0) |-> IF e0[k] = ns[i] THEN new ELSE e0[k]]
    BY Zenon DEF ReplaceAll
  <2> HIDE DEF e0, e
  <2>6. \A k \in 1 .. N - 1 : e0[k] # ns[i]
    BY <1>1, <1>2, <1>4, <2>3, <2>4 DEF Distinct
  <2>7. e = [k \in 1 .. Len(e0) |-> e0[k]]
    BY Zenon, <2>3, <2>5, <2>6
  <2>8. e = e0
    BY <2>2, <2>7
  <2>9. Sound(e, known)
    BY <2>1, <2>8
  <2>10. ~(InOrder(ns, given, outs) /\ ns[i].output \in ToSet(ns[j].inputs))
    BY <1>1, <1>2, <1>4, ProducerBefore
  <2>11. QED
    BY Zenon, <2>9, <2>10 DEF e, known
<1>5. CASE i # j
  <2>1. IsErasure(e, n1, j)
    BY <1>1, <1>2, <1>5, EraseAndReplace
  <2> HIDE DEF e, n1, N, known
  <2>2. SoundBut(n1, j, known)
    <3>1. ASSUME NEW a \in (1 .. N) \ {j}
          PROVE  n1[a] \in Nodes(Names) /\ n1[a].output \notin known
      BY <1>1, <1>2, <1>3
    <3> DEFINE from(a) == IF a = i THEN j ELSE a
    <3>2. \A a \in (1 .. N) \ {j} : n1[a].output = ns[from(a)].output /\ from(a) \in 1 .. N
      BY <1>2, <1>3
    <3>3. \A a, b \in (1 .. N) \ {j} : from(a) = from(b) => a = b
      OBVIOUS
    <3> HIDE DEF from
    <3>4. \A a, b \in (1 .. N) \ {j} : n1[a].output = n1[b].output => a = b
      BY <1>1, <1>2, <3>2, <3>3 DEF Distinct
    <3>5. \A a, b \in (1 .. N) \ {j} : FusedBiasName(n1[a]) # n1[b].output
      <4>1. \A a \in (1 .. N) \ {j} : FusedBiasName(n1[a]) = FusedBiasName(ns[from(a)])
        BY Zenon, <3>2 DEF FusedBiasName
      <4>2. \A a, b \in 1 .. N : FusedBiasName(ns[a]) # ns[b].output
        BY Zenon, <1>1, <1>2 DEF Fresh
      <4>3. QED
        BY Zenon, <3>2, <4>1, <4>2
    <3>6. QED
      BY Zenon, <1>3, <3>1, <3>4, <3>5 DEF SoundBut
  <2>3. Sound(e, known)
    BY <1>2, <1>3, <2>1, <2>2, ErasureSound
  <2>4. ASSUME InOrder(ns, given, outs),
               ns[i].output \in ToSet(ns[j].inputs),
               ns[i].output \notin ToSet(outs),
               \A a \in DOMAIN ns \ {j} : ns[i].output \notin ToSet(ns[a].inputs),
               ToSet(new.inputs) \subseteq ToSet(ns[i].inputs) \cup known
        PROVE  InOrder(e, known, outs)
    <3>1. i < j
      BY <1>1, <1>2, <2>4, ProducerBefore
    <3>2. ASSUME NEW a \in 1 .. N, NEW x \in ToSet(ns[a].inputs), x \notin known
          PROVE  \E b \in 1 .. a - 1 : ns[b].output = x
      BY <1>2, <2>4, <3>2 DEF InOrder, known
    <3>3. ASSUME NEW a \in (1 .. N) \ {j}, NEW x \in ToSet(n1[a].inputs), x \notin known
          PROVE  \E b \in 1 .. a - 1 : b # j /\ n1[b].output = x
      <4>1. x \in ToSet(ns[a].inputs)
        <5>1. CASE a = i
          BY <1>2, <1>3, <2>4, <3>3, <5>1
        <5>2. CASE a # i
          BY <1>2, <1>3, <3>3, <5>2
        <5>3. QED
          BY <5>1, <5>2
      <4>2. PICK b \in 1 .. a - 1 : ns[b].output = x
        BY <3>2, <3>3, <4>1
      <4>3. b # i
        BY <1>2, <2>4, <4>1, <4>2
      <4>4. b \in 1 .. N /\ b < a
        BY <1>2, <4>2
      <4>5. CASE b # j
        BY <1>3, <4>2, <4>3, <4>4, <4>5
      <4>6. CASE b = j
        <5>1. n1[i].output = x /\ i \in 1 .. a - 1
          BY <1>2, <1>3, <3>1, <4>2, <4>4, <4>6
        <5>2. QED
          BY <1>5, <5>1
      <4>7. QED
        BY <4>5, <4>6
    <3>4. ASSUME NEW x \in ToSet(outs), x \notin known
          PROVE  \E b \in (1 .. N) \ {j} : n1[b].output = x
      <4>1. PICK b \in 1 .. N : ns[b].output = x
        BY <1>2, <2>4, <3>4 DEF InOrder, known
      <4>2. b # i
        BY <2>4, <4>1
      <4>3. CASE b # j
        BY <1>3, <4>1, <4>2, <4>3
      <4>4. CASE b = j
        BY <1>2, <1>3, <1>5, <4>1, <4>4
      <4>5. QED
        BY <4>3, <4>4
    <3>5. QED
      BY <1>2, <1>3, <2>1, <3>3, <3>4, ErasureInOrder
  <2>5. QED
    BY Zenon, <2>3, <2>4 DEF e, known
<1>6. QED
  BY Zenon, <1>4, <1>5

\* What pass 1 works on: a normalization of a convolution, whose parameters and
\* weights are given.  No node defines what becomes the bias.
LEMMA FusableFacts ==
  ASSUME IInv, FusableBns # {}
  PROVE  LET j    == First(FusableBns)
             bn   == nodes[j]
             i    == find_producer(bn.inputs[1])
             conv == nodes[i]
             bias == IF HasBias(conv) THEN conv.inputs[3] ELSE FusedBiasName(conv)
         IN /\ j \in DOMAIN nodes /\ i \in DOMAIN nodes
            /\ bn \in Nodes(Names) /\ conv \in Nodes(Names)
            /\ bn.op_type = "BatchNormalization" /\ conv.op_type = "Conv"
            /\ conv.output = bn.inputs[1] /\ conv.output \in ToSet(bn.inputs)
            /\ \A k \in 2 .. 5 : bn.inputs[k] \in DOMAIN initializers
            /\ conv.inputs[2] \in DOMAIN initializers
            /\ bias \in Names
            /\ \A a \in DOMAIN nodes : nodes[a].output # bias
<1> DEFINE j == First(FusableBns)
           bn == nodes[j]
           i == find_producer(bn.inputs[1])
           conv == nodes[i]
           bias == IF HasBias(conv) THEN conv.inputs[3] ELSE FusedBiasName(conv)
<1>1. /\ nodes \in Seq(Nodes(Names))
      /\ \A a, b \in DOMAIN nodes : FusedBiasName(nodes[a]) # nodes[b].output
      /\ \A a \in DOMAIN nodes : nodes[a].output \notin Given
  BY Zenon DEF IInv, Sound, Fresh, SingleAssignment
<1>2. j \in DOMAIN nodes /\ IsFusableBn(bn)
  <2>1. FusableBns \subseteq Nat \ {0}
    BY <1>1 DEF FusableBns
  <2>2. j \in FusableBns
    BY <2>1, FirstIsOne
  <2>3. QED
    BY Zenon, <2>2 DEF FusableBns
<1>3. /\ bn.op_type = "BatchNormalization"
      /\ ProducedBy(bn.inputs[1], "Conv")
      /\ \A k \in 2 .. 5 : bn.inputs[k] \in DOMAIN initializers
      /\ conv.inputs[2] \in DOMAIN initializers
  BY Zenon, <1>2 DEF IsFusableBn, is_initializer
<1>4. i \in DOMAIN nodes /\ conv.output = bn.inputs[1] /\ conv.op_type = "Conv"
  BY <1>3, ProducedByFacts
<1>5. bn \in Nodes(Names) /\ conv \in Nodes(Names)
  BY <1>1, <1>2, <1>4
<1>6. HasBias(conv) => Len(conv.inputs) = 3 /\ conv.inputs[3] \in DOMAIN initializers
  BY Zenon DEF HasBias, is_initializer
<1> HIDE DEF j, i, bn, conv
<1>7. conv.output \in STRING /\ conv.inputs \in Seq(Names)
      /\ bn.inputs \in Seq(Names) /\ Len(bn.inputs) = 5
  BY <1>3, <1>5, NodeFacts
<1>8. bias \in Names
  <2>1. CASE HasBias(conv)
    BY <1>6, <1>7, <2>1
  <2>2. CASE ~HasBias(conv)
    <3>1. bias = conv.output \o "_fused_bias"
      BY Zenon, <2>2 DEF FusedBiasName
    <3>2. QED
      BY Zenon, <1>7, <3>1 DEF Names
  <2>3. QED
    BY <2>1, <2>2
<1>9. \A a \in DOMAIN nodes : nodes[a].output # bias
  <2>1. CASE HasBias(conv)
    BY <1>1, <1>6, <2>1 DEF Given
  <2>2. CASE ~HasBias(conv)
    BY Zenon, <1>1, <1>4, <2>2 DEF conv
  <2>3. QED
    BY <2>1, <2>2
<1>10. conv.output \in ToSet(bn.inputs)
  BY <1>4, <1>7 DEF ToSet
<1>11. QED
  BY Zenon, <1>2, <1>3, <1>4, <1>5, <1>8, <1>9, <1>10 DEF j, i, bn, conv

\* Pass 1 keeps the invariant: the convolution takes over what the
\* normalization defines, and its bias becomes a given name if it was not one.
LEMMA ConvBnInvariant ==
  ASSUME IInv, ConvBnFusion PROVE IInv'
<1> DEFINE j == First(FusableBns)
           bn == nodes[j]
           i == find_producer(bn.inputs[1])
           conv == nodes[i]
           P(k) == initializers[bn.inputs[k]].n
           bias == IF HasBias(conv) THEN conv.inputs[3] ELSE FusedBiasName(conv)
           ins == <<conv.inputs[1], conv.inputs[2], bias>>
           fused == [conv EXCEPT !.inputs = <<@[1], @[2], bias>>, !.output = bn.output]
           e == ReplaceAll(erase_node(nodes, bn.output), conv, fused)
           shared == LapseIf(\/ ReadElsewhere(conv.inputs[2], {i, j})
                             \/ ReadElsewhere(bias, {i, j})
                             \/ ~IsInjective(conv.inputs)
                             \/ ~HasBias(conv) /\ bias \in Inputs \cup DOMAIN initializers,
                             "shared")
           computed == LapseIf(Len(conv.inputs) = 3 /\ ~HasBias(conv), "dynamicBias")
<1>1. /\ FusableBns # {}
      /\ DOMAIN initializers' = DOMAIN initializers \cup {bias}
      /\ nodes' = e
      /\ lapses' = ((lapses \cup LapseIf(ReadElsewhere(conv.output, {j}), "renamed"))
                       \cup shared) \cup computed
      /\ UNCHANGED <<outputs, pass, results>>
  <2>1. initializers' = Rescaled(conv, bias, FusedScale(P(2), P(5)),
                                 FusedBias(P(2), P(3), P(4), P(5)))
    BY Zenon DEF ConvBnFusion
  <2>2. DOMAIN initializers' = DOMAIN initializers \cup {bias}
    BY <2>1 DEF Rescaled
  <2>3. QED
    BY Zenon, <2>2 DEF ConvBnFusion
<1>2. /\ pass \in Passes /\ lapses \subseteq Lapses
      /\ Sound(nodes, Given)
      /\ nodes \in Seq(Nodes(Names))
      /\ \A a, b \in DOMAIN nodes : FusedBiasName(nodes[a]) # nodes[b].output
      /\ \A a \in DOMAIN nodes : nodes[a].output \notin Given
      /\ \E S : outputs \in Seq(S)
      /\ "renamed" \notin lapses => InOrder(nodes, Given, outputs)
  BY Zenon DEF IInv, Sound, Fresh, SingleAssignment, DefinedBeforeUse, Given
<1>3. /\ j \in DOMAIN nodes /\ i \in DOMAIN nodes
      /\ conv \in Nodes(Names) /\ bn \in Nodes(Names)
      /\ conv.op_type = "Conv"
      /\ conv.output \in ToSet(bn.inputs)
      /\ conv.inputs[2] \in DOMAIN initializers
      /\ bias \in Names
      /\ \A a \in DOMAIN nodes : nodes[a].output # bias
  BY Zenon, <1>1, <1>2, FusableFacts
<1> HIDE DEF j, i, bn, conv
<1>4. /\ Len(conv.inputs) \in {2, 3} /\ conv.inputs \in Seq(Names)
      /\ conv \in [op_type : STRING, inputs : Seq(Names), output : STRING,
                   perm : Permutations3]
      /\ bn.output \in STRING
  BY <1>3, NodeFacts
<1>5. fused = [conv EXCEPT !.inputs = ins, !.output = bn.output]
  BY Zenon
<1> HIDE DEF bias
<1>6. ins \in Seq(Names) /\ Len(ins) = 3
  BY <1>4, <1>3
<1>7. ToSet(ins) \subseteq ToSet(conv.inputs) \cup Given \cup {bias}
  <2>1. conv.inputs[1] \in ToSet(conv.inputs)
    BY <1>4 DEF ToSet
  <2>2. conv.inputs[2] \in Given
    BY <1>3 DEF Given
  <2>3. ToSet(ins) = {conv.inputs[1], conv.inputs[2], bias}
    BY DEF ToSet
  <2>4. QED
    BY <2>1, <2>2, <2>3
<1> HIDE DEF ins, fused
<1>8. fused.op_type = "Conv" /\ fused.inputs = ins /\ fused.output = bn.output
       /\ fused \in [op_type : STRING, inputs : Seq(Names), output : STRING,
                     perm : Permutations3]
  BY <1>3, <1>4, <1>5, <1>6
<1>9. fused \in Nodes(Names)
  BY <1>6, <1>8, NodeFacts DEF Elementwise
<1>10. /\ Sound(e, Given \cup {bias})
       /\ (/\ InOrder(nodes, Given, outputs)
           /\ conv.output \in ToSet(bn.inputs)
           /\ conv.output \notin ToSet(outputs)
           /\ \A a \in DOMAIN nodes \ {j} : conv.output \notin ToSet(nodes[a].inputs)
           /\ ToSet(fused.inputs) \subseteq ToSet(conv.inputs) \cup Given \cup {bias})
          => InOrder(e, Given \cup {bias}, outputs)
  <2>1. \A a \in DOMAIN nodes : nodes[a].output \notin {bias}
    BY <1>3
  <2>2. fused.output = nodes[j].output
    BY <1>8 DEF bn
  <2> HIDE DEF e
  <2>3. e = ReplaceAll(erase_node(nodes, nodes[j].output), nodes[i], fused)
    BY Zenon DEF e, bn, conv
  <2>4. QED
    BY <1>2, <1>3, <1>9, <2>1, <2>2, <2>3, TakeOver DEF bn, conv
<1> HIDE DEF e, shared, computed
<1>11. Given' = Given \cup {bias}
  BY <1>1 DEF Given
<1>12. Sound(nodes, Given)'
  BY Zenon, <1>1, <1>10, <1>11
<1>13. DefinedBeforeUse'
  <2>1. SUFFICES ASSUME "renamed" \notin lapses'
                 PROVE  InOrder(nodes', Given', outputs')
    BY Zenon DEF DefinedBeforeUse, Given
  <2>2. "renamed" \notin lapses /\ ~ReadElsewhere(conv.output, {j})
    BY <1>1, <2>1 DEF LapseIf
  <2>3. /\ conv.output \notin ToSet(outputs)
        /\ \A a \in DOMAIN nodes \ {j} : conv.output \notin ToSet(nodes[a].inputs)
    BY Zenon, <2>2 DEF ReadElsewhere
  <2>4. InOrder(e, Given \cup {bias}, outputs)
    BY Zenon, <1>2, <1>7, <1>3, <1>8, <1>10, <2>2, <2>3
  <2>5. QED
    BY Zenon, <1>1, <1>11, <2>4
<1>14. lapses' \subseteq Lapses /\ pass' \in Passes /\ \E S : outputs' \in Seq(S)
  <2>1. shared \subseteq Lapses /\ computed \subseteq Lapses
        /\ LapseIf(ReadElsewhere(conv.output, {j}), "renamed") \subseteq Lapses
    BY DEF shared, computed, LapseIf, Lapses
  <2>2. QED
    BY Zenon, <1>1, <1>2, <2>1
<1>15. QED
  BY Zenon, <1>12, <1>13, <1>14 DEF IInv

\* What pass 2 works on: two transposes, the first defining what the second
\* reads.
LEMMA TransposePairFacts ==
  ASSUME IInv, TransposePairs # {}
  PROVE  LET j  == First(TransposePairs)
             t2 == nodes[j]
             i  == find_producer(t2.inputs[1])
             t1 == nodes[i]
         IN /\ j \in DOMAIN nodes /\ i \in DOMAIN nodes
            /\ t1 \in Nodes(Names) /\ t2 \in Nodes(Names)
            /\ Len(t1.inputs) = 1 /\ Len(t2.inputs) = 1
            /\ t1.op_type = "Transpose" /\ t2.op_type = "Transpose"
            /\ t1.output = t2.inputs[1]
            /\ t1.output \in ToSet(t2.inputs)
<1> DEFINE j == First(TransposePairs)
           t2 == nodes[j]
           i == find_producer(t2.inputs[1])
           t1 == nodes[i]
<1>1. nodes \in Seq(Nodes(Names))
  BY Zenon DEF IInv, Sound
<1>2. j \in DOMAIN nodes /\ IsTransposePair(t2)
  <2>1. TransposePairs \subseteq Nat \ {0}
    BY <1>1 DEF TransposePairs
  <2>2. j \in TransposePairs
    BY <2>1, FirstIsOne
  <2>3. QED
    BY Zenon, <2>2 DEF TransposePairs
<1>3. t2.op_type = "Transpose" /\ ProducedBy(t2.inputs[1], "Transpose")
  BY Zenon, <1>2 DEF IsTransposePair
<1>4. i \in DOMAIN nodes /\ t1.output = t2.inputs[1] /\ t1.op_type = "Transpose"
  BY <1>3, ProducedByFacts
<1>5. t1 \in Nodes(Names) /\ t2 \in Nodes(Names)
  BY <1>1, <1>2, <1>4
<1> HIDE DEF j, i, t1, t2
<1>6. Len(t1.inputs) = 1 /\ Len(t2.inputs) = 1 /\ t2.inputs \in Seq(Names)
  BY <1>3, <1>4, <1>5, NodeFacts
<1>7. t1.output \in ToSet(t2.inputs)
  BY <1>4, <1>6 DEF ToSet
<1>8. QED
  BY Zenon, <1>2, <1>3, <1>4, <1>5, <1>6, <1>7 DEF j, i, t1, t2

\* Merging two transposes keeps the invariant: the first takes over what the
\* second defines.
LEMMA MergeInvariant ==
  ASSUME IInv, TransposeMerge PROVE IInv'
<1> DEFINE j == First(TransposePairs)
           t2 == nodes[j]
           i == find_producer(t2.inputs[1])
           t1 == nodes[i]
           perm == Composed(t1.perm, t2.perm)
           merged == [t1 EXCEPT !.perm = Composed(t1.perm, t2.perm), !.output = t2.output]
           e == ReplaceAll(erase_node(nodes, t2.output), t1, merged)
<1>1. /\ TransposePairs # {}
      /\ nodes' = e
      /\ lapses' = lapses \cup LapseIf(ReadElsewhere(t1.output, {j}), "renamed")
      /\ UNCHANGED <<initializers, outputs, pass, results>>
  BY Zenon DEF TransposeMerge
<1>2. /\ pass \in Passes /\ lapses \subseteq Lapses
      /\ Sound(nodes, Given)
      /\ \A a \in DOMAIN nodes : nodes[a].output \notin Given
      /\ \E S : outputs \in Seq(S)
      /\ "renamed" \notin lapses => InOrder(nodes, Given, outputs)
  BY Zenon DEF IInv, Sound, SingleAssignment, DefinedBeforeUse, Given
<1>3. /\ j \in DOMAIN nodes /\ i \in DOMAIN nodes
      /\ t1 \in Nodes(Names) /\ t2 \in Nodes(Names)
      /\ Len(t1.inputs) = 1
      /\ t1.op_type = "Transpose"
      /\ t1.output \in ToSet(t2.inputs)
  BY Zenon, <1>1, TransposePairFacts
<1>4. merged = [t1 EXCEPT !.perm = perm, !.output = t2.output]
  BY Zenon
<1> HIDE DEF j, i, t1, t2
<1>5. /\ t1 \in [op_type : STRING, inputs : Seq(Names), output : STRING,
                 perm : Permutations3]
      /\ t2.perm \in Permutations3 /\ t2.output \in STRING
  BY <1>3, NodeFacts
<1>6. perm \in Permutations3
  BY <1>5, ComposedPermutes
<1> HIDE DEF perm, merged
<1>7. /\ merged \in [op_type : STRING, inputs : Seq(Names), output : STRING,
                     perm : Permutations3]
      /\ merged.op_type = "Transpose" /\ merged.inputs = t1.inputs
      /\ merged.output = t2.output
  BY <1>3, <1>4, <1>5, <1>6
<1>8. merged \in Nodes(Names)
  BY <1>3, <1>7, NodeFacts
<1>9. /\ Sound(e, Given \cup {})
      /\ (/\ InOrder(nodes, Given, outputs)
          /\ t1.output \in ToSet(t2.inputs)
          /\ t1.output \notin ToSet(outputs)
          /\ \A a \in DOMAIN nodes \ {j} : t1.output \notin ToSet(nodes[a].inputs)
          /\ ToSet(merged.inputs) \subseteq ToSet(t1.inputs) \cup Given \cup {})
         => InOrder(e, Given \cup {}, outputs)
  <2> DEFINE none == {}
  <2>1. \A a \in DOMAIN nodes : nodes[a].output \notin none
    OBVIOUS
  <2>2. merged.output = nodes[j].output
    BY <1>7 DEF t2
  <2> HIDE DEF e, none
  <2>3. e = ReplaceAll(erase_node(nodes, nodes[j].output), nodes[i], merged)
    BY Zenon DEF e, t1, t2
  <2>4. /\ Sound(e, Given \cup none)
        /\ (/\ InOrder(nodes, Given, outputs)
            /\ t1.output \in ToSet(t2.inputs)
            /\ t1.output \notin ToSet(outputs)
            /\ \A a \in DOMAIN nodes \ {j} : t1.output \notin ToSet(nodes[a].inputs)
            /\ ToSet(merged.inputs) \subseteq ToSet(t1.inputs) \cup Given \cup none)
           => InOrder(e, Given \cup none, outputs)
    BY <1>2, <1>3, <1>8, <2>1, <2>2, <2>3, TakeOver DEF t1, t2
  <2>5. QED
    BY Zenon, <2>4 DEF none
<1> HIDE DEF e
<1>10. Given' = Given /\ Given \cup {} = Given
  BY <1>1 DEF Given
<1>11. Sound(nodes, Given)'
  BY Zenon, <1>1, <1>9, <1>10
<1>12. DefinedBeforeUse'
  <2>1. SUFFICES ASSUME "renamed" \notin lapses'
                 PROVE  InOrder(nodes', Given', outputs')
    BY Zenon DEF DefinedBeforeUse, Given
  <2>2. "renamed" \notin lapses /\ ~ReadElsewhere(t1.output, {j})
    BY <1>1, <2>1 DEF LapseIf
  <2>3. /\ t1.output \notin ToSet(outputs)
        /\ \A a \in DOMAIN nodes \ {j} : t1.output \notin ToSet(nodes[a].inputs)
    BY Zenon, <2>2 DEF ReadElsewhere
  <2>4. ToSet(merged.inputs) \subseteq ToSet(t1.inputs) \cup Given \cup {}
    BY <1>7
  <2>5. InOrder(e, Given \cup {}, outputs)
    BY Zenon, <1>2, <1>3, <1>9, <2>2, <2>3, <2>4
  <2>6. QED
    BY Zenon, <1>1, <1>10, <2>5
<1>13. lapses' \subseteq Lapses /\ pass' \in Passes /\ \E S : outputs' \in Seq(S)
  <2>1. LapseIf(ReadElsewhere(t1.output, {j}), "renamed") \subseteq Lapses
    BY DEF LapseIf, Lapses
  <2>2. QED
    BY Zenon, <1>1, <1>2, <2>1
<1>14. QED
  BY Zenon, <1>11, <1>12, <1>13 DEF IInv

\* Pass 3 keeps the invariant: a node is erased, and its name is given.
LEMMA FoldInvariant ==
  ASSUME IInv, ConstantFold PROVE IInv'
<1> DEFINE j == First(ConstantNodes)
           x == nodes[j].output
           e == erase_node(nodes, nodes[j].output)
           more == {x}
<1>1. /\ ConstantNodes # {}
      /\ DOMAIN initializers' = DOMAIN initializers \cup {x}
      /\ nodes' = e
      /\ UNCHANGED <<outputs, pass, results, lapses>>
  BY DEF ConstantFold
<1>2. /\ pass \in Passes /\ lapses \subseteq Lapses
      /\ Sound(nodes, Given)
      /\ nodes \in Seq(Nodes(Names))
      /\ \A a, b \in DOMAIN nodes : nodes[a].output = nodes[b].output => a = b
      /\ \E S : outputs \in Seq(S)
      /\ "renamed" \notin lapses => InOrder(nodes, Given, outputs)
  BY Zenon DEF IInv, Sound, SingleAssignment, DefinedBeforeUse, Given
<1>3. j \in DOMAIN nodes
  <2>1. ConstantNodes \subseteq Nat \ {0}
    BY <1>2 DEF ConstantNodes
  <2>2. j \in ConstantNodes
    BY <1>1, <2>1, FirstIsOne
  <2>3. QED
    BY Zenon, <2>2 DEF ConstantNodes
<1>4. \A a \in DOMAIN nodes : a # j => nodes[a].output \notin more
  BY <1>2, <1>3
<1> HIDE DEF j, more
<1>5. IsErasure(e, nodes, j) /\ Sound(e, Given \cup more)
  BY <1>2, <1>3, <1>4, EraseSound
<1>6. Given' = Given \cup more
  BY <1>1 DEF Given, more
<1> HIDE DEF e
<1>7. Sound(nodes, Given)'
  BY Zenon, <1>1, <1>5, <1>6
<1>8. DefinedBeforeUse'
  <2>1. SUFFICES ASSUME "renamed" \notin lapses'
                 PROVE  InOrder(nodes', Given', outputs')
    BY Zenon DEF DefinedBeforeUse, Given
  <2>2. InOrder(nodes, Given, outputs)
    BY Zenon, <1>1, <1>2, <2>1
  <2>3. DOMAIN nodes = 1 .. Len(nodes) /\ x \in Given \cup more /\ nodes[j].output = x
    BY <1>2 DEF more
  <2> HIDE DEF x
  <2>4. \A a \in (1 .. Len(nodes)) \ {j} : \A y \in ToSet(nodes[a].inputs) :
          y \in Given \cup more \/ \E b \in 1 .. a - 1 : b # j /\ nodes[b].output = y
    BY <2>2, <2>3 DEF InOrder
  <2>5. \A y \in ToSet(outputs) :
          y \in Given \cup more \/ \E b \in (1 .. Len(nodes)) \ {j} : nodes[b].output = y
    BY <2>2, <2>3 DEF InOrder
  <2>6. InOrder(e, Given \cup more, outputs)
    BY <1>2, <1>3, <1>5, <2>3, <2>4, <2>5, ErasureInOrder
  <2>7. QED
    BY Zenon, <1>1, <1>6, <2>6
<1>9. QED
  BY Zenon, <1>1, <1>2, <1>7, <1>8 DEF IInv

\* Removing two transposes keeps the invariant: who read the second reads what
\* the first read, which is defined before.
LEMMA ElimInvariant ==
  ASSUME IInv, TransposeElim PROVE IInv'
<1> DEFINE j == First(TransposePairs)
           t2 == nodes[j]
           i == find_producer(t2.inputs[1])
           t1 == nodes[i]
           old == t2.output
           in == t1.inputs[1]
           r == [k \in DOMAIN nodes |->
                  [nodes[k] EXCEPT !.inputs = ReplaceAll(@, t2.output, t1.inputs[1])]]
           e1 == erase_node(r, t2.output)
           e2 == erase_node(e1, t1.output)
           outs == ReplaceAll(outputs, t2.output, t1.inputs[1])
           N == Len(nodes)
           none == {}
           KeptSound == /\ Sound(nodes', Given')
                        /\ "renamed" \notin lapses' => InOrder(nodes', Given', outputs')
<1>1. /\ TransposePairs # {}
      /\ nodes' = e2
      /\ outputs' = outs
      /\ lapses' = lapses \cup LapseIf(ReadElsewhere(t1.output, {j}), "renamed")
      /\ UNCHANGED <<initializers, pass, results>>
  BY Zenon DEF TransposeElim
<1>2. /\ pass \in Passes /\ lapses \subseteq Lapses
      /\ Sound(nodes, Given)
      /\ nodes \in Seq(Nodes(Names))
      /\ Fresh(nodes)
      /\ SingleAssignment(nodes, Given)
      /\ Distinct(nodes)
      /\ \A a \in DOMAIN nodes : nodes[a].output \notin Given
      /\ "renamed" \notin lapses => InOrder(nodes, Given, outputs)
  BY Zenon DEF IInv, Sound, SingleAssignment, Distinct, DefinedBeforeUse, Given
<1>3. PICK S : outputs \in Seq(S)
  BY Zenon DEF IInv
<1>4. /\ j \in DOMAIN nodes /\ i \in DOMAIN nodes
      /\ t1 \in Nodes(Names) /\ t2 \in Nodes(Names)
      /\ Len(t1.inputs) = 1
      /\ t1.output \in ToSet(t2.inputs)
  BY Zenon, <1>1, TransposePairFacts
<1>5. /\ N \in Nat /\ DOMAIN nodes = 1 .. N
      /\ \A k \in 1 .. N : nodes[k] \in Nodes(Names)
  BY <1>2
<1>6. /\ r = [k \in DOMAIN nodes |-> [nodes[k] EXCEPT !.inputs = ReplaceAll(@, old, in)]]
      /\ outs = ReplaceAll(outputs, old, in)
      /\ e1 = erase_node(r, old)
  BY Zenon
<1> HIDE DEF j, i, t1, t2
<1>7. in \in Names /\ in \in ToSet(t1.inputs)
  <2>1. t1.inputs \in Seq(Names)
    BY <1>4, NodeFacts
  <2>2. QED
    BY <1>4, <2>1 DEF ToSet
<1> HIDE DEF old, in, r, e1, e2, outs, N
<1>8. ASSUME NEW k \in 1 .. N
      PROVE  /\ r[k] \in Nodes(Names)
             /\ r[k].output = nodes[k].output
             /\ \A y \in ToSet(r[k].inputs) :
                  \/ y \in ToSet(nodes[k].inputs) /\ y # old
                  \/ y = in /\ old \in ToSet(nodes[k].inputs)
  <2> DEFINE n == nodes[k]
             s == ReplaceAll(n.inputs, old, in)
             m == r[k]
  <2>1. n \in Nodes(Names)
    BY <1>5
  <2>2. m = [n EXCEPT !.inputs = s]
    BY <1>5, <1>6
  <2>3. s = [a \in 1 .. Len(n.inputs) |-> IF n.inputs[a] = old THEN in ELSE n.inputs[a]]
    BY Zenon DEF ReplaceAll
  <2> HIDE DEF n, s, m
  <2>4. /\ n \in [op_type : STRING, inputs : Seq(Names), output : STRING,
                  perm : Permutations3]
    BY <2>1, NodeFacts
  <2>5. s \in Seq(Names) /\ Len(s) = Len(n.inputs)
    BY <1>7, <2>3, <2>4
  <2>6. /\ m \in [op_type : STRING, inputs : Seq(Names), output : STRING,
                  perm : Permutations3]
        /\ m.op_type = n.op_type /\ m.inputs = s /\ m.output = n.output
    BY <2>2, <2>4, <2>5
  <2>7. m \in Nodes(Names)
    BY <2>1, <2>5, <2>6, NodeFacts
  <2>8. \A y \in ToSet(s) :
          \/ y \in ToSet(n.inputs) /\ y # old
          \/ y = in /\ old \in ToSet(n.inputs)
    BY <2>3, <2>4, <2>5 DEF ToSet
  <2>9. QED
    BY <2>6, <2>7, <2>8 DEF n, m
<1>9. /\ r \in Seq(Nodes(Names)) /\ Len(r) = N /\ DOMAIN r = 1 .. N
  <2>1. DOMAIN r = 1 .. N /\ r = [k \in 1 .. N |-> r[k]]
    BY <1>5, <1>6
  <2>2. QED
    BY <1>5, <1>8, <2>1
<1>10. Sound(r, Given)
  <2>1. Fresh(r)
    <3>1. \A k \in 1 .. N : FusedBiasName(r[k]) = FusedBiasName(nodes[k])
      BY Zenon, <1>8 DEF FusedBiasName
    <3>2. \A a, b \in 1 .. N : FusedBiasName(nodes[a]) # nodes[b].output
      BY Zenon, <1>2, <1>5 DEF Fresh
    <3>3. QED
      BY Zenon, <1>8, <1>9, <3>1, <3>2 DEF Fresh
  <2>2. SingleAssignment(r, Given)
    BY Zenon, <1>2, <1>5, <1>8, <1>9 DEF SingleAssignment
  <2>3. QED
    BY Zenon, <1>9, <2>1, <2>2 DEF Sound
<1>11. j \in 1 .. N /\ i \in 1 .. N /\ nodes[j].output = old
  BY <1>4, <1>5 DEF old, t2
<1>12. IsErasure(e1, r, j) /\ Sound(e1, Given)
  <2>1. j \in DOMAIN r /\ r[j].output = old
    BY <1>8, <1>9, <1>11
  <2>2. \A a \in DOMAIN r : a # j => r[a].output \notin none
    OBVIOUS
  <2> HIDE DEF none
  <2>3. IsErasure(erase_node(r, r[j].output), r, j)
        /\ Sound(erase_node(r, r[j].output), Given \cup none)
    BY <1>10, <2>1, <2>2, EraseSound
  <2>4. Given \cup none = Given
    BY DEF none
  <2>5. QED
    BY Zenon, <1>6, <2>1, <2>3, <2>4
<1>13. /\ e1 \in Seq(Nodes(Names)) /\ Distinct(e1)
       /\ Len(e1) = N - 1
       /\ \A k \in 1 .. N - 1 : e1[k] = r[Kept(j, k)]
  <2>1. e1 \in Seq(Nodes(Names)) /\ Distinct(e1)
    BY Zenon, <1>12 DEF Sound, SingleAssignment, Distinct
  <2>2. Len(e1) = N - 1
    BY Zenon, <1>9, <1>12 DEF IsErasure
  <2>3. QED
    BY Zenon, <1>12, <2>1, <2>2 DEF IsErasure
<1>14. e2 = erase_node(e1, t1.output)
  BY Zenon DEF e2, t1
<1>15. Given' = Given
  BY <1>1 DEF Given
<1>16. ASSUME \A a \in DOMAIN e1 : e1[a].output # t1.output
       PROVE  KeptSound
  \* The second transpose is the first.
  <2>1. Producer(e1, t1.output) = 0
    BY <1>13, <1>16, ProducerDefines
  <2>2. e2 = RemoveAt(e1, 0)
    BY Zenon, <1>14, <2>1 DEF erase_node
  <2>3. e2 = e1
    BY <1>13, <2>2, RemoveAtZero
  <2>4. i = j
    <3>1. SUFFICES ASSUME i # j PROVE FALSE
      OBVIOUS
    <3>2. PICK k \in 1 .. N - 1 : Kept(j, k) = i
      BY <1>5, <1>11, <3>1, KeptPositions
    <3>3. e1[k] = r[i] /\ k \in DOMAIN e1
      BY <1>13, <3>2
    <3>4. e1[k].output = t1.output
      BY <1>8, <1>11, <3>3 DEF t1
    <3>5. QED
      BY <1>16, <3>3, <3>4
  <2>5. "renamed" \in lapses
    <3>1. SUFFICES ASSUME InOrder(nodes, Given, outputs) PROVE FALSE
      BY Zenon, <1>2
    <3>2. nodes[i].output \in ToSet(nodes[j].inputs)
      BY <1>4 DEF t1, t2
    <3>3. i < j
      BY <1>2, <1>4, <3>1, <3>2, ProducerBefore
    <3>4. QED
      BY <1>11, <2>4, <3>3
  <2>6. Sound(nodes', Given') /\ "renamed" \in lapses'
    BY <1>1, <1>12, <1>15, <2>3, <2>5
  <2>7. QED
    BY Zenon, <2>6
<1>17. ASSUME \E a \in DOMAIN e1 : e1[a].output = t1.output
       PROVE  KeptSound
  <2>1. PICK i1 \in DOMAIN e1 : e1[i1].output = t1.output
    BY <1>17
  <2>2. IsErasure(e2, e1, i1) /\ Sound(e2, Given)
    <3>1. \A a \in DOMAIN e1 : a # i1 => e1[a].output \notin none
      OBVIOUS
    <3> HIDE DEF none
    <3>2. IsErasure(erase_node(e1, e1[i1].output), e1, i1)
          /\ Sound(erase_node(e1, e1[i1].output), Given \cup none)
      BY <1>12, <2>1, <3>1, EraseSound
    <3>3. Given \cup none = Given
      BY DEF none
    <3>4. QED
      BY Zenon, <1>14, <2>1, <3>2, <3>3
  <2>3. ASSUME InOrder(nodes, Given, outputs), ~ReadElsewhere(t1.output, {j})
        PROVE  InOrder(e2, Given, outs)
    <3>1. /\ t1.output \notin ToSet(outputs)
          /\ \A a \in DOMAIN nodes \ {j} : t1.output \notin ToSet(nodes[a].inputs)
      BY Zenon, <2>3 DEF ReadElsewhere
    <3>2. i < j
      <4>1. nodes[i].output \in ToSet(nodes[j].inputs)
        BY <1>4 DEF t1, t2
      <4>2. QED
        BY <1>2, <1>4, <2>3, <4>1, ProducerBefore
    <3>3. ASSUME NEW a \in 1 .. N, NEW y \in ToSet(nodes[a].inputs), y \notin Given
          PROVE  \E b \in 1 .. a - 1 : nodes[b].output = y
      BY <1>5, <2>3, <3>3 DEF InOrder
    <3>4. ASSUME NEW y \in ToSet(outputs), y \notin Given
          PROVE  \E b \in 1 .. N : nodes[b].output = y
      BY <1>5, <2>3, <3>4 DEF InOrder
    <3>5. ASSUME NEW a \in 1 .. N, NEW b \in 1 .. N, nodes[a].output = nodes[b].output
          PROVE  a = b
      BY <1>2, <1>5, <3>5 DEF Distinct
    <3>6. nodes[i].output = t1.output
      BY Zenon DEF t1
    \* What the pair reads is not its own.
    <3>7. in \in Given \/ \E p \in 1 .. i - 1 : nodes[p].output = in
      BY <1>7, <1>11, <3>3 DEF t1
    <3>8. in # t1.output
      <4>1. CASE in \in Given
        BY <1>2, <1>4, <3>6, <4>1
      <4>2. CASE \E p \in 1 .. i - 1 : nodes[p].output = in
        BY <1>5, <1>11, <3>5, <3>6, <4>2
      <4>3. QED
        BY <3>7, <4>1, <4>2
    <3>9. old \notin Given
      BY <1>2, <1>4, <1>11
    <3>10. ASSUME NEW a \in (1 .. N) \ {j}, NEW y \in ToSet(r[a].inputs), y \notin Given
           PROVE  \E b \in 1 .. a - 1 : b # j /\ r[b].output = y
      <4>1. CASE y \in ToSet(nodes[a].inputs) /\ y # old
        <5>1. PICK b \in 1 .. a - 1 : nodes[b].output = y
          BY <3>3, <3>10, <4>1
        <5>2. b # j /\ b \in 1 .. N
          BY <1>5, <1>11, <4>1, <5>1
        <5>3. QED
          BY <1>8, <5>1, <5>2
      <4>2. CASE y = in /\ old \in ToSet(nodes[a].inputs)
        <5>1. PICK c \in 1 .. a - 1 : nodes[c].output = old
          BY <3>3, <3>9, <4>2
        <5>2. c = j
          BY <1>5, <1>11, <3>5, <5>1
        <5>3. PICK p \in 1 .. i - 1 : nodes[p].output = in
          BY <3>7, <3>10, <4>2
        <5>4. p \in 1 .. a - 1 /\ p # j /\ p \in 1 .. N
          BY <1>5, <1>11, <3>2, <5>1, <5>2, <5>3
        <5>5. r[p].output = y
          BY <1>8, <4>2, <5>3, <5>4
        <5>6. QED
          BY <5>4, <5>5
      <4>3. QED
        BY <1>8, <3>10, <4>1, <4>2
    <3>11. ASSUME NEW z \in ToSet(outs)
           PROVE  (z \in ToSet(outputs) /\ z # old) \/ z = in
      <4>1. outs = [a \in 1 .. Len(outputs) |-> IF outputs[a] = old THEN in ELSE outputs[a]]
        BY Zenon, <1>6 DEF ReplaceAll
      <4>2. QED
        BY <1>3, <4>1 DEF ToSet
    <3>12. ASSUME NEW z \in ToSet(outs), z \notin Given
           PROVE  \E b \in (1 .. N) \ {j} : r[b].output = z
      <4>1. CASE z \in ToSet(outputs) /\ z # old
        <5>1. PICK b \in 1 .. N : nodes[b].output = z
          BY <3>4, <3>12, <4>1
        <5>2. QED
          BY <1>8, <1>11, <4>1, <5>1
      <4>2. CASE z = in
        <5>1. PICK p \in 1 .. i - 1 : nodes[p].output = in
          BY <3>7, <3>12, <4>2
        <5>2. p \in (1 .. N) \ {j}
          BY <1>5, <1>11, <3>2, <5>1
        <5>3. QED
          BY <1>8, <4>2, <5>1, <5>2
      <4>3. QED
        BY <3>11, <4>1, <4>2
    <3>13. InOrder(e1, Given, outs)
      BY <1>9, <1>11, <1>12, <3>10, <3>12, ErasureInOrder
    \* Without the second transpose, nobody reads the first.
    <3>14. ASSUME NEW b \in 1 .. N - 1 PROVE t1.output \notin ToSet(e1[b].inputs)
      <4>1. Kept(j, b) \in (1 .. N) \ {j} /\ e1[b] = r[Kept(j, b)]
        BY <1>5, <1>11, <1>13, KeptPositions
      <4>2. t1.output \notin ToSet(nodes[Kept(j, b)].inputs)
        BY <1>5, <3>1, <4>1
      <4>3. QED
        BY <1>8, <3>8, <4>1, <4>2
    <3>15. t1.output \notin ToSet(outs)
      BY <3>1, <3>8, <3>11
    <3>16. DOMAIN e1 = 1 .. N - 1 /\ i1 \in 1 .. Len(e1) /\ Len(e1) = N - 1
      BY <1>13, <2>1
    <3>17. \A a \in (1 .. Len(e1)) \ {i1} : \A y \in ToSet(e1[a].inputs) :
             y \in Given \/ \E b \in 1 .. a - 1 : b # i1 /\ e1[b].output = y
      BY <2>1, <3>13, <3>14, <3>16 DEF InOrder
    <3>18. \A z \in ToSet(outs) :
             z \in Given \/ \E b \in (1 .. Len(e1)) \ {i1} : e1[b].output = z
      BY <2>1, <3>13, <3>15, <3>16 DEF InOrder
    <3>19. QED
      BY <1>13, <2>2, <3>16, <3>17, <3>18, ErasureInOrder
  <2>4. "renamed" \notin lapses' => InOrder(e2, Given, outs)
    <3>1. SUFFICES ASSUME "renamed" \notin lapses' PROVE InOrder(e2, Given, outs)
      OBVIOUS
    <3>2. "renamed" \notin lapses /\ ~ReadElsewhere(t1.output, {j})
      BY <1>1, <3>1 DEF LapseIf
    <3>3. QED
      BY Zenon, <1>2, <2>3, <3>2
  <2>5. KeptSound
    BY Zenon, <1>1, <1>15, <2>2, <2>4
  <2>6. QED
    BY Zenon, <2>5
<1>18. KeptSound
  BY Zenon, <1>16, <1>17
<1>19. DefinedBeforeUse' /\ Sound(nodes, Given)'
  BY Zenon, <1>18 DEF DefinedBeforeUse, Given
<1>20. lapses' \subseteq Lapses /\ pass' \in Passes
  <2>1. LapseIf(ReadElsewhere(t1.output, {j}), "renamed") \subseteq Lapses
    BY DEF LapseIf, Lapses
  <2>2. QED
    BY Zenon, <1>1, <1>2, <2>1
<1>21. \E T : outputs' \in Seq(T)
  <2>1. outs = [a \in 1 .. Len(outputs) |-> IF outputs[a] = old THEN in ELSE outputs[a]]
    BY Zenon, <1>6 DEF ReplaceAll
  <2>2. outs \in Seq(S \cup {in})
    BY <1>3, <2>1
  <2>3. QED
    BY Zenon, <1>1, <2>2
<1>22. QED
  BY Zenon, <1>19, <1>20, <1>21 DEF IInv

\* Every step keeps the invariant.
LEMMA NextInvariant ==
  IInv /\ [Next]_vars => IInv'
<1> SUFFICES ASSUME IInv, [Next]_vars PROVE IInv'
  OBVIOUS
<1>1. CASE ConvBnFusion
  BY <1>1, ConvBnInvariant
<1>2. CASE TransposeElim
  BY <1>2, ElimInvariant
<1>3. CASE TransposeMerge
  BY <1>3, MergeInvariant
<1>4. CASE ConstantFold
  BY <1>4, FoldInvariant
<1>5. CASE EndPass
  <2>1. pass' \in Passes
    BY <1>5 DEF EndPass, Passes
  <2>2. UNCHANGED <<nodes, initializers, outputs, lapses>>
    BY <1>5 DEF EndPass
  <2>3. Given' = Given
    BY <2>2 DEF Given
  <2>4. QED
    BY Zenon, <2>1, <2>2, <2>3 DEF IInv, Sound, DefinedBeforeUse, Given
<1>6. CASE UNCHANGED vars
  BY Zenon, <1>6 DEF IInv, DefinedBeforeUse, Given, vars
<1>7. QED
  BY <1>1, <1>2, <1>3, <1>4, <1>5, <1>6 DEF Next, Terminating

LEMMA Invariant ==
  Spec => []IInv
<1>1. QED
  BY InitInvariant, NextInvariant, PTL DEF Spec

-----------------------------------------------------------------------------
\* The passes of P3 keep every graph in single-assignment form, with a
\* permutation on each transpose, whatever names they take from readers.
THEOREM TypesCorrect ==
  Spec => []TypeOK
<1>1. IInv => TypeOK
  BY IInvImplies
<1>2. QED
  BY <1>1, Invariant, PTL

\* Until a pass renames a value that others read, every name is defined before
\* the nodes that read it, and every output of the graph is defined: erasing,
\* renaming and rewiring leave no dangling name and no node out of order.
THEOREM NamesAreDefined ==
  Spec => []DefinedBeforeUse
<1>1. IInv => DefinedBeforeUse
  BY IInvImplies
<1>2. QED
  BY <1>1, Invariant, PTL

-----------------------------------------------------------------------------
(***************************************************************************)
(* What a graph computes.                                                  *)
(***************************************************************************)
\* t gives every name the value the graph gives it.
Evaluates(t, ns, inits) ==
    /\ \A x \in Inputs \cup DOMAIN inits : t[x] = Known(inits, x)
    /\ \A k \in DOMAIN ns : t[ns[k].output] = Value(ns[k], t)

\* The operators Apply computes.
Operators == Elementwise \cup {"Transpose", "Conv", "BatchNormalization"}

Values == Tensors \cup {Undefined}

\* A residue is an integer less than the modulus, and its own residue.
LEMMA Residues ==
  /\ Modulus \in Nat /\ Modulus > 0
  /\ \A z \in Int : z % Modulus \in 0 .. Modulus - 1
  /\ \A z \in 0 .. Modulus - 1 : z % Modulus = z
BY DEF Modulus

\* Tensor makes tensors.
LEMMA TensorFacts ==
  ASSUME NEW z \in Int, NEW axes \in [1 .. Rank -> 1 .. Rank]
  PROVE  Tensor(z, axes) \in Tensors
BY Residues DEF Tensor, Tensors

\* The undefined tensor is none.
LEMMA UndefinedIsNone ==
  Undefined \notin Tensors
<1>1. Undefined.axes = <<0, 0, 0>>
  BY DEF Undefined, Tensor
<1>2. <<0, 0, 0>>[1] = 0 /\ 1 \in 1 .. Rank
  BY DEF Rank
<1>3. SUFFICES ASSUME Undefined \in Tensors PROVE FALSE
  OBVIOUS
<1>4. Undefined.axes \in [1 .. Rank -> 1 .. Rank]
  BY <1>3 DEF Tensors
<1> HIDE DEF Undefined
<1>5. Undefined.axes[1] \in 1 .. Rank
  BY <1>2, <1>4
<1>6. QED
  BY <1>1, <1>2, <1>5

\* What Apply makes of tensors.
LEMMA ApplyFacts ==
  ASSUME NEW op \in Operators, NEW perm \in Permutations3, NEW in \in Seq(Tensors),
         op = "BatchNormalization" => Len(in) = 5,
         op = "Conv" => Len(in) \in {2, 3},
         op = "Transpose" => Len(in) = 1,
         op \in Elementwise => Len(in) = 2
  PROVE  Apply(op, perm, in) \in Values
<1>1. ASSUME NEW k \in 1 .. Len(in)
      PROVE  in[k].n \in Int /\ in[k].axes \in [1 .. Rank -> 1 .. Rank]
  <2>1. in[k] \in Tensors
    OBVIOUS
  <2> DEFINE v == in[k]
  <2> HIDE DEF v
  <2>2. v.n \in 0 .. Modulus - 1 /\ v.axes \in [1 .. Rank -> 1 .. Rank]
    BY <2>1 DEF Tensors, v
  <2>3. v.n \in Int
    BY <2>2, Residues
  <2>4. QED
    BY <2>2, <2>3 DEF v
<1>2. CASE op \in Elementwise
  <2>1. Apply(op, perm, in) = IF in[1].axes = in[2].axes
                              THEN Tensor(Calc(op, in[1].n, in[2].n), in[1].axes)
                              ELSE Undefined
    BY <1>2 DEF Apply, Elementwise
  <2>2. in[1].n \in Int /\ in[2].n \in Int /\ in[1].axes \in [1 .. Rank -> 1 .. Rank]
    <3>1. 1 \in 1 .. Len(in) /\ 2 \in 1 .. Len(in)
      <4> DEFINE l == Len(in)
      <4>1. l = 2
        BY Zenon, <1>2
      <4> HIDE DEF l
      <4>2. 1 \in 1 .. l /\ 2 \in 1 .. l
        BY <4>1
      <4>3. QED
        BY Zenon, <4>2 DEF l
    <3>2. QED
      BY Zenon, <1>1, <3>1
  <2> DEFINE a == in[1].n
             b == in[2].n
  <2>3. Calc(op, a, b) \in Int
    <3>1. a \in Int /\ b \in Int
      BY <2>2
    <3> HIDE DEF a, b
    <3>2. QED
      BY <1>2, <3>1 DEF Calc, Elementwise
  <2>4. QED
    BY Zenon, <2>1, <2>2, <2>3, TensorFacts DEF Values
<1>3. CASE op = "Transpose"
  <2>1. Apply(op, perm, in) = Tensor(in[1].n, [k \in 1 .. Rank |-> in[1].axes[perm[k]]])
    BY <1>3 DEF Apply, Elementwise
  <2>2. in[1].n \in Int /\ in[1].axes \in [1 .. Rank -> 1 .. Rank]
    BY <1>1, <1>3
  <2>3. perm \in [1 .. Rank -> 1 .. Rank]
    BY DEF Permutations3
  <2>4. [k \in 1 .. Rank |-> in[1].axes[perm[k]]] \in [1 .. Rank -> 1 .. Rank]
    BY <2>2, <2>3
  <2>5. QED
    BY <2>1, <2>2, <2>4, TensorFacts DEF Values
<1>4. CASE op = "Conv"
  <2> DEFINE b == IF Len(in) = 3 THEN in[3].n ELSE 0
             z == (in[1].n + 1) * in[2].n + b
  <2>1. Apply(op, perm, in) = Tensor(z, in[1].axes)
    BY <1>4 DEF Apply, Elementwise
  <2>2. in[1].n \in Int /\ in[2].n \in Int /\ in[1].axes \in [1 .. Rank -> 1 .. Rank]
    BY <1>1, <1>4
  <2>3. b \in Int
    BY <1>1, <1>4
  <2>4. z \in Int
    BY <2>2, <2>3
  <2>5. QED
    BY <2>1, <2>2, <2>4, TensorFacts DEF Values
<1>5. CASE op = "BatchNormalization"
  <2> DEFINE z == (in[1].n - in[4].n) * FusedScale(in[2].n, in[5].n) + in[3].n
  <2>1. Apply(op, perm, in) = Tensor(z, in[1].axes)
    BY <1>5 DEF Apply, Elementwise
  <2>2. /\ in[1].n \in Int /\ in[2].n \in Int /\ in[3].n \in Int /\ in[4].n \in Int
        /\ in[5].n \in Int /\ in[1].axes \in [1 .. Rank -> 1 .. Rank]
    <3>1. /\ 1 \in 1 .. Len(in) /\ 2 \in 1 .. Len(in) /\ 3 \in 1 .. Len(in)
          /\ 4 \in 1 .. Len(in) /\ 5 \in 1 .. Len(in)
      <4> DEFINE l == Len(in)
      <4>1. l = 5
        BY Zenon, <1>5
      <4> HIDE DEF l
      <4>2. 1 \in 1 .. l /\ 2 \in 1 .. l /\ 3 \in 1 .. l /\ 4 \in 1 .. l /\ 5 \in 1 .. l
        BY <4>1
      <4>3. QED
        BY Zenon, <4>2 DEF l
    <3>2. QED
      BY Zenon, <1>1, <3>1
  <2>3. FusedScale(in[2].n, in[5].n) \in Int
    BY <2>2 DEF FusedScale, InverseRoot
  <2>4. z \in Int
    BY <2>2, <2>3
  <2>5. QED
    BY <2>1, <2>2, <2>4, TensorFacts DEF Values
<1>6. QED
  BY <1>2, <1>3, <1>4, <1>5 DEF Operators

\* The inputs of a node, as tensors.
In(n, t) == [k \in DOMAIN n.inputs |-> t[n.inputs[k]]]

\* What a node computes is a tensor if it is defined, and depends on its
\* operator and on the tensors it reads.
LEMMA ValueFacts ==
  ASSUME NEW n \in Nodes(Names), n.op_type \in Operators,
         NEW t, \A k \in DOMAIN n.inputs : t[n.inputs[k]] \in Values
  PROVE  /\ Value(n, t) \in Values
         /\ Value(n, t) # Undefined =>
              /\ Value(n, t) = Apply(n.op_type, n.perm, In(n, t))
              /\ In(n, t) \in Seq(Tensors) /\ Len(In(n, t)) = Len(n.inputs)
<1> DEFINE in == In(n, t)
<1>1. Value(n, t) = IF Undefined \in ToSet(in) THEN Undefined
                    ELSE Apply(n.op_type, n.perm, in)
  BY Zenon DEF Value, In
<1>2. /\ n.inputs \in Seq(Names) /\ n.perm \in Permutations3
      /\ n.op_type = "BatchNormalization" => Len(n.inputs) = 5
      /\ n.op_type = "Conv" => Len(n.inputs) \in {2, 3}
      /\ n.op_type = "Transpose" => Len(n.inputs) = 1
      /\ n.op_type \in Elementwise => Len(n.inputs) = 2
  BY NodeFacts
<1>3. in \in Seq(Values) /\ Len(in) = Len(n.inputs)
  BY <1>2 DEF In
<1> HIDE DEF in
<1>4. CASE Undefined \in ToSet(in)
  BY <1>1, <1>4 DEF Values, in
<1>5. CASE Undefined \notin ToSet(in)
  <2>1. \A k \in 1 .. Len(in) : in[k] \in Tensors
    BY <1>3, <1>5 DEF Values, ToSet
  <2>2. in \in Seq(Tensors)
    BY <1>3, <2>1
  <2>3. Apply(n.op_type, n.perm, in) \in Values
    BY Zenon, <1>2, <1>3, <2>2, ApplyFacts
  <2>4. QED
    BY Zenon, <1>1, <1>3, <1>5, <2>2, <2>3 DEF in
<1>6. QED
  BY <1>4, <1>5

\* Nodes with the same operator that read the same compute the same.
LEMMA SameValue ==
  ASSUME NEW n, NEW m, NEW t, NEW u, In(n, t) = In(m, u),
         n.op_type = m.op_type, n.perm = m.perm
  PROVE  Value(n, t) = Value(m, u)
BY Zenon DEF Value, In

\* Nodes in order whose given names stand for tensors.
Computable(ns, inits, outs) ==
    /\ ns \in Seq(Nodes(Names))
    /\ SingleAssignment(ns, Inputs \cup DOMAIN inits)
    /\ InOrder(ns, Inputs \cup DOMAIN inits, outs)
    /\ \A k \in DOMAIN ns : ns[k].op_type \in Operators
    /\ \A x \in Inputs \cup DOMAIN inits : Known(inits, x) \in Tensors

\* What a node computes is not changed by what no input of it is.
LEMMA ValueUnchanged ==
  ASSUME NEW names, NEW t \in [names -> Values], NEW o, NEW v, NEW n \in Nodes(Names),
         o \notin ToSet(n.inputs), ToSet(n.inputs) \subseteq names
  PROVE  Value(n, [t EXCEPT ![o] = v]) = Value(n, t)
<1> DEFINE u == [t EXCEPT ![o] = v]
<1>1. n.inputs \in Seq(Names)
  BY NodeFacts
<1>2. \A k \in DOMAIN n.inputs : n.inputs[k] \in names /\ n.inputs[k] # o
  BY <1>1 DEF ToSet
<1>3. \A x \in names : x # o => u[x] = t[x]
  OBVIOUS
<1> HIDE DEF u
<1>4. In(n, u) = In(n, t)
  BY <1>2, <1>3 DEF In
<1>5. Value(n, u) = Value(n, t)
  BY <1>4, SameValue
<1>6. QED
  BY <1>5 DEF u

\* The meaning of a graph in order evaluates it.
LEMMA MeaningEvaluates ==
  ASSUME NEW ns, NEW inits, NEW outs, Computable(ns, inits, outs)
  PROVE  \E names :
           /\ Inputs \cup DOMAIN inits \subseteq names
           /\ \A k \in DOMAIN ns : ns[k].output \in names
           /\ Meaning(ns, inits) \in [names -> Values]
           /\ Evaluates(Meaning(ns, inits), ns, inits)
<1> DEFINE given == Inputs \cup DOMAIN inits
           names == Inputs \cup DOMAIN inits \cup {n.output : n \in ToSet(ns)}
                      \cup UNION {ToSet(n.inputs) : n \in ToSet(ns)}
           N == Len(ns)
           T == [names -> Values]
           start == [x \in names |-> Known(inits, x)]
           Next1(k, t) == [t EXCEPT ![ns[k].output] = Value(ns[k], t)]
           step == [p \in (1 .. N) \X T |-> Next1(p[1], p[2])]
           Unfolds(f) == f = [k \in 0 .. Len(ns) |->
                               IF k = 0 THEN [x \in names |-> Known(inits, x)]
                               ELSE [f[k - 1] EXCEPT ![ns[k].output] = Value(ns[k], f[k - 1])]]
           F == CHOOSE f : Unfolds(f)
<1>1. Meaning(ns, inits) = F[N]
  BY Zenon DEF Meaning
<1>2. /\ ns \in Seq(Nodes(Names))
      /\ \A a, b \in DOMAIN ns : ns[a].output = ns[b].output => a = b
      /\ \A a \in DOMAIN ns : ns[a].output \notin given
      /\ InOrder(ns, given, outs)
      /\ \A k \in DOMAIN ns : ns[k].op_type \in Operators
      /\ \A x \in given : Known(inits, x) \in Tensors
  BY Zenon DEF Computable, SingleAssignment
<1>3. N \in Nat /\ DOMAIN ns = 1 .. N /\ \A k \in 1 .. N : ns[k] \in Nodes(Names)
  BY <1>2
<1>4. /\ given \subseteq names
      /\ \A k \in 1 .. N : ns[k].output \in names
      /\ \A k \in 1 .. N : ToSet(ns[k].inputs) \subseteq names
  <2>1. \A k \in 1 .. N : ns[k] \in ToSet(ns)
    BY <1>3 DEF ToSet
  <2>2. QED
    BY <2>1
<1>5. \A x : Known(inits, x) \in Tensors \/ x \notin given
  BY <1>2
<1>6. start \in T
  <2>1. \A x \in names : Known(inits, x) \in Values
    <3>1. ASSUME NEW x, x \notin given PROVE Known(inits, x) = Undefined
      BY <3>1 DEF Known, Inputs
    <3>2. QED
      BY <1>2, <3>1 DEF Values
  <2> HIDE DEF names
  <2>2. QED
    BY <2>1
<1> HIDE DEF names, given, start, N
<1>7. ASSUME NEW k \in 1 .. N, NEW t \in T PROVE Next1(k, t) \in T
  <2>1. \A l \in DOMAIN ns[k].inputs : ns[k].inputs[l] \in names
    BY <1>4 DEF ToSet
  <2>2. \A l \in DOMAIN ns[k].inputs : t[ns[k].inputs[l]] \in Values
    BY <2>1
  <2>3. Value(ns[k], t) \in Values
    BY <1>2, <1>3, <2>2, ValueFacts
  <2>4. QED
    BY <2>3
<1>8. \E f : Unfolds(f)
  <2> HIDE DEF T, Next1
  <2>1. PICK f : Recursion(f, N, start, step)
    <3> HIDE DEF step
    <3>1. QED
      BY <1>3, RecursionExists
  <2>2. /\ \E V : f \in [0 .. N -> V]
        /\ f[0] = start
        /\ \A n \in 0 .. N - 1 : f[n + 1] = step[<<n + 1, f[n]>>]
    <3> HIDE DEF step
    <3>1. QED
      BY <2>1 DEF Recursion
  <2>3. ASSUME NEW n \in 0 .. N - 1, f[n] \in T
        PROVE  f[n + 1] = Next1(n + 1, f[n])
    <3> DEFINE p == <<n + 1, f[n]>>
    <3>1. p \in (1 .. N) \X T /\ p[2] = f[n] /\ p[1] = n + 1
      BY <1>3, <2>3
    <3> HIDE DEF p
    <3>2. step[p] = Next1(n + 1, f[n])
      BY <3>1
    <3> HIDE DEF step
    <3>3. QED
      BY <2>2, <3>2 DEF p
  <2> HIDE DEF step
  <2> DEFINE P == {n \in 0 .. N : f[n] \in T}
  <2>4. 0 \in P
    BY <1>3, <1>6, <2>2
  <2>5. ASSUME NEW n \in Nat, n < N, n \in P PROVE n + 1 \in P
    <3>1. n \in 0 .. N - 1 /\ n + 1 \in 1 .. N /\ f[n] \in T
      BY <1>3, <2>5
    <3>2. f[n + 1] \in T
      BY <1>7, <2>3, <3>1
    <3>3. QED
      BY <3>1, <3>2
  <2>6. 0 .. N \subseteq P
    <3> HIDE DEF P
    <3>1. QED
      BY <1>3, <2>4, <2>5, UpTo
  <2>7. \A n \in 0 .. N - 1 : f[n + 1] = Next1(n + 1, f[n])
    <3>1. \A n \in 0 .. N - 1 : n \in P
      BY <1>3, <2>6
    <3>2. QED
      BY <2>3, <3>1
  <2>8. ASSUME NEW k \in 0 .. N
        PROVE  f[k] = IF k = 0 THEN start ELSE Next1(k, f[k - 1])
    <3>1. CASE k = 0
      BY <2>2, <3>1
    <3>2. CASE k # 0
      <4>1. k - 1 \in 0 .. N - 1 /\ k - 1 + 1 = k
        BY <1>3, <3>2
      <4>2. QED
        BY <2>7, <3>2, <4>1
    <3>3. QED
      BY <3>1, <3>2
  <2>9. f = [k \in 0 .. N |-> IF k = 0 THEN start ELSE Next1(k, f[k - 1])]
    BY <2>2, <2>8
  <2>10. Unfolds(f)
    BY Zenon, <2>9 DEF start, Next1, N
  <2> HIDE DEF Unfolds
  <2>11. QED
    BY <2>10
<1>9. /\ F[0] = start
      /\ \A k \in 1 .. N : F[k] = Next1(k, F[k - 1])
  <2>1. Unfolds(F)
    BY Zenon, <1>8
  <2> HIDE DEF F
  <2>2. F = [k \in 0 .. N |-> IF k = 0 THEN start ELSE Next1(k, F[k - 1])]
    BY Zenon, <2>1 DEF start, N
  <2> HIDE DEF Unfolds, Next1
  <2>3. 0 \in 0 .. N /\ \A k \in 1 .. N : k \in 0 .. N /\ k # 0
    BY <1>3
  <2>4. F[0] = start
    BY <2>2, <2>3
  <2>5. \A k \in 1 .. N : F[k] = Next1(k, F[k - 1])
    BY <2>2, <2>3
  <2>6. QED
    BY <2>4, <2>5
<1> HIDE DEF F, step
\* The first k nodes have their values after k steps.
<1> DEFINE Done(k) == /\ F[k] \in T
                      /\ \A x \in given : F[k][x] = Known(inits, x)
                      /\ \A l \in 1 .. k : F[k][ns[l].output] = Value(ns[l], F[k])
           P == {k \in 0 .. N : Done(k)}
<1>10. 0 \in P
  <2>1. \A x \in given : start[x] = Known(inits, x)
    BY <1>4 DEF start
  <2>2. Done(0)
    BY <1>6, <1>9, <2>1
  <2> HIDE DEF Done
  <2>3. QED
    BY <1>3, <2>2
<1>11. ASSUME NEW n \in Nat, n < N, n \in P PROVE n + 1 \in P
  <2> DEFINE k == n + 1
             o == ns[k].output
             v == Value(ns[k], F[n])
  <2>1. k \in 1 .. N /\ k - 1 = n /\ n \in 0 .. N /\ k \in 0 .. N
    BY <1>3, <1>11
  <2>2. Done(n)
    BY <1>11
  <2>3. F[k] = [F[n] EXCEPT ![o] = v]
    BY <1>9, <2>1
  <2>4. F[k] \in T
    BY <1>7, <2>1, <2>2, <2>3
  <2>5. o \notin given /\ o \in names
    BY <1>2, <1>3, <1>4, <2>1
  <2>6. F[k][o] = v /\ \A x \in names : x # o => F[k][x] = F[n][x]
    BY <2>2, <2>3, <2>5
  <2>7. ASSUME NEW l \in 1 .. k PROVE o \notin ToSet(ns[l].inputs)
    <3>1. SUFFICES ASSUME o \in ToSet(ns[l].inputs) PROVE FALSE
      OBVIOUS
    <3>2. l \in 1 .. N
      BY <1>3, <2>1
    <3>3. PICK b \in 1 .. l - 1 : ns[b].output = o
      BY <1>2, <1>3, <2>5, <3>1, <3>2 DEF InOrder
    <3>4. b \in 1 .. N /\ b < k
      BY <1>3, <2>1, <3>2, <3>3
    <3>5. QED
      BY <1>2, <1>3, <2>1, <3>3, <3>4
  <2>8. ASSUME NEW l \in 1 .. k PROVE Value(ns[l], F[k]) = Value(ns[l], F[n])
    <3>1. l \in 1 .. N
      BY <1>3, <2>1
    <3>2. ns[l] \in Nodes(Names) /\ ToSet(ns[l].inputs) \subseteq names
      BY <1>3, <1>4, <3>1
    <3>3. F[n] \in [names -> Values]
      BY <2>2
    <3> HIDE DEF v, o, k
    <3>4. QED
      BY <2>3, <2>7, <3>2, <3>3, ValueUnchanged
  <2>9. ASSUME NEW l \in 1 .. k PROVE F[k][ns[l].output] = Value(ns[l], F[k])
    <3>1. CASE l = k
      BY <2>6, <2>8, <3>1
    <3>2. CASE l # k
      <4>1. l \in 1 .. n /\ l \in 1 .. N
        BY <1>3, <2>1, <3>2
      <4>2. ns[l].output # o /\ ns[l].output \in names
        BY <1>2, <1>3, <1>4, <2>1, <3>2, <4>1
      <4>3. F[n][ns[l].output] = Value(ns[l], F[n])
        BY <2>2, <4>1
      <4>4. QED
        BY <2>6, <2>8, <4>2, <4>3
    <3>3. QED
      BY <3>1, <3>2
  <2>10. \A x \in given : F[k][x] = Known(inits, x)
    BY <1>4, <2>2, <2>5, <2>6
  <2>11. Done(k)
    BY <2>4, <2>9, <2>10
  <2> HIDE DEF Done, o, v
  <2>12. QED
    BY <2>1, <2>11
<1>12. Done(N)
  <2> HIDE DEF Done
  <2>1. 0 .. N \subseteq P
    <3> HIDE DEF P
    <3>1. QED
      BY <1>3, <1>10, <1>11, UpTo
  <2>2. QED
    BY <1>3, <2>1
<1>13. Evaluates(F[N], ns, inits)
  BY Zenon, <1>3, <1>12 DEF Evaluates, given
<1>14. F[N] \in [names -> Values]
  BY <1>12
<1>15. QED
  BY Zenon, <1>1, <1>3, <1>4, <1>13, <1>14 DEF given

\* Multiples of the modulus do not change a residue.
LEMMA ModShift ==
  ASSUME NEW z \in Int, NEW q \in Int
  PROVE  (z + Modulus * q) % Modulus = z % Modulus
BY DEF Modulus

\* A residue is the number less a multiple of the modulus.
LEMMA ModSplit ==
  ASSUME NEW z \in Int
  PROVE  \E q \in Int : z % Modulus = z + Modulus * q
<1>1. z % Modulus = z + Modulus * (0 - (z \div Modulus))
  BY DEF Modulus
<1>2. 0 - (z \div Modulus) \in Int
  BY DEF Modulus
<1>3. QED
  BY Zenon, <1>1, <1>2

\* A convolution that is normalized has the number of the convolution with
\* scaled weights and a new bias.
ScalingAgrees(x, w, b, a, be, mu) ==
  (((((x + 1) * w + b) % Modulus) - mu) * a + be) % Modulus
    = ((x + 1) * ((w * a) % Modulus) + ((b * a + (be - mu * a)) % Modulus)) % Modulus

\* It has, whatever the numbers.
LEMMA FusedArithmetic ==
  ASSUME NEW x \in Int, NEW w \in Int, NEW b \in Int, NEW a \in Int, NEW be \in Int,
         NEW mu \in Int
  PROVE  ScalingAgrees(x, w, b, a, be, mu)
<1> DEFINE M == Modulus
           c == (x + 1) * w + b
           z == (c - mu) * a + be
<1>1. M \in Int
  BY DEF Modulus
<1>2. PICK q \in Int : c % M = c + M * q
  BY ModSplit
<1>3. PICK r \in Int : (w * a) % M = w * a + M * r
  BY ModSplit
<1>4. PICK s \in Int : (b * a + (be - mu * a)) % M = b * a + (be - mu * a) + M * s
  BY ModSplit
<1> HIDE DEF M
<1>5. ((c % M) - mu) * a + be = z + M * (q * a)
  BY <1>1, <1>2
<1>6. (x + 1) * ((w * a) % M) + ((b * a + (be - mu * a)) % M) = z + M * ((x + 1) * r + s)
  <2> DEFINE y == x + 1
             v == w * a
             d == b * a + (be - mu * a)
  <2>1. y \in Int /\ v \in Int /\ d \in Int
    OBVIOUS
  <2>2. z = y * v + d
    <3>1. (c - mu) * a = c * a - mu * a
      OBVIOUS
    <3>2. c * a = (y * w) * a + b * a
      OBVIOUS
    <3>3. (y * w) * a = y * v
      OBVIOUS
    <3>4. y * w \in Int /\ y * v \in Int /\ c * a \in Int /\ b * a \in Int /\ mu * a \in Int
      OBVIOUS
    <3> HIDE DEF y, v, c
    <3>5. QED
      BY <3>1, <3>2, <3>3, <3>4
  <2> HIDE DEF y, v, d, z
  <2>3. y * (v + M * r) = y * v + M * (y * r)
    BY <1>1, <2>1
  <2>4. M * (y * r + s) = M * (y * r) + M * s
    BY <1>1, <2>1
  <2>5. y * v \in Int /\ M * (y * r) \in Int /\ M * s \in Int
    BY <1>1, <2>1
  <2>6. y * (v + M * r) + (d + M * s) = z + M * (y * r + s)
    BY <2>1, <2>2, <2>3, <2>4, <2>5
  <2>7. QED
    BY Zenon, <1>3, <1>4, <2>6 DEF y, v, d
<1>7. z \in Int /\ q * a \in Int /\ (x + 1) * r + s \in Int
  OBVIOUS
<1> HIDE DEF z, c
<1>8. (z + M * (q * a)) % M = z % M /\ (z + M * ((x + 1) * r + s)) % M = z % M
  BY <1>7, ModShift DEF M
<1>9. QED
  BY Zenon, <1>5, <1>6, <1>8 DEF ScalingAgrees, M, c

\* Two evaluations of a graph in order agree.
LEMMA EvaluationIsUnique ==
  ASSUME NEW ns, NEW inits, NEW outs, Computable(ns, inits, outs),
         NEW t, Evaluates(t, ns, inits), NEW u, Evaluates(u, ns, inits)
  PROVE  /\ \A x \in Inputs \cup DOMAIN inits : t[x] = u[x]
         /\ \A k \in DOMAIN ns : t[ns[k].output] = u[ns[k].output]
<1> DEFINE given == Inputs \cup DOMAIN inits
           N == Len(ns)
           P == {k \in 0 .. N : \A l \in 1 .. k : t[ns[l].output] = u[ns[l].output]}
<1>1. /\ ns \in Seq(Nodes(Names))
      /\ InOrder(ns, given, outs)
  BY Zenon DEF Computable
<1>2. N \in Nat /\ DOMAIN ns = 1 .. N /\ \A k \in 1 .. N : ns[k] \in Nodes(Names)
  BY <1>1
<1>3. \A x \in given : t[x] = u[x]
  BY DEF Evaluates
<1>4. \A k \in 1 .. N : t[ns[k].output] = Value(ns[k], t) /\ u[ns[k].output] = Value(ns[k], u)
  BY Zenon, <1>2 DEF Evaluates
<1> HIDE DEF given, N
<1>5. 0 \in P
  BY <1>2
<1>6. ASSUME NEW n \in Nat, n < N, n \in P PROVE n + 1 \in P
  <2> DEFINE k == n + 1
  <2>1. k \in 1 .. N /\ k \in 0 .. N
    BY <1>2, <1>6
  <2>2. \A l \in 1 .. n : t[ns[l].output] = u[ns[l].output]
    BY <1>6
  <2>3. ASSUME NEW x \in ToSet(ns[k].inputs) PROVE t[x] = u[x]
    <3>1. CASE x \in given
      BY <1>3, <3>1
    <3>2. CASE x \notin given
      <4>1. PICK b \in 1 .. k - 1 : ns[b].output = x
        BY <1>1, <1>2, <2>1, <3>2 DEF InOrder
      <4>2. b \in 1 .. n
        BY <1>6, <4>1
      <4>3. QED
        BY <2>2, <4>1, <4>2
    <3>3. QED
      BY <3>1, <3>2
  <2>4. In(ns[k], t) = In(ns[k], u)
    BY <2>3 DEF In, ToSet
  <2>5. Value(ns[k], t) = Value(ns[k], u)
    BY <2>4, SameValue
  <2>6. t[ns[k].output] = u[ns[k].output]
    BY <1>4, <2>1, <2>5
  <2>7. \A l \in 1 .. k : l \in 1 .. n \/ l = k
    BY <1>6
  <2> HIDE DEF k
  <2>8. k \in P
    BY <2>1, <2>2, <2>6, <2>7
  <2>9. QED
    BY <2>8 DEF k
<1>7. 0 .. N \subseteq P
  <2> HIDE DEF P
  <2>1. QED
    BY <1>2, <1>5, <1>6, UpTo
<1>8. \A k \in 1 .. N : t[ns[k].output] = u[ns[k].output]
  <2>1. N \in P
    BY <1>2, <1>7
  <2>2. QED
    BY <2>1
<1>9. QED
  BY <1>2, <1>3, <1>8 DEF given

-----------------------------------------------------------------------------
(***************************************************************************)
(* The invariant of what the graph computes.                               *)
(***************************************************************************)
\* t gives the node's result the value that the node computes, a tensor.
Holds(t, n) ==
    /\ n.op_type \in Operators
    /\ t[n.output] = Value(n, t)
    /\ t[n.output] \in Tensors

\* t evaluates the graph, and gives the outputs what the loaded graph did.
Computes(t) ==
    /\ t \in [Names -> Values]
    /\ \A x \in Given : t[x] = Known(initializers, x)
    /\ \A k \in DOMAIN nodes : Holds(t, nodes[k])
    /\ results = [k \in DOMAIN outputs |-> t[outputs[k]]]

\* The initializers are tensors, and have names.
TypedInitializers ==
    /\ initializers \in [DOMAIN initializers -> Tensors]
    /\ DOMAIN initializers \subseteq Names

RInv ==
    /\ IInv
    /\ lapses = {} => TypedInitializers /\ \E t : Computes(t)

\* What is known of given names is tensors.
LEMMA KnownFacts ==
  ASSUME NEW inits, inits \in [DOMAIN inits -> Tensors]
  PROVE  \A x \in Inputs \cup DOMAIN inits : Known(inits, x) \in Tensors
<1>1. Tensor(11, Identity) \in Tensors /\ Tensor(29, Identity) \in Tensors
  <2> DEFINE axes == Identity
             a == 11
             b == 29
  <2>1. axes \in [1 .. Rank -> 1 .. Rank] /\ a \in Int /\ b \in Int
    BY DEF Identity, Rank
  <2> HIDE DEF axes, a, b
  <2>2. Tensor(a, axes) \in Tensors /\ Tensor(b, axes) \in Tensors
    BY Zenon, <2>1, TensorFacts
  <2>3. QED
    BY Zenon, <2>2 DEF axes, a, b
<1>2. ASSUME NEW x \in Inputs \cup DOMAIN inits PROVE Known(inits, x) \in Tensors
  <2>1. CASE x \in DOMAIN inits
    BY <2>1 DEF Known
  <2>2. CASE x \notin DOMAIN inits
    BY <1>1, <2>2 DEF Known, Inputs
  <2>3. QED
    BY <2>1, <2>2
<1>3. QED
  BY <1>2

\* The invariant says that the outputs are what they were.
LEMMA RInvImplies ==
  RInv => ResultsKept
<1> SUFFICES ASSUME RInv, lapses = {} PROVE Results(nodes, initializers, outputs) = results
  BY Zenon DEF ResultsKept
<1> DEFINE m == Meaning(nodes, initializers)
<1>1. PICK t : Computes(t)
  BY Zenon DEF RInv
<1>2. /\ nodes \in Seq(Nodes(Names))
      /\ SingleAssignment(nodes, Given)
      /\ initializers \in [DOMAIN initializers -> Tensors]
      /\ DefinedBeforeUse
  BY Zenon DEF RInv, IInv, Sound, TypedInitializers
<1>3. InOrder(nodes, Given, outputs)
  BY <1>2 DEF DefinedBeforeUse, Given
<1>4. /\ \A x \in Given : t[x] = Known(initializers, x)
      /\ \A k \in DOMAIN nodes : Holds(t, nodes[k])
      /\ results = [k \in DOMAIN outputs |-> t[outputs[k]]]
  BY Zenon, <1>1 DEF Computes
<1>5. Computable(nodes, initializers, outputs)
  <2>1. \A x \in Given : Known(initializers, x) \in Tensors
    BY Zenon, <1>2, KnownFacts DEF Given
  <2>2. \A k \in DOMAIN nodes : nodes[k].op_type \in Operators
    BY Zenon, <1>4 DEF Holds
  <2>3. QED
    BY Zenon, <1>2, <1>3, <2>1, <2>2 DEF Computable, Given
<1>6. PICK names :
        /\ Given \subseteq names
        /\ \A k \in DOMAIN nodes : nodes[k].output \in names
        /\ m \in [names -> Values]
        /\ Evaluates(m, nodes, initializers)
  BY Zenon, <1>5, MeaningEvaluates DEF Given
<1>7. Evaluates(t, nodes, initializers)
  BY Zenon, <1>4 DEF Evaluates, Holds, Given
<1> HIDE DEF m
<1>8. /\ \A x \in Given : m[x] = t[x]
      /\ \A k \in DOMAIN nodes : m[nodes[k].output] = t[nodes[k].output]
  BY <1>5, <1>6, <1>7, EvaluationIsUnique DEF Given
<1>9. ASSUME NEW k \in DOMAIN outputs
      PROVE  outputs[k] \in DOMAIN m /\ m[outputs[k]] = t[outputs[k]]
  <2>1. outputs[k] \in ToSet(outputs)
    BY DEF ToSet
  <2>2. outputs[k] \in Given \/ \E l \in DOMAIN nodes : nodes[l].output = outputs[k]
    BY <1>3, <2>1 DEF InOrder
  <2>3. QED
    BY <1>6, <1>8, <2>2
<1>10. Results(nodes, initializers, outputs)
         = [k \in DOMAIN outputs |-> IF outputs[k] \in DOMAIN m THEN m[outputs[k]] ELSE Undefined]
  BY Zenon DEF Results, m
<1>11. QED
  BY Zenon, <1>4, <1>9, <1>10

\* The loaded graph is evaluated by its meaning.
LEMMA InitResults ==
  Init => RInv
<1> SUFFICES ASSUME Init PROVE RInv
  OBVIOUS
<1> DEFINE m == Meaning(nodes, initializers)
           t == [x \in Names |-> IF x \in DOMAIN m THEN m[x] ELSE Undefined]
<1>1. IInv /\ lapses = {} /\ results = Results(nodes, initializers, outputs)
  BY InitInvariant DEF Init
<1>2. PICK g \in Graphs : nodes = g.nodes /\ initializers = g.initializers
  BY Zenon DEF Init
<1>3. /\ initializers \in [DOMAIN initializers -> Tensors]
      /\ \A x \in DOMAIN initializers : x \in STRING
      /\ \A n \in ToSet(nodes) : n.op_type \in Operators
      /\ \A n \in ToSet(nodes) : m[n.output] # Undefined
  BY Zenon, <1>2, TensorsAssumption DEF Operators
<1>4. /\ nodes \in Seq(Nodes(Names))
      /\ SingleAssignment(nodes, Given)
      /\ InOrder(nodes, Given, outputs)
  BY <1>1 DEF IInv, Sound, DefinedBeforeUse, Given
<1>5. \A k \in DOMAIN nodes : nodes[k] \in ToSet(nodes)
  BY DEF ToSet
<1>6. Computable(nodes, initializers, outputs)
  <2>1. \A x \in Given : Known(initializers, x) \in Tensors
    BY Zenon, <1>3, KnownFacts DEF Given
  <2>2. \A k \in DOMAIN nodes : nodes[k].op_type \in Operators
    BY <1>3, <1>5
  <2>3. QED
    BY Zenon, <1>4, <2>1, <2>2 DEF Computable, Given
<1>7. PICK names :
        /\ Given \subseteq names
        /\ \A k \in DOMAIN nodes : nodes[k].output \in names
        /\ m \in [names -> Values]
        /\ Evaluates(m, nodes, initializers)
  BY Zenon, <1>6, MeaningEvaluates DEF Given
<1>8. /\ \A x \in Given : m[x] = Known(initializers, x)
      /\ \A k \in DOMAIN nodes : m[nodes[k].output] = Value(nodes[k], m)
  BY Zenon, <1>7 DEF Evaluates, Given
<1> HIDE DEF m
<1>9. t \in [Names -> Values]
  BY <1>7 DEF Values
<1>10. Given \subseteq Names /\ DOMAIN initializers \subseteq Names
  <2>1. \A x \in STRING \cup Inputs : x \in Names
    BY DEF Names
  <2>2. \A x \in Given : x \in DOMAIN initializers \/ x \in Inputs
    BY DEF Given
  <2>3. QED
    BY <1>3, <2>1, <2>2
<1>11. \A x \in names \cap Names : t[x] = m[x]
  BY <1>7
<1> HIDE DEF t
<1>12. \A x \in Given : t[x] = Known(initializers, x)
  BY <1>7, <1>8, <1>10, <1>11
<1>13. ASSUME NEW k \in DOMAIN nodes PROVE nodes[k].output \in Names
  <2>1. nodes[k] \in Nodes(Names)
    BY <1>4
  <2>2. nodes[k].output \in STRING
    BY <2>1, NodeFacts
  <2>3. QED
    BY <2>2 DEF Names
<1>14. ASSUME NEW x, x \in Given \/ \E k \in DOMAIN nodes : nodes[k].output = x
       PROVE  x \in names \cap Names /\ t[x] = m[x]
  BY <1>7, <1>10, <1>11, <1>13, <1>14
<1>15. ASSUME NEW k \in DOMAIN nodes PROVE Holds(t, nodes[k])
  <2> DEFINE n == nodes[k]
  <2>1. \A x \in ToSet(n.inputs) : x \in Given \/ \E b \in 1 .. k - 1 : nodes[b].output = x
    BY <1>4 DEF InOrder
  <2>2. \A b \in 1 .. k - 1 : b \in DOMAIN nodes
    BY <1>4
  <2>3. \A x \in ToSet(n.inputs) : t[x] = m[x]
    BY <1>14, <2>1, <2>2
  <2>4. In(n, t) = In(n, m)
    BY <2>3 DEF In, ToSet
  <2>5. Value(n, t) = Value(n, m)
    BY <2>4, SameValue
  <2>6. t[n.output] = Value(n, t)
    BY <1>8, <1>14, <2>5
  <2>7. t[n.output] # Undefined /\ n.op_type \in Operators
    BY <1>3, <1>5, <1>14
  <2>8. t[n.output] \in Values
    BY <1>9, <1>13
  <2> HIDE DEF n
  <2>9. Holds(t, n)
    BY <2>6, <2>7, <2>8 DEF Holds, Values
  <2>10. QED
    BY <2>9 DEF n
<1>16. results = [k \in DOMAIN outputs |-> t[outputs[k]]]
  <2>1. results = [k \in DOMAIN outputs |-> IF outputs[k] \in DOMAIN m THEN m[outputs[k]] ELSE Undefined]
    BY Zenon, <1>1 DEF Results, m
  <2>2. ASSUME NEW k \in DOMAIN outputs
        PROVE  outputs[k] \in DOMAIN m /\ m[outputs[k]] = t[outputs[k]]
    <3>1. outputs[k] \in ToSet(outputs)
      BY DEF ToSet
    <3>2. outputs[k] \in Given \/ \E l \in DOMAIN nodes : nodes[l].output = outputs[k]
      BY <1>4, <3>1 DEF InOrder
    <3>3. QED
      BY <1>7, <1>14, <3>2
  <2>3. QED
    BY Zenon, <2>1, <2>2
<1>17. Computes(t)
  BY Zenon, <1>9, <1>12, <1>15, <1>16 DEF Computes
<1>18. TypedInitializers
  BY <1>3, <1>10 DEF TypedInitializers
<1>19. QED
  BY Zenon, <1>1, <1>17, <1>18 DEF RInv

-----------------------------------------------------------------------------
(***************************************************************************)
(* The steps keep what the graph computes.                                 *)
(***************************************************************************)
\* What is left when a node is erased computes what it did.
LEMMA ErasureHolds ==
  ASSUME NEW S, NEW ns \in Seq(S), NEW j \in 1 .. Len(ns), NEW e, IsErasure(e, ns, j),
         NEW t, \A a \in (1 .. Len(ns)) \ {j} : Holds(t, ns[a])
  PROVE  \A k \in DOMAIN e : Holds(t, e[k])
<1> DEFINE N == Len(ns)
<1>1. N \in Nat /\ j \in 1 .. N
  OBVIOUS
<1>2. PICK T : e \in Seq(T)
  BY DEF IsErasure
<1>3. Len(e) = N - 1 /\ \A k \in 1 .. N - 1 : e[k] = ns[Kept(j, k)]
  BY Zenon DEF IsErasure
<1>4. DOMAIN e = 1 .. N - 1
  BY <1>2, <1>3
<1>5. \A k \in 1 .. N - 1 : Kept(j, k) \in (1 .. N) \ {j}
  BY <1>1, KeptPositions
<1>6. QED
  BY Zenon, <1>3, <1>4, <1>5

\* So it is where the node is found by its name, if there is one.
LEMMA EraseNodeHolds ==
  ASSUME NEW S, NEW ns \in Seq(S), NEW x, NEW t, \A a \in DOMAIN ns : Holds(t, ns[a])
  PROVE  /\ erase_node(ns, x) \in Seq(S)
         /\ \A k \in DOMAIN erase_node(ns, x) : Holds(t, erase_node(ns, x)[k])
<1> DEFINE p == Producer(ns, x)
           e == erase_node(ns, x)
<1>1. e = RemoveAt(ns, p)
  BY Zenon DEF erase_node
<1>2. p \in DOMAIN ns \/ p = 0
  BY ProducerDefines
<1> HIDE DEF p, e
<1>3. CASE p = 0
  BY Zenon, <1>1, <1>3, RemoveAtZero DEF e
<1>4. CASE p \in DOMAIN ns
  <2>1. p \in 1 .. Len(ns) /\ DOMAIN ns = 1 .. Len(ns)
    BY <1>4
  <2>2. e \in Seq(S) /\ IsErasure(e, ns, p)
    BY Zenon, <1>1, <2>1, RemoveAtErases
  <2>3. \A a \in (1 .. Len(ns)) \ {p} : Holds(t, ns[a])
    BY Zenon, <2>1
  <2>4. \A k \in DOMAIN e : Holds(t, e[k])
    BY Zenon, <2>1, <2>2, <2>3, ErasureHolds
  <2>5. QED
    BY Zenon, <2>2, <2>4 DEF e
<1>5. QED
  BY <1>2, <1>3, <1>4

\* A node that reads tensors computes what its operator does.
LEMMA ValueDefined ==
  ASSUME NEW n \in Nodes(Names), NEW t, \A k \in DOMAIN n.inputs : t[n.inputs[k]] \in Tensors
  PROVE  Value(n, t) = Apply(n.op_type, n.perm, In(n, t))
<1>1. Value(n, t) = IF Undefined \in ToSet(In(n, t)) THEN Undefined
                    ELSE Apply(n.op_type, n.perm, In(n, t))
  BY Zenon DEF Value, In
<1>2. n.inputs \in Seq(Names)
  BY NodeFacts
<1>3. Undefined \notin ToSet(In(n, t))
  BY <1>2, UndefinedIsNone DEF In, ToSet
<1>4. QED
  BY <1>1, <1>3

\* A node that computes a tensor reads tensors.
LEMMA InputsDefined ==
  ASSUME NEW n \in Nodes(Names), n.op_type \in Operators, NEW t \in [Names -> Values],
         Value(n, t) \in Tensors
  PROVE  /\ \A k \in DOMAIN n.inputs : t[n.inputs[k]] \in Tensors
         /\ Value(n, t) = Apply(n.op_type, n.perm, In(n, t))
<1>1. n.inputs \in Seq(Names)
  BY NodeFacts
<1>2. \A k \in DOMAIN n.inputs : t[n.inputs[k]] \in Values
  BY <1>1
<1>3. Value(n, t) # Undefined
  BY UndefinedIsNone
<1>4. /\ Value(n, t) = Apply(n.op_type, n.perm, In(n, t))
      /\ In(n, t) \in Seq(Tensors) /\ Len(In(n, t)) = Len(n.inputs)
  BY Zenon, <1>2, <1>3, ValueFacts
<1>5. \A k \in DOMAIN n.inputs : In(n, t)[k] = t[n.inputs[k]]
  BY DEF In
<1> DEFINE in == In(n, t)
<1> HIDE DEF in
<1>6. \A k \in DOMAIN n.inputs : in[k] \in Tensors
  BY <1>1, <1>4 DEF in
<1>7. QED
  BY <1>4, <1>5, <1>6 DEF in

\* Folding: the initializer is what the node computed.
LEMMA FoldResults ==
  ASSUME RInv, ConstantFold PROVE RInv'
<1> DEFINE j == First(ConstantNodes)
           n == nodes[j]
           x == n.output
           a == initializers[n.inputs[1]]
           b == initializers[n.inputs[2]]
           v == Tensor(Calc(n.op_type, a.n, b.n), a.axes)
           e == erase_node(nodes, x)
<1>1. /\ ConstantNodes # {}
      /\ initializers' = [y \in DOMAIN initializers \cup {x} |->
                            IF y = x THEN v ELSE initializers[y]]
      /\ nodes' = e
      /\ UNCHANGED <<outputs, pass, results, lapses>>
  BY Zenon DEF ConstantFold
<1>2. IInv'
  BY FoldInvariant DEF RInv
<1>3. SUFFICES ASSUME lapses = {} PROVE TypedInitializers' /\ \E u : Computes(u)'
  BY Zenon, <1>1, <1>2 DEF RInv
<1>4. PICK t : Computes(t)
  BY Zenon, <1>3 DEF RInv
<1>5. /\ t \in [Names -> Values]
      /\ \A y \in Given : t[y] = Known(initializers, y)
      /\ \A k \in DOMAIN nodes : Holds(t, nodes[k])
      /\ results = [k \in DOMAIN outputs |-> t[outputs[k]]]
  BY Zenon, <1>4 DEF Computes
<1>6. /\ nodes \in Seq(Nodes(Names))
      /\ initializers \in [DOMAIN initializers -> Tensors]
      /\ DOMAIN initializers \subseteq Names
  BY Zenon, <1>3 DEF RInv, IInv, Sound, TypedInitializers
<1>7. j \in DOMAIN nodes /\ IsConstantNode(n)
  <2>1. ConstantNodes \subseteq Nat \ {0}
    BY <1>6 DEF ConstantNodes
  <2>2. j \in ConstantNodes
    BY <1>1, <2>1, FirstIsOne
  <2>3. QED
    BY Zenon, <2>2 DEF ConstantNodes
<1> HIDE DEF j
<1>8. n \in Nodes(Names)
  BY <1>6, <1>7
<1>9. n.op_type \in Elementwise /\ \A y \in ToSet(n.inputs) : y \in DOMAIN initializers
  BY Zenon, <1>7 DEF IsConstantNode, is_initializer
<1>10. Holds(t, n)
  BY Zenon, <1>5, <1>7
<1> HIDE DEF n, e
<1>11. Len(n.inputs) = 2 /\ n.inputs \in Seq(Names) /\ x \in STRING
  BY <1>8, <1>9, NodeFacts
<1>12. v = t[x] /\ v \in Tensors
  <2> DEFINE in == In(n, t)
             val == Value(n, t)
  <2>1. val \in Tensors /\ t[x] = val /\ n.op_type \in Operators
    BY Zenon, <1>10 DEF Holds
  <2>2. val = Apply(n.op_type, n.perm, in)
    BY Zenon, <1>5, <1>8, <2>1, InputsDefined
  <2>3. in[1] = t[n.inputs[1]] /\ in[2] = t[n.inputs[2]]
    BY <1>11 DEF In
  <2>4. n.inputs[1] \in DOMAIN initializers /\ n.inputs[2] \in DOMAIN initializers
    BY <1>9, <1>11 DEF ToSet
  <2>5. t[n.inputs[1]] = a /\ t[n.inputs[2]] = b
    BY <1>5, <2>4 DEF Known, Given
  <2>6. val # Undefined
    BY <2>1, UndefinedIsNone
  <2> HIDE DEF in, val, a, b
  <2>7. val = IF a.axes = b.axes THEN Tensor(Calc(n.op_type, a.n, b.n), a.axes) ELSE Undefined
    <3> DEFINE op == n.op_type
               perm == n.perm
    <3>1. op \in Elementwise /\ val = Apply(op, perm, in)
      BY Zenon, <1>9, <2>2
    <3> HIDE DEF op, perm
    <3>2. Apply(op, perm, in) = IF in[1].axes = in[2].axes
                                THEN Tensor(Calc(op, in[1].n, in[2].n), in[1].axes)
                                ELSE Undefined
      BY <3>1 DEF Apply, Elementwise
    <3>3. QED
      BY Zenon, <2>3, <2>5, <3>1, <3>2 DEF op
  <2>8. QED
    BY Zenon, <2>1, <2>6, <2>7
<1> HIDE DEF v, x
<1>13. \A y \in Given' : t[y] = Known(initializers', y)
  <2>1. ASSUME NEW y \in Given' PROVE t[y] = Known(initializers', y)
    <3>1. CASE y = x
      BY <1>1, <1>12, <3>1 DEF Known
    <3>2. CASE y # x
      <4>1. y \in Given
        BY <1>1, <2>1, <3>2 DEF Given
      <4>2. Known(initializers', y) = Known(initializers, y)
        BY <1>1, <3>2 DEF Known
      <4>3. QED
        BY <1>5, <4>1, <4>2
    <3>3. QED
      BY <3>1, <3>2
  <2>2. QED
    BY <2>1
<1>14. \A k \in DOMAIN e : Holds(t, e[k])
  BY Zenon, <1>5, <1>6, EraseNodeHolds DEF e
<1>15. Computes(t)'
  BY Zenon, <1>1, <1>5, <1>13, <1>14 DEF Computes
<1>16. TypedInitializers'
  <2>1. \A y \in STRING : y \in Names
    BY DEF Names
  <2>2. DOMAIN initializers' = DOMAIN initializers \cup {x}
    BY <1>1
  <2>3. \A y \in DOMAIN initializers' : y \in Names /\ initializers'[y] \in Tensors
    BY <1>1, <1>6, <1>11, <1>12, <2>1, <2>2 DEF x
  <2>4. initializers' \in [DOMAIN initializers' -> Tensors]
    BY <1>1, <2>3
  <2>5. QED
    BY Zenon, <2>3, <2>4 DEF TypedInitializers
<1>17. QED
  BY Zenon, <1>15, <1>16

\* A transpose permutes the axes of what it reads.
LEMMA TransposeValue ==
  ASSUME NEW n \in Nodes(Names), n.op_type = "Transpose", NEW t \in [Names -> Values]
  PROVE  /\ Value(n, t) \in Tensors => t[n.inputs[1]] \in Tensors
         /\ t[n.inputs[1]] \in Tensors =>
              Value(n, t) = Tensor(t[n.inputs[1]].n,
                                   [k \in 1 .. Rank |-> t[n.inputs[1]].axes[n.perm[k]]])
<1>1. n.inputs \in Seq(Names) /\ Len(n.inputs) = 1
  BY NodeFacts
<1>2. DOMAIN n.inputs = {1}
  BY <1>1
<1>3. n.op_type \in Operators
  BY DEF Operators
<1>4. ASSUME Value(n, t) \in Tensors PROVE t[n.inputs[1]] \in Tensors
  BY <1>2, <1>3, <1>4, InputsDefined
<1>5. ASSUME t[n.inputs[1]] \in Tensors
      PROVE  Value(n, t) = Tensor(t[n.inputs[1]].n,
                                  [k \in 1 .. Rank |-> t[n.inputs[1]].axes[n.perm[k]]])
  <2> DEFINE op == n.op_type
             perm == n.perm
             in == In(n, t)
  <2>1. Value(n, t) = Apply(op, perm, in)
    BY <1>2, <1>5, ValueDefined
  <2>2. in[1] = t[n.inputs[1]]
    BY <1>2 DEF In
  <2>3. op = "Transpose"
    OBVIOUS
  <2> HIDE DEF op, perm, in
  <2>4. Apply(op, perm, in) = Tensor(in[1].n, [k \in 1 .. Rank |-> in[1].axes[perm[k]]])
    BY <2>3 DEF Apply, Elementwise
  <2>5. QED
    BY Zenon, <2>1, <2>2, <2>4 DEF perm
<1>6. QED
  BY <1>4, <1>5

\* Two transposes are the composed one, and nothing if that is the identity.
LEMMA TwoTransposes ==
  ASSUME NEW s \in Tensors, NEW p \in Permutations3, NEW q \in Permutations3,
         NEW m, m = Tensor(s.n, [k \in 1 .. Rank |-> s.axes[p[k]]])
  PROVE  /\ Tensor(m.n, [k \in 1 .. Rank |-> m.axes[q[k]]])
              = Tensor(s.n, [k \in 1 .. Rank |-> s.axes[Composed(p, q)[k]]])
         /\ Composed(p, q) = Identity =>
              Tensor(m.n, [k \in 1 .. Rank |-> m.axes[q[k]]]) = s
<1> DEFINE c == Composed(p, q)
           D == 1 .. Rank
           axes == [k \in D |-> s.axes[c[k]]]
<1>1. /\ p \in [D -> D] /\ q \in [D -> D]
      /\ s.n \in 0 .. Modulus - 1 /\ s.axes \in [D -> D]
      /\ s = [n |-> s.n, axes |-> s.axes]
  BY DEF Permutations3, Tensors
<1>2. c = [k \in D |-> p[q[k]]]
  BY Zenon DEF Composed
<1>3. m.n = s.n % Modulus /\ m.axes = [k \in D |-> s.axes[p[k]]]
  BY DEF Tensor
<1>4. s.n % Modulus = s.n
  BY Zenon, <1>1, Residues
<1> HIDE DEF c, D
<1>5. \A k \in D : m.axes[q[k]] = s.axes[c[k]]
  BY <1>1, <1>2, <1>3
<1>6. [k \in D |-> m.axes[q[k]]] = axes
  BY Zenon, <1>5
<1>7. Tensor(m.n, [k \in D |-> m.axes[q[k]]]) = Tensor(s.n, axes)
  BY Zenon, <1>3, <1>4, <1>6
<1>8. ASSUME c = Identity PROVE Tensor(s.n, axes) = s
  <2>1. \A k \in D : c[k] = k
    BY <1>8 DEF Identity, D, Rank
  <2>2. axes = s.axes
    BY <1>1, <2>1
  <2>3. Tensor(s.n, axes) = [n |-> s.n, axes |-> s.axes]
    BY Zenon, <1>4, <2>2 DEF Tensor
  <2>4. QED
    BY Zenon, <1>1, <2>3
<1>9. QED
  BY Zenon, <1>7, <1>8 DEF c, D

\* What a pair of transposes computes.
LEMMA PairValue ==
  ASSUME NEW n1 \in Nodes(Names), n1.op_type = "Transpose",
         NEW n2 \in Nodes(Names), n2.op_type = "Transpose", n1.output = n2.inputs[1],
         NEW t \in [Names -> Values], Holds(t, n1), Holds(t, n2)
  PROVE  LET src == t[n1.inputs[1]]
             perm == Composed(n1.perm, n2.perm)
         IN /\ src \in Tensors
            /\ t[n2.output] = Tensor(src.n, [k \in 1 .. Rank |-> src.axes[perm[k]]])
            /\ perm = Identity => t[n2.output] = src
<1> DEFINE src == t[n1.inputs[1]]
           perm == Composed(n1.perm, n2.perm)
           m == t[n2.inputs[1]]
<1>1. /\ t[n1.output] = Value(n1, t) /\ t[n1.output] \in Tensors
      /\ t[n2.output] = Value(n2, t) /\ t[n2.output] \in Tensors
  BY Zenon DEF Holds
<1>2. n1.perm \in Permutations3 /\ n2.perm \in Permutations3
  BY NodeFacts
<1>3. src \in Tensors /\ m = Tensor(src.n, [k \in 1 .. Rank |-> src.axes[n1.perm[k]]])
  BY Zenon, <1>1, TransposeValue
<1>4. t[n2.output] = Tensor(m.n, [k \in 1 .. Rank |-> m.axes[n2.perm[k]]])
  BY Zenon, <1>1, TransposeValue
<1> HIDE DEF src, m
<1>5. /\ t[n2.output] = Tensor(src.n, [k \in 1 .. Rank |-> src.axes[perm[k]]])
      /\ perm = Identity => t[n2.output] = src
  <2> DEFINE p == n1.perm
             q == n2.perm
             r == Tensor(m.n, [k \in 1 .. Rank |-> m.axes[q[k]]])
  <2>1. p \in Permutations3 /\ q \in Permutations3
        /\ m = Tensor(src.n, [k \in 1 .. Rank |-> src.axes[p[k]]])
    BY Zenon, <1>2, <1>3
  <2> HIDE DEF p, q
  <2>2. /\ r = Tensor(src.n, [k \in 1 .. Rank |-> src.axes[Composed(p, q)[k]]])
        /\ Composed(p, q) = Identity => r = src
    BY <1>3, <2>1, TwoTransposes
  <2>3. QED
    BY Zenon, <1>4, <2>2 DEF p, q
<1>6. QED
  BY Zenon, <1>3, <1>5 DEF src

\* Merging: the composed transpose computes what the second one did.
LEMMA MergeResults ==
  ASSUME RInv, TransposeMerge PROVE RInv'
<1> DEFINE j == First(TransposePairs)
           t2 == nodes[j]
           i == find_producer(t2.inputs[1])
           t1 == nodes[i]
           perm == Composed(t1.perm, t2.perm)
           merged == [t1 EXCEPT !.perm = Composed(t1.perm, t2.perm), !.output = t2.output]
           e == ReplaceAll(erase_node(nodes, t2.output), t1, merged)
           ns == [nodes EXCEPT ![i] = merged]
<1>1. /\ TransposePairs # {}
      /\ nodes' = e
      /\ lapses' = lapses \cup LapseIf(ReadElsewhere(t1.output, {j}), "renamed")
      /\ UNCHANGED <<initializers, outputs, pass, results>>
  BY Zenon DEF TransposeMerge
<1>2. IInv' /\ IInv
  BY MergeInvariant DEF RInv
<1>3. SUFFICES ASSUME lapses = {} PROVE TypedInitializers' /\ \E u : Computes(u)'
  BY Zenon, <1>1, <1>2 DEF RInv
<1>4. TypedInitializers'
  BY Zenon, <1>1, <1>3 DEF RInv, TypedInitializers
<1>5. PICK t : Computes(t)
  BY Zenon, <1>3 DEF RInv
<1>6. /\ t \in [Names -> Values]
      /\ \A y \in Given : t[y] = Known(initializers, y)
      /\ \A k \in DOMAIN nodes : Holds(t, nodes[k])
      /\ results = [k \in DOMAIN outputs |-> t[outputs[k]]]
  BY Zenon, <1>5 DEF Computes
<1>7. /\ nodes \in Seq(Nodes(Names))
      /\ SingleAssignment(nodes, Given)
      /\ Distinct(nodes)
      /\ InOrder(nodes, Given, outputs)
  BY Zenon, <1>2, <1>3 DEF IInv, Sound, SingleAssignment, Distinct, DefinedBeforeUse, Given
<1>8. /\ j \in DOMAIN nodes /\ i \in DOMAIN nodes
      /\ t1 \in Nodes(Names) /\ t2 \in Nodes(Names)
      /\ Len(t1.inputs) = 1
      /\ t1.op_type = "Transpose" /\ t2.op_type = "Transpose"
      /\ t1.output = t2.inputs[1] /\ t1.output \in ToSet(t2.inputs)
  BY Zenon, <1>1, <1>2, TransposePairFacts
<1>9. i # j
  <2>1. nodes[i].output \in ToSet(nodes[j].inputs)
    BY Zenon, <1>8
  <2>2. i < j /\ i \in Int /\ j \in Int
    <3> HIDE DEF i, j
    <3>1. i < j
      BY <1>7, <1>8, <2>1, ProducerBefore
    <3>2. QED
      BY <1>7, <1>8, <3>1
  <2> HIDE DEF i, j
  <2>3. QED
    BY <2>2
<1>10. Holds(t, t1) /\ Holds(t, t2)
  BY Zenon, <1>6, <1>8
<1>11. merged = [t1 EXCEPT !.perm = perm, !.output = t2.output]
  BY Zenon
<1>12. /\ t1 \in [op_type : STRING, inputs : Seq(Names), output : STRING,
                  perm : Permutations3]
       /\ t1.perm \in Permutations3 /\ t2.perm \in Permutations3 /\ t2.output \in STRING
  <2>1. t1 \in Nodes(Names) /\ t2 \in Nodes(Names)
    BY Zenon, <1>8
  <2> HIDE DEF t1, t2
  <2>2. QED
    BY <2>1, NodeFacts
<1>13. perm \in Permutations3
  BY Zenon, <1>12, ComposedPermutes
<1> HIDE DEF i, j, t1, t2, merged, e, ns
<1>14. Holds(t, merged)
  <2> DEFINE src == t[t1.inputs[1]]
  <2>1. /\ src \in Tensors
        /\ t[t2.output] = Tensor(src.n, [k \in 1 .. Rank |-> src.axes[perm[k]]])
    BY Zenon, <1>6, <1>8, <1>10, PairValue
  <2> HIDE DEF perm
  <2>2. /\ merged \in [op_type : STRING, inputs : Seq(Names), output : STRING,
                        perm : Permutations3]
        /\ merged.op_type = "Transpose" /\ merged.inputs = t1.inputs
        /\ merged.output = t2.output /\ merged.perm = perm
    BY <1>8, <1>11, <1>12, <1>13
  <2>3. merged \in Nodes(Names)
    BY <1>8, <2>2, NodeFacts
  <2>4. t[merged.inputs[1]] \in Tensors
    BY Zenon, <2>1, <2>2
  <2>5. Value(merged, t) = Tensor(t[merged.inputs[1]].n,
                             [k \in 1 .. Rank |-> t[merged.inputs[1]].axes[merged.perm[k]]])
    BY Zenon, <1>6, <2>2, <2>3, <2>4, TransposeValue
  <2>6. Value(merged, t) = t[merged.output]
    BY Zenon, <2>1, <2>2, <2>5
  <2>7. t[merged.output] \in Tensors
    BY Zenon, <1>10, <2>2 DEF Holds
  <2>8. QED
    BY Zenon, <2>2, <2>6, <2>7 DEF Holds, Operators
<1> HIDE DEF perm
<1>15. IsErasure(e, ns, j)
  <2>1. e = ReplaceAll(erase_node(nodes, nodes[j].output), nodes[i], merged)
    BY Zenon DEF e, t1, t2
  <2>2. QED
    BY Zenon, <1>7, <1>8, <1>9, <2>1, EraseAndReplace DEF ns
<1>16. /\ ns \in Seq(Nodes(Names) \cup {merged}) /\ j \in 1 .. Len(ns)
       /\ \A a \in 1 .. Len(ns) : Holds(t, ns[a])
  BY <1>6, <1>7, <1>8, <1>14 DEF ns
<1>17. \A k \in DOMAIN e : Holds(t, e[k])
  BY Zenon, <1>15, <1>16, ErasureHolds
<1>18. Computes(t)'
  BY Zenon, <1>1, <1>6, <1>17 DEF Computes, Given
<1>19. QED
  BY Zenon, <1>4, <1>18

\* Removing a pair: its readers read what the pair computed.
LEMMA ElimResults ==
  ASSUME RInv, TransposeElim PROVE RInv'
<1> DEFINE j == First(TransposePairs)
           t2 == nodes[j]
           i == find_producer(t2.inputs[1])
           t1 == nodes[i]
           old == t2.output
           in == t1.inputs[1]
           r == [k \in DOMAIN nodes |->
                  [nodes[k] EXCEPT !.inputs = ReplaceAll(@, t2.output, t1.inputs[1])]]
           e1 == erase_node(r, t2.output)
           e2 == erase_node(e1, t1.output)
           outs == ReplaceAll(outputs, t2.output, t1.inputs[1])
<1>1. /\ TransposePairs # {}
      /\ Composed(t1.perm, t2.perm) = Identity
      /\ nodes' = e2
      /\ outputs' = outs
      /\ lapses' = lapses \cup LapseIf(ReadElsewhere(t1.output, {j}), "renamed")
      /\ UNCHANGED <<initializers, pass, results>>
  BY Zenon DEF TransposeElim
<1>2. IInv' /\ IInv
  BY ElimInvariant DEF RInv
<1>3. SUFFICES ASSUME lapses = {} PROVE TypedInitializers' /\ \E u : Computes(u)'
  BY Zenon, <1>1, <1>2 DEF RInv
<1>4. TypedInitializers'
  BY Zenon, <1>1, <1>3 DEF RInv, TypedInitializers
<1>5. PICK t : Computes(t)
  BY Zenon, <1>3 DEF RInv
<1>6. /\ t \in [Names -> Values]
      /\ \A y \in Given : t[y] = Known(initializers, y)
      /\ \A k \in DOMAIN nodes : Holds(t, nodes[k])
      /\ results = [k \in DOMAIN outputs |-> t[outputs[k]]]
  BY Zenon, <1>5 DEF Computes
<1>7. nodes \in Seq(Nodes(Names))
  BY Zenon, <1>2 DEF IInv, Sound
<1>8. /\ j \in DOMAIN nodes /\ i \in DOMAIN nodes
      /\ t1 \in Nodes(Names) /\ t2 \in Nodes(Names)
      /\ Len(t1.inputs) = 1
      /\ t1.op_type = "Transpose" /\ t2.op_type = "Transpose"
      /\ t1.output = t2.inputs[1]
  BY Zenon, <1>1, <1>2, TransposePairFacts
<1>9. t[old] = t[in]
  <2>1. Holds(t, t1) /\ Holds(t, t2)
    BY Zenon, <1>6, <1>8
  <2>2. /\ t1 \in Nodes(Names) /\ t1.op_type = "Transpose"
        /\ t2 \in Nodes(Names) /\ t2.op_type = "Transpose" /\ t1.output = t2.inputs[1]
        /\ Composed(t1.perm, t2.perm) = Identity
    BY Zenon, <1>1, <1>8
  <2> HIDE DEF t1, t2
  <2>3. Composed(t1.perm, t2.perm) = Identity => t[t2.output] = t[t1.inputs[1]]
    BY <1>6, <2>1, <2>2, PairValue
  <2>4. QED
    BY Zenon, <2>2, <2>3 DEF old, in
<1>10. /\ r = [k \in DOMAIN nodes |-> [nodes[k] EXCEPT !.inputs = ReplaceAll(@, old, in)]]
       /\ outs = ReplaceAll(outputs, old, in)
       /\ e1 = erase_node(r, old)
  BY Zenon
<1>11. in \in Names
  <2>1. t1 \in Nodes(Names) /\ Len(t1.inputs) = 1
    BY Zenon, <1>8
  <2> HIDE DEF t1
  <2>2. t1.inputs \in Seq(Names)
    BY <2>1, NodeFacts
  <2>3. QED
    BY <2>1, <2>2
<1> HIDE DEF j, i, t1, t2, old, in, r, e1, e2, outs
<1>12. ASSUME NEW k \in DOMAIN nodes
       PROVE  Holds(t, r[k]) /\ r[k] \in [op_type : STRING, inputs : Seq(Names), output : STRING,
                                         perm : Permutations3]
  <2> DEFINE n == nodes[k]
             s == ReplaceAll(n.inputs, old, in)
             m == r[k]
  <2>1. n \in Nodes(Names)
    BY <1>7
  <2>2. m = [n EXCEPT !.inputs = s]
    BY <1>10
  <2>3. s = [a \in 1 .. Len(n.inputs) |-> IF n.inputs[a] = old THEN in ELSE n.inputs[a]]
    BY Zenon DEF ReplaceAll
  <2>4. Holds(t, n)
    BY Zenon, <1>6
  <2> HIDE DEF n, s, m
  <2>5. /\ n \in [op_type : STRING, inputs : Seq(Names), output : STRING,
                  perm : Permutations3]
    BY <2>1, NodeFacts
  <2>6. s \in Seq(Names) /\ Len(s) = Len(n.inputs) /\ DOMAIN s = DOMAIN n.inputs
    BY <1>11, <2>3, <2>5
  <2>7. /\ m \in [op_type : STRING, inputs : Seq(Names), output : STRING,
                  perm : Permutations3]
        /\ m.op_type = n.op_type /\ m.inputs = s /\ m.output = n.output /\ m.perm = n.perm
    BY <2>2, <2>5, <2>6
  <2>8. \A a \in DOMAIN s : t[s[a]] = t[n.inputs[a]]
    BY <1>9, <2>3, <2>5
  <2>9. In(m, t) = In(n, t)
    BY Zenon, <2>6, <2>7, <2>8 DEF In
  <2>10. Value(m, t) = Value(n, t)
    <3>1. m.op_type = n.op_type /\ m.perm = n.perm
      BY Zenon, <2>7
    <3>2. QED
      BY <2>9, <3>1, SameValue
  <2>11. Holds(t, m)
    BY Zenon, <2>4, <2>7, <2>10 DEF Holds
  <2>12. QED
    BY Zenon, <2>7, <2>11 DEF m
<1> DEFINE Records == [op_type : STRING, inputs : Seq(Names), output : STRING,
                       perm : Permutations3]
<1>13. /\ r \in Seq(Records)
       /\ \A k \in DOMAIN r : Holds(t, r[k])
  <2>1. DOMAIN r = DOMAIN nodes /\ r = [k \in DOMAIN nodes |-> r[k]]
    BY <1>10
  <2> HIDE DEF Records
  <2>2. \A k \in DOMAIN nodes : Holds(t, r[k]) /\ r[k] \in Records
    BY Zenon, <1>12 DEF Records
  <2>3. DOMAIN nodes = 1 .. Len(nodes) /\ Len(nodes) \in Nat
    BY <1>7
  <2>4. r \in Seq(Records)
    BY <2>1, <2>2, <2>3
  <2>5. QED
    BY Zenon, <2>1, <2>2, <2>4
<1> HIDE DEF Records
<1>14. e1 \in Seq(Records) /\ \A k \in DOMAIN e1 : Holds(t, e1[k])
  BY Zenon, <1>10, <1>13, EraseNodeHolds
<1>15. \A k \in DOMAIN e2 : Holds(t, e2[k])
  BY Zenon, <1>14, EraseNodeHolds DEF e2
<1>16. results = [k \in DOMAIN outs |-> t[outs[k]]]
  <2>1. outs = [a \in 1 .. Len(outputs) |-> IF outputs[a] = old THEN in ELSE outputs[a]]
    BY Zenon, <1>10 DEF ReplaceAll
  <2>2. PICK S : outputs \in Seq(S)
    BY Zenon, <1>2 DEF IInv
  <2>3. DOMAIN outputs = 1 .. Len(outputs)
    BY <2>2
  <2>4. DOMAIN outs = DOMAIN outputs /\ \A k \in DOMAIN outputs : t[outs[k]] = t[outputs[k]]
    BY <1>9, <2>1, <2>3
  <2>5. QED
    BY Zenon, <1>6, <2>4
<1>17. Computes(t)'
  BY Zenon, <1>1, <1>6, <1>15, <1>16 DEF Computes, Given
<1>18. QED
  BY Zenon, <1>4, <1>17

\* What a convolution of tensors computes.
LEMMA ConvValue ==
  ASSUME NEW n \in Nodes(Names), n.op_type = "Conv",
         NEW t, \A k \in DOMAIN n.inputs : t[n.inputs[k]] \in Tensors
  PROVE  Value(n, t) = Tensor((t[n.inputs[1]].n + 1) * t[n.inputs[2]].n
                                + (IF Len(n.inputs) = 3 THEN t[n.inputs[3]].n ELSE 0),
                              t[n.inputs[1]].axes)
<1> DEFINE op == n.op_type
           in == In(n, t)
<1>1. Value(n, t) = Apply(op, n.perm, in)
  BY ValueDefined
<1>2. n.inputs \in Seq(Names) /\ Len(n.inputs) \in {2, 3}
  BY NodeFacts
<1>3. /\ Len(in) = Len(n.inputs)
      /\ in[1] = t[n.inputs[1]] /\ in[2] = t[n.inputs[2]]
      /\ Len(n.inputs) = 3 => in[3] = t[n.inputs[3]]
  BY <1>2 DEF In
<1>4. op = "Conv"
  OBVIOUS
<1> HIDE DEF op, in
<1>5. Apply(op, n.perm, in)
        = Tensor((in[1].n + 1) * in[2].n + (IF Len(in) = 3 THEN in[3].n ELSE 0), in[1].axes)
  BY <1>4 DEF Apply, Elementwise
<1>6. (IF Len(in) = 3 THEN in[3].n ELSE 0)
        = (IF Len(n.inputs) = 3 THEN t[n.inputs[3]].n ELSE 0)
  BY Zenon, <1>3
<1>7. QED
  BY Zenon, <1>1, <1>3, <1>5, <1>6

\* What a normalization of tensors computes.
LEMMA NormValue ==
  ASSUME NEW n \in Nodes(Names), n.op_type = "BatchNormalization",
         NEW t, \A k \in DOMAIN n.inputs : t[n.inputs[k]] \in Tensors
  PROVE  Value(n, t) = Tensor((t[n.inputs[1]].n - t[n.inputs[4]].n)
                                * FusedScale(t[n.inputs[2]].n, t[n.inputs[5]].n)
                                + t[n.inputs[3]].n,
                              t[n.inputs[1]].axes)
<1> DEFINE op == n.op_type
           in == In(n, t)
<1>1. Value(n, t) = Apply(op, n.perm, in)
  BY ValueDefined
<1>2. n.inputs \in Seq(Names) /\ Len(n.inputs) = 5
  BY NodeFacts
<1>3. DOMAIN n.inputs = 1 .. 5
  BY <1>2
<1>4. /\ in[1] = t[n.inputs[1]] /\ in[2] = t[n.inputs[2]] /\ in[3] = t[n.inputs[3]]
      /\ in[4] = t[n.inputs[4]] /\ in[5] = t[n.inputs[5]]
  BY <1>3 DEF In
<1>5. op = "BatchNormalization"
  OBVIOUS
<1> HIDE DEF op, in
<1>6. Apply(op, n.perm, in)
        = Tensor((in[1].n - in[4].n) * FusedScale(in[2].n, in[5].n) + in[3].n, in[1].axes)
  BY <1>5 DEF Apply, Elementwise
<1>7. QED
  BY Zenon, <1>1, <1>4, <1>6

\* A tensor's number is an integer.
LEMMA TensorNumber ==
  ASSUME NEW v \in Tensors
  PROVE  v.n \in Int /\ v.axes \in [1 .. Rank -> 1 .. Rank]
<1>1. v.n \in 0 .. Modulus - 1 /\ v.axes \in [1 .. Rank -> 1 .. Rank]
  BY DEF Tensors
<1>2. QED
  BY <1>1, Residues

\* fused is conv with weights and a bias, in u, that a and b of bn and the bias
\* old make of those in t.
Fuses(conv, bn, bias, fused, t, old, a, b, u) ==
    /\ conv \in Nodes(Names) /\ conv.op_type = "Conv"
    /\ bn \in Nodes(Names) /\ bn.op_type = "BatchNormalization"
    /\ bn.inputs[1] = conv.output
    /\ fused \in Nodes(Names) /\ fused.op_type = "Conv"
    /\ fused.inputs = <<conv.inputs[1], conv.inputs[2], bias>>
    /\ t \in [Names -> Values] /\ Holds(t, conv) /\ Holds(t, bn)
    /\ old \in Tensors
    /\ old.n = IF Len(conv.inputs) = 3 THEN t[conv.inputs[3]].n ELSE 0
    /\ a = FusedScale(t[bn.inputs[2]].n, t[bn.inputs[5]].n)
    /\ b = FusedBias(t[bn.inputs[2]].n, t[bn.inputs[3]].n, t[bn.inputs[4]].n,
                     t[bn.inputs[5]].n)
    /\ u[conv.inputs[1]] = t[conv.inputs[1]]
    /\ u[conv.inputs[2]] = Tensor(t[conv.inputs[2]].n * a, t[conv.inputs[2]].axes)
    /\ u[bias] = NewBias(old, a, b)

\* The convolution with the scaled weights and the new bias computes what the
\* normalization of the convolution did.
LEMMA FusedValue ==
  ASSUME NEW conv, NEW bn, NEW bias, NEW fused, NEW t, NEW old, NEW a, NEW b, NEW u,
         Fuses(conv, bn, bias, fused, t, old, a, b, u)
  PROVE  /\ u[conv.inputs[2]] \in Tensors /\ u[bias] \in Tensors
         /\ Value(fused, u) = t[bn.output]
<1> SUFFICES ASSUME conv \in Nodes(Names), conv.op_type = "Conv",
                    bn \in Nodes(Names), bn.op_type = "BatchNormalization",
                    fused \in Nodes(Names), fused.op_type = "Conv",
                    fused.inputs = <<conv.inputs[1], conv.inputs[2], bias>>,
                    bn.inputs[1] = conv.output,
                    t \in [Names -> Values], Holds(t, conv), Holds(t, bn),
                    old \in Tensors,
                    old.n = IF Len(conv.inputs) = 3 THEN t[conv.inputs[3]].n ELSE 0,
                    a = FusedScale(t[bn.inputs[2]].n, t[bn.inputs[5]].n),
                    b = FusedBias(t[bn.inputs[2]].n, t[bn.inputs[3]].n,
                                  t[bn.inputs[4]].n, t[bn.inputs[5]].n),
                    u[conv.inputs[1]] = t[conv.inputs[1]],
                    u[conv.inputs[2]] = Tensor(t[conv.inputs[2]].n * a, t[conv.inputs[2]].axes),
                    u[bias] = NewBias(old, a, b)
             PROVE  /\ u[conv.inputs[2]] \in Tensors /\ u[bias] \in Tensors
                    /\ Value(fused, u) = t[bn.output]
  BY Zenon DEF Fuses
<1> DEFINE X == t[conv.inputs[1]]
           W == t[conv.inputs[2]]
           v == t[conv.output]
           be == t[bn.inputs[3]].n
           mu == t[bn.inputs[4]].n
<1>1. /\ t[conv.output] = Value(conv, t) /\ t[conv.output] \in Tensors
      /\ t[bn.output] = Value(bn, t) /\ t[bn.output] \in Tensors
      /\ conv.op_type \in Operators /\ bn.op_type \in Operators
  BY Zenon DEF Holds
<1>2. /\ conv.inputs \in Seq(Names) /\ Len(conv.inputs) \in {2, 3}
      /\ bn.inputs \in Seq(Names) /\ Len(bn.inputs) = 5
  BY NodeFacts
<1>3. /\ \A k \in DOMAIN conv.inputs : t[conv.inputs[k]] \in Tensors
      /\ \A k \in DOMAIN bn.inputs : t[bn.inputs[k]] \in Tensors
  BY Zenon, <1>1, InputsDefined
<1>4. X \in Tensors /\ W \in Tensors
  BY <1>2, <1>3
<1>5. /\ t[bn.inputs[2]] \in Tensors /\ t[bn.inputs[3]] \in Tensors
      /\ t[bn.inputs[4]] \in Tensors /\ t[bn.inputs[5]] \in Tensors
  <2>1. DOMAIN bn.inputs = 1 .. 5
    BY <1>2
  <2>2. 2 \in 1 .. 5 /\ 3 \in 1 .. 5 /\ 4 \in 1 .. 5 /\ 5 \in 1 .. 5
    OBVIOUS
  <2>3. QED
    BY Zenon, <1>3, <2>1, <2>2
<1>6. v = Tensor((X.n + 1) * W.n + old.n, X.axes)
  BY Zenon, <1>1, <1>3, ConvValue
<1>7. t[bn.output] = Tensor((v.n - mu) * a + be, v.axes)
  BY Zenon, <1>1, <1>3, NormValue
<1>8. X.n \in Int /\ W.n \in Int /\ old.n \in Int /\ be \in Int /\ mu \in Int
  BY Zenon, <1>4, <1>5, TensorNumber
<1>9. a \in Int /\ b = be - mu * a
  <2> DEFINE s == t[bn.inputs[2]].n
             r == t[bn.inputs[5]].n
  <2>1. s \in Int /\ r \in Int
    BY Zenon, <1>5, TensorNumber
  <2>2. a = FusedScale(s, r) /\ b = FusedBias(s, be, mu, r)
    OBVIOUS
  <2> HIDE DEF s, r, be, mu
  <2>3. a \in Int
    BY <2>1, <2>2 DEF FusedScale, InverseRoot
  <2>4. b = be - mu * a
    BY Zenon, <2>2 DEF FusedBias
  <2>5. QED
    BY <2>3, <2>4
<1>10. X.axes \in [1 .. Rank -> 1 .. Rank] /\ W.axes \in [1 .. Rank -> 1 .. Rank]
       /\ old.axes \in [1 .. Rank -> 1 .. Rank]
  BY Zenon, <1>4, TensorNumber
<1> DEFINE W1 == u[conv.inputs[2]]
           B1 == u[bias]
<1>11. /\ W1 = Tensor(W.n * a, W.axes)
       /\ B1 = Tensor(old.n * a + b, old.axes)
  BY Zenon DEF NewBias
<1>12. W.n * a \in Int /\ old.n * a + b \in Int
  <2>1. be - mu * a \in Int
    BY <1>8, <1>9
  <2> HIDE DEF W, mu, be
  <2>2. QED
    BY <1>8, <1>9, <2>1
<1>13. W1 \in Tensors /\ B1 \in Tensors
  BY Zenon, <1>10, <1>11, <1>12, TensorFacts
<1>14. Value(fused, u) = Tensor((X.n + 1) * W1.n + B1.n, X.axes)
  <2>1. /\ Len(fused.inputs) = 3 /\ DOMAIN fused.inputs = {1, 2, 3}
        /\ u[fused.inputs[1]] = X /\ u[fused.inputs[2]] = W1 /\ u[fused.inputs[3]] = B1
    OBVIOUS
  <2> HIDE DEF X, W1, B1
  <2>2. \A k \in DOMAIN fused.inputs : u[fused.inputs[k]] \in Tensors
    BY <1>4, <1>13, <2>1
  <2>3. Value(fused, u) = Tensor((u[fused.inputs[1]].n + 1) * u[fused.inputs[2]].n
                                + (IF Len(fused.inputs) = 3 THEN u[fused.inputs[3]].n ELSE 0),
                              u[fused.inputs[1]].axes)
    BY <2>2, ConvValue
  <2>4. QED
    BY Zenon, <2>1, <2>3
<1> HIDE DEF X, W, v, be, mu, W1, B1
<1>15. v.n = ((X.n + 1) * W.n + old.n) % Modulus /\ v.axes = X.axes
  BY <1>6 DEF Tensor
<1>16. W1.n = (W.n * a) % Modulus /\ B1.n = (old.n * a + (be - mu * a)) % Modulus
  BY <1>9, <1>11 DEF Tensor
<1> DEFINE x == X.n
           w == W.n
           o == old.n
           c == a
<1>17. x \in Int /\ w \in Int /\ o \in Int /\ c \in Int /\ be \in Int /\ mu \in Int
  BY <1>8, <1>9
<1> HIDE DEF x, w, o, c
<1>18. ScalingAgrees(x, w, o, c, be, mu)
  BY Zenon, <1>17, FusedArithmetic
<1>19. ((v.n - mu) * a + be) % Modulus = ((X.n + 1) * W1.n + B1.n) % Modulus
  BY Zenon, <1>15, <1>16, <1>18 DEF ScalingAgrees, x, w, o, c
<1>20. t[bn.output] = Value(fused, u)
  BY Zenon, <1>7, <1>14, <1>15, <1>19 DEF Tensor
<1>21. QED
  BY Zenon, <1>13, <1>20 DEF W1, B1

\* Fusing: the scaled weights and the new bias replace what only the pair read.
LEMMA ConvBnResults ==
  ASSUME RInv, ConvBnFusion PROVE RInv'
<1> DEFINE j == First(FusableBns)
           bn == nodes[j]
           i == find_producer(bn.inputs[1])
           conv == nodes[i]
           P(k) == initializers[bn.inputs[k]].n
           bias == IF HasBias(conv) THEN conv.inputs[3] ELSE FusedBiasName(conv)
           ins == <<conv.inputs[1], conv.inputs[2], bias>>
           fused == [conv EXCEPT !.inputs = <<@[1], @[2], bias>>, !.output = bn.output]
           e == ReplaceAll(erase_node(nodes, bn.output), conv, fused)
           ns == [nodes EXCEPT ![i] = fused]
           w == conv.inputs[2]
           a == FusedScale(P(2), P(5))
           b == FusedBias(P(2), P(3), P(4), P(5))
           old == IF HasBias(conv) THEN initializers[bias] ELSE Tensor(0, Identity)
           Shared == \/ ReadElsewhere(conv.inputs[2], {i, j})
                     \/ ReadElsewhere(bias, {i, j})
                     \/ ~IsInjective(conv.inputs)
                     \/ ~HasBias(conv) /\ bias \in Inputs \cup DOMAIN initializers
           newW == Tensor(initializers[w].n * a, initializers[w].axes)
           newB == NewBias(old, a, b)
<1>1. /\ FusableBns # {}
      /\ initializers' = [x \in DOMAIN initializers \cup {bias} |->
                            IF x = bias THEN newB ELSE IF x = w THEN newW ELSE initializers[x]]
      /\ nodes' = e
      /\ lapses' = ((lapses \cup LapseIf(ReadElsewhere(conv.output, {j}), "renamed"))
                       \cup LapseIf(Shared, "shared"))
                       \cup LapseIf(Len(conv.inputs) = 3 /\ ~HasBias(conv), "dynamicBias")
      /\ UNCHANGED <<outputs, pass, results>>
  BY Zenon DEF ConvBnFusion, Rescaled
<1>2. IInv' /\ IInv
  BY ConvBnInvariant DEF RInv
<1>3. SUFFICES ASSUME lapses' = {} PROVE TypedInitializers' /\ \E u : Computes(u)'
  BY Zenon, <1>2 DEF RInv
<1>4. /\ lapses = {} /\ ~ReadElsewhere(conv.output, {j}) /\ ~Shared
      /\ ~(Len(conv.inputs) = 3 /\ ~HasBias(conv))
  <2> HIDE DEF Shared, j, conv
  <2>1. QED
    BY <1>1, <1>3 DEF LapseIf
<1>5. PICK t : Computes(t)
  BY Zenon, <1>4 DEF RInv
<1>6. /\ t \in [Names -> Values]
      /\ \A y \in Given : t[y] = Known(initializers, y)
      /\ \A k \in DOMAIN nodes : Holds(t, nodes[k])
      /\ results = [k \in DOMAIN outputs |-> t[outputs[k]]]
  BY Zenon, <1>5 DEF Computes
<1>7. /\ nodes \in Seq(Nodes(Names))
      /\ SingleAssignment(nodes, Given)
      /\ Distinct(nodes)
      /\ InOrder(nodes, Given, outputs)
      /\ initializers \in [DOMAIN initializers -> Tensors]
      /\ DOMAIN initializers \subseteq Names
      /\ \A k \in DOMAIN nodes : nodes[k].output \notin Given
  BY Zenon, <1>2, <1>4
     DEF RInv, IInv, Sound, SingleAssignment, Distinct, DefinedBeforeUse, Given, TypedInitializers
<1>8. /\ j \in DOMAIN nodes /\ i \in DOMAIN nodes
      /\ bn \in Nodes(Names) /\ conv \in Nodes(Names)
      /\ bn.op_type = "BatchNormalization" /\ conv.op_type = "Conv"
      /\ conv.output = bn.inputs[1] /\ conv.output \in ToSet(bn.inputs)
      /\ \A k \in 2 .. 5 : bn.inputs[k] \in DOMAIN initializers
      /\ w \in DOMAIN initializers
      /\ bias \in Names
      /\ \A k \in DOMAIN nodes : nodes[k].output # bias
  BY Zenon, <1>1, <1>2, FusableFacts
<1>9. i # j
  <2>1. nodes[i].output \in ToSet(nodes[j].inputs)
    BY Zenon, <1>8
  <2>2. i < j /\ i \in Int /\ j \in Int
    <3> HIDE DEF i, j
    <3>1. i < j
      BY <1>7, <1>8, <2>1, ProducerBefore
    <3>2. QED
      BY <1>7, <1>8, <3>1
  <2> HIDE DEF i, j
  <2>3. QED
    BY <2>2
<1>10. Holds(t, conv) /\ Holds(t, bn)
  BY Zenon, <1>6, <1>8
<1>11. fused = [conv EXCEPT !.inputs = ins, !.output = bn.output]
  BY Zenon
<1>12. /\ HasBias(conv) => Len(conv.inputs) = 3 /\ bias = conv.inputs[3]
                           /\ bias \in DOMAIN initializers
       /\ Len(conv.inputs) = 3 => HasBias(conv)
       /\ ~HasBias(conv) => bias \notin Given
  BY Zenon, <1>4 DEF HasBias, is_initializer, Given
<1>13. /\ IsInjective(conv.inputs)
       /\ w \notin ToSet(outputs) /\ bias \notin ToSet(outputs)
       /\ \A k \in DOMAIN nodes \ {i, j} :
            w \notin ToSet(nodes[k].inputs) /\ bias \notin ToSet(nodes[k].inputs)
  BY Zenon, <1>4 DEF ReadElsewhere
<1>14. /\ e = ReplaceAll(erase_node(nodes, nodes[j].output), nodes[i], fused)
       /\ bn.output = nodes[j].output
       /\ InOrder(nodes, Given, outputs) => \A x \in ToSet(conv.inputs) :
            x \in Given \/ \E k \in 1 .. i - 1 : nodes[k].output = x
  BY Zenon, <1>8 DEF InOrder
<1> DEFINE x0 == conv.inputs[1]
<1> HIDE DEF j, bn, i, conv, P, bias, fused, e, ns, Shared
<1>15. /\ Len(conv.inputs) \in {2, 3} /\ conv.inputs \in Seq(Names)
       /\ Len(bn.inputs) = 5 /\ bn.inputs \in Seq(Names)
       /\ bn.output \in STRING
       /\ conv \in [op_type : STRING, inputs : Seq(Names), output : STRING,
                    perm : Permutations3]
  BY <1>8, NodeFacts
<1>16. x0 # w /\ (Len(conv.inputs) = 3 => conv.inputs[3] # x0 /\ conv.inputs[3] # w)
  BY <1>13, <1>15 DEF IsInjective
<1>17. x0 # bias /\ w # bias
  <2>1. CASE HasBias(conv)
    BY <1>12, <1>16, <2>1
  <2>2. CASE ~HasBias(conv)
    <3>1. w \in Given
      BY <1>8 DEF Given
    <3>2. x0 \in ToSet(conv.inputs)
      BY <1>15 DEF ToSet
    <3>3. x0 \in Given \/ \E k \in DOMAIN nodes : nodes[k].output = x0
      <4>1. x0 \in Given \/ \E k \in 1 .. i - 1 : nodes[k].output = x0
        BY <1>7, <1>14, <3>2
      <4>2. 1 .. i - 1 \subseteq DOMAIN nodes
        BY <1>7, <1>8
      <4>3. QED
        BY <4>1, <4>2
    <3>4. QED
      BY <1>8, <1>12, <2>2, <3>1, <3>3
  <2>3. QED
    BY <2>1, <2>2
<1> DEFINE after == [y \in Names |-> IF y = bias THEN newB ELSE IF y = w THEN newW ELSE t[y]]
<1>18. PICK u : u = after
  OBVIOUS
<1>19. x0 \in Names /\ w \in Names /\ bias \in Names
  BY <1>8, <1>15
<1>20. u[x0] = t[x0] /\ u[w] = newW /\ u[bias] = newB
  <2> HIDE DEF newW, newB, x0, w
  <2>1. QED
    BY <1>16, <1>17, <1>18, <1>19
<1>21. \A y \in Names \ {w, bias} : u[y] = t[y]
  <2> HIDE DEF newW, newB, w
  <2>1. QED
    BY <1>18
<1> HIDE DEF after
<1>22. t[w] = initializers[w] /\ \A k \in 2 .. 5 : t[bn.inputs[k]] = initializers[bn.inputs[k]]
  <2>1. \A y \in DOMAIN initializers : t[y] = initializers[y]
    BY Zenon, <1>6 DEF Given, Known
  <2>2. QED
    BY Zenon, <1>8, <2>1
<1>23. /\ a = FusedScale(t[bn.inputs[2]].n, t[bn.inputs[5]].n)
       /\ b = FusedBias(t[bn.inputs[2]].n, t[bn.inputs[3]].n, t[bn.inputs[4]].n,
                        t[bn.inputs[5]].n)
  <2>1. 2 \in 2 .. 5 /\ 3 \in 2 .. 5 /\ 4 \in 2 .. 5 /\ 5 \in 2 .. 5
    OBVIOUS
  <2>2. QED
    BY Zenon, <1>22, <2>1 DEF P
<1>24. old \in Tensors /\ old.n = IF Len(conv.inputs) = 3 THEN t[conv.inputs[3]].n ELSE 0
  <2>1. CASE HasBias(conv)
    <3>1. old = initializers[bias] /\ bias \in DOMAIN initializers /\ bias = conv.inputs[3]
          /\ Len(conv.inputs) = 3
      BY Zenon, <1>12, <2>1
    <3>2. t[bias] = initializers[bias]
      BY Zenon, <1>6, <3>1 DEF Given, Known
    <3>3. initializers[bias] \in Tensors
      BY <1>7, <3>1
    <3>4. QED
      BY Zenon, <3>1, <3>2, <3>3
  <2>2. CASE ~HasBias(conv)
    <3> DEFINE zero == 0
               axes == Identity
    <3>1. zero \in Int /\ axes \in [1 .. Rank -> 1 .. Rank] /\ zero % Modulus = 0
      BY DEF Identity, Rank, Modulus
    <3>2. old = Tensor(zero, axes) /\ Len(conv.inputs) # 3
      BY Zenon, <1>12, <2>2
    <3> HIDE DEF old, axes, zero
    <3>3. old \in Tensors
      BY Zenon, <3>1, <3>2, TensorFacts
    <3>4. old.n = 0
      BY <3>1, <3>2 DEF Tensor
    <3>5. QED
      BY Zenon, <3>2, <3>3, <3>4
  <2>3. QED
    BY Zenon, <2>1, <2>2
<1>25. /\ fused \in [op_type : STRING, inputs : Seq(Names), output : STRING,
                     perm : Permutations3]
       /\ fused.op_type = "Conv" /\ fused.output = bn.output
       /\ fused.inputs = <<conv.inputs[1], conv.inputs[2], bias>>
       /\ fused \in Nodes(Names)
  <2>1. ins \in Seq(Names) /\ Len(ins) = 3
    BY <1>8, <1>15
  <2>2. ins = <<conv.inputs[1], conv.inputs[2], bias>>
    OBVIOUS
  <2> HIDE DEF ins
  <2>3. fused.op_type = "Conv" /\ fused.inputs = ins /\ fused.output = bn.output
        /\ fused \in [op_type : STRING, inputs : Seq(Names), output : STRING,
                      perm : Permutations3]
    BY <1>8, <1>11, <1>15, <2>1
  <2>4. fused \in Nodes(Names)
    BY <2>1, <2>3, NodeFacts DEF Elementwise
  <2>5. QED
    BY Zenon, <2>2, <2>3, <2>4
<1> HIDE DEF old, a, b
<1>26. /\ u[w] \in Tensors /\ u[bias] \in Tensors
       /\ Value(fused, u) = t[bn.output]
  <2>1. u[w] = Tensor(t[w].n * a, t[w].axes)
    BY Zenon, <1>20, <1>22
  <2>2. u[bias] = NewBias(old, a, b)
    BY Zenon, <1>20
  <2> HIDE DEF newW, newB, ins
  <2>3. Fuses(conv, bn, bias, fused, t, old, a, b, u)
    BY Zenon, <1>6, <1>8, <1>10, <1>20, <1>23, <1>24, <1>25, <2>1, <2>2 DEF Fuses
  <2>4. QED
    BY <2>3, FusedValue
<1>27. u \in [Names -> Values]
  <2>1. \A y \in Names : u[y] \in Values
    <3>1. \A y \in Names : t[y] \in Values
      BY <1>6
    <3> HIDE DEF w
    <3>2. QED
      BY <1>21, <1>26, <3>1 DEF Values
  <2>2. u = [y \in Names |-> u[y]]
    BY Zenon, <1>18, <2>1 DEF after
  <2>3. QED
    BY <2>1, <2>2
\* Who is not in the pair does not notice.
<1>28. ASSUME NEW k \in DOMAIN nodes \ {i, j} PROVE Holds(u, nodes[k])
  <2> DEFINE n == nodes[k]
  <2>1. Holds(t, n) /\ n \in Nodes(Names)
    BY <1>6, <1>7
  <2>2. w \notin ToSet(n.inputs) /\ bias \notin ToSet(n.inputs)
    BY Zenon, <1>13
  <2>3. n.output # w /\ n.output # bias
    BY <1>7, <1>8 DEF Given
  <2> HIDE DEF n, w
  <2>4. n.inputs \in Seq(Names) /\ n.output \in Names
    <3>1. n.inputs \in Seq(Names) /\ n.output \in STRING
      BY <2>1, NodeFacts
    <3>2. QED
      BY <3>1 DEF Names
  <2>5. \A l \in DOMAIN n.inputs : u[n.inputs[l]] = t[n.inputs[l]]
    BY <1>21, <2>2, <2>4 DEF ToSet
  <2>6. In(n, u) = In(n, t)
    BY Zenon, <2>5 DEF In
  <2>7. Value(n, u) = Value(n, t)
    BY <2>6, SameValue
  <2>8. u[n.output] = t[n.output]
    BY <1>21, <2>3, <2>4
  <2>9. Holds(u, n)
    BY Zenon, <2>1, <2>7, <2>8 DEF Holds
  <2>10. QED
    BY Zenon, <2>9 DEF n
<1>29. Holds(u, fused)
  <2>1. bn.output # w /\ bn.output # bias /\ bn.output \in Names
    <3>1. bn.output \in Names
      BY <1>15 DEF Names
    <3>2. bn.output \notin Given /\ bn.output # bias
      BY Zenon, <1>7, <1>8, <1>14
    <3>3. QED
      BY <1>8, <3>1, <3>2 DEF Given
  <2> HIDE DEF w
  <2>2. u[bn.output] = t[bn.output]
    BY <1>21, <2>1
  <2>3. t[bn.output] \in Tensors
    BY Zenon, <1>10 DEF Holds
  <2>4. QED
    BY Zenon, <1>25, <1>26, <2>2, <2>3 DEF Holds, Operators
<1>30. \A k \in DOMAIN e : Holds(u, e[k])
  <2>1. IsErasure(e, ns, j)
    BY Zenon, <1>7, <1>8, <1>9, <1>14, EraseAndReplace DEF ns
  <2>2. ns \in Seq(Nodes(Names) \cup {fused}) /\ j \in 1 .. Len(ns)
        /\ \A k \in (1 .. Len(ns)) \ {j} : Holds(u, ns[k])
    BY <1>7, <1>8, <1>28, <1>29 DEF ns
  <2>3. QED
    BY Zenon, <2>1, <2>2, ErasureHolds
<1> HIDE DEF w, newW, newB
<1>31. /\ DOMAIN initializers' = DOMAIN initializers \cup {bias}
       /\ initializers'[bias] = u[bias] /\ initializers'[w] = u[w]
       /\ \A x \in DOMAIN initializers \ {w, bias} : initializers'[x] = initializers[x]
  BY <1>1, <1>8, <1>17, <1>20
<1>32. \A y \in Given' : u[y] = Known(initializers', y)
  <2>1. ASSUME NEW y \in Given' PROVE u[y] = Known(initializers', y)
    <3>1. CASE y = bias \/ y = w
      BY <1>8, <1>31, <3>1 DEF Known
    <3>2. CASE y # bias /\ y # w
      <4>1. y \in Given
        BY <1>31, <2>1, <3>2 DEF Given
      <4>2. Known(initializers', y) = Known(initializers, y)
        <5>1. CASE y \in DOMAIN initializers
          BY <1>31, <3>2, <5>1 DEF Known
        <5>2. CASE y \notin DOMAIN initializers
          BY <1>31, <3>2, <5>2 DEF Known
        <5>3. QED
          BY <5>1, <5>2
      <4>3. u[y] = t[y]
        <5>1. y \in Names
          BY <1>7, <4>1 DEF Given, Names
        <5>2. QED
          BY <1>21, <3>2, <5>1
      <4>4. QED
        BY <1>6, <4>1, <4>2, <4>3
    <3>3. QED
      BY <3>1, <3>2
  <2>2. QED
    BY <2>1
<1>33. results = [k \in DOMAIN outputs |-> u[outputs[k]]]
  <2>1. ASSUME NEW k \in DOMAIN outputs PROVE u[outputs[k]] = t[outputs[k]]
    <3>1. outputs[k] \in ToSet(outputs)
      BY DEF ToSet
    <3>2. outputs[k] # w /\ outputs[k] # bias
      BY <1>13, <3>1
    <3>3. outputs[k] \in Names
      <4>1. outputs[k] \in Given \/ \E l \in DOMAIN nodes : nodes[l].output = outputs[k]
        BY <1>7, <3>1 DEF InOrder
      <4>2. \A y \in Given : y \in Names
        BY <1>7 DEF Given, Names
      <4>3. ASSUME NEW l \in DOMAIN nodes PROVE nodes[l].output \in Names
        <5>1. nodes[l] \in Nodes(Names)
          BY <1>7
        <5>2. nodes[l].output \in STRING
          BY <5>1, NodeFacts
        <5>3. QED
          BY <5>2 DEF Names
      <4>4. QED
        BY <4>1, <4>2, <4>3
    <3>4. QED
      BY <1>21, <3>2, <3>3
  <2>2. QED
    BY Zenon, <1>6, <2>1
<1>34. Computes(u)'
  BY Zenon, <1>1, <1>27, <1>30, <1>32, <1>33 DEF Computes
<1>35. TypedInitializers'
  <2>1. \A y \in DOMAIN initializers' : y \in Names /\ initializers'[y] \in Tensors
    BY <1>7, <1>19, <1>26, <1>31
  <2>2. initializers' = [y \in DOMAIN initializers' |-> initializers'[y]]
    BY <1>1
  <2>3. initializers' \in [DOMAIN initializers' -> Tensors]
    BY <2>1, <2>2
  <2>4. QED
    BY Zenon, <2>1, <2>3 DEF TypedInitializers
<1>36. QED
  BY Zenon, <1>34, <1>35

\* Every step keeps the invariant of what the graph computes.
LEMMA NextResults ==
  RInv /\ [Next]_vars => RInv'
<1> SUFFICES ASSUME RInv, [Next]_vars PROVE RInv'
  OBVIOUS
<1>1. CASE ConvBnFusion
  BY <1>1, ConvBnResults
<1>2. CASE TransposeElim
  BY <1>2, ElimResults
<1>3. CASE TransposeMerge
  BY <1>3, MergeResults
<1>4. CASE ConstantFold
  BY <1>4, FoldResults
<1>5. CASE EndPass \/ UNCHANGED vars
  <2>1. IInv'
    BY NextInvariant DEF RInv
  <2>2. UNCHANGED <<nodes, initializers, outputs, results, lapses>>
    BY <1>5 DEF EndPass, vars
  <2>3. lapses = {} => \E t : Computes(t)'
    BY Zenon, <2>2 DEF RInv, Computes, Given
  <2>4. lapses = {} => TypedInitializers'
    BY Zenon, <2>2 DEF RInv, TypedInitializers
  <2>5. QED
    BY Zenon, <2>1, <2>2, <2>3, <2>4 DEF RInv
<1>6. QED
  BY <1>1, <1>2, <1>3, <1>4, <1>5 DEF Next, Terminating

\* While no rewrite has touched what others read, the graph computes what it
\* was loaded to compute: the scaled weights and biases, the composed
\* permutations, the removed pairs and the folded constants are right for all
\* graphs and all tensors.
THEOREM OutputsAreKept ==
  Spec => []ResultsKept
<1>1. RInv => ResultsKept
  BY RInvImplies
<1>2. QED
  BY <1>1, InitResults, NextResults, PTL DEF Spec
=============================================================================
