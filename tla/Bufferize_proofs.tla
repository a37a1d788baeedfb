-------------------------- MODULE Bufferize_proofs --------------------------
(***************************************************************************)
(* What one-shot bufferization guarantees for every graph that the         *)
(* builders of Graph can make, whatever its size.                          *)
(***************************************************************************)
EXTENDS Bufferize, FiniteSetTheorems, WellFoundedInduction, TLAPS

(***************************************************************************)
(* Induction over a set of natural numbers: the library's theorems take an *)
(* operator, which the provers cannot instantiate.                         *)
(***************************************************************************)
\* A set of natural numbers has a least element.
LEMMA LeastNat ==
  ASSUME NEW T, T \subseteq Nat, T # {}
  PROVE  \E x \in T : \A y \in T : x <= y
<1>1. IsWellFoundedOn(OpToRel(<, Nat), Nat)
  BY NatLessThanWellFounded
<1>2. PICK x \in T : \A y \in T : ~(<<y, x>> \in OpToRel(<, Nat))
  BY <1>1, WFMin
<1>3. OpToRel(<, Nat) = {ss \in Nat \X Nat : ss[1] < ss[2]}
  BY Zenon DEF OpToRel
<1> DEFINE Less == {ss \in Nat \X Nat : ss[1] < ss[2]}
<1>4. \A y \in T : <<y, x>> \notin Less
  BY <1>2, <1>3, Zenon
<1>5. \A y \in T : ~(y < x)
  BY <1>4
<1>6. \A y \in T : x <= y
  BY <1>5, x \in Nat
<1>7. QED
  BY <1>6

\* A set with 0 and the successors of its elements has all natural numbers.
LEMMA NatSetInduction ==
  ASSUME NEW P, 0 \in P, \A n \in Nat : n \in P => n + 1 \in P
  PROVE  Nat \subseteq P
<1>1. SUFFICES ASSUME Nat \ P # {} PROVE FALSE
  OBVIOUS
<1>2. PICK x \in Nat \ P : \A y \in Nat \ P : x <= y
  BY <1>1, LeastNat
<1>3. x # 0 /\ x - 1 \in Nat
  BY <1>2
<1>4. x - 1 \in P
  BY <1>2, <1>3
<1>5. x - 1 + 1 = x
  BY <1>2
<1>6. QED
  BY <1>2, <1>3, <1>4, <1>5

(***************************************************************************)
(* Erasing an operator and renaming its result, the two edits of Stage 0.  *)
(***************************************************************************)
\* Graph::erase_op closes the gap: an operator behind the erased one moves up.
LEMMA WithoutIsSeq ==
  ASSUME NEW S, NEW s \in Seq(S), NEW i \in DOMAIN s
  PROVE  /\ Without(s, i) \in Seq(S)
         /\ Len(Without(s, i)) = Len(s) - 1
         /\ DOMAIN Without(s, i) = 1 .. Len(s) - 1
         /\ \A k \in 1 .. Len(s) - 1 :
              Without(s, i)[k] = IF k < i THEN s[k] ELSE s[k + 1]
<1> DEFINE front == SubSeq(s, 1, i - 1)
           back  == SubSeq(s, i + 1, Len(s))
<1>1. i \in 1 .. Len(s) /\ Len(s) \in Nat
  OBVIOUS
<1>2. /\ front \in Seq(S)
      /\ Len(front) = i - 1
      /\ \A k \in 1 .. i - 1 : front[k] = s[k]
  BY <1>1
<1>3. /\ back \in Seq(S)
      /\ Len(back) = Len(s) - i
      /\ \A k \in 1 .. Len(s) - i : back[k] = s[k + i]
  BY <1>1
<1>4. Without(s, i) = front \o back
  BY DEF Without
<1> HIDE DEF front, back
<1>5. QED
  BY <1>1, <1>2, <1>3, <1>4

\* Where an operator of the shortened graph stood before.
Before(k, i) == IF k < i THEN k ELSE k + 1

After(k, i) == IF k < i THEN k ELSE k - 1

\* A graph of the builders, as Stage 0 leaves it too.
WellFormed(s, R) ==
  /\ s \in Seq(Ops)
  /\ R \subseteq Values
  /\ IsBuilt([ops |-> s, returns |-> R])

\* The same in terms of the operators.
LEMMA WellFormedParts ==
  ASSUME NEW s, NEW R
  PROVE  WellFormed(s, R) <=>
           /\ s \in Seq(Ops)
           /\ R \subseteq Values
           /\ \A i \in DOMAIN s : Built(s[i])
           /\ SingleDefinitions(s)
           /\ UsesDefined(s)
           /\ R \subseteq Args \cup DefinedIn(s)
BY DEF WellFormed, IsBuilt

\* Erasing an operator whose result nobody uses or returns.
LEMMA EraseWellFormed ==
  ASSUME NEW s, NEW R, WellFormed(s, R), NEW i \in DOMAIN s,
         s[i].res \notin R,
         \A j \in DOMAIN s : s[i].res \notin Reads(s[j])
  PROVE  WellFormed(Without(s, i), R)
<1> DEFINE t == Without(s, i)
<1>1. /\ s \in Seq(Ops)
      /\ \A j \in DOMAIN s : Built(s[j])
      /\ SingleDefinitions(s)
      /\ UsesDefined(s)
      /\ R \subseteq Args \cup DefinedIn(s)
      /\ R \subseteq Values
  BY WellFormedParts
<1>2. /\ t \in Seq(Ops)
      /\ DOMAIN t = 1 .. Len(s) - 1
      /\ \A k \in DOMAIN t : Before(k, i) \in DOMAIN s /\ t[k] = s[Before(k, i)]
  <2>1. /\ t \in Seq(Ops)
        /\ DOMAIN t = 1 .. Len(s) - 1
        /\ \A k \in 1 .. Len(s) - 1 : t[k] = IF k < i THEN s[k] ELSE s[k + 1]
    BY <1>1, WithoutIsSeq
  <2> HIDE DEF t
  <2>2. QED
    BY <1>1, <2>1 DEF Before
<1> HIDE DEF t
<1>3. \A j \in DOMAIN s : j # i => After(j, i) \in DOMAIN t /\ t[After(j, i)] = s[j]
  <2>1. DOMAIN s = 1 .. Len(s) /\ Len(s) \in Nat
    BY <1>1
  <2>2. \A j \in DOMAIN s : j # i => After(j, i) \in DOMAIN t /\ Before(After(j, i), i) = j
    BY <1>2, <2>1 DEF Before, After
  <2>3. QED
    BY <1>2, <2>2
<1>4. SingleDefinitions(t)
  <2>1. ASSUME NEW j \in DOMAIN t, NEW k \in DOMAIN t, t[j].res = t[k].res
        PROVE  j = k
    <3>1. Before(j, i) = Before(k, i)
      BY <1>1, <1>2, <2>1 DEF SingleDefinitions
    <3>2. QED
      BY <1>2, <3>1 DEF Before
  <2>2. QED
    BY <2>1 DEF SingleDefinitions
<1>5. UsesDefined(t)
  <2>1. ASSUME NEW k \in DOMAIN t, NEW v \in Reads(t[k]), v \notin Args
        PROVE  \E j \in 1 .. k - 1 : t[j].res = v
    <3>1. PICK j \in 1 .. Before(k, i) - 1 : s[j].res = v
      BY <1>1, <1>2, <2>1 DEF UsesDefined
    <3>2. j \in DOMAIN s /\ j # i
      BY <1>1, <1>2, <2>1, <3>1 DEF Before
    <3>3. After(j, i) \in 1 .. k - 1
      BY <1>1, <1>2, <3>1, <3>2 DEF Before, After
    <3>4. QED
      BY <1>3, <3>1, <3>2, <3>3
  <2>2. QED
    BY <2>1 DEF UsesDefined
<1>6. R \subseteq Args \cup DefinedIn(t)
  BY <1>1, <1>3 DEF DefinedIn
<1>7. \A k \in DOMAIN t : Built(t[k])
  BY <1>1, <1>2
<1>8. QED
  BY <1>1, <1>2, <1>4, <1>5, <1>6, <1>7, WellFormedParts DEF t

\* Replacing a result by an earlier one, as pass_cse does.
LEMMA RenameWellFormed ==
  ASSUME NEW s, NEW R, WellFormed(s, R),
         NEW i \in DOMAIN s, NEW j \in DOMAIN s, i < j
  PROVE  LET old == s[j].res
             new == s[i].res
             t   == ReplacedUses(s, old, new)
             Q   == {Renamed(r, old, new) : r \in R}
         IN  /\ WellFormed(t, Q)
             /\ DOMAIN t = DOMAIN s
             /\ t[j].res = old
             /\ old \notin Q
             /\ \A k \in DOMAIN t : old \notin Reads(t[k])
<1> DEFINE old == s[j].res
           new == s[i].res
           t   == ReplacedUses(s, old, new)
           Q   == {Renamed(r, old, new) : r \in R}
<1>1. /\ s \in Seq(Ops)
      /\ \A k \in DOMAIN s : Built(s[k])
      /\ SingleDefinitions(s)
      /\ UsesDefined(s)
      /\ R \subseteq Args \cup DefinedIn(s)
      /\ R \subseteq Values
  BY WellFormedParts
<1>2. /\ DOMAIN s = 1 .. Len(s) /\ Len(s) \in Nat
      /\ \A k \in DOMAIN s : s[k] \in Ops
  BY <1>1
<1>3. /\ old \in Results /\ new \in Results /\ old # new /\ old \notin Args
      /\ old \in Values /\ new \in Values
  BY <1>1, <1>2, DisjointAssumption DEF Ops, Values, SingleDefinitions
<1> HIDE DEF old, new
<1>4. \A v : Renamed(v, old, new) # old
  BY <1>3 DEF Renamed
<1>5. \A v \in Values : Renamed(v, old, new) \in Values
  BY <1>3 DEF Renamed
<1>6. ASSUME NEW k \in DOMAIN s
      PROVE  /\ t[k] \in Ops
             /\ t[k].res = s[k].res
             /\ t[k].label = s[k].label
             /\ DOMAIN t[k].ins = DOMAIN s[k].ins
             /\ DOMAIN t[k].outs = DOMAIN s[k].outs
             /\ \A n \in DOMAIN s[k].ins : t[k].ins[n] = Renamed(s[k].ins[n], old, new)
             /\ \A n \in DOMAIN s[k].outs : t[k].outs[n] = Renamed(s[k].outs[n], old, new)
  <2> DEFINE newIns  == [n \in DOMAIN s[k].ins |-> Renamed(s[k].ins[n], old, new)]
             newOuts == [n \in DOMAIN s[k].outs |-> Renamed(s[k].outs[n], old, new)]
  <2>1. s[k] \in Ops /\ s[k].ins \in Seq(Values) /\ s[k].outs \in Seq(Values)
    BY <1>2 DEF Ops
  <2>2. newIns \in Seq(Values) /\ newOuts \in Seq(Values)
    BY <2>1, <1>5
  <2>3. t[k] = [s[k] EXCEPT !.ins = newIns, !.outs = newOuts]
    BY DEF ReplacedUses
  <2> HIDE DEF t
  <2>4. /\ t[k].res = s[k].res /\ t[k].label = s[k].label
        /\ t[k].ins = newIns /\ t[k].outs = newOuts
        /\ t[k] = [res |-> s[k].res, label |-> s[k].label, ins |-> newIns, outs |-> newOuts]
    BY <2>1, <2>3 DEF Ops
  <2>5. t[k] \in Ops
    BY <2>1, <2>2, <2>4 DEF Ops
  <2>6. QED
    BY <2>4, <2>5
<1>7. t \in Seq(Ops) /\ DOMAIN t = DOMAIN s
  <2>1. t \in [1 .. Len(s) -> Ops]
    BY <1>2, <1>6 DEF ReplacedUses
  <2>2. QED
    BY <1>2, <2>1
<1> HIDE DEF t
<1>8. ASSUME NEW k \in DOMAIN s
      PROVE  Reads(t[k]) = {Renamed(v, old, new) : v \in Reads(s[k])}
  BY <1>6 DEF Reads, Elements
<1>9. \A k \in DOMAIN s : Built(t[k])
  <2>1. SUFFICES ASSUME NEW k \in DOMAIN s PROVE Built(t[k])
    OBVIOUS
  <2>2. /\ s[k].ins \in Seq(Values) /\ s[k].outs \in Seq(Values)
        /\ t[k].ins \in Seq(Values) /\ t[k].outs \in Seq(Values)
    BY <1>2, <1>6 DEF Ops
  <2>3. Len(t[k].ins) = Len(s[k].ins) /\ Len(t[k].outs) = Len(s[k].outs)
    BY <1>6, <2>2
  <2>4. QED
    BY <1>1, <1>6, <2>2, <2>3 DEF Built
<1>10. SingleDefinitions(t)
  BY <1>1, <1>6, <1>7 DEF SingleDefinitions
<1>11. UsesDefined(t)
  <2>1. SUFFICES ASSUME NEW k \in DOMAIN s, NEW v \in Reads(t[k]), v \notin Args
                 PROVE  \E n \in 1 .. k - 1 : t[n].res = v
    BY <1>7 DEF UsesDefined
  <2>2. PICK w \in Reads(s[k]) : v = Renamed(w, old, new)
    BY <1>8
  <2>3. w \notin Args
    BY <1>3, <2>1, <2>2 DEF Renamed
  <2>4. PICK n \in 1 .. k - 1 : s[n].res = w
    BY <1>1, <2>3 DEF UsesDefined
  <2>5. n \in DOMAIN s
    BY <1>2, <2>4
  <2>6. CASE w = old
    <3>1. n = j
      BY <1>1, <2>4, <2>5, <2>6 DEF SingleDefinitions, old
    <3>2. i \in 1 .. k - 1 /\ s[i].res = v
      BY <1>2, <2>2, <2>4, <2>6, <3>1 DEF Renamed, new
    <3>3. QED
      BY <1>6, <3>2
  <2>7. CASE w # old
    BY <1>6, <2>2, <2>4, <2>5, <2>7 DEF Renamed
  <2>8. QED
    BY <2>6, <2>7
<1>12. Q \subseteq Args \cup DefinedIn(t) /\ Q \subseteq Values
  <2>1. DefinedIn(t) = DefinedIn(s) /\ new \in DefinedIn(s)
    BY <1>6, <1>7 DEF DefinedIn, new
  <2>2. QED
    BY <1>1, <1>5, <2>1 DEF Renamed
<1>13. WellFormed(t, Q)
  BY <1>1, <1>7, <1>9, <1>10, <1>11, <1>12, WellFormedParts
<1>14. t[j].res = old /\ old \notin Q /\ \A k \in DOMAIN t : old \notin Reads(t[k])
  BY <1>4, <1>6, <1>7, <1>8 DEF old
<1>15. QED
  BY <1>7, <1>13, <1>14 DEF t, old, new

(***************************************************************************)
(* The inductive invariant.                                                *)
(***************************************************************************)
Cleaning == {"cse", "dce"}

Planned == {"assign", "copy", "run", "done"}

\* Stage 0 works on a graph of the builders and leaves one.
GraphInv ==
  /\ source \in Graphs
  /\ stage \in Stages
  /\ WellFormed(ops, returns)
  /\ next \in 1 .. Len(ops) + 1
  /\ stage \in Cleaning => next = 1
  /\ stage \in {"decide", "done"} => next = Len(ops) + 1

\* Stage 1 has given a group to the arguments and to the results behind it, and
\* a result that joined a group is in the group of the operand it joined.
GroupInv ==
  /\ group \in [Values -> Values \cup {NoValue}]
  /\ stage \notin Cleaning =>
       /\ \A v \in Args : group[v] = v
       /\ \A i \in DOMAIN ops : (stage = "alias" => i < next) =>
            /\ group[ops[i].res] # NoValue
            /\ AliasParent(i) # NoValue => group[ops[i].res] = group[AliasParent(i)]

\* From Stage 3 on the plan is what the graph determines.
PlanInv ==
  /\ plan \in Seq(Plans)
  /\ stage \in Planned => plan = [i \in DOMAIN ops |-> Decision(i)]

\* Operator i has its slot.
HasSlot(i) == stage = "assign" => i < next

\* The slots of Stage 4: those of the arguments come first and hold nothing
\* else, and every other slot belongs to an operator that overwrites nothing or
\* is the target of a copy.
SlotInv ==
  /\ slots \in Seq({"input", "output", "local"})
  /\ slotOf \in [Values -> 0 .. Len(slots)]
  /\ stage \notin Planned => slots = <<>> /\ slotOf = [v \in Values |-> 0]
  /\ stage \in Planned =>
       /\ Len(ArgList) <= Len(slots)
       /\ \A s \in DOMAIN slots : slots[s] = "input" <=> s <= Len(ArgList)
       /\ \A k \in DOMAIN ArgList : slotOf[ArgList[k]] = k
       /\ \A i \in DOMAIN ops :
            IF HasSlot(i) THEN slotOf[ops[i].res] > Len(ArgList)
                          ELSE slotOf[ops[i].res] = 0
       /\ \A v \in Values : slotOf[v] # 0 => v \in Args \cup DefinedIn(ops)
       /\ \A s \in DOMAIN slots : slots[s] = "local" /\ ~IsCopyTarget(s) =>
            \E i \in DOMAIN ops : slotOf[ops[i].res] = s /\ plan[i].alias = NoValue

\* Stage 5 has made the copy that operator i needs.
HasCopy(i) == (stage = "copy" => i < next) /\ plan[i].copy

\* The copies of Stage 5: one for each operator that needs it, from the slot of
\* the value it overwrites to a slot of its own.
CopyInv ==
  /\ copies \in Seq([src : Nat, dst : Nat, before : Nat])
  /\ stage \notin {"copy", "run", "done"} => copies = <<>>
  /\ stage \in {"copy", "run", "done"} =>
       /\ \A k \in DOMAIN copies :
            /\ copies[k].before \in DOMAIN ops
            /\ HasCopy(copies[k].before)
            /\ copies[k].src = slotOf[plan[copies[k].before].alias]
            /\ copies[k].dst \in DOMAIN slots
            /\ slots[copies[k].dst] = "local"
       /\ \A k, l \in DOMAIN copies :
            (copies[k].before = copies[l].before \/ copies[k].dst = copies[l].dst) => k = l
       /\ \A i \in DOMAIN ops : HasCopy(i) =>
            \E k \in DOMAIN copies : copies[k].before = i

\* A copy serves later readers of the value that is copied, and only results
\* that would have overwritten that value too live in its target.
RedirectInv ==
  /\ stage \notin Cleaning =>
       /\ redirect \in [(DOMAIN ops) \X Values -> 0 .. Len(slots)]
       /\ stage \notin Planned => \A p \in DOMAIN redirect : redirect[p] = 0
  /\ stage \in Planned =>
       \A i \in DOMAIN ops, v \in Values : redirect[<<i, v>>] # 0 =>
         \E k \in DOMAIN copies : /\ copies[k].dst = redirect[<<i, v>>]
                                 /\ plan[copies[k].before].alias = v
                                 /\ i \in LaterReaders(copies[k].before)
  /\ \A k \in DOMAIN copies, i \in DOMAIN ops :
       slotOf[ops[i].res] = copies[k].dst =>
         /\ i \in LaterReaders(copies[k].before)
         /\ Moves(i, plan[copies[k].before].alias)

\* The slots that are allocated when operator i is about to run.
Live(i) ==
  {s \in DOMAIN slots :
     \/ slots[s] # "local"
     \/ \E k \in DOMAIN copies : copies[k].dst = s /\ copies[k].before < i
     \/ ~IsCopyTarget(s) /\ \E j \in 1 .. i - 1 : slotOf[ops[j].res] = s}

\* The memory of the emitted program holds those slots, and the arguments.
MemInv ==
  /\ misread \subseteq Nat
  /\ mem \in [DOMAIN mem -> Values \cup {NoValue}]
  /\ stage = "run" => DOMAIN mem = Live(next)
  /\ stage = "done" => DOMAIN mem = {s \in DOMAIN slots : slots[s] # "local"}
  /\ stage \in {"run", "done"} => \A k \in DOMAIN ArgList : mem[k] = ArgList[k]

Inv == /\ GraphInv /\ GroupInv /\ PlanInv /\ SlotInv /\ CopyInv /\ RedirectInv
       /\ MemInv /\ GroupsCoverSharing

(***************************************************************************)
(* What the graph says of an operator's plan.                              *)
(***************************************************************************)
LEMMA GraphFacts ==
  ASSUME GraphInv
  PROVE  /\ ops \in Seq(Ops) /\ DOMAIN ops = 1 .. Len(ops) /\ Len(ops) \in Nat
         /\ returns \subseteq Values
         /\ \A i \in DOMAIN ops :
              /\ ops[i] \in Ops
              /\ ops[i].res \in Results
              /\ ops[i].res \in Values
              /\ ops[i].res \notin Args
              /\ Operands(i) \subseteq Values
              /\ Built(ops[i])
         /\ \A i, j \in DOMAIN ops : ops[i].res = ops[j].res => i = j
         /\ \A i \in DOMAIN ops : \A v \in Operands(i) :
              v \in Args \/ \E j \in DOMAIN ops : j < i /\ ops[j].res = v
<1>1. /\ ops \in Seq(Ops)
      /\ returns \subseteq Values
      /\ \A i \in DOMAIN ops : Built(ops[i])
      /\ SingleDefinitions(ops)
      /\ UsesDefined(ops)
  BY WellFormedParts DEF GraphInv
<1>2. DOMAIN ops = 1 .. Len(ops) /\ Len(ops) \in Nat /\ \A i \in DOMAIN ops : ops[i] \in Ops
  BY <1>1
<1>3. ASSUME NEW i \in DOMAIN ops
      PROVE  /\ ops[i].res \in Results /\ ops[i].res \in Values /\ ops[i].res \notin Args
             /\ Operands(i) \subseteq Values
  BY <1>2, DisjointAssumption DEF Ops, Values, Operands, Reads, Elements
<1>4. ASSUME NEW i \in DOMAIN ops, NEW v \in Operands(i), v \notin Args
      PROVE  \E j \in DOMAIN ops : j < i /\ ops[j].res = v
  <2>1. PICK j \in 1 .. i - 1 : ops[j].res = v
    BY <1>1, <1>4 DEF UsesDefined, Operands
  <2>2. j \in DOMAIN ops /\ j < i
    BY <1>2, <2>1
  <2>3. QED
    BY <2>1, <2>2
<1>5. QED
  BY <1>1, <1>2, <1>3, <1>4 DEF SingleDefinitions

\* An operator overwrites, if anything, the result of an earlier operator which
\* it reads and whose group it joined.
LEMMA DecisionFacts ==
  ASSUME GraphInv, NEW i \in DOMAIN ops
  PROVE  /\ Decision(i) \in Plans
         /\ Decision(i).copy => Decision(i).alias # NoValue
         /\ Decision(i).alias # NoValue =>
              /\ Decision(i).alias \in Operands(i)
              /\ Decision(i).alias = preferred_inplace(i)
              /\ Decision(i).alias = AliasParent(i)
              /\ Decision(i).decision = "INPLACE"
              /\ Decision(i).copy <=> LaterReaders(i) # {}
              /\ ~IsFill(i)
              /\ ops[i].res \notin returns
              /\ \E j \in DOMAIN ops : j < i /\ ops[j].res = Decision(i).alias
<1>1. /\ ops[i].ins \in Seq(Values) /\ ops[i].outs \in Seq(Values)
      /\ Operands(i) \subseteq Values
  BY GraphFacts DEF Ops
<1>2. /\ ops[i].ins # <<>> => Head(ops[i].ins) \in Operands(i)
      /\ ops[i].outs # <<>> => Head(ops[i].outs) \in Operands(i)
  <2>1. ASSUME NEW s \in Seq(Values), s # <<>> PROVE Head(s) \in Elements(s)
    BY <2>1 DEF Elements
  <2>2. QED
    BY <1>1, <2>1 DEF Operands, Reads
<1>3. preferred_inplace(i) # NoValue =>
        /\ preferred_inplace(i) \in Operands(i)
        /\ preferred_inplace(i) = AliasParent(i)
        /\ ~IsFill(i)
  BY <1>2 DEF preferred_inplace, AliasParent
<1>4. ASSUME Decision(i).alias # NoValue
      PROVE  /\ ~IsFill(i)
             /\ ops[i].res \notin returns
             /\ preferred_inplace(i) # NoValue
             /\ IsDefined(preferred_inplace(i))
             /\ Decision(i) = [decision |-> "INPLACE", alias |-> preferred_inplace(i),
                               copy |-> LaterReaders(i) # {}]
  BY <1>4 DEF Decision, OutOfPlace
<1>5. ASSUME Decision(i).alias # NoValue
      PROVE  \E j \in DOMAIN ops : j < i /\ ops[j].res = Decision(i).alias
  <2>1. preferred_inplace(i) \in Operands(i) /\ preferred_inplace(i) \notin Args
    BY <1>3, <1>4, <1>5, GraphFacts DEF IsDefined
  <2>2. QED
    BY <1>4, <1>5, <2>1, GraphFacts
<1>6. Decision(i) \in Plans
  <2> DEFINE d == Decision(i)
             c == LaterReaders(i) # {}
  <2>1. preferred_inplace(i) \in Values \cup {NoValue} /\ c \in BOOLEAN
    BY <1>1, <1>3
  <2>2. \/ d = [decision |-> "INPLACE", alias |-> NoValue, copy |-> FALSE]
        \/ d = [decision |-> "OUT_OF_PLACE", alias |-> NoValue, copy |-> FALSE]
        \/ d = [decision |-> "INPLACE", alias |-> preferred_inplace(i), copy |-> c]
    BY DEF Decision, OutOfPlace
  <2> HIDE DEF d, c
  <2>3. ASSUME NEW x \in {"INPLACE", "OUT_OF_PLACE"}, NEW a \in Values \cup {NoValue},
              NEW b \in BOOLEAN
        PROVE  [decision |-> x, alias |-> a, copy |-> b] \in Plans
    BY DEF Plans
  <2>4. d \in Plans
    BY <2>1, <2>2, <2>3
  <2>5. QED
    BY <2>4 DEF d
<1>7. Decision(i).copy => Decision(i).alias # NoValue
  BY DEF Decision, OutOfPlace
<1>8. Decision(i).alias # NoValue => (Decision(i).copy <=> LaterReaders(i) # {})
  <2> DEFINE c == LaterReaders(i) # {}
  <2>1. c \in BOOLEAN
    OBVIOUS
  <2> HIDE DEF c
  <2>2. Decision(i).alias # NoValue => Decision(i).copy = c
    BY <1>4 DEF c
  <2>3. QED
    BY <2>1, <2>2 DEF c
<1>9. QED
  BY <1>3, <1>4, <1>5, <1>6, <1>7, <1>8

(***************************************************************************)
(* The start and Stage 0.                                                  *)
(***************************************************************************)
LEMMA InitInv == Init => Inv
<1> SUFFICES ASSUME Init PROVE Inv
  OBVIOUS
<1> USE DEF Init
<1>1. GraphInv
  <2>1. source \in Graphs /\ source \in Graph /\ IsBuilt(source)
    BY GraphsAssumption, BuilderAssumption
  <2>2. ops \in Seq(Ops) /\ returns \subseteq Values
    BY <2>1 DEF Graph
  <2>3. source = [ops |-> ops, returns |-> returns]
    BY <2>1 DEF Graph
  <2>4. WellFormed(ops, returns)
    BY <2>1, <2>2, <2>3 DEF WellFormed
  <2>5. next \in 1 .. Len(ops) + 1
    BY <2>2
  <2>6. QED
    BY <2>1, <2>4, <2>5 DEF GraphInv, Stages, Cleaning
<1>2. GroupInv
  BY DEF GroupInv, Cleaning
<1>3. PlanInv
  BY DEF PlanInv, Planned
<1>4. SlotInv
  BY DEF SlotInv, Planned
<1>5. CopyInv
  BY DEF CopyInv
<1>6. RedirectInv
  BY DEF RedirectInv, Cleaning, Planned
<1>7. MemInv
  BY DEF MemInv
<1>8. GroupsCoverSharing
  BY DEF GroupsCoverSharing
<1>9. QED
  BY <1>1, <1>2, <1>3, <1>4, <1>5, <1>6, <1>7, <1>8 DEF Inv

\* While Stage 0 runs, nothing but the graph changes.
LEMMA CleaningStep ==
  ASSUME Inv, stage \in Cleaning, GraphInv', stage' \in Cleaning,
         UNCHANGED <<next, group, plan, slots, slotOf, copies, redirect, mem, misread>>
  PROVE  Inv'
<1> USE DEF Inv
<1>1. GroupInv'
  BY DEF GroupInv, Cleaning
<1>2. PlanInv'
  BY DEF PlanInv, Planned, Cleaning
<1>3. SlotInv'
  BY DEF SlotInv, Planned, Cleaning
<1>4. copies = <<>> /\ CopyInv'
  BY DEF CopyInv, Cleaning
<1>5. RedirectInv'
  BY <1>4 DEF RedirectInv, Planned, Cleaning
<1>6. MemInv'
  BY DEF MemInv, Cleaning
<1>7. GroupsCoverSharing'
  BY DEF GroupsCoverSharing, Cleaning
<1>8. QED
  BY <1>1, <1>2, <1>3, <1>4, <1>5, <1>6, <1>7

\* Erasing a duplicate (Cse) keeps the invariant of the pipeline.
LEMMA CseInv == ASSUME Inv, Cse PROVE Inv'
<1>1. PICK p \in Duplicates :
        /\ ops' = Without(ReplacedUses(ops, ops[p[2]].res, ops[p[1]].res), p[2])
        /\ returns' = {Renamed(r, ops[p[2]].res, ops[p[1]].res) : r \in returns}
  BY DEF Cse
<1> DEFINE i == p[1]
           j == p[2]
           t == ReplacedUses(ops, ops[j].res, ops[i].res)
<1>2. i \in DOMAIN ops /\ j \in DOMAIN ops /\ i < j
  BY <1>1 DEF Duplicates, SameOp
<1>3. /\ WellFormed(t, returns')
      /\ DOMAIN t = DOMAIN ops
      /\ t[j].res \notin returns'
      /\ \A k \in DOMAIN t : t[j].res \notin Reads(t[k])
  <2> DEFINE Q == {Renamed(r, ops[j].res, ops[i].res) : r \in returns}
  <2>1. WellFormed(ops, returns)
    BY DEF Inv, GraphInv
  <2>2. returns' = Q
    BY <1>1
  <2> HIDE DEF i, j
  <2>3. /\ WellFormed(t, Q)
        /\ DOMAIN t = DOMAIN ops
        /\ t[j].res = ops[j].res
        /\ ops[j].res \notin Q
        /\ \A k \in DOMAIN t : ops[j].res \notin Reads(t[k])
    BY <1>2, <2>1, RenameWellFormed
  <2> HIDE DEF t, Q
  <2>4. QED
    BY <2>2, <2>3
<1>4. WellFormed(ops', returns')
  <2> HIDE DEF t, j
  <2>1. ops' = Without(t, j)
    BY <1>1 DEF t, i, j
  <2>2. QED
    BY <1>2, <1>3, <2>1, EraseWellFormed
<1>5. GraphInv'
  <2>1. ops' \in Seq(Ops)
    BY <1>4 DEF WellFormed
  <2>2. QED
    BY <1>4, <2>1 DEF Inv, GraphInv, Cse, Cleaning
<1>6. QED
  BY <1>5, CleaningStep DEF Cse, Cleaning

\* Erasing an operator nobody uses (Dce) keeps the invariant.
LEMMA DceInv == ASSUME Inv, Dce PROVE Inv'
<1>1. PICK i \in DOMAIN ops : IsDead(i) /\ ops' = Without(ops, i)
  BY DEF Dce
<1>2. WellFormed(ops, returns) /\ returns' = returns
  BY DEF Inv, GraphInv, Dce
<1>3. ops[i].res \notin returns /\ \A j \in DOMAIN ops : ops[i].res \notin Reads(ops[j])
  BY <1>1 DEF IsDead, Users, Operands
<1>4. WellFormed(ops', returns')
  BY <1>1, <1>2, <1>3, EraseWellFormed
<1>5. GraphInv'
  <2>1. ops' \in Seq(Ops)
    BY <1>4 DEF WellFormed
  <2>2. QED
    BY <1>4, <2>1 DEF Inv, GraphInv, Dce, Cleaning
<1>6. QED
  BY <1>5, CleaningStep DEF Dce, Cleaning

\* The end of pass_cse keeps the invariant.
LEMMA EndCseInv == ASSUME Inv, EndCse PROVE Inv'
<1>1. GraphInv'
  BY DEF Inv, GraphInv, EndCse, Cleaning, Stages
<1>2. QED
  BY <1>1, CleaningStep DEF EndCse, Cleaning

\* Stage 1 starts with the groups of the arguments and with empty plans.
LEMMA EndDceInv == ASSUME Inv, EndDce PROVE Inv'
<1> USE DEF EndDce
<1>1. ops \in Seq(Ops) /\ DOMAIN ops = 1 .. Len(ops) /\ Len(ops) \in Nat /\ next = 1
  BY GraphFacts DEF Inv, GraphInv, Cleaning
<1>2. GraphInv'
  BY <1>1 DEF Inv, GraphInv, Cleaning, Stages
<1>3. GroupInv'
  <2>1. \A v \in Args : v \in Values
    BY DEF Values
  <2>2. QED
    BY <1>1, <2>1 DEF GroupInv, Cleaning
<1>4. PlanInv'
  <2>1. Unplanned \in Plans
    BY DEF Unplanned, Plans
  <2>2. plan' \in Seq(Plans)
    BY <1>1, <2>1
  <2>3. QED
    BY <2>2 DEF PlanInv, Planned
<1>5. SlotInv'
  BY DEF Inv, SlotInv, Planned, Cleaning
<1>6. copies = <<>> /\ CopyInv'
  BY DEF Inv, CopyInv, Cleaning
<1>7. RedirectInv'
  <2>1. slots = <<>>
    BY DEF Inv, SlotInv, Planned
  <2>2. QED
    BY <1>1, <1>6, <2>1 DEF RedirectInv, Planned, Cleaning
<1>8. MemInv'
  BY DEF Inv, MemInv, Cleaning
<1>9. GroupsCoverSharing'
  BY DEF GroupsCoverSharing
<1>10. QED
  BY <1>2, <1>3, <1>4, <1>5, <1>6, <1>7, <1>8, <1>9 DEF Inv

(***************************************************************************)
(* Stages 1 to 3.                                                          *)
(***************************************************************************)
\* The operand whose group a result joins is an argument or an earlier result.
LEMMA ParentFacts ==
  ASSUME GraphInv, NEW i \in DOMAIN ops, AliasParent(i) # NoValue
  PROVE  /\ AliasParent(i) \in Values
         /\ AliasParent(i) # ops[i].res
         /\ AliasParent(i) \in Args \/ \E j \in DOMAIN ops : j < i /\ ops[j].res = AliasParent(i)
<1>1. ops[i].ins \in Seq(Values) /\ ops[i].outs \in Seq(Values)
  BY GraphFacts DEF Ops
<1>2. AliasParent(i) \in Operands(i)
  <2>1. ASSUME NEW s \in Seq(Values), s # <<>> PROVE Head(s) \in Elements(s)
    BY <2>1 DEF Elements
  <2>2. QED
    BY <1>1, <2>1 DEF AliasParent, Operands, Reads
<1>3. AliasParent(i) \in Values
  BY <1>2, GraphFacts
<1>4. AliasParent(i) \in Args \/ \E j \in DOMAIN ops : j < i /\ ops[j].res = AliasParent(i)
  BY <1>2, GraphFacts
<1>5. AliasParent(i) # ops[i].res
  BY <1>4, GraphFacts
<1>6. QED
  BY <1>3, <1>4, <1>5

\* One operator of Stage 1 put into its alias group keeps the invariant.
LEMMA GroupAliasInv == ASSUME Inv, GroupAlias PROVE Inv'
<1> USE DEF GroupAlias
<1>1. GraphInv /\ GroupInv /\ next \in DOMAIN ops /\ DOMAIN ops = 1 .. Len(ops) /\ Len(ops) \in Nat
  BY GraphFacts DEF Inv
<1>2. GraphInv'
  <2>1. next + 1 \in 1 .. Len(ops) + 1
    BY <1>1
  <2>2. QED
    BY <1>1, <2>1 DEF GraphInv, Cleaning
<1>3. /\ \A v \in Args : group[v] = v
      /\ \A i \in DOMAIN ops : i < next => group[ops[i].res] # NoValue
  BY <1>1 DEF GroupInv, Cleaning
<1> DEFINE p == AliasParent(next)
           r == ops[next].res
<1>4. r \in Values /\ r \notin Args /\ r # NoValue
  BY <1>1, GraphFacts, NoValueAssumption
<1>5. p # NoValue => /\ p \in Values /\ p # r
                     /\ group[p] # NoValue
  <2>1. \A v \in Args : v \in Values /\ v # NoValue
    BY NoValueAssumption DEF Values
  <2>2. QED
    BY <1>1, <1>3, <2>1, ParentFacts
<1>6. AliasRoot(next) \in Values /\ (p # NoValue => AliasRoot(next) = group[p])
  BY <1>1, <1>4, <1>5 DEF AliasRoot, GroupInv
<1>7. AliasRoot(next) # NoValue
  BY <1>6, NoValueAssumption
<1>8. group' = [group EXCEPT ![r] = AliasRoot(next)] /\ stage' = "alias" /\ ops' = ops
  OBVIOUS
<1> HIDE DEF p, r
<1>9. GroupInv'
  <2>1. group' \in [Values -> Values \cup {NoValue}]
    BY <1>1, <1>6, <1>8 DEF GroupInv
  <2>2. group'[r] = AliasRoot(next) /\ \A v \in Values : v # r => group'[v] = group[v]
    BY <1>1, <1>4, <1>8 DEF GroupInv
  <2>3. \A v \in Args : group'[v] = v
    BY <1>3, <1>4, <2>2 DEF Values
  <2>4. ASSUME NEW i \in DOMAIN ops, i < next + 1
        PROVE  /\ group'[ops[i].res] # NoValue
               /\ AliasParent(i) # NoValue => group'[ops[i].res] = group'[AliasParent(i)]
    <3>1. CASE i = next
      BY <1>5, <1>6, <1>7, <2>2, <3>1 DEF p, r
    <3>2. CASE i < next
      <4>1. ops[i].res # r /\ ops[i].res \in Values
        BY <1>1, <3>2, GraphFacts DEF r
      <4>2. AliasParent(i) # NoValue => AliasParent(i) \in Values /\ AliasParent(i) # r
        <5>1. ASSUME AliasParent(i) # NoValue PROVE AliasParent(i) # r
          <6>1. CASE AliasParent(i) \in Args
            BY <1>4, <6>1
          <6>2. CASE \E j \in DOMAIN ops : j < i /\ ops[j].res = AliasParent(i)
            <7>1. PICK j \in DOMAIN ops : j < i /\ ops[j].res = AliasParent(i)
              BY <6>2
            <7>2. j # next
              BY <1>1, <3>2, <7>1
            <7>3. QED
              BY <1>1, <7>1, <7>2, GraphFacts DEF r
          <6>3. QED
            BY <1>1, <5>1, <6>1, <6>2, ParentFacts
        <5>2. QED
          BY <1>1, <5>1, ParentFacts
      <4>3. QED
        BY <1>1, <1>3, <2>2, <3>2, <4>1, <4>2 DEF GroupInv, Cleaning
    <3>3. QED
      BY <1>1, <2>4, <3>1, <3>2
  <2>5. QED
    BY <2>1, <2>3, <2>4 DEF GroupInv, AliasParent, IsFill, IsMatmul
<1>10. PlanInv' /\ SlotInv' /\ CopyInv' /\ MemInv'
  BY DEF Inv, PlanInv, SlotInv, CopyInv, MemInv, Planned
<1>11. RedirectInv'
  BY DEF Inv, RedirectInv, Planned, Cleaning, CopyInv
<1>12. GroupsCoverSharing'
  BY DEF GroupsCoverSharing
<1>13. QED
  BY <1>2, <1>9, <1>10, <1>11, <1>12 DEF Inv

\* The end of Stage 1 keeps the invariant.
LEMMA EndAliasInv == ASSUME Inv, EndAlias PROVE Inv'
<1> USE DEF EndAlias
<1>1. GraphInv /\ DOMAIN ops = 1 .. Len(ops) /\ Len(ops) \in Nat
  BY GraphFacts DEF Inv
<1>2. next = Len(ops) + 1
  BY <1>1 DEF GraphInv
<1>3. GraphInv'
  BY <1>1, <1>2 DEF GraphInv, Cleaning, Stages
<1>4. GroupInv'
  BY <1>1, <1>2 DEF Inv, GroupInv, Cleaning, AliasParent, IsFill, IsMatmul
<1>5. PlanInv' /\ SlotInv' /\ CopyInv' /\ MemInv'
  BY DEF Inv, PlanInv, SlotInv, CopyInv, MemInv, Planned
<1>6. RedirectInv'
  BY DEF Inv, RedirectInv, Planned, Cleaning, CopyInv
<1>7. GroupsCoverSharing'
  BY DEF GroupsCoverSharing, Inv, SlotInv, Planned
<1>8. QED
  BY <1>3, <1>4, <1>5, <1>6, <1>7 DEF Inv

\* The arguments have their positions as slots.
LEMMA ArgSlotFacts ==
  /\ \A k \in DOMAIN ArgList : ArgList[k] \in Args /\ ArgSlot(ArgList[k]) = k
  /\ \A v \in Args : ArgSlot(v) \in DOMAIN ArgList /\ ArgList[ArgSlot(v)] = v
  /\ Len(ArgList) \in Nat /\ DOMAIN ArgList = 1 .. Len(ArgList)
<1>1. ASSUME NEW v \in Args PROVE ArgSlot(v) \in DOMAIN ArgList /\ ArgList[ArgSlot(v)] = v
  <2>1. \E k \in DOMAIN ArgList : ArgList[k] = v
    BY DEF Args
  <2>2. QED
    BY <2>1 DEF ArgSlot
<1>2. \A k \in DOMAIN ArgList : ArgList[k] \in Args
  BY DEF Args
<1>3. QED
  BY <1>1, <1>2, ArgListAssumption

\* Stage 4 starts with the slots of the arguments and a plan for every operator.
LEMMA DecideInv == ASSUME Inv, Decide PROVE Inv'
<1> USE DEF Decide
<1>1. GraphInv /\ DOMAIN ops = 1 .. Len(ops) /\ Len(ops) \in Nat
  BY GraphFacts DEF Inv
<1>2. GraphInv'
  BY <1>1 DEF GraphInv, Cleaning, Stages
<1>3. GroupInv'
  BY <1>1 DEF Inv, GroupInv, Cleaning, AliasParent, IsFill, IsMatmul
<1>4. PlanInv'
  <2>1. \A i \in DOMAIN ops : Decision(i) \in Plans
    BY <1>1, DecisionFacts
  <2>2. plan' \in Seq(Plans)
    BY <1>1, <2>1
  <2>3. \A i \in DOMAIN ops : Decision(i)' = Decision(i)
    BY DEF Decision, OutOfPlace, IsFill, IsMatmul, IsDefined, preferred_inplace, LaterReaders,
           Users, Operands
  <2>4. QED
    BY <2>2, <2>3 DEF PlanInv
<1>5. copies = <<>> /\ CopyInv'
  BY DEF Inv, CopyInv
<1>6. /\ DOMAIN slots' = 1 .. Len(ArgList) /\ Len(slots') = Len(ArgList)
      /\ slots' \in Seq({"input", "output", "local"})
      /\ \A s \in DOMAIN slots' : slots'[s] = "input"
  BY ArgSlotFacts
<1>7. /\ slotOf' \in [Values -> 0 .. Len(ArgList)]
      /\ \A v \in Args : v \in Values /\ slotOf'[v] = ArgSlot(v)
      /\ \A v \in Values : slotOf'[v] # 0 => v \in Args
  <2>1. \A v \in Args : ArgSlot(v) \in 0 .. Len(ArgList)
    BY ArgSlotFacts
  <2>2. QED
    BY <2>1 DEF Values
<1>8. SlotInv'
  <2>1. /\ stage' = "assign" /\ next' = 1 /\ ops' = ops
    OBVIOUS
  <2>2. \A i \in DOMAIN ops : slotOf'[ops[i].res] = 0 /\ ~(i < 1)
    BY <1>1, <1>7, GraphFacts
  <2>3. \A k \in DOMAIN ArgList : slotOf'[ArgList[k]] = k
    BY <1>7, ArgSlotFacts
  <2> HIDE DEF Decide
  <2>4. QED
    BY <1>6, <1>7, <2>1, <2>2, <2>3, ArgSlotFacts DEF SlotInv, Planned, HasSlot
<1>9. RedirectInv'
  <2>1. /\ redirect' = redirect /\ copies' = <<>> /\ ops' = ops
        /\ redirect \in [(DOMAIN ops) \X Values -> 0 .. Len(slots)]
        /\ slots = <<>>
        /\ \A p \in DOMAIN redirect : redirect[p] = 0
    BY <1>5 DEF Inv, RedirectInv, SlotInv, Cleaning, Planned
  <2>2. redirect' \in [(DOMAIN ops) \X Values -> 0 .. Len(slots')]
    BY <1>6, <2>1, ArgSlotFacts
  <2>3. \A i \in DOMAIN ops, v \in Values : redirect'[<<i, v>>] = 0
    BY <2>1
  <2>4. stage' = "assign"
    OBVIOUS
  <2> HIDE DEF Decide
  <2>5. QED
    BY <2>1, <2>2, <2>3, <2>4 DEF RedirectInv, Cleaning, Planned
<1>10. MemInv'
  BY DEF Inv, MemInv
<1>11. GroupsCoverSharing'
  <2>1. ASSUME NEW v \in Values, NEW w \in Values, slotOf'[v] # 0, slotOf'[v] = slotOf'[w]
        PROVE  v = w
    BY <1>7, <2>1, ArgSlotFacts
  <2>2. QED
    BY <2>1 DEF GroupsCoverSharing
<1>12. QED
  BY <1>2, <1>3, <1>4, <1>5, <1>8, <1>9, <1>10, <1>11 DEF Inv

(***************************************************************************)
(* Stage 4.                                                                *)
(***************************************************************************)
LEMMA PlanFacts ==
  ASSUME GraphInv, PlanInv, stage \in Planned, NEW i \in DOMAIN ops
  PROVE  /\ plan[i] = Decision(i)
         /\ plan[i].copy => plan[i].alias # NoValue
         /\ plan[i].alias # NoValue =>
              /\ plan[i].alias \in Operands(i)
              /\ plan[i].alias \in Values
              /\ plan[i].alias \notin Args
              /\ plan[i].alias = preferred_inplace(i)
              /\ plan[i].alias = AliasParent(i)
              /\ plan[i].decision = "INPLACE"
              /\ plan[i].copy <=> LaterReaders(i) # {}
              /\ ~IsFill(i)
              /\ ops[i].res \notin returns
              /\ \E j \in DOMAIN ops : j < i /\ ops[j].res = plan[i].alias
<1>1. plan[i] = Decision(i)
  BY DEF PlanInv
<1>2. plan[i].alias # NoValue =>
        /\ plan[i].alias \in Operands(i)
        /\ \E j \in DOMAIN ops : j < i /\ ops[j].res = plan[i].alias
  BY <1>1, DecisionFacts
<1>3. plan[i].alias # NoValue => plan[i].alias \in Values /\ plan[i].alias \notin Args
  BY <1>2, GraphFacts
<1>4. QED
  BY <1>1, <1>2, <1>3, DecisionFacts

\* The operators and the plan stay what they are from Stage 4 on.
LEMMA SamePlan ==
  ASSUME UNCHANGED <<ops, returns, plan>>
  PROVE  /\ \A i : LaterReaders(i)' = LaterReaders(i)
         /\ \A i : Decision(i)' = Decision(i)
         /\ \A i : AliasParent(i)' = AliasParent(i)
         /\ \A i, t : Moves(i, t)' = Moves(i, t)
         /\ \A i : IsFill(i)' = IsFill(i)
         /\ \A i : IsMatmul(i)' = IsMatmul(i)
         /\ \A i : Operands(i)' = Operands(i)
<1>1. \A i : LaterReaders(i)' = LaterReaders(i)
  BY DEF LaterReaders, Users, Operands, preferred_inplace, IsFill, IsMatmul, IsDefined
<1>2. \A i : Decision(i)' = Decision(i)
  BY <1>1 DEF Decision, OutOfPlace, preferred_inplace, IsFill, IsMatmul, IsDefined
<1>3. QED
  BY <1>1, <1>2 DEF AliasParent, Moves, IsFill, IsMatmul, Operands

\* An operator whose plan names an operand inherits that operand's slot.
LEMMA InheritsIffAlias ==
  ASSUME Inv, stage = "assign", next \in DOMAIN ops
  PROVE  /\ Inherits(next) <=> plan[next].alias # NoValue
         /\ Inherits(next) =>
              \E j \in DOMAIN ops : j < next /\ ops[j].res = plan[next].alias
<1>1. GraphInv /\ PlanInv /\ SlotInv /\ stage \in Planned
  BY DEF Inv, Planned
<1>2. ASSUME plan[next].alias # NoValue
      PROVE  /\ Inherits(next)
             /\ \E j \in DOMAIN ops : j < next /\ ops[j].res = plan[next].alias
  <2>1. PICK j \in DOMAIN ops : j < next /\ ops[j].res = plan[next].alias
    BY <1>1, <1>2, PlanFacts
  <2>2. slotOf[ops[j].res] > Len(ArgList)
    BY <1>1, <2>1 DEF SlotInv, HasSlot
  <2>3. QED
    BY <1>1, <1>2, <2>1, <2>2, PlanFacts, ArgSlotFacts DEF Inherits
<1>3. QED
  BY <1>2 DEF Inherits

\* Giving the next result the slot s, be it new or inherited.
LEMMA AssignSlotInv == ASSUME Inv, AssignSlot PROVE Inv'
<1>1. /\ GraphInv /\ GroupInv /\ PlanInv /\ SlotInv /\ CopyInv /\ RedirectInv /\ MemInv
      /\ GroupsCoverSharing
      /\ stage = "assign" /\ stage \in Planned /\ next \in DOMAIN ops
      /\ DOMAIN ops = 1 .. Len(ops) /\ Len(ops) \in Nat
  BY GraphFacts DEF Inv, Planned, AssignSlot
<1> DEFINE r == ops[next].res
           s == slotOf'[r]
<1>2. /\ r \in Values /\ r \notin Args /\ slotOf[r] = 0
      /\ \A i \in DOMAIN ops : i # next => ops[i].res # r
      /\ \A k \in DOMAIN ArgList : ArgList[k] # r
  BY <1>1, GraphFacts, ArgSlotFacts DEF SlotInv, HasSlot
<1>3. /\ slots \in Seq({"input", "output", "local"})
      /\ slotOf \in [Values -> 0 .. Len(slots)]
      /\ Len(slots) \in Nat /\ DOMAIN slots = 1 .. Len(slots)
      /\ Len(ArgList) <= Len(slots) /\ Len(ArgList) \in Nat
      /\ copies = <<>>
  BY <1>1, ArgSlotFacts DEF SlotInv, CopyInv
<1>4. Owner(next) \in {"output", "local"}
  BY DEF Owner
\* What either case does, in the terms the invariant uses.
<1>5. /\ slotOf' = [slotOf EXCEPT ![r] = s]
      /\ s \in 1 .. Len(slots')
      /\ s > Len(ArgList)
      /\ \/ /\ slots' = slots
            /\ plan[next].alias # NoValue
            /\ \E j \in DOMAIN ops : /\ j < next /\ ops[j].res = plan[next].alias
                                     /\ slotOf[ops[j].res] = s
         \/ /\ slots' = Append(slots, Owner(next))
            /\ plan[next].alias = NoValue
            /\ s = Len(slots) + 1
  <2>1. CASE Inherits(next)
    <3>1. slotOf' = [slotOf EXCEPT ![r] = slotOf[plan[next].alias]] /\ slots' = slots
      BY <2>1 DEF AssignSlot
    <3>2. PICK j \in DOMAIN ops : j < next /\ ops[j].res = plan[next].alias
      BY <1>1, <2>1, InheritsIffAlias DEF Inv
    <3>3. slotOf[ops[j].res] > Len(ArgList) /\ slotOf[ops[j].res] \in 0 .. Len(slots)
      BY <1>1, <1>3, <3>2, GraphFacts DEF SlotInv, HasSlot
    <3>4. s = slotOf[plan[next].alias]
      BY <1>2, <1>3, <3>1
    <3>5. plan[next].alias # NoValue
      BY <2>1 DEF Inherits
    <3> HIDE DEF r, s
    <3>6. slotOf' = [slotOf EXCEPT ![r] = s] /\ slotOf[ops[j].res] = s
      BY <3>1, <3>2, <3>4
    <3>7. s \in 1 .. Len(slots') /\ s > Len(ArgList)
      BY <1>3, <3>1, <3>3, <3>6
    <3>8. QED
      BY <3>1, <3>2, <3>5, <3>6, <3>7
  <2>2. CASE ~Inherits(next)
    <3>1. slotOf' = [slotOf EXCEPT ![r] = Len(slots) + 1] /\ slots' = Append(slots, Owner(next))
      BY <2>2 DEF NewSlot, AssignSlot
    <3>2. s = Len(slots) + 1
      BY <1>2, <1>3, <3>1
    <3>3. Len(slots') = Len(slots) + 1
      <4> HIDE DEF r, s
      <4>1. QED
        BY <1>3, <1>4, <3>1
    <3>4. plan[next].alias = NoValue
      BY <1>1, <2>2, InheritsIffAlias DEF Inv
    <3> HIDE DEF r, s
    <3>5. s \in 1 .. Len(slots') /\ s > Len(ArgList)
      BY <1>3, <3>2, <3>3
    <3>6. QED
      BY <3>1, <3>2, <3>4, <3>5
  <2>3. QED
    BY <2>1, <2>2
<1>6. /\ slotOf'[r] = s /\ \A v \in Values : v # r => slotOf'[v] = slotOf[v]
      /\ Len(slots) <= Len(slots') /\ Len(slots') \in Nat
      /\ slots' \in Seq({"input", "output", "local"})
      /\ DOMAIN slots' = 1 .. Len(slots')
      /\ slotOf' \in [Values -> 0 .. Len(slots')]
  <2>1. /\ Len(slots) <= Len(slots') /\ slots' \in Seq({"input", "output", "local"})
    BY <1>3, <1>4, <1>5
  <2>2. slotOf'[r] = s /\ \A v \in Values : v # r => slotOf'[v] = slotOf[v]
    BY <1>2, <1>3, <1>5
  <2> HIDE DEF s, r
  <2>3. QED
    BY <1>2, <1>3, <1>5, <2>1, <2>2
<1>7. /\ stage' = "assign" /\ stage' \in Planned /\ next' = next + 1
      /\ ops' = ops /\ plan' = plan /\ copies' = copies /\ redirect' = redirect
      /\ UNCHANGED <<source, returns, group, mem, misread>>
  BY <1>1 DEF AssignSlot
<1> HIDE DEF r, s
<1>8. GraphInv'
  BY <1>1, <1>7 DEF GraphInv, Cleaning, Stages, WellFormed
<1>9. GroupInv'
  BY <1>1, <1>7, SamePlan DEF GroupInv, Cleaning
<1>10. PlanInv'
  BY <1>1, <1>7, SamePlan DEF PlanInv
<1>11. SlotInv'
  <2>1. \A t \in DOMAIN slots' : slots'[t] = "input" <=> t <= Len(ArgList)
    BY <1>1, <1>3, <1>4, <1>5 DEF SlotInv
  <2>2. \A k \in DOMAIN ArgList : slotOf'[ArgList[k]] = k
    <3>1. \A k \in DOMAIN ArgList : ArgList[k] \in Values
      BY ArgSlotFacts DEF Values
    <3>2. QED
      BY <1>1, <1>2, <1>6, <3>1 DEF SlotInv
  <2>3. ASSUME NEW i \in DOMAIN ops
        PROVE  IF i < next + 1 THEN slotOf'[ops[i].res] > Len(ArgList)
                               ELSE slotOf'[ops[i].res] = 0
    <3>1. ops[i].res \in Values
      BY <1>1, GraphFacts
    <3>2. CASE i = next
      <4>1. slotOf'[ops[i].res] = s /\ s > Len(ArgList)
        BY <1>5, <1>6, <3>2 DEF r
      <4>2. QED
        BY <1>1, <3>2, <4>1
    <3>3. CASE i # next
      <4>1. slotOf'[ops[i].res] = slotOf[ops[i].res]
        BY <1>2, <1>6, <3>1, <3>3
      <4>2. i < next + 1 <=> i < next
        BY <1>1, <3>3
      <4>3. QED
        BY <1>1, <4>1, <4>2 DEF SlotInv, HasSlot
    <3>4. QED
      BY <3>2, <3>3
  <2>4. \A v \in Values : slotOf'[v] # 0 => v \in Args \cup DefinedIn(ops)
    BY <1>1, <1>6 DEF SlotInv, DefinedIn, r
  <2>5. ASSUME NEW t \in DOMAIN slots', slots'[t] = "local"
        PROVE  \E i \in DOMAIN ops : slotOf'[ops[i].res] = t /\ plan[i].alias = NoValue
    <3>1. CASE t \in DOMAIN slots
      <4>1. slots[t] = "local" /\ ~IsCopyTarget(t)
        BY <1>3, <1>4, <1>5, <2>5, <3>1 DEF IsCopyTarget
      <4>2. PICK i \in DOMAIN ops : slotOf[ops[i].res] = t /\ plan[i].alias = NoValue
        BY <1>1, <3>1, <4>1 DEF SlotInv
      <4>3. i # next
        BY <1>2, <1>3, <3>1, <4>2 DEF r
      <4>4. slotOf'[ops[i].res] = t
        BY <1>1, <1>2, <1>6, <4>2, <4>3, GraphFacts
      <4>5. QED
        BY <4>2, <4>4
    <3>2. CASE t \notin DOMAIN slots
      <4>1. t = s /\ plan[next].alias = NoValue
        BY <1>3, <1>4, <1>5, <2>5, <3>2
      <4>2. QED
        BY <1>1, <1>6, <4>1 DEF r
    <3>3. QED
      BY <3>1, <3>2
  <2>6. \A i : HasSlot(i)' <=> i < next + 1
    BY <1>7 DEF HasSlot
  <2>7. QED
    BY <1>3, <1>6, <1>7, <2>1, <2>2, <2>3, <2>4, <2>5, <2>6 DEF SlotInv
<1>12. CopyInv'
  BY <1>1, <1>7 DEF CopyInv
<1>13. RedirectInv'
  <2>1. redirect \in [(DOMAIN ops) \X Values -> 0 .. Len(slots')]
    BY <1>1, <1>3, <1>6 DEF RedirectInv, Cleaning
  <2>2. \A i \in DOMAIN ops, v \in Values : redirect[<<i, v>>] = 0
    <3>1. \A i \in DOMAIN ops, v \in Values : redirect[<<i, v>>] # 0 => DOMAIN copies # {}
      BY <1>1 DEF RedirectInv
    <3>2. DOMAIN copies = {}
      BY <1>3
    <3>3. QED
      BY <3>1, <3>2
  <2>3. QED
    BY <1>3, <1>7, <2>1, <2>2 DEF RedirectInv, Cleaning, Planned
<1>14. MemInv'
  BY <1>1, <1>7 DEF MemInv
<1>15. GroupsCoverSharing'
  <2>1. \A v, w \in Values : slotOf[v] # 0 /\ slotOf[v] = slotOf[w] => group[v] = group[w]
    BY <1>1 DEF GroupsCoverSharing
  <2>2. ASSUME NEW v \in Values, v # r, slotOf[v] = s
        PROVE  group[v] = group[r]
    <3>1. slotOf[v] \in 0 .. Len(slots)
      BY <1>3
    <3>2. PICK j \in DOMAIN ops : /\ ops[j].res = plan[next].alias
                                  /\ slotOf[ops[j].res] = s
                                  /\ plan[next].alias # NoValue
      BY <1>3, <1>5, <2>2, <3>1
    <3>3. group[v] = group[plan[next].alias]
      BY <1>1, <1>3, <1>5, <2>1, <2>2, <3>2, GraphFacts
    <3>4. AliasParent(next) = plan[next].alias
      BY <1>1, <3>2, PlanFacts
    <3>5. group[r] = group[AliasParent(next)]
      BY <1>1, <3>2, <3>4 DEF GroupInv, Cleaning, r
    <3>6. QED
      BY <3>3, <3>4, <3>5
  <2>3. ASSUME NEW v \in Values, NEW w \in Values, slotOf'[v] # 0, slotOf'[v] = slotOf'[w]
        PROVE  group[v] = group[w]
    <3>1. CASE v = r /\ w # r
      BY <1>2, <1>6, <2>2, <2>3, <3>1
    <3>2. CASE v # r /\ w = r
      BY <1>2, <1>6, <2>2, <2>3, <3>2
    <3>3. CASE v # r /\ w # r
      BY <1>6, <2>1, <2>3, <3>3
    <3>4. QED
      BY <3>1, <3>2, <3>3
  <2>4. QED
    BY <1>7, <2>3 DEF GroupsCoverSharing
<1>16. QED
  BY <1>8, <1>9, <1>10, <1>11, <1>12, <1>13, <1>14, <1>15 DEF Inv

\* The end of Stage 4 keeps the invariant.
LEMMA EndAssignInv == ASSUME Inv, EndAssign PROVE Inv'
<1>1. /\ GraphInv /\ GroupInv /\ PlanInv /\ SlotInv /\ CopyInv /\ RedirectInv /\ MemInv
      /\ GroupsCoverSharing
      /\ stage = "assign" /\ next \notin DOMAIN ops
      /\ DOMAIN ops = 1 .. Len(ops) /\ Len(ops) \in Nat
  BY GraphFacts DEF Inv, Planned, EndAssign
<1>2. next = Len(ops) + 1
  BY <1>1 DEF GraphInv
<1>3. /\ stage' = "copy" /\ next' = 1
      /\ UNCHANGED <<source, ops, returns, group, plan, slots, slotOf, copies, redirect,
                     mem, misread>>
  BY DEF EndAssign
<1>4. copies = <<>> /\ DOMAIN copies = {}
  BY <1>1 DEF CopyInv
<1>5. GraphInv'
  BY <1>1, <1>3 DEF GraphInv, Cleaning, Stages, WellFormed
<1>6. GroupInv'
  BY <1>1, <1>3, SamePlan DEF GroupInv, Cleaning
<1>7. PlanInv'
  BY <1>1, <1>3, SamePlan DEF PlanInv, Planned
<1>8. SlotInv'
  <2>1. \A i \in DOMAIN ops : HasSlot(i) /\ HasSlot(i)'
    BY <1>1, <1>2, <1>3 DEF HasSlot
  <2>2. \A t : IsCopyTarget(t)' <=> IsCopyTarget(t)
    BY <1>3 DEF IsCopyTarget
  <2>3. QED
    BY <1>1, <1>3, <2>1, <2>2 DEF SlotInv, Planned
<1>9. CopyInv'
  BY <1>1, <1>3, <1>4 DEF CopyInv, HasCopy
<1>10. RedirectInv'
  BY <1>1, <1>3, SamePlan DEF RedirectInv, Cleaning, Planned
<1>11. MemInv'
  BY <1>1, <1>3 DEF MemInv
<1>12. GroupsCoverSharing'
  BY <1>1, <1>3 DEF GroupsCoverSharing
<1>13. QED
  BY <1>5, <1>6, <1>7, <1>8, <1>9, <1>10, <1>11, <1>12 DEF Inv

(***************************************************************************)
(* Stage 5.                                                                *)
(***************************************************************************)
\* From Stage 5 on every result has a slot that is no argument's.
LEMMA ResultSlots ==
  ASSUME Inv, stage \in {"copy", "run", "done"}
  PROVE  /\ slots \in Seq({"input", "output", "local"})
         /\ Len(slots) \in Nat /\ DOMAIN slots = 1 .. Len(slots)
         /\ Len(ArgList) \in Nat /\ Len(ArgList) <= Len(slots)
         /\ slotOf \in [Values -> 0 .. Len(slots)]
         /\ \A i \in DOMAIN ops : /\ slotOf[ops[i].res] \in DOMAIN slots
                                  /\ slotOf[ops[i].res] > Len(ArgList)
<1>1. /\ slots \in Seq({"input", "output", "local"})
      /\ slotOf \in [Values -> 0 .. Len(slots)]
      /\ Len(ArgList) <= Len(slots)
      /\ \A i \in DOMAIN ops : slotOf[ops[i].res] > Len(ArgList)
  BY DEF Inv, SlotInv, Planned, HasSlot
<1>2. Len(slots) \in Nat /\ DOMAIN slots = 1 .. Len(slots)
  BY <1>1
<1>3. ASSUME NEW i \in DOMAIN ops PROVE slotOf[ops[i].res] \in DOMAIN slots
  <2>1. slotOf[ops[i].res] \in 0 .. Len(slots)
    BY <1>1, GraphFacts DEF Inv
  <2>2. QED
    BY <1>1, <1>2, <2>1, ArgSlotFacts
<1>4. QED
  BY <1>1, <1>2, <1>3, ArgSlotFacts

\* An operator that Stage 5 inserts no copy for keeps the invariant.
LEMMA SkipCopyInv == ASSUME Inv, SkipCopy PROVE Inv'
<1>1. /\ GraphInv /\ GroupInv /\ PlanInv /\ SlotInv /\ CopyInv /\ RedirectInv /\ MemInv
      /\ GroupsCoverSharing
      /\ stage = "copy" /\ stage \in Planned /\ next \in DOMAIN ops
      /\ DOMAIN ops = 1 .. Len(ops) /\ Len(ops) \in Nat
  BY GraphFacts DEF Inv, Planned, SkipCopy
<1>2. /\ stage' = "copy" /\ next' = next + 1
      /\ UNCHANGED <<source, ops, returns, group, plan, slots, slotOf, copies, redirect,
                     mem, misread>>
  BY DEF SkipCopy
<1>3. ~plan[next].copy
  <2>1. SUFFICES ASSUME plan[next].copy PROVE FALSE
    OBVIOUS
  <2>2. PICK j \in DOMAIN ops : ops[j].res = plan[next].alias
    BY <1>1, <2>1, PlanFacts
  <2>3. slotOf[plan[next].alias] > Len(ArgList) /\ Len(ArgList) \in Nat
    BY <1>1, <2>2, ResultSlots
  <2>4. QED
    BY <2>1, <2>3 DEF SkipCopy
<1>4. \A i \in DOMAIN ops : HasCopy(i)' <=> HasCopy(i)
  BY <1>1, <1>2, <1>3 DEF HasCopy
<1>5. GraphInv'
  BY <1>1, <1>2 DEF GraphInv, Cleaning, Stages, WellFormed
<1>6. GroupInv'
  BY <1>1, <1>2, SamePlan DEF GroupInv, Cleaning
<1>7. PlanInv'
  BY <1>1, <1>2, SamePlan DEF PlanInv, Planned
<1>8. SlotInv'
  BY <1>1, <1>2 DEF SlotInv, Planned, HasSlot, IsCopyTarget
<1>9. CopyInv'
  BY <1>1, <1>2, <1>4 DEF CopyInv
<1>10. RedirectInv'
  BY <1>1, <1>2, SamePlan DEF RedirectInv, Cleaning, Planned
<1>11. MemInv'
  BY <1>1, <1>2 DEF MemInv
<1>12. GroupsCoverSharing'
  BY <1>1, <1>2 DEF GroupsCoverSharing
<1>13. QED
  BY <1>5, <1>6, <1>7, <1>8, <1>9, <1>10, <1>11, <1>12 DEF Inv

\* The operator's copy goes to a new slot, together with the results that would
\* have overwritten the same operand later.
LEMMA InsertCopyInv == ASSUME Inv, InsertCopy PROVE Inv'
<1> DEFINE target == plan[next].alias
           dst    == Len(slots) + 1
           moved  == MovedResults(next)
           entry  == [src |-> slotOf[target], dst |-> dst, before |-> next]
<1>1. /\ GraphInv /\ GroupInv /\ PlanInv /\ SlotInv /\ CopyInv /\ RedirectInv /\ MemInv
      /\ GroupsCoverSharing
      /\ stage = "copy" /\ stage \in Planned /\ next \in DOMAIN ops
      /\ DOMAIN ops = 1 .. Len(ops) /\ Len(ops) \in Nat
      /\ plan[next].copy
  BY GraphFacts DEF Inv, Planned, InsertCopy
<1>2. /\ stage' = "copy" /\ next' = next + 1
      /\ UNCHANGED <<source, ops, returns, group, plan, mem, misread>>
      /\ slots' = Append(slots, "local")
      /\ copies' = Append(copies, entry)
      /\ redirect' = [p \in DOMAIN redirect |->
                        IF p[1] \in LaterReaders(next) /\ p[2] = target THEN dst ELSE redirect[p]]
      /\ slotOf' = [v \in Values |-> IF v \in moved THEN dst ELSE slotOf[v]]
  BY DEF InsertCopy
<1>3. /\ target # NoValue /\ target \in Values /\ target \notin Args
      /\ \E j \in DOMAIN ops : j < next /\ ops[j].res = target
  BY <1>1, PlanFacts
<1>4. /\ slots \in Seq({"input", "output", "local"})
      /\ Len(slots) \in Nat /\ DOMAIN slots = 1 .. Len(slots)
      /\ Len(ArgList) \in Nat /\ Len(ArgList) <= Len(slots)
      /\ slotOf \in [Values -> 0 .. Len(slots)]
      /\ \A i \in DOMAIN ops : /\ slotOf[ops[i].res] \in DOMAIN slots
                               /\ slotOf[ops[i].res] > Len(ArgList)
  BY <1>1, ResultSlots
<1>5. /\ slots' \in Seq({"input", "output", "local"})
      /\ Len(slots') = dst /\ DOMAIN slots' = 1 .. dst /\ dst \in Nat /\ dst \in DOMAIN slots'
      /\ slots'[dst] = "local"
      /\ \A s \in DOMAIN slots : slots'[s] = slots[s]
      /\ dst \notin DOMAIN slots /\ DOMAIN slots \subseteq DOMAIN slots'
  BY <1>2, <1>4
\* The moved results come after the operator and overwrite its operand.
<1>6. ASSUME NEW i \in DOMAIN ops
      PROVE  ops[i].res \in moved <=> i \in LaterReaders(next) /\ Moves(i, target)
  <2>1. ops[i].res \in moved <=>
          \E j \in LaterReaders(next) : Moves(j, target) /\ ops[j].res = ops[i].res
    BY DEF MovedResults
  <2>2. LaterReaders(next) \subseteq DOMAIN ops
    BY DEF LaterReaders, Users
  <2>3. QED
    BY <1>1, <2>1, <2>2, GraphFacts
<1>7. \A v \in moved : \E i \in DOMAIN ops : /\ v = ops[i].res /\ i > next
                                             /\ plan[i].alias = target
  BY DEF MovedResults, LaterReaders, Users, Moves
<1>8. \A v \in Args : v \notin moved
  BY <1>1, <1>7, GraphFacts
<1>9. target \notin moved
  <2>1. PICK j \in DOMAIN ops : j < next /\ ops[j].res = target
    BY <1>3
  <2>2. QED
    BY <1>1, <1>7, <2>1, GraphFacts
<1> HIDE DEF target, dst, moved
<1>10. /\ \A v \in Values : v \in moved => slotOf'[v] = dst
       /\ \A v \in Values : v \notin moved => slotOf'[v] = slotOf[v]
       /\ slotOf' \in [Values -> 0 .. Len(slots')]
  BY <1>2, <1>4, <1>5 DEF dst
<1>11. /\ copies \in Seq([src : Nat, dst : Nat, before : Nat])
       /\ DOMAIN copies = 1 .. Len(copies) /\ Len(copies) \in Nat
       /\ entry \in [src : Nat, dst : Nat, before : Nat]
  <2>1. slotOf[target] \in Nat /\ next \in Nat
    BY <1>1, <1>3, <1>4
  <2>2. QED
    BY <1>1, <1>5, <2>1 DEF CopyInv
<1> DEFINE n == Len(copies) + 1
<1>12. /\ copies' \in Seq([src : Nat, dst : Nat, before : Nat])
       /\ DOMAIN copies' = 1 .. n
       /\ \A k \in DOMAIN copies : copies'[k] = copies[k] /\ k \in DOMAIN copies'
       /\ \A k \in DOMAIN copies' : k = n \/ k \in DOMAIN copies
       /\ copies'[n] = entry /\ n \in DOMAIN copies' /\ n \notin DOMAIN copies
  <2> HIDE DEF entry
  <2>1. QED
    BY <1>2, <1>11
<1>13. entry.src = slotOf[target] /\ entry.dst = dst /\ entry.before = next
  OBVIOUS
<1> HIDE DEF n, entry
\* The entries that were there before.
<1>14. ASSUME NEW k \in DOMAIN copies
       PROVE  /\ copies[k].before \in DOMAIN ops
              /\ copies[k].before < next
              /\ plan[copies[k].before].copy
              /\ copies[k].dst \in DOMAIN slots /\ copies[k].dst # dst
              /\ slots[copies[k].dst] = "local"
              /\ copies[k].src = slotOf[plan[copies[k].before].alias]
  BY <1>1, <1>5 DEF CopyInv, HasCopy
<1>15. GraphInv'
  BY <1>1, <1>2 DEF GraphInv, Cleaning, Stages, WellFormed
<1>16. GroupInv'
  BY <1>1, <1>2, SamePlan DEF GroupInv, Cleaning
<1>17. PlanInv'
  BY <1>1, <1>2, SamePlan DEF PlanInv, Planned
<1>18. SlotInv'
  <2>1. \A s \in DOMAIN slots' : slots'[s] = "input" <=> s <= Len(ArgList)
    <3>1. \A s \in DOMAIN slots : slots[s] = "input" <=> s <= Len(ArgList)
      BY <1>1 DEF SlotInv
    <3>2. dst > Len(ArgList)
      BY <1>4 DEF dst
    <3>3. \A s \in DOMAIN slots' : s \in DOMAIN slots \/ s = dst
      BY <1>4, <1>5 DEF dst
    <3>4. QED
      BY <1>4, <1>5, <3>1, <3>2, <3>3
  <2>2. \A k \in DOMAIN ArgList : slotOf'[ArgList[k]] = k
    <3>1. \A k \in DOMAIN ArgList : ArgList[k] \in Args /\ ArgList[k] \in Values
      BY ArgSlotFacts DEF Values
    <3>2. QED
      BY <1>1, <1>8, <1>10, <3>1 DEF SlotInv
  <2>3. \A i \in DOMAIN ops : slotOf'[ops[i].res] > Len(ArgList)
    <3>1. dst > Len(ArgList)
      BY <1>4 DEF dst
    <3>2. \A i \in DOMAIN ops : ops[i].res \in Values
      BY <1>1, GraphFacts
    <3>3. QED
      BY <1>4, <1>10, <3>1, <3>2
  <2>4. \A v \in Values : slotOf'[v] # 0 => v \in Args \cup DefinedIn(ops)
    <3>1. moved \subseteq DefinedIn(ops)
      BY <1>7 DEF DefinedIn
    <3>2. QED
      BY <1>1, <1>10, <3>1 DEF SlotInv
  <2>5. ASSUME NEW s \in DOMAIN slots', slots'[s] = "local",
               \A k \in DOMAIN copies' : copies'[k].dst # s
        PROVE  \E i \in DOMAIN ops : slotOf'[ops[i].res] = s /\ plan[i].alias = NoValue
    <3>1. s # dst
      BY <1>12, <1>13, <2>5
    <3>2. s \in DOMAIN slots /\ slots[s] = "local"
      BY <1>4, <1>5, <2>5, <3>1 DEF dst
    <3>3. ~IsCopyTarget(s)
      BY <1>12, <2>5 DEF IsCopyTarget
    <3>4. PICK i \in DOMAIN ops : slotOf[ops[i].res] = s /\ plan[i].alias = NoValue
      BY <1>1, <3>2, <3>3 DEF SlotInv
    <3>5. ops[i].res \notin moved
      BY <1>3, <1>6, <3>4 DEF Moves
    <3>6. ops[i].res \in Values
      BY <1>1, GraphFacts
    <3>7. QED
      BY <1>10, <3>4, <3>5, <3>6
  <2>6. Len(ArgList) <= Len(slots')
    BY <1>4, <1>5 DEF dst
  <2>7. stage' \in Planned /\ \A i : HasSlot(i)'
    BY <1>2 DEF Planned, HasSlot
  <2>8. ops' = ops /\ plan' = plan
    BY <1>2
  <2>9. QED
    BY <1>5, <1>10, <2>1, <2>2, <2>3, <2>4, <2>5, <2>6, <2>7, <2>8
    DEF SlotInv, IsCopyTarget
<1>19. CopyInv'
  <2>1. \A i \in DOMAIN ops : HasCopy(i)' <=> HasCopy(i) \/ i = next
    BY <1>1, <1>2 DEF HasCopy
  <2>3. ASSUME NEW i \in DOMAIN ops, i <= next, plan[i].alias # NoValue
        PROVE  slotOf'[plan[i].alias] = slotOf[plan[i].alias]
    <3>1. PICK j \in DOMAIN ops : j < i /\ ops[j].res = plan[i].alias
      BY <1>1, <2>3, PlanFacts
    <3>2. plan[i].alias \notin moved
      BY <1>1, <1>7, <2>3, <3>1, GraphFacts
    <3>3. QED
      BY <1>1, <1>10, <2>3, <3>2, PlanFacts
  <2>4. ASSUME NEW k \in DOMAIN copies'
        PROVE  /\ copies'[k].before \in DOMAIN ops
               /\ copies'[k].before < next + 1 /\ plan[copies'[k].before].copy
               /\ copies'[k].src = slotOf'[plan[copies'[k].before].alias]
               /\ copies'[k].dst \in DOMAIN slots'
               /\ slots'[copies'[k].dst] = "local"
    <3>1. CASE k = n
      <4>1. copies'[k].before = next /\ copies'[k].dst = dst /\ copies'[k].src = slotOf[target]
        BY <1>12, <1>13, <3>1
      <4>2. slotOf'[target] = slotOf[target]
        BY <1>3, <1>9, <1>10
      <4>3. next < next + 1
        BY <1>1
      <4>4. QED
        BY <1>1, <1>5, <4>1, <4>2, <4>3 DEF target
    <3>2. CASE k \in DOMAIN copies
      <4>1. plan[copies[k].before].alias # NoValue
        BY <1>1, <1>14, <3>2, PlanFacts
      <4>2. copies[k].src = slotOf'[plan[copies[k].before].alias]
        BY <1>1, <1>14, <2>3, <3>2, <4>1
      <4>3. copies'[k] = copies[k] /\ copies[k].before < next + 1
        BY <1>1, <1>12, <1>14, <3>2
      <4>4. QED
        BY <1>5, <1>14, <3>2, <4>2, <4>3
    <3>3. QED
      BY <1>12, <3>1, <3>2
  <2>5. ASSUME NEW k \in DOMAIN copies', NEW l \in DOMAIN copies',
               \/ copies'[k].before = copies'[l].before
               \/ copies'[k].dst = copies'[l].dst
        PROVE  k = l
    <3>1. \A m \in DOMAIN copies : /\ copies[m].before # next
                                   /\ copies[m].dst # dst
      BY <1>1, <1>14
    <3>2. CASE k \in DOMAIN copies /\ l \in DOMAIN copies
      <4>1. copies'[k] = copies[k] /\ copies'[l] = copies[l]
        BY <1>12, <3>2
      <4>2. QED
        BY <1>1, <2>5, <3>2, <4>1 DEF CopyInv
    <3>3. CASE ~(k \in DOMAIN copies /\ l \in DOMAIN copies)
      BY <1>12, <1>13, <2>5, <3>1, <3>3
    <3>4. QED
      BY <3>2, <3>3
  <2>6. ASSUME NEW i \in DOMAIN ops, HasCopy(i)'
        PROVE  \E k \in DOMAIN copies' : copies'[k].before = i
    <3>1. CASE i = next
      BY <1>12, <1>13, <3>1
    <3>2. CASE HasCopy(i)
      <4>1. PICK k \in DOMAIN copies : copies[k].before = i
        BY <1>1, <3>2 DEF CopyInv
      <4>2. QED
        BY <1>12, <4>1
    <3>3. QED
      BY <2>1, <2>6, <3>1, <3>2
  <2>7. stage' = "copy" /\ next' = next + 1 /\ ops' = ops /\ plan' = plan
    BY <1>2
  <2>8. QED
    BY <1>12, <2>4, <2>5, <2>6, <2>7 DEF CopyInv, HasCopy
<1>20. RedirectInv'
  <2>1. redirect \in [(DOMAIN ops) \X Values -> 0 .. Len(slots)]
    BY <1>1 DEF RedirectInv, Cleaning
  <2>2. redirect' \in [(DOMAIN ops) \X Values -> 0 .. Len(slots')]
    BY <1>2, <1>4, <1>5, <2>1 DEF dst
  <2>3. ASSUME NEW i \in DOMAIN ops, NEW v \in Values, redirect'[<<i, v>>] # 0
        PROVE  \E k \in DOMAIN copies' : /\ copies'[k].dst = redirect'[<<i, v>>]
                                         /\ plan[copies'[k].before].alias = v
                                         /\ i \in LaterReaders(copies'[k].before)
    <3>1. CASE i \in LaterReaders(next) /\ v = target
      <4>1. redirect'[<<i, v>>] = dst
        BY <1>2, <2>1, <3>1
      <4>2. copies'[n].dst = dst /\ copies'[n].before = next
        BY <1>12, <1>13
      <4>3. QED
        BY <1>12, <3>1, <4>1, <4>2 DEF target
    <3>2. CASE ~(i \in LaterReaders(next) /\ v = target)
      <4>1. redirect'[<<i, v>>] = redirect[<<i, v>>]
        BY <1>2, <2>1, <3>2
      <4>2. PICK k \in DOMAIN copies : /\ copies[k].dst = redirect[<<i, v>>]
                                       /\ plan[copies[k].before].alias = v
                                       /\ i \in LaterReaders(copies[k].before)
        BY <1>1, <2>3, <4>1 DEF RedirectInv
      <4>3. QED
        BY <1>12, <4>1, <4>2
    <3>3. QED
      BY <3>1, <3>2
  <2>4. ASSUME NEW k \in DOMAIN copies', NEW i \in DOMAIN ops,
               slotOf'[ops[i].res] = copies'[k].dst
        PROVE  /\ i \in LaterReaders(copies'[k].before)
               /\ Moves(i, plan[copies'[k].before].alias)
    <3>1. ops[i].res \in Values
      BY <1>1, GraphFacts
    <3>2. CASE k = n
      <4>1. copies'[k].dst = dst /\ copies'[k].before = next
        BY <1>12, <1>13, <3>2
      <4>2. ops[i].res \in moved
        BY <1>4, <1>5, <1>10, <2>4, <3>1, <4>1
      <4>3. QED
        BY <1>6, <4>1, <4>2 DEF target
    <3>3. CASE k \in DOMAIN copies
      <4>1. copies'[k] = copies[k] /\ copies[k].dst # dst
        BY <1>12, <1>14, <3>3
      <4>2. slotOf[ops[i].res] = copies[k].dst
        BY <1>10, <2>4, <3>1, <4>1
      <4>3. QED
        BY <1>1, <3>3, <4>1, <4>2 DEF RedirectInv
    <3>4. QED
      BY <1>12, <3>2, <3>3
  <2>5. stage' \notin Cleaning /\ stage' \in Planned
    BY <1>2 DEF Cleaning, Planned
  <2>6. /\ \A i : LaterReaders(i)' = LaterReaders(i)
        /\ \A i, t : Moves(i, t)' = Moves(i, t)
        /\ ops' = ops /\ plan' = plan
    BY <1>2, SamePlan
  <2>7. QED
    BY <2>2, <2>3, <2>4, <2>5, <2>6 DEF RedirectInv
<1>21. MemInv'
  BY <1>1, <1>2 DEF MemInv
<1>22. GroupsCoverSharing'
  <2>1. \A v, w \in Values : slotOf[v] # 0 /\ slotOf[v] = slotOf[w] => group[v] = group[w]
    BY <1>1 DEF GroupsCoverSharing
  <2>2. ASSUME NEW v \in moved PROVE group[v] = group[target]
    <3>1. PICK i \in DOMAIN ops : v = ops[i].res /\ plan[i].alias = target
      BY <1>7
    <3>2. AliasParent(i) = target
      BY <1>1, <1>3, <3>1, PlanFacts
    <3>3. QED
      BY <1>1, <1>3, <3>1, <3>2 DEF GroupInv, Cleaning
  <2>3. ASSUME NEW v \in Values, NEW w \in Values, slotOf'[v] # 0, slotOf'[v] = slotOf'[w]
        PROVE  group[v] = group[w]
    <3>1. CASE v \in moved /\ w \in moved
      BY <2>2, <3>1
    <3>2. CASE v \notin moved /\ w \notin moved
      BY <1>10, <2>1, <2>3, <3>2
    <3>3. CASE ~(v \in moved <=> w \in moved)
      <4>1. slotOf[v] \in 0 .. Len(slots) /\ slotOf[w] \in 0 .. Len(slots)
        BY <1>4
      <4>2. QED
        BY <1>4, <1>10, <2>3, <3>3, <4>1 DEF dst
    <3>4. QED
      BY <3>1, <3>2, <3>3
  <2>4. QED
    BY <1>2, <2>3 DEF GroupsCoverSharing
<1>23. QED
  BY <1>15, <1>16, <1>17, <1>18, <1>19, <1>20, <1>21, <1>22 DEF Inv

(***************************************************************************)
(* The emitted program.                                                    *)
(***************************************************************************)
\* The slot of a result is allocated from its operator on, and the slots of the
\* arguments and of the results always are.
LEMMA SlotLive ==
  ASSUME Inv, stage \in {"copy", "run", "done"},
         NEW i \in Nat, NEW j \in DOMAIN ops, j < i
  PROVE  slotOf[ops[j].res] \in Live(i)
<1> DEFINE s == slotOf[ops[j].res]
<1>1. /\ s \in DOMAIN slots
      /\ DOMAIN ops = 1 .. Len(ops) /\ Len(ops) \in Nat
  BY ResultSlots, GraphFacts DEF Inv
<1>2. ASSUME NEW k \in DOMAIN copies, copies[k].dst = s
      PROVE  copies[k].before < i
  <2>1. j \in LaterReaders(copies[k].before)
    BY <1>2 DEF Inv, RedirectInv
  <2>2. copies[k].before \in DOMAIN ops
    BY DEF Inv, CopyInv
  <2>3. QED
    BY <1>1, <2>1, <2>2 DEF LaterReaders
<1>3. j \in 1 .. i - 1
  BY <1>1
<1>4. QED
  BY <1>1, <1>2, <1>3 DEF Live, IsCopyTarget

\* The end of Stage 5 keeps the invariant.
LEMMA EndCopyInv == ASSUME Inv, EndCopy PROVE Inv'
<1>1. /\ GraphInv /\ GroupInv /\ PlanInv /\ SlotInv /\ CopyInv /\ RedirectInv /\ MemInv
      /\ GroupsCoverSharing
      /\ stage = "copy" /\ next \notin DOMAIN ops
      /\ DOMAIN ops = 1 .. Len(ops) /\ Len(ops) \in Nat
  BY GraphFacts DEF Inv, EndCopy
<1>2. /\ stage' = "run" /\ next' = 1
      /\ UNCHANGED <<source, ops, returns, group, plan, slots, slotOf, copies, redirect, misread>>
      /\ mem' = [s \in {k \in DOMAIN slots : slots[k] # "local"} |->
                   IF s \in DOMAIN ArgList THEN ArgList[s] ELSE NoValue]
  BY DEF EndCopy
<1>3. next = Len(ops) + 1
  BY <1>1 DEF GraphInv
<1>4. \A i \in DOMAIN ops : HasCopy(i)' <=> HasCopy(i)
  BY <1>1, <1>2, <1>3 DEF HasCopy
<1>5. GraphInv'
  BY <1>1, <1>2 DEF GraphInv, Cleaning, Stages, WellFormed
<1>6. GroupInv'
  BY <1>1, <1>2, SamePlan DEF GroupInv, Cleaning
<1>7. PlanInv'
  BY <1>1, <1>2, SamePlan DEF PlanInv, Planned
<1>8. SlotInv'
  BY <1>1, <1>2 DEF SlotInv, Planned, HasSlot, IsCopyTarget
<1>9. CopyInv'
  BY <1>1, <1>2, <1>4 DEF CopyInv
<1>10. RedirectInv'
  BY <1>1, <1>2, SamePlan DEF RedirectInv, Cleaning, Planned
<1>11. MemInv'
  <2> DEFINE kept == {k \in DOMAIN slots : slots[k] # "local"}
  <2>1. \A k \in DOMAIN copies : ~(copies[k].before < 1)
    BY <1>1 DEF CopyInv
  <2>2. Live(1)' = kept
    BY <1>2, <2>1 DEF Live
  <2>3. \A k \in DOMAIN ArgList : k \in kept /\ ArgList[k] \in Values
    <3>1. \A k \in DOMAIN ArgList : k \in DOMAIN slots /\ slots[k] = "input"
      BY <1>1, ArgSlotFacts DEF SlotInv, Planned
    <3>2. QED
      BY <3>1, ArgSlotFacts DEF Values
  <2> HIDE DEF kept
  <2>4. /\ DOMAIN mem' = kept
        /\ mem' \in [kept -> Values \cup {NoValue}]
        /\ \A k \in DOMAIN ArgList : mem'[k] = ArgList[k]
    BY <1>2, <2>3 DEF kept
  <2>5. misread' \subseteq Nat /\ next' = 1 /\ stage' = "run"
    BY <1>1, <1>2 DEF MemInv
  <2>6. QED
    BY <2>2, <2>4, <2>5 DEF MemInv
<1>12. GroupsCoverSharing'
  BY <1>1, <1>2 DEF GroupsCoverSharing
<1>13. QED
  BY <1>5, <1>6, <1>7, <1>8, <1>9, <1>10, <1>11, <1>12 DEF Inv

\* The memory an operator finds: what was there is kept, and each of its copies
\* holds what its source holds.
LEMMA MemBeforeFacts ==
  ASSUME Inv, stage = "run", next \in DOMAIN ops
  PROVE  /\ DOMAIN MemBefore(next) = Live(next + 1)
         /\ Live(next) \subseteq Live(next + 1)
         /\ \A s \in Live(next) : MemBefore(next)[s] = mem[s]
         /\ \A k \in CopiesBefore(next) :
              /\ copies[k].src \in Live(next)
              /\ copies[k].dst \in Live(next + 1)
              /\ MemBefore(next)[copies[k].dst] = mem[copies[k].src]
         /\ MemBefore(next) \in [Live(next + 1) -> Values \cup {NoValue}]
<1> DEFINE targets == {copies[k].dst : k \in CopiesBefore(next)}
           Source(s) == copies[CHOOSE k \in CopiesBefore(next) : copies[k].dst = s].src
           m == MemBefore(next)
           live == DOMAIN mem \cup AllocatedBefore(next) \cup targets
<1>1. /\ GraphInv /\ PlanInv /\ SlotInv /\ CopyInv /\ RedirectInv /\ MemInv
      /\ stage \in Planned
      /\ DOMAIN ops = 1 .. Len(ops) /\ Len(ops) \in Nat
      /\ DOMAIN mem = Live(next)
  BY GraphFacts DEF Inv, Planned, MemInv
<1>2. m = [s \in live |-> CASE s \in targets -> mem[Source(s)]
                            [] s \in DOMAIN mem /\ s \notin targets -> mem[s]
                            [] OTHER -> NoValue]
  BY DEF MemBefore
<1>3. ASSUME NEW k \in CopiesBefore(next)
      PROVE  /\ k \in DOMAIN copies /\ copies[k].before = next
             /\ copies[k].src \in Live(next)
             /\ copies[k].dst \notin Live(next)
             /\ copies[k].dst \in Live(next + 1)
             /\ Source(copies[k].dst) = copies[k].src
  <2>1. k \in DOMAIN copies /\ copies[k].before = next
    BY DEF CopiesBefore
  <2>2. copies[k].src = slotOf[plan[next].alias] /\ plan[next].copy
    BY <1>1, <2>1 DEF CopyInv, HasCopy
  <2>3. PICK j \in DOMAIN ops : j < next /\ ops[j].res = plan[next].alias
    BY <1>1, <2>2, PlanFacts
  <2>4. copies[k].src \in Live(next)
    BY <1>1, <2>2, <2>3, SlotLive
  <2>5. /\ copies[k].dst \in DOMAIN slots /\ slots[copies[k].dst] = "local"
        /\ \A l \in DOMAIN copies : copies[l].dst = copies[k].dst => l = k
    BY <1>1, <2>1 DEF CopyInv
  <2>6. copies[k].dst \notin Live(next)
    BY <1>1, <2>1, <2>5 DEF Live, IsCopyTarget
  <2>7. copies[k].dst \in Live(next + 1)
    BY <1>1, <2>1, <2>5 DEF Live
  <2>8. \A l \in CopiesBefore(next) : copies[l].dst = copies[k].dst => l = k
    BY <2>5 DEF CopiesBefore
  <2>9. Source(copies[k].dst) = copies[k].src
    BY <2>8
  <2>10. QED
    BY <2>1, <2>4, <2>6, <2>7, <2>9
<1>4. Live(next) \subseteq Live(next + 1)
  <2>1. SUFFICES ASSUME NEW s \in Live(next) PROVE s \in Live(next + 1)
    OBVIOUS
  <2>2. CASE slots[s] # "local"
    BY <2>2 DEF Live
  <2>3. CASE \E k \in DOMAIN copies : copies[k].dst = s /\ copies[k].before < next
    <3>1. PICK k \in DOMAIN copies : copies[k].dst = s /\ copies[k].before < next
      BY <2>3
    <3>2. copies[k].before < next + 1
      BY <1>1, <3>1 DEF CopyInv
    <3>3. QED
      BY <3>1, <3>2 DEF Live
  <2>4. CASE ~IsCopyTarget(s) /\ \E j \in 1 .. next - 1 : slotOf[ops[j].res] = s
    <3>1. PICK j \in 1 .. next - 1 : slotOf[ops[j].res] = s
      BY <2>4
    <3>2. j \in 1 .. (next + 1) - 1
      BY <1>1
    <3>3. QED
      BY <2>4, <3>1, <3>2 DEF Live
  <2>5. QED
    BY <2>2, <2>3, <2>4 DEF Live
<1>5. live = Live(next + 1)
  <2>1. targets \subseteq Live(next + 1)
    BY <1>3
  <2>2. AllocatedBefore(next) \subseteq Live(next + 1)
    BY <1>1 DEF AllocatedBefore, Live
  <2>3. ASSUME NEW s \in Live(next + 1), s \notin Live(next), s \notin targets
        PROVE  s \in AllocatedBefore(next)
    <3>1. s \in DOMAIN slots /\ slots[s] = "local"
      BY <2>3 DEF Live
    <3>2. ASSUME NEW k \in DOMAIN copies, copies[k].dst = s
          PROVE  ~(copies[k].before < next + 1)
      <4>1. ~(copies[k].before < next)
        BY <2>3, <3>1, <3>2 DEF Live
      <4>2. copies[k].before # next
        BY <2>3, <3>2 DEF CopiesBefore
      <4>3. copies[k].before \in DOMAIN ops
        BY <1>1 DEF CopyInv
      <4>4. QED
        BY <1>1, <4>1, <4>2, <4>3
    <3>3. ~IsCopyTarget(s) /\ \E j \in 1 .. next : slotOf[ops[j].res] = s
      BY <1>1, <2>3, <3>1, <3>2 DEF Live
    <3>4. \A j \in 1 .. next - 1 : slotOf[ops[j].res] # s
      BY <2>3, <3>1, <3>3 DEF Live
    <3>5. slotOf[ops[next].res] = s
      BY <1>1, <3>3, <3>4
    <3>6. QED
      BY <3>1, <3>3, <3>4, <3>5 DEF AllocatedBefore
  <2>4. QED
    BY <1>1, <1>4, <2>1, <2>2, <2>3
<1>6. ASSUME NEW s \in Live(next) PROVE m[s] = mem[s]
  <2>1. s \notin targets
    BY <1>3
  <2>2. s \in DOMAIN mem
    BY <1>1
  <2>3. s \in live
    BY <2>2
  <2> HIDE DEF targets, Source, live, m
  <2>4. QED
    BY <1>2, <2>1, <2>2, <2>3
<1>7. ASSUME NEW k \in CopiesBefore(next) PROVE m[copies[k].dst] = mem[copies[k].src]
  <2>1. copies[k].dst \in targets /\ copies[k].dst \in live
    OBVIOUS
  <2>2. Source(copies[k].dst) = copies[k].src
    BY <1>3
  <2> HIDE DEF targets, Source, live, m
  <2>3. QED
    BY <1>2, <2>1, <2>2
<1>8. m \in [Live(next + 1) -> Values \cup {NoValue}]
  <2>1. \A s \in Live(next) : mem[s] \in Values \cup {NoValue}
    BY <1>1 DEF MemInv
  <2>2. \A s \in targets : mem[Source(s)] \in Values \cup {NoValue}
    BY <1>3, <2>1
  <2> HIDE DEF targets, Source, live, m
  <2>3. QED
    BY <1>1, <1>2, <1>5, <2>1, <2>2
<1>9. DOMAIN m = Live(next + 1)
  BY <1>8
<1>10. QED
  BY <1>3, <1>4, <1>6, <1>7, <1>8, <1>9

\* An operator writes the slot of its result, which is allocated and is no
\* argument's.
LEMMA RunOpInv == ASSUME Inv, RunOp PROVE Inv'
<1> DEFINE m == MemBefore(next)
           s == slotOf[ops[next].res]
<1>1. /\ GraphInv /\ GroupInv /\ PlanInv /\ SlotInv /\ CopyInv /\ RedirectInv /\ MemInv
      /\ GroupsCoverSharing
      /\ stage = "run" /\ next \in DOMAIN ops
      /\ DOMAIN ops = 1 .. Len(ops) /\ Len(ops) \in Nat
  BY GraphFacts DEF Inv, RunOp
<1>2. /\ stage' = "run" /\ next' = next + 1
      /\ UNCHANGED <<source, ops, returns, group, plan, slots, slotOf, copies, redirect>>
      /\ mem' = [m EXCEPT ![s] = ops[next].res]
      /\ misread' \subseteq misread \cup {next}
  BY <1>1 DEF RunOp
<1>3. /\ m \in [Live(next + 1) -> Values \cup {NoValue}]
      /\ \A r \in Live(next) : m[r] = mem[r] /\ r \in Live(next + 1)
  BY <1>1, MemBeforeFacts
<1>4. /\ ops[next].res \in Values
      /\ s > Len(ArgList) /\ Len(ArgList) \in Nat
  BY <1>1, GraphFacts, ResultSlots
<1> HIDE DEF m, s
<1>5. \A i \in DOMAIN ops : HasCopy(i)' <=> HasCopy(i)
  BY <1>1, <1>2 DEF HasCopy
<1>6. GraphInv'
  BY <1>1, <1>2 DEF GraphInv, Cleaning, Stages, WellFormed
<1>7. GroupInv'
  BY <1>1, <1>2, SamePlan DEF GroupInv, Cleaning
<1>8. PlanInv'
  BY <1>1, <1>2, SamePlan DEF PlanInv, Planned
<1>9. SlotInv'
  BY <1>1, <1>2 DEF SlotInv, Planned, HasSlot, IsCopyTarget
<1>10. CopyInv'
  BY <1>1, <1>2, <1>5 DEF CopyInv
<1>11. RedirectInv'
  BY <1>1, <1>2, SamePlan DEF RedirectInv, Cleaning, Planned
<1>12. MemInv'
  <2>1. Live(next)' = Live(next + 1)
    BY <1>2 DEF Live, IsCopyTarget
  <2>2. /\ DOMAIN mem' = Live(next + 1)
        /\ mem' \in [Live(next + 1) -> Values \cup {NoValue}]
    <3> DEFINE L == Live(next + 1)
    <3>1. m \in [L -> Values \cup {NoValue}] /\ mem' = [m EXCEPT ![s] = ops[next].res]
      BY <1>2, <1>3
    <3>2. ops[next].res \in Values \cup {NoValue}
      BY <1>4
    <3> HIDE DEF L
    <3>3. DOMAIN mem' = L /\ mem' \in [L -> Values \cup {NoValue}]
      BY <3>1, <3>2
    <3>4. QED
      BY <3>3 DEF L
  <2>3. ASSUME NEW k \in DOMAIN ArgList PROVE mem'[k] = ArgList[k]
    <3>1. k # s
      BY <1>4, ArgSlotFacts
    <3>2. k \in Live(next)
      <4>1. k \in DOMAIN slots /\ slots[k] = "input"
        BY <1>1, ArgSlotFacts DEF SlotInv, Planned
      <4>2. QED
        BY <4>1 DEF Live
    <3>3. mem[k] = ArgList[k]
      BY <1>1 DEF MemInv
    <3>4. QED
      BY <1>2, <1>3, <3>1, <3>2, <3>3
  <2>4. misread' \subseteq Nat
    BY <1>1, <1>2 DEF MemInv
  <2>5. QED
    BY <1>2, <2>1, <2>2, <2>3, <2>4 DEF MemInv
<1>13. GroupsCoverSharing'
  BY <1>1, <1>2 DEF GroupsCoverSharing
<1>14. QED
  BY <1>6, <1>7, <1>8, <1>9, <1>10, <1>11, <1>12, <1>13 DEF Inv

\* The program frees its local slots and keeps the others.
LEMMA ReturnInv == ASSUME Inv, Return PROVE Inv'
<1>1. /\ GraphInv /\ GroupInv /\ PlanInv /\ SlotInv /\ CopyInv /\ RedirectInv /\ MemInv
      /\ GroupsCoverSharing
      /\ stage = "run" /\ next \notin DOMAIN ops
      /\ DOMAIN ops = 1 .. Len(ops) /\ Len(ops) \in Nat
  BY GraphFacts DEF Inv, Return
<1>2. /\ stage' = "done"
      /\ UNCHANGED <<source, ops, returns, next, group, plan, slots, slotOf, copies, redirect,
                     misread>>
      /\ mem' = [s \in {k \in DOMAIN mem : slots[k] # "local"} |-> mem[s]]
  BY DEF Return
<1>3. \A i \in DOMAIN ops : HasCopy(i)' <=> HasCopy(i)
  BY <1>1, <1>2 DEF HasCopy
<1>4. GraphInv'
  BY <1>1, <1>2 DEF GraphInv, Cleaning, Stages, WellFormed
<1>5. GroupInv'
  BY <1>1, <1>2, SamePlan DEF GroupInv, Cleaning
<1>6. PlanInv'
  BY <1>1, <1>2, SamePlan DEF PlanInv, Planned
<1>7. SlotInv'
  BY <1>1, <1>2 DEF SlotInv, Planned, HasSlot, IsCopyTarget
<1>8. CopyInv'
  BY <1>1, <1>2, <1>3 DEF CopyInv
<1>9. RedirectInv'
  BY <1>1, <1>2, SamePlan DEF RedirectInv, Cleaning, Planned
<1>10. MemInv'
  <2> DEFINE kept == {k \in DOMAIN slots : slots[k] # "local"}
  <2>1. {k \in DOMAIN mem : slots[k] # "local"} = kept
    BY <1>1 DEF MemInv, Live
  <2>2. \A k \in DOMAIN ArgList : k \in kept
    BY <1>1, ArgSlotFacts DEF SlotInv, Planned
  <2>3. \A s \in kept : mem[s] \in Values \cup {NoValue}
    BY <1>1, <2>1 DEF MemInv
  <2>4. \A k \in DOMAIN ArgList : mem[k] = ArgList[k]
    BY <1>1 DEF MemInv
  <2> HIDE DEF kept
  <2>5. /\ DOMAIN mem' = kept
        /\ mem' \in [kept -> Values \cup {NoValue}]
        /\ \A k \in DOMAIN ArgList : mem'[k] = ArgList[k]
    BY <1>2, <2>1, <2>2, <2>3, <2>4
  <2>6. kept' = kept
    BY <1>2 DEF kept
  <2>7. misread' \subseteq Nat
    BY <1>1, <1>2 DEF MemInv
  <2>8. QED
    BY <1>2, <2>5, <2>6, <2>7 DEF MemInv, kept
<1>11. GroupsCoverSharing'
  BY <1>1, <1>2 DEF GroupsCoverSharing
<1>12. QED
  BY <1>4, <1>5, <1>6, <1>7, <1>8, <1>9, <1>10, <1>11 DEF Inv

\* Every step of the pipeline and of the program keeps the invariant.
LEMMA NextInv == ASSUME Inv, [Next]_vars PROVE Inv'
<1>1. CASE UNCHANGED vars
  <2>1. /\ GraphInv' /\ GroupInv' /\ PlanInv'
    BY <1>1, SamePlan DEF vars, Inv, GraphInv, GroupInv, PlanInv, WellFormed, Cleaning, Planned
  <2>2. SlotInv'
    BY <1>1 DEF vars, Inv, SlotInv, IsCopyTarget, HasSlot, Planned
  <2>3. CopyInv'
    BY <1>1 DEF vars, Inv, CopyInv, HasCopy
  <2>4. RedirectInv'
    BY <1>1, SamePlan DEF vars, Inv, RedirectInv, Cleaning, Planned
  <2>5. MemInv' /\ GroupsCoverSharing'
    BY <1>1 DEF vars, Inv, MemInv, GroupsCoverSharing, Live, IsCopyTarget
  <2>6. QED
    BY <2>1, <2>2, <2>3, <2>4, <2>5 DEF Inv
<1>2. QED
  BY <1>1, CseInv, EndCseInv, DceInv, EndDceInv, GroupAliasInv, EndAliasInv, DecideInv,
     AssignSlotInv, EndAssignInv, InsertCopyInv, SkipCopyInv, EndCopyInv, RunOpInv, ReturnInv
  DEF Next

(***************************************************************************)
(* The properties.                                                         *)
(***************************************************************************)
\* The invariant holds for every graph of the builders.
THEOREM InvariantHolds == Spec => []Inv
<1>1. Init => Inv
  BY InitInv
<1>2. Inv /\ [Next]_vars => Inv'
  BY NextInv
<1>3. QED
  BY <1>1, <1>2, PTL DEF Spec

\* Type correctness.
THEOREM TypesCorrect == Spec => []TypeOK
<1>1. Inv => TypeOK
  <2> SUFFICES ASSUME Inv PROVE TypeOK
    OBVIOUS
  <2>1. source \in Graph /\ stage \in Stages /\ ops \in Seq(Ops) /\ returns \subseteq Values
    BY GraphsAssumption, GraphFacts DEF Inv, GraphInv
  <2>2. next \in Nat
    BY GraphFacts DEF Inv, GraphInv
  <2>3. /\ slots \in Seq({"input", "output", "local"})
        /\ slotOf \in [Values -> 0 .. Len(slots)]
        /\ group \in [Values -> Values \cup {NoValue}]
        /\ plan \in Seq(Plans)
    BY DEF Inv, SlotInv, GroupInv, PlanInv
  <2>4. /\ copies \in Seq([src : Nat, dst : Nat, before : Nat])
        /\ stage \notin {"cse", "dce"} => redirect \in [(DOMAIN ops) \X Values -> 0 .. Len(slots)]
    BY DEF Inv, CopyInv, RedirectInv, Cleaning
  <2>5. mem \in [DOMAIN mem -> Values \cup {NoValue}] /\ misread \subseteq Nat
    BY DEF Inv, MemInv
  <2>6. QED
    BY <2>1, <2>2, <2>3, <2>4, <2>5 DEF TypeOK
<1>2. QED
  BY <1>1, InvariantHolds, PTL

\* Stage 1's groups cover the sharing of the plan: whatever Stages 4 and 5 put
\* into one slot, stage1_alias_analysis had put into one group.
THEOREM SharingIsCovered == Spec => []GroupsCoverSharing
<1>1. Inv => GroupsCoverSharing
  BY DEF Inv
<1>2. QED
  BY <1>1, InvariantHolds, PTL

\* pass_cse and pass_dce never leave a use without its definition.
THEOREM UsesAreDefined == Spec => []DefinedBeforeUse
<1>1. Inv => DefinedBeforeUse
  BY WellFormedParts DEF Inv, GraphInv, DefinedBeforeUse
<1>2. QED
  BY <1>1, InvariantHolds, PTL

\* A slot that an operator or a copy names is allocated when it is named, and
\* every local slot has been when the program returns.
LEMMA SlotsAllocated == ASSUME Inv PROVE BuffersAllocated
<1>1. ASSUME stage = "run", next \in DOMAIN ops
      PROVE  LET live == DOMAIN MemBefore(next)
             IN  /\ slotOf[ops[next].res] \in live
                 /\ \A v \in Elements(ops[next].ins) : effective_slot(next, v) \in live
                 /\ \A k \in CopiesBefore(next) : copies[k].src \in DOMAIN mem
  <2>1. /\ DOMAIN MemBefore(next) = Live(next + 1)
        /\ Live(next) \subseteq Live(next + 1)
        /\ \A k \in CopiesBefore(next) : copies[k].src \in Live(next)
    BY <1>1, MemBeforeFacts
  <2>2. DOMAIN mem = Live(next)
    BY <1>1 DEF Inv, MemInv
  <2>3. DOMAIN ops = 1 .. Len(ops) /\ Len(ops) \in Nat
    BY GraphFacts DEF Inv
  <2>4. slotOf[ops[next].res] \in Live(next + 1)
    BY <1>1, <2>3, SlotLive
  <2>5. ASSUME NEW v \in Elements(ops[next].ins)
        PROVE  effective_slot(next, v) \in Live(next + 1)
    <3>1. v \in Operands(next) /\ v \in Values
      BY <1>1, <2>5, GraphFacts DEF Inv, Operands, Reads
    <3>2. CASE redirect[<<next, v>>] # 0
      <4>1. PICK k \in DOMAIN copies : /\ copies[k].dst = redirect[<<next, v>>]
                                       /\ next \in LaterReaders(copies[k].before)
        BY <1>1, <3>1, <3>2 DEF Inv, RedirectInv, Planned
      <4>2. /\ copies[k].before \in DOMAIN ops
            /\ copies[k].dst \in DOMAIN slots
        BY <1>1 DEF Inv, CopyInv
      <4>3. copies[k].before < next + 1
        BY <1>1, <2>3, <4>1, <4>2 DEF LaterReaders
      <4>4. redirect[<<next, v>>] \in Live(next + 1)
        BY <4>1, <4>2, <4>3 DEF Live
      <4>5. QED
        BY <3>2, <4>4 DEF effective_slot
    <3>3. CASE redirect[<<next, v>>] = 0 /\ v \in Args
      <4>1. PICK k \in DOMAIN ArgList : v = ArgList[k]
        BY <3>3 DEF Args
      <4>2. slotOf[v] = k /\ k \in DOMAIN slots /\ slots[k] = "input"
        BY <1>1, <4>1, ArgSlotFacts DEF Inv, SlotInv, Planned
      <4>3. slotOf[v] \in Live(next + 1)
        BY <4>2 DEF Live
      <4>4. QED
        BY <3>3, <4>3 DEF effective_slot
    <3>4. CASE redirect[<<next, v>>] = 0 /\ v \notin Args
      <4>1. PICK j \in DOMAIN ops : j < next /\ ops[j].res = v
        BY <1>1, <3>1, <3>4, GraphFacts DEF Inv
      <4>2. slotOf[v] \in Live(next + 1)
        BY <1>1, <2>3, <4>1, SlotLive
      <4>3. QED
        BY <3>4, <4>2 DEF effective_slot
    <3>5. QED
      BY <3>2, <3>3, <3>4
  <2>6. QED
    BY <2>1, <2>2, <2>4, <2>5
<1>2. ASSUME stage = "run", next \notin DOMAIN ops
      PROVE  DOMAIN mem = DOMAIN slots
  <2>1. DOMAIN mem = Live(next)
    BY <1>2 DEF Inv, MemInv
  <2>2. /\ DOMAIN ops = 1 .. Len(ops) /\ Len(ops) \in Nat /\ next = Len(ops) + 1
    BY <1>2, GraphFacts DEF Inv, GraphInv
  <2>3. ASSUME NEW s \in DOMAIN slots PROVE s \in Live(next)
    <3>1. CASE slots[s] # "local"
      BY <3>1 DEF Live
    <3>2. CASE IsCopyTarget(s)
      <4>1. PICK k \in DOMAIN copies : copies[k].dst = s
        BY <3>2 DEF IsCopyTarget
      <4>2. copies[k].before \in DOMAIN ops
        BY <1>2 DEF Inv, CopyInv
      <4>3. copies[k].before < next
        BY <2>2, <4>2
      <4>4. QED
        BY <4>1, <4>3 DEF Live
    <3>3. CASE slots[s] = "local" /\ ~IsCopyTarget(s)
      <4>1. PICK j \in DOMAIN ops : slotOf[ops[j].res] = s
        BY <1>2, <3>3 DEF Inv, SlotInv, Planned
      <4>2. j \in 1 .. next - 1
        BY <2>2
      <4>3. QED
        BY <3>3, <4>1, <4>2 DEF Live
    <3>4. QED
      BY <3>1, <3>2, <3>3
  <2>4. QED
    BY <2>1, <2>3 DEF Live
<1>3. QED
  BY <1>1, <1>2 DEF BuffersAllocated

\* The emitted program never writes a function argument, and uses no buffer
\* that is not allocated.
THEOREM BuffersAreInOrder == Spec => []BuffersInOrder
<1>1. Inv => BuffersInOrder
  BY SlotsAllocated DEF Inv, MemInv, ArgumentsKept, BuffersInOrder
<1>2. QED
  BY <1>1, InvariantHolds, PTL
-----------------------------------------------------------------------------
(***************************************************************************)
(* The program bufferization emits computes what the tensor program        *)
(* computes, for every graph of the shape the plan relies on (SafeShape).  *)
(*                                                                         *)
(* The argument.  Under SafeShape a value is overwritten by one operator,  *)
(* or by two of which the second overwrites a copy and nobody overwrites   *)
(* the second's result: it branches off.  So the results in a slot that do *)
(* not branch off form a chain, each overwriting the one before it, and    *)
(* the target of a copy serves the value it was made for until the only    *)
(* result that lives there is written.                                     *)
(***************************************************************************)

\* An earlier operator overwrites what operator n overwrites, so that n
\* overwrites a copy.
BranchesOff(n) ==
  /\ plan[n].alias # NoValue
  /\ \E i \in DOMAIN ops : i < n /\ plan[i].alias = plan[n].alias

\* Returned results live in the buffers of the caller, and the copy of an
\* operator serves all later readers of what it overwrites.
ServeInv ==
  /\ stage \in Planned =>
       \A i \in DOMAIN ops : HasSlot(i) /\ ~IsFill(i) /\ ops[i].res \in returns
                               => slots[slotOf[ops[i].res]] = "output"
  /\ stage \in {"copy", "run", "done"} =>
       \A i \in DOMAIN ops : HasCopy(i) =>
         \A j \in LaterReaders(i) : redirect[<<j, plan[i].alias>>] # 0

\* Of two results in a slot that do not branch off, the earlier one has been
\* overwritten when the later one is there; and a result that overwrites
\* without branching off lives where the overwritten value lives.
ChainInv ==
  stage \in Planned /\ SafeShape =>
    /\ \A j, l \in DOMAIN ops :
         /\ j < l /\ HasSlot(l)
         /\ ~BranchesOff(j) /\ ~BranchesOff(l)
         /\ slotOf[ops[j].res] = slotOf[ops[l].res]
         => \E i \in DOMAIN ops : j < i /\ i <= l /\ plan[i].alias = ops[j].res
    /\ \A n \in DOMAIN ops :
         HasSlot(n) /\ plan[n].alias # NoValue /\ ~BranchesOff(n)
           => slotOf[ops[n].res] = slotOf[plan[n].alias]

\* A result that branches off lives in the copy made for the first operator that
\* overwrites the same value.
BranchInv ==
  stage \in {"copy", "run", "done"} /\ SafeShape =>
    \A i, n \in DOMAIN ops :
      /\ i < n /\ plan[i].alias = plan[n].alias
      /\ HasCopy(i)
      => \E k \in DOMAIN copies : /\ copies[k].before = i
                                  /\ copies[k].dst = slotOf[ops[n].res]

\* The argument or the result v is there when operator n is about to run.
ThereBefore(n, v) == v \in Args \/ \E d \in DOMAIN ops : d < n /\ ops[d].res = v

\* A value that is there and has not been overwritten is in its slot, a copy
\* holds its value until a result is written over it, and so far nobody has
\* misread.
ContentsInv ==
  /\ stage \notin {"run", "done"} => misread = {}
  /\ stage \in {"run", "done"} /\ SafeShape => misread = {}
  /\ stage = "run" /\ SafeShape =>
       /\ \A v \in Values :
            /\ ThereBefore(next, v)
            /\ \A i \in DOMAIN ops : i < next => plan[i].alias # v
            => mem[slotOf[v]] = v
       /\ \A k \in DOMAIN copies :
            /\ copies[k].before < next
            /\ \A i \in DOMAIN ops : i < next => slotOf[ops[i].res] # copies[k].dst
            => mem[copies[k].dst] = plan[copies[k].before].alias
  /\ stage = "done" /\ SafeShape => \A r \in returns : mem[slotOf[r]] = r

RunInv == Inv /\ ServeInv /\ ChainInv /\ BranchInv /\ ContentsInv

(***************************************************************************)
(* What the shape says of the plan.                                        *)
(***************************************************************************)
\* A set of at most one element has no two.
LEMMA AtMostOne ==
  ASSUME NEW S, IsFiniteSet(S), Cardinality(S) <= 1, NEW x \in S, NEW y \in S
  PROVE  x = y
<1>1. SUFFICES ASSUME x # y PROVE FALSE
  OBVIOUS
<1>2. IsFiniteSet({x}) /\ Cardinality({x}) = 1
  BY FS_Singleton
<1>3. IsFiniteSet({x} \cup {y}) /\ Cardinality({x} \cup {y}) = 2
  <2>1. y \notin {x}
    BY <1>1
  <2> DEFINE X == {x}
  <2>2. IsFiniteSet(X) /\ Cardinality(X) = 1 /\ y \notin X
    BY <1>2, <2>1
  <2> HIDE DEF X
  <2>3. IsFiniteSet(X \cup {y}) /\ Cardinality(X \cup {y}) = Cardinality(X) + 1
    BY <2>2, FS_AddElement
  <2>4. IsFiniteSet(X \cup {y}) /\ Cardinality(X \cup {y}) = 2
    BY <2>2, <2>3
  <2>5. QED
    BY <2>4 DEF X
<1>4. {x} \cup {y} \subseteq S
  OBVIOUS
<1>5. Cardinality({x} \cup {y}) <= Cardinality(S)
  BY <1>4, FS_Subset
<1>6. Cardinality(S) \in Nat
  BY FS_CardinalityType
<1>7. QED
  BY <1>3, <1>5, <1>6

\* A value that is overwritten has at most one later reader; what branches off
\* has its value copied by the operator before it, needs no copy itself and is
\* not overwritten.
LEMMA ShapeFacts ==
  ASSUME GraphInv, PlanInv, stage \in Planned, SafeShape, NEW i \in DOMAIN ops,
         plan[i].alias # NoValue
  PROVE  /\ \A j, l \in LaterReaders(i) : j = l
         /\ \A n \in DOMAIN ops : i < n /\ plan[n].alias = plan[i].alias =>
              /\ n \in LaterReaders(i)
              /\ Moves(n, plan[i].alias)
              /\ plan[i].copy
              /\ LaterReaders(n) = {}
              /\ ~plan[n].copy
              /\ \A k \in DOMAIN ops : plan[k].alias # ops[n].res
         /\ \A j \in DOMAIN ops : j > i /\ plan[i].alias \in Operands(j)
              => j \in LaterReaders(i) /\ plan[i].copy
<1>1. /\ DOMAIN ops = 1 .. Len(ops) /\ Len(ops) \in Nat
      /\ plan[i].decision = "INPLACE"
      /\ plan[i].alias = preferred_inplace(i)
      /\ plan[i].copy <=> LaterReaders(i) # {}
  BY GraphFacts, PlanFacts
<1>2. \A j, l \in LaterReaders(i) : j = l
  <2>1. IsFiniteSet(LaterReaders(i))
    <3>1. LaterReaders(i) \subseteq 1 .. Len(ops)
      BY <1>1 DEF LaterReaders, Users
    <3>2. IsFiniteSet(1 .. Len(ops))
      BY <1>1, FS_Interval
    <3>3. QED
      BY <3>1, <3>2, FS_Subset
  <2>2. Cardinality(LaterReaders(i)) <= 1
    BY <1>1 DEF SafeShape
  <2>3. QED
    BY <2>1, <2>2, AtMostOne
<1>3. \A j \in DOMAIN ops : j > i /\ plan[i].alias \in Operands(j)
        => j \in LaterReaders(i) /\ plan[i].copy
  BY <1>1 DEF LaterReaders, Users
<1>4. ASSUME NEW n \in DOMAIN ops, i < n, plan[n].alias = plan[i].alias
      PROVE  /\ n \in LaterReaders(i)
             /\ Moves(n, plan[i].alias)
             /\ plan[i].copy
             /\ LaterReaders(n) = {}
             /\ ~plan[n].copy
             /\ \A k \in DOMAIN ops : plan[k].alias # ops[n].res
  <2>1. /\ plan[n].alias \in Operands(n)
        /\ plan[n].alias = preferred_inplace(n)
        /\ plan[n].decision = "INPLACE"
        /\ plan[n].copy <=> LaterReaders(n) # {}
    BY <1>4, PlanFacts
  <2>2. n \in LaterReaders(i) /\ plan[i].copy
    BY <1>1, <1>3, <1>4, <2>1
  <2>3. Moves(n, plan[i].alias)
    BY <1>4, <2>1 DEF Moves
  <2>4. LaterReaders(n) \subseteq LaterReaders(i) \ {n}
    BY <1>1, <1>4, <2>1 DEF LaterReaders, Users
  <2>5. LaterReaders(n) = {}
    BY <1>2, <2>2, <2>4
  <2>6. QED
    BY <1>1, <2>1, <2>2, <2>3, <2>5 DEF SafeShape
<1>5. QED
  BY <1>2, <1>3, <1>4

\* What branches off is not overwritten.
LEMMA OverwrittenStays ==
  ASSUME GraphInv, PlanInv, stage \in Planned, SafeShape,
         NEW d \in DOMAIN ops, NEW k \in DOMAIN ops, plan[k].alias = ops[d].res
  PROVE  ~BranchesOff(d)
BY ShapeFacts DEF BranchesOff

\* Every matmul overwrites its accumulator, which is not another operand.
LEMMA MatmulInPlace ==
  ASSUME GraphInv, PlanInv, stage \in Planned, SafeShape,
         NEW i \in DOMAIN ops, IsMatmul(i)
  PROVE  /\ plan[i].alias = Head(ops[i].outs)
         /\ plan[i].alias # NoValue
         /\ plan[i].alias \notin Elements(ops[i].ins)
<1> DEFINE acc == Head(ops[i].outs)
<1>1. Len(ops[i].outs) = 1 /\ ops[i].outs \in Seq(Values) /\ ~IsFill(i)
  BY GraphFacts DEF Built, IsMatmul, IsFill, Ops
<1>2. acc \in Operands(i) /\ acc \in Values /\ ops[i].outs # <<>>
  BY <1>1 DEF Operands, Reads, Elements
<1>3. acc \notin Args /\ acc \notin Elements(ops[i].ins) /\ ops[i].res \notin returns
  BY DEF SafeShape
<1> HIDE DEF acc
<1>4. IsDefined(acc) /\ acc # NoValue
  BY <1>2, <1>3, GraphFacts, NoValueAssumption DEF IsDefined
<1>5. preferred_inplace(i) = acc
  BY <1>1, <1>2 DEF preferred_inplace, acc
<1>6. plan[i].alias = acc
  <2>1. plan[i] = Decision(i)
    BY PlanFacts
  <2>2. Decision(i) = [decision |-> "INPLACE", alias |-> preferred_inplace(i),
                       copy |-> LaterReaders(i) # {}]
    BY <1>1, <1>3, <1>4, <1>5, Zenon DEF Decision
  <2>3. QED
    BY <1>5, <2>1, <2>2
<1>7. QED
  BY <1>3, <1>4, <1>6 DEF acc

\* A value that the function returns is a result that nobody overwrites.
LEMMA ReturnedFacts ==
  ASSUME GraphInv, PlanInv, stage \in Planned, SafeShape, NEW r \in returns
  PROVE  /\ r \in Values
         /\ \E i \in DOMAIN ops : ops[i].res = r /\ ~IsFill(i) /\ plan[i].alias = NoValue
         /\ \A k \in DOMAIN ops : plan[k].alias # r
<1>1. r \notin Args /\ Users(r) = {}
  BY DEF SafeShape
<1>2. returns \subseteq Args \cup DefinedIn(ops) /\ returns \subseteq Values
  BY WellFormedParts DEF GraphInv
<1>3. PICK i \in DOMAIN ops : ops[i].res = r
  BY <1>1, <1>2 DEF DefinedIn
<1>4. ~IsFill(i) /\ plan[i].alias = NoValue
  BY <1>3, PlanFacts DEF SafeShape
<1>5. ASSUME NEW k \in DOMAIN ops, plan[k].alias = r PROVE FALSE
  <2>1. r # NoValue
    BY <1>2, NoValueAssumption
  <2>2. r \in Operands(k)
    BY <1>5, <2>1, PlanFacts
  <2>3. QED
    BY <1>1, <2>2 DEF Users
<1>6. QED
  BY <1>2, <1>3, <1>4, <1>5

(***************************************************************************)
(* The stages.                                                             *)
(***************************************************************************)
\* The shape is a matter of the operators and their plan.
LEMMA SameShape ==
  ASSUME UNCHANGED <<ops, returns, plan>>
  PROVE  /\ SafeShape' <=> SafeShape
         /\ \A n : BranchesOff(n)' <=> BranchesOff(n)
         /\ \A n, v : ThereBefore(n, v)' <=> ThereBefore(n, v)
<1>1. \A v : Users(v)' = Users(v)
  BY DEF Users, Operands
<1>2. SafeShape' <=> SafeShape
  BY <1>1, SamePlan, Zenon DEF SafeShape
<1>3. QED
  BY <1>2 DEF BranchesOff, ThereBefore

\* Before Stage 4 there is nothing to keep.
LEMMA InitRunInv == Init => RunInv
<1> SUFFICES ASSUME Init PROVE RunInv
  OBVIOUS
<1>1. stage = "cse" /\ misread = {}
  BY DEF Init
<1>2. ServeInv /\ ChainInv /\ BranchInv /\ ContentsInv
  BY <1>1 DEF ServeInv, ChainInv, BranchInv, ContentsInv, Planned
<1>3. QED
  BY <1>2, InitInv DEF RunInv

\* Until the plan is made nothing is read, and the invariant of the run holds.
LEMMA EarlyRunInv ==
  ASSUME RunInv, Cse \/ EndCse \/ Dce \/ EndDce \/ GroupAlias \/ EndAlias
  PROVE  ServeInv' /\ ChainInv' /\ BranchInv' /\ ContentsInv'
<1>1. /\ stage \in {"cse", "dce", "alias"}
      /\ stage' \in {"cse", "dce", "alias", "decide"}
      /\ misread' = misread
  BY DEF Cse, EndCse, Dce, EndDce, GroupAlias, EndAlias
<1>2. misread' = {}
  BY <1>1 DEF RunInv, ContentsInv
<1>3. QED
  BY <1>1, <1>2 DEF ServeInv, ChainInv, BranchInv, ContentsInv, Planned

\* Stage 4 starts with no result in a slot.
LEMMA DecideRunInv ==
  ASSUME RunInv, Decide PROVE ServeInv' /\ ChainInv' /\ BranchInv' /\ ContentsInv'
<1>1. /\ stage = "decide" /\ stage' = "assign" /\ next' = 1
      /\ UNCHANGED <<ops, misread>>
  BY DEF Decide
<1>2. \A i \in DOMAIN ops : ~HasSlot(i)'
  BY <1>1, GraphFacts DEF RunInv, Inv, HasSlot
<1>3. misread' = {}
  BY <1>1 DEF RunInv, ContentsInv
<1>4. QED
  BY <1>1, <1>2, <1>3 DEF ServeInv, ChainInv, BranchInv, ContentsInv

\* The next result starts a chain in a new slot, or continues the chain of the
\* value it overwrites, or branches off from it.
LEMMA AssignSlotRunInv ==
  ASSUME RunInv, AssignSlot PROVE ServeInv' /\ ChainInv' /\ BranchInv' /\ ContentsInv'
<1> DEFINE r == ops[next].res
<1>1. /\ Inv /\ GraphInv /\ PlanInv /\ SlotInv /\ ServeInv /\ ChainInv /\ ContentsInv
      /\ stage = "assign" /\ stage \in Planned /\ next \in DOMAIN ops
      /\ DOMAIN ops = 1 .. Len(ops) /\ Len(ops) \in Nat
  BY GraphFacts DEF RunInv, Inv, AssignSlot, Planned
<1>2. /\ stage' = "assign" /\ next' = next + 1
      /\ UNCHANGED <<ops, returns, plan, misread>>
  BY DEF AssignSlot
<1>3. /\ r \in Values
      /\ slotOf \in [Values -> 0 .. Len(slots)]
      /\ Len(slots) \in Nat
      /\ slots \in Seq({"input", "output", "local"})
      /\ \A i \in DOMAIN ops : ops[i].res \in Values
      /\ \A i \in DOMAIN ops : ops[i].res = r => i = next
  BY <1>1, GraphFacts DEF SlotInv
<1> HIDE DEF r
<1>4. CASE Inherits(next)
  <2>1. /\ slots' = slots
        /\ slotOf' = [slotOf EXCEPT ![r] = slotOf[plan[next].alias]]
    BY <1>4 DEF AssignSlot, r
  <2>2. PICK d \in DOMAIN ops : d < next /\ ops[d].res = plan[next].alias
    BY <1>1, <1>4, InheritsIffAlias
  <2>3. /\ slotOf'[r] = slotOf[ops[d].res]
        /\ \A i \in DOMAIN ops : i # next => slotOf'[ops[i].res] = slotOf[ops[i].res]
    BY <1>3, <2>1, <2>2
  <2>4. plan[next].alias # NoValue /\ r \notin returns
    BY <1>4 DEF Inherits, r
  <2>5. ServeInv'
    <3>1. ASSUME NEW i \in DOMAIN ops, HasSlot(i)', ~IsFill(i), ops[i].res \in returns
          PROVE  slots'[slotOf'[ops[i].res]] = "output"
      <4>1. i # next
        BY <2>4, <3>1 DEF r
      <4>2. HasSlot(i)
        BY <1>1, <1>2, <3>1, <4>1 DEF HasSlot
      <4>3. slots[slotOf[ops[i].res]] = "output"
        BY <1>1, <3>1, <4>2 DEF ServeInv
      <4>4. QED
        BY <2>1, <2>3, <4>1, <4>3
    <3>2. QED
      BY <1>2, <3>1, SamePlan DEF ServeInv
  <2>6. ChainInv'
    <3>1. SUFFICES ASSUME SafeShape
                   PROVE  ChainInv'
      BY <1>2, SameShape DEF ChainInv
    <3>2. ~BranchesOff(d)
      BY <1>1, <2>2, <3>1, OverwrittenStays
    <3>3. /\ \A j, l \in DOMAIN ops :
               /\ j < l /\ HasSlot(l)
               /\ ~BranchesOff(j) /\ ~BranchesOff(l)
               /\ slotOf[ops[j].res] = slotOf[ops[l].res]
               => \E i \in DOMAIN ops : j < i /\ i <= l /\ plan[i].alias = ops[j].res
          /\ \A n \in DOMAIN ops :
               HasSlot(n) /\ plan[n].alias # NoValue /\ ~BranchesOff(n)
                 => slotOf[ops[n].res] = slotOf[plan[n].alias]
      BY <1>1, <3>1 DEF ChainInv
    <3>4. \A l \in DOMAIN ops : HasSlot(l)' => l = next \/ (HasSlot(l) /\ l # next)
      BY <1>1, <1>2 DEF HasSlot
    <3>5. ASSUME NEW j \in DOMAIN ops, NEW l \in DOMAIN ops,
                 j < l, HasSlot(l)', ~BranchesOff(j), ~BranchesOff(l),
                 slotOf'[ops[j].res] = slotOf'[ops[l].res]
          PROVE  \E i \in DOMAIN ops : j < i /\ i <= l /\ plan[i].alias = ops[j].res
      <4>1. CASE l # next
        <5>1. HasSlot(l) /\ j # next
          BY <1>1, <3>4, <3>5, <4>1 DEF HasSlot
        <5>2. slotOf[ops[j].res] = slotOf[ops[l].res]
          BY <2>3, <3>5, <4>1, <5>1
        <5>3. QED
          BY <3>3, <3>5, <5>1, <5>2
      <4>2. CASE l = next
        <5>1. slotOf[ops[j].res] = slotOf[ops[d].res]
          BY <2>3, <3>5, <4>2, <1>1 DEF r
        <5>2. CASE j = d
          BY <2>2, <3>5, <4>2, <5>2, <1>1
        <5>3. CASE j < d
          <6>1. HasSlot(d)
            BY <1>1, <2>2 DEF HasSlot
          <6>2. PICK i \in DOMAIN ops : j < i /\ i <= d /\ plan[i].alias = ops[j].res
            BY <3>2, <3>3, <3>5, <5>1, <5>3, <6>1
          <6>3. QED
            BY <1>1, <2>2, <4>2, <6>2
        <5>4. CASE d < j
          <6>1. HasSlot(j)
            BY <1>1, <3>5, <4>2 DEF HasSlot
          <6>2. PICK i \in DOMAIN ops : d < i /\ i <= j /\ plan[i].alias = ops[d].res
            BY <3>2, <3>3, <3>5, <5>1, <5>4, <6>1
          <6>3. BranchesOff(next)
            BY <1>1, <2>2, <2>4, <3>5, <4>2, <6>2 DEF BranchesOff
          <6>4. QED
            BY <3>5, <4>2, <6>3
        <5>5. QED
          BY <1>1, <5>2, <5>3, <5>4
      <4>3. QED
        BY <4>1, <4>2
    <3>6. ASSUME NEW n \in DOMAIN ops, HasSlot(n)', plan[n].alias # NoValue, ~BranchesOff(n)
          PROVE  slotOf'[ops[n].res] = slotOf'[plan[n].alias]
      <4>1. PICK e \in DOMAIN ops : e < n /\ ops[e].res = plan[n].alias
        BY <1>1, <3>6, PlanFacts
      <4>2. e # next
        BY <1>1, <1>2, <3>6, <4>1 DEF HasSlot
      <4>3. CASE n = next
        BY <1>3, <2>2, <2>3, <4>1, <4>2, <4>3 DEF r
      <4>4. CASE n # next
        BY <2>3, <3>3, <3>4, <3>6, <4>1, <4>2, <4>4
      <4>5. QED
        BY <4>3, <4>4
    <3>7. QED
      BY <1>2, <3>5, <3>6, SameShape DEF ChainInv
  <2>7. QED
    BY <1>1, <1>2, <2>5, <2>6 DEF BranchInv, ContentsInv
<1>5. CASE ~Inherits(next)
  <2>1. /\ slots' = Append(slots, Owner(next))
        /\ slotOf' = [slotOf EXCEPT ![r] = Len(slots) + 1]
    BY <1>5 DEF AssignSlot, NewSlot, r
  <2>2. plan[next].alias = NoValue
    BY <1>1, <1>5, InheritsIffAlias
  <2>3. /\ slotOf'[r] = Len(slots) + 1
        /\ \A i \in DOMAIN ops : i # next => slotOf'[ops[i].res] = slotOf[ops[i].res]
        /\ \A i \in DOMAIN ops : slotOf[ops[i].res] \in 0 .. Len(slots)
    BY <1>3, <2>1
  <2>4. ServeInv'
    <3>1. ASSUME NEW i \in DOMAIN ops, HasSlot(i)', ~IsFill(i), ops[i].res \in returns
          PROVE  slots'[slotOf'[ops[i].res]] = "output"
      <4>1. CASE i = next
        <5>1. Owner(next) = "output"
          BY <3>1, <4>1 DEF Owner
        <5>2. slots'[Len(slots) + 1] = "output"
          BY <1>3, <2>1, <5>1
        <5>3. QED
          BY <2>3, <4>1, <5>2 DEF r
      <4>2. CASE i # next
        <5>1. HasSlot(i)
          BY <1>1, <1>2, <3>1, <4>2 DEF HasSlot
        <5>2. slots[slotOf[ops[i].res]] = "output"
          BY <1>1, <3>1, <5>1 DEF ServeInv
        <5>3. slotOf[ops[i].res] \in 1 .. Len(slots)
          <6>1. slotOf[ops[i].res] > Len(ArgList)
            BY <1>1, <5>1 DEF SlotInv
          <6>2. QED
            BY <1>3, <2>3, <6>1, ArgSlotFacts
        <5>4. slots'[slotOf[ops[i].res]] = slots[slotOf[ops[i].res]]
          BY <1>3, <2>1, <5>3
        <5>5. QED
          BY <2>3, <4>2, <5>2, <5>4
      <4>3. QED
        BY <4>1, <4>2
    <3>2. QED
      BY <1>2, <3>1, SamePlan DEF ServeInv
  <2>5. ChainInv'
    <3>1. SUFFICES ASSUME SafeShape
                   PROVE  ChainInv'
      BY <1>2, SameShape DEF ChainInv
    <3>2. /\ \A j, l \in DOMAIN ops :
               /\ j < l /\ HasSlot(l)
               /\ ~BranchesOff(j) /\ ~BranchesOff(l)
               /\ slotOf[ops[j].res] = slotOf[ops[l].res]
               => \E i \in DOMAIN ops : j < i /\ i <= l /\ plan[i].alias = ops[j].res
          /\ \A n \in DOMAIN ops :
               HasSlot(n) /\ plan[n].alias # NoValue /\ ~BranchesOff(n)
                 => slotOf[ops[n].res] = slotOf[plan[n].alias]
      BY <1>1, <3>1 DEF ChainInv
    <3>3. \A l \in DOMAIN ops : HasSlot(l)' => l = next \/ (HasSlot(l) /\ l # next)
      BY <1>1, <1>2 DEF HasSlot
    <3>4. ASSUME NEW j \in DOMAIN ops, NEW l \in DOMAIN ops,
                 j < l, HasSlot(l)', ~BranchesOff(j), ~BranchesOff(l),
                 slotOf'[ops[j].res] = slotOf'[ops[l].res]
          PROVE  \E i \in DOMAIN ops : j < i /\ i <= l /\ plan[i].alias = ops[j].res
      <4>1. j # next
        BY <1>1, <1>2, <3>4 DEF HasSlot
      <4>2. l # next
        BY <1>3, <2>3, <3>4, <4>1 DEF r
      <4>3. HasSlot(l) /\ slotOf[ops[j].res] = slotOf[ops[l].res]
        BY <2>3, <3>3, <3>4, <4>1, <4>2
      <4>4. QED
        BY <3>2, <3>4, <4>3
    <3>5. ASSUME NEW n \in DOMAIN ops, HasSlot(n)', plan[n].alias # NoValue, ~BranchesOff(n)
          PROVE  slotOf'[ops[n].res] = slotOf'[plan[n].alias]
      <4>1. PICK e \in DOMAIN ops : e < n /\ ops[e].res = plan[n].alias
        BY <1>1, <3>5, PlanFacts
      <4>2. e # next /\ n # next
        BY <1>1, <1>2, <2>2, <3>5, <4>1 DEF HasSlot
      <4>3. QED
        BY <2>3, <3>2, <3>3, <3>5, <4>1, <4>2
    <3>6. QED
      BY <1>2, <3>4, <3>5, SameShape DEF ChainInv
  <2>6. QED
    BY <1>1, <1>2, <2>4, <2>5 DEF BranchInv, ContentsInv
<1>6. QED
  BY <1>4, <1>5

\* Stage 5 starts with no copy made.
LEMMA EndAssignRunInv ==
  ASSUME RunInv, EndAssign PROVE ServeInv' /\ ChainInv' /\ BranchInv' /\ ContentsInv'
<1>1. /\ GraphInv /\ ServeInv /\ ChainInv /\ ContentsInv
      /\ stage = "assign" /\ stage \in Planned /\ next \notin DOMAIN ops
      /\ DOMAIN ops = 1 .. Len(ops) /\ Len(ops) \in Nat
  BY GraphFacts DEF RunInv, Inv, EndAssign, Planned
<1>2. /\ stage' = "copy" /\ next' = 1
      /\ UNCHANGED <<ops, returns, plan, slots, slotOf, copies, redirect, misread>>
  BY DEF EndAssign
<1>3. /\ \A i \in DOMAIN ops : HasSlot(i)
      /\ \A i \in DOMAIN ops : ~HasCopy(i)'
  BY <1>1, <1>2 DEF GraphInv, HasSlot, HasCopy
<1>4. ServeInv'
  BY <1>1, <1>2, <1>3, SamePlan DEF ServeInv
<1>5. ChainInv'
  BY <1>1, <1>2, <1>3, SameShape DEF ChainInv
<1>6. BranchInv'
  BY <1>2, <1>3 DEF BranchInv
<1>7. ContentsInv'
  BY <1>1, <1>2 DEF ContentsInv
<1>8. QED
  BY <1>4, <1>5, <1>6, <1>7

\* Only an operator that needs no copy is skipped.
LEMMA SkipCopyRunInv ==
  ASSUME RunInv, SkipCopy PROVE ServeInv' /\ ChainInv' /\ BranchInv' /\ ContentsInv'
<1>1. /\ Inv /\ GraphInv /\ PlanInv /\ ServeInv /\ ChainInv /\ BranchInv /\ ContentsInv
      /\ stage = "copy" /\ stage \in Planned /\ next \in DOMAIN ops
      /\ DOMAIN ops = 1 .. Len(ops) /\ Len(ops) \in Nat
  BY GraphFacts DEF RunInv, Inv, SkipCopy, Planned
<1>2. /\ stage' = "copy" /\ next' = next + 1
      /\ UNCHANGED <<ops, returns, plan, slots, slotOf, copies, redirect, misread>>
  BY DEF SkipCopy
<1>3. ~plan[next].copy
  <2>1. SUFFICES ASSUME plan[next].copy PROVE FALSE
    OBVIOUS
  <2>2. PICK j \in DOMAIN ops : ops[j].res = plan[next].alias
    BY <1>1, <2>1, PlanFacts
  <2>3. slotOf[plan[next].alias] > Len(ArgList) /\ Len(ArgList) \in Nat
    BY <1>1, <2>2, ResultSlots
  <2>4. QED
    BY <2>1, <2>3 DEF SkipCopy
<1>4. /\ \A i \in DOMAIN ops : HasCopy(i)' <=> HasCopy(i)
      /\ \A i \in DOMAIN ops : HasSlot(i)' <=> HasSlot(i)
  BY <1>1, <1>2, <1>3 DEF HasCopy, HasSlot
<1>5. ServeInv'
  BY <1>1, <1>2, <1>4, SamePlan DEF ServeInv
<1>6. ChainInv'
  BY <1>1, <1>2, <1>4, SameShape DEF ChainInv
<1>7. BranchInv'
  BY <1>1, <1>2, <1>4, SameShape DEF BranchInv
<1>8. ContentsInv'
  BY <1>1, <1>2 DEF ContentsInv
<1>9. QED
  BY <1>5, <1>6, <1>7, <1>8

\* The only result that moves to the new slot is the one that branches off.
LEMMA InsertCopyRunInv ==
  ASSUME RunInv, InsertCopy PROVE ServeInv' /\ ChainInv' /\ BranchInv' /\ ContentsInv'
<1> DEFINE target == plan[next].alias
           dst    == Len(slots) + 1
           moved  == MovedResults(next)
           copy   == [src |-> slotOf[target], dst |-> dst, before |-> next]
<1>1. /\ Inv /\ GraphInv /\ PlanInv /\ SlotInv /\ CopyInv /\ RedirectInv
      /\ ServeInv /\ ChainInv /\ BranchInv /\ ContentsInv
      /\ stage = "copy" /\ stage \in Planned /\ stage \notin Cleaning /\ next \in DOMAIN ops
      /\ DOMAIN ops = 1 .. Len(ops) /\ Len(ops) \in Nat
      /\ plan[next].copy
  BY GraphFacts DEF RunInv, Inv, InsertCopy, Planned, Cleaning
<1>2. /\ stage' = "copy" /\ next' = next + 1
      /\ UNCHANGED <<ops, returns, plan, misread>>
      /\ slots' = Append(slots, "local")
      /\ copies' = Append(copies, copy)
      /\ redirect' = [p \in DOMAIN redirect |->
                        IF p[1] \in LaterReaders(next) /\ p[2] = target
                          THEN dst ELSE redirect[p]]
      /\ slotOf' = [v \in Values |-> IF v \in moved THEN dst ELSE slotOf[v]]
  BY DEF InsertCopy
<1>3. /\ slots \in Seq({"input", "output", "local"})
      /\ Len(slots) \in Nat /\ dst # 0
      /\ \A i \in DOMAIN ops : ops[i].res \in Values /\ slotOf[ops[i].res] \in 1 .. Len(slots)
      /\ copies \in Seq([src : Nat, dst : Nat, before : Nat])
      /\ redirect \in [(DOMAIN ops) \X Values -> 0 .. Len(slots)]
  BY <1>1, ResultSlots, GraphFacts DEF CopyInv, RedirectInv
<1>4. target # NoValue /\ target \in Values
  BY <1>1, PlanFacts
<1>5. \A i \in DOMAIN ops : ops[i].res \in moved <=>
        i \in LaterReaders(next) /\ Moves(i, target)
  BY <1>1, GraphFacts DEF MovedResults, LaterReaders, Users
<1>6. \A i \in DOMAIN ops : ops[i].res \in moved =>
        i > next /\ plan[i].alias = target /\ BranchesOff(i)
  BY <1>1, <1>4, <1>5 DEF LaterReaders, Moves, BranchesOff
<1>7. \A i \in DOMAIN ops :
        slotOf'[ops[i].res] = IF ops[i].res \in moved THEN dst ELSE slotOf[ops[i].res]
  BY <1>2, <1>3
<1>8. /\ \A s \in 1 .. Len(slots) : slots'[s] = slots[s]
      /\ Len(copies) \in Nat
      /\ DOMAIN copies = 1 .. Len(copies)
      /\ DOMAIN copies' = 1 .. Len(copies) + 1
      /\ \A k \in DOMAIN copies : copies'[k] = copies[k]
      /\ copies'[Len(copies) + 1] = copy
  <2> HIDE DEF copy
  <2>1. QED
    BY <1>2, <1>3
<1>9. /\ \A i \in DOMAIN ops : HasCopy(i)' => i = next \/ (i < next /\ HasCopy(i))
      /\ \A i \in DOMAIN ops : HasSlot(i)
  BY <1>1, <1>2 DEF HasCopy, HasSlot
<1> HIDE DEF target, dst, moved, copy
<1>10. ServeInv'
  <2>1. ASSUME NEW i \in DOMAIN ops, ~IsFill(i), ops[i].res \in returns
        PROVE  slots'[slotOf'[ops[i].res]] = "output"
    <3>1. plan[i].alias = NoValue
      BY <1>1, <2>1, PlanFacts
    <3>2. ops[i].res \notin moved
      BY <1>4, <1>6, <3>1
    <3>3. slots[slotOf[ops[i].res]] = "output"
      BY <1>1, <1>9, <2>1 DEF ServeInv
    <3>4. QED
      BY <1>3, <1>7, <1>8, <3>2, <3>3
  <2>2. ASSUME NEW i \in DOMAIN ops, HasCopy(i)', NEW j \in LaterReaders(i)
        PROVE  redirect'[<<j, plan[i].alias>>] # 0
    <3>1. plan[i].alias \in Values /\ j \in DOMAIN ops
      BY <1>1, <1>4, <1>9, <2>2, PlanFacts DEF LaterReaders, Users, HasCopy
    <3>2. <<j, plan[i].alias>> \in DOMAIN redirect
      BY <1>3, <3>1
    <3>3. CASE i = next
      BY <1>2, <1>3, <2>2, <3>2, <3>3 DEF target
    <3>4. CASE HasCopy(i)
      <4>1. redirect[<<j, plan[i].alias>>] # 0
        BY <1>1, <2>2, <3>4 DEF ServeInv
      <4>2. QED
        BY <1>2, <1>3, <3>2, <4>1
    <3>5. QED
      BY <1>9, <2>2, <3>3, <3>4
  <2>3. QED
    BY <1>2, <2>1, <2>2, SamePlan DEF ServeInv
<1>11. ChainInv'
  <2>1. SUFFICES ASSUME SafeShape PROVE ChainInv'
    BY <1>2, SameShape DEF ChainInv
  <2>2. \A i \in DOMAIN ops : ~BranchesOff(i) => slotOf'[ops[i].res] = slotOf[ops[i].res]
    BY <1>6, <1>7
  <2>3. ASSUME NEW n \in DOMAIN ops, plan[n].alias # NoValue, ~BranchesOff(n)
        PROVE  slotOf'[ops[n].res] = slotOf'[plan[n].alias]
    <3>1. PICK d \in DOMAIN ops : ops[d].res = plan[n].alias
      BY <1>1, <2>3, PlanFacts
    <3>2. ~BranchesOff(d)
      BY <1>1, <2>1, <3>1, OverwrittenStays
    <3>3. slotOf[ops[n].res] = slotOf[plan[n].alias]
      BY <1>1, <1>9, <2>1, <2>3 DEF ChainInv
    <3>4. QED
      BY <2>2, <2>3, <3>1, <3>2, <3>3
  <2>4. ASSUME NEW j \in DOMAIN ops, NEW l \in DOMAIN ops,
               j < l, ~BranchesOff(j), ~BranchesOff(l),
               slotOf'[ops[j].res] = slotOf'[ops[l].res]
        PROVE  \E i \in DOMAIN ops : j < i /\ i <= l /\ plan[i].alias = ops[j].res
    BY <1>1, <1>9, <2>1, <2>2, <2>4 DEF ChainInv
  <2>5. QED
    BY <1>2, <2>3, <2>4, SameShape DEF ChainInv
<1>12. BranchInv'
  <2>1. SUFFICES ASSUME SafeShape PROVE BranchInv'
    BY <1>2, SameShape DEF BranchInv
  <2>2. ASSUME NEW i \in DOMAIN ops, NEW n \in DOMAIN ops,
               i < n, plan[i].alias = plan[n].alias, HasCopy(i)'
        PROVE  \E k \in DOMAIN copies' : /\ copies'[k].before = i
                                         /\ copies'[k].dst = slotOf'[ops[n].res]
    <3>1. CASE i = next
      <4>1. n \in LaterReaders(next) /\ Moves(n, target)
        BY <1>1, <1>4, <2>1, <2>2, <3>1, ShapeFacts DEF target
      <4>2. slotOf'[ops[n].res] = dst
        BY <1>5, <1>7, <4>1
      <4>3. copies'[Len(copies) + 1].before = i /\ copies'[Len(copies) + 1].dst = dst
        BY <1>8, <3>1 DEF copy
      <4>4. QED
        BY <1>8, <4>2, <4>3
    <3>2. CASE i < next /\ HasCopy(i)
      <4>1. plan[i].alias # NoValue
        BY <1>1, <3>2, PlanFacts DEF HasCopy
      <4>2. plan[i].alias # target
        BY <1>1, <2>1, <3>2, <4>1, ShapeFacts DEF target
      <4>3. ops[n].res \notin moved
        BY <1>6, <2>2, <4>2
      <4>4. PICK k \in DOMAIN copies : copies[k].before = i /\ copies[k].dst = slotOf[ops[n].res]
        BY <1>1, <2>1, <2>2, <3>2 DEF BranchInv
      <4>5. QED
        BY <1>7, <1>8, <4>3, <4>4
    <3>3. QED
      BY <1>9, <2>2, <3>1, <3>2
  <2>3. QED
    BY <1>2, <2>2, SameShape DEF BranchInv
<1>13. ContentsInv'
  BY <1>1, <1>2 DEF ContentsInv
<1>14. QED
  BY <1>10, <1>11, <1>12, <1>13

\* The program starts with its arguments in their buffers.
LEMMA EndCopyRunInv ==
  ASSUME RunInv, EndCopy, Inv' PROVE ServeInv' /\ ChainInv' /\ BranchInv' /\ ContentsInv'
<1>1. /\ GraphInv /\ SlotInv /\ CopyInv /\ ServeInv /\ ChainInv /\ BranchInv /\ ContentsInv
      /\ stage = "copy" /\ stage \in Planned /\ next \notin DOMAIN ops
      /\ DOMAIN ops = 1 .. Len(ops) /\ Len(ops) \in Nat
  BY GraphFacts DEF RunInv, Inv, EndCopy, Planned
<1>2. /\ stage' = "run" /\ next' = 1
      /\ UNCHANGED <<ops, returns, plan, slots, slotOf, copies, redirect, misread>>
  BY DEF EndCopy
<1>3. /\ \A i \in DOMAIN ops : HasCopy(i)' <=> HasCopy(i)
      /\ \A i \in DOMAIN ops : HasSlot(i)' <=> HasSlot(i)
  BY <1>1, <1>2 DEF HasCopy, HasSlot, GraphInv
<1>4. ServeInv'
  BY <1>1, <1>2, <1>3, SamePlan DEF ServeInv
<1>5. ChainInv'
  BY <1>1, <1>2, <1>3, SameShape DEF ChainInv
<1>6. BranchInv'
  BY <1>1, <1>2, <1>3, SameShape DEF BranchInv
<1>7. ContentsInv'
  <2>1. misread' = {}
    BY <1>1, <1>2 DEF ContentsInv
  <2>2. ASSUME NEW v \in Values, v \in Args PROVE mem'[slotOf[v]] = v
    <3>1. PICK k \in DOMAIN ArgList : v = ArgList[k]
      BY <2>2 DEF Args
    <3>2. slotOf[v] = k
      BY <1>1, <3>1 DEF SlotInv
    <3>3. mem'[k] = ArgList[k]
      BY <1>2 DEF Inv, MemInv
    <3>4. QED
      BY <3>1, <3>2, <3>3
  <2>3. \A v : ThereBefore(1, v) => v \in Args
    BY <1>1 DEF ThereBefore
  <2>4. \A k \in DOMAIN copies : ~(copies[k].before < 1)
    BY <1>1 DEF CopyInv
  <2>5. \A v : ThereBefore(next, v)' => v \in Args
    BY <1>2, <2>3 DEF ThereBefore
  <2>6. QED
    BY <1>2, <2>1, <2>2, <2>4, <2>5 DEF ContentsInv
<1>8. QED
  BY <1>4, <1>5, <1>6, <1>7

\* What an operator reads of the memory of RunOp is right: no value it needs
\* has been overwritten where it looks for it.
LEMMA ReadsAreRight ==
  ASSUME RunInv, stage = "run", next \in DOMAIN ops, SafeShape
  PROVE  /\ \A k \in CopiesBefore(next) : mem[copies[k].src] = plan[next].alias
         /\ ReadsRight(next, MemBefore(next))
<1> DEFINE m == MemBefore(next)
           s == slotOf[ops[next].res]
<1>1. /\ Inv /\ GraphInv /\ PlanInv /\ SlotInv /\ CopyInv /\ RedirectInv /\ MemInv
      /\ ServeInv /\ ChainInv /\ BranchInv /\ ContentsInv
      /\ stage \in Planned
      /\ DOMAIN ops = 1 .. Len(ops) /\ Len(ops) \in Nat
  BY GraphFacts DEF RunInv, Inv, Planned
<1>2. /\ \A i \in DOMAIN ops : HasSlot(i)
      /\ \A i \in DOMAIN ops : HasCopy(i) <=> plan[i].copy
  BY DEF HasSlot, HasCopy
<1>3. /\ \A t \in Live(next) : m[t] = mem[t]
      /\ \A i \in DOMAIN ops : i < next => slotOf[ops[i].res] \in Live(next)
      /\ \A k \in DOMAIN copies : copies[k].before < next => copies[k].dst \in Live(next)
  <2>1. \A t \in Live(next) : m[t] = mem[t]
    BY <1>1, MemBeforeFacts
  <2>2. \A i \in DOMAIN ops : i < next => slotOf[ops[i].res] \in Live(next)
    BY <1>1, SlotLive
  <2>3. \A k \in DOMAIN copies : copies[k].before < next => copies[k].dst \in Live(next)
    BY <1>1 DEF CopyInv, Live
  <2>4. QED
    BY <2>1, <2>2, <2>3
<1> HIDE DEF m, s
\* A value that nobody has overwritten yet is in its slot.
<1>4. ASSUME NEW v \in Operands(next),
             \A i \in DOMAIN ops : i < next => plan[i].alias # v
      PROVE  /\ slotOf[v] \in Live(next)
             /\ mem[slotOf[v]] = v
             /\ m[slotOf[v]] = v
  <2>1. v \in Values /\ ThereBefore(next, v)
    BY <1>1, GraphFacts DEF ThereBefore
  <2>2. mem[slotOf[v]] = v
    BY <1>1, <1>4, <2>1 DEF ContentsInv
  <2>3. slotOf[v] \in Live(next)
    <3>1. CASE v \in Args
      <4>1. PICK k \in DOMAIN ArgList : v = ArgList[k]
        BY <3>1 DEF Args
      <4>2. slotOf[v] = k /\ k \in DOMAIN slots /\ slots[k] = "input"
        BY <1>1, <4>1, ArgSlotFacts DEF SlotInv
      <4>3. QED
        BY <4>2 DEF Live
    <3>2. CASE v \notin Args
      BY <1>3, <2>1, <3>2 DEF ThereBefore
    <3>3. QED
      BY <3>1, <3>2
  <2>4. QED
    BY <1>3, <2>2, <2>3
\* The copy made for an earlier operator serves its one later reader.
<1>5. ASSUME NEW k \in DOMAIN copies, next \in LaterReaders(copies[k].before)
      PROVE  m[copies[k].dst] = plan[copies[k].before].alias
  <2>1. /\ copies[k].before \in DOMAIN ops
        /\ plan[copies[k].before].alias # NoValue
        /\ copies[k].before < next
    BY <1>1, <1>2, <1>5, PlanFacts DEF CopyInv, LaterReaders
  <2>2. ASSUME NEW i \in DOMAIN ops, i < next, slotOf[ops[i].res] = copies[k].dst
        PROVE  FALSE
    <3>1. i \in LaterReaders(copies[k].before)
      BY <1>1, <2>2 DEF RedirectInv
    <3>2. i = next
      BY <1>1, <1>5, <2>1, <3>1, ShapeFacts
    <3>3. QED
      BY <1>1, <2>2, <3>2
  <2>3. mem[copies[k].dst] = plan[copies[k].before].alias
    BY <1>1, <2>1, <2>2 DEF ContentsInv
  <2>4. QED
    BY <1>3, <2>1, <2>3
<1>6. ASSUME NEW v \in Elements(ops[next].ins) PROVE m[effective_slot(next, v)] = v
  <2>1. v \in Operands(next) /\ v \in Values
    BY <1>1, <1>6, GraphFacts DEF Operands, Reads
  <2>2. CASE redirect[<<next, v>>] # 0
    <3>1. PICK k \in DOMAIN copies : /\ copies[k].dst = redirect[<<next, v>>]
                                     /\ plan[copies[k].before].alias = v
                                     /\ next \in LaterReaders(copies[k].before)
      BY <1>1, <2>1, <2>2 DEF RedirectInv
    <3>2. QED
      BY <1>5, <2>2, <3>1 DEF effective_slot
  <2>3. CASE redirect[<<next, v>>] = 0
    <3>1. ASSUME NEW i \in DOMAIN ops, i < next, plan[i].alias = v
          PROVE  FALSE
      <4>1. plan[i].alias # NoValue
        BY <2>1, <3>1, NoValueAssumption
      <4>2. next \in LaterReaders(i) /\ plan[i].copy
        BY <1>1, <2>1, <3>1, <4>1, ShapeFacts
      <4>3. QED
        BY <1>1, <1>2, <2>3, <3>1, <4>2 DEF ServeInv
    <3>2. QED
      BY <1>4, <2>1, <2>3, <3>1 DEF effective_slot
  <2>4. QED
    BY <2>2, <2>3
<1>7. ASSUME IsMatmul(next)
      PROVE  /\ m[s] = Head(ops[next].outs)
             /\ \A v \in Elements(ops[next].ins) : effective_slot(next, v) # s
  <2>1. /\ plan[next].alias = Head(ops[next].outs)
        /\ plan[next].alias # NoValue
        /\ plan[next].alias \notin Elements(ops[next].ins)
    BY <1>1, <1>7, MatmulInPlace
  <2>2. m[s] = plan[next].alias
    <3>1. CASE BranchesOff(next)
      <4>1. PICK i \in DOMAIN ops : i < next /\ plan[i].alias = plan[next].alias
        BY <3>1 DEF BranchesOff
      <4>2. next \in LaterReaders(i) /\ plan[i].copy
        BY <1>1, <2>1, <4>1, ShapeFacts
      <4>3. PICK k \in DOMAIN copies : copies[k].before = i /\ copies[k].dst = s
        BY <1>1, <1>2, <4>1, <4>2 DEF BranchInv, s
      <4>4. QED
        BY <1>5, <4>1, <4>2, <4>3
    <3>2. CASE ~BranchesOff(next)
      <4>1. s = slotOf[plan[next].alias]
        BY <1>1, <1>2, <2>1, <3>2 DEF ChainInv, s
      <4>2. plan[next].alias \in Operands(next)
        BY <1>1, <2>1, PlanFacts
      <4>3. QED
        BY <1>4, <2>1, <3>2, <4>1, <4>2 DEF BranchesOff
    <3>3. QED
      BY <3>1, <3>2
  <2>3. QED
    BY <1>6, <2>1, <2>2
<1>8. ASSUME NEW k \in CopiesBefore(next) PROVE mem[copies[k].src] = plan[next].alias
  <2>1. /\ copies[k].src = slotOf[plan[next].alias]
        /\ plan[next].copy
    BY <1>1, <1>2 DEF CopyInv, CopiesBefore
  <2>2. plan[next].alias # NoValue /\ plan[next].alias \in Operands(next)
    BY <1>1, <2>1, PlanFacts
  <2>3. \A i \in DOMAIN ops : i < next => plan[i].alias # plan[next].alias
    BY <1>1, <2>1, <2>2, ShapeFacts
  <2>4. QED
    BY <1>4, <2>1, <2>2, <2>3
<1>9. ReadsRight(next, m)
  BY <1>6, <1>7 DEF ReadsRight, s
<1>10. QED
  BY <1>8, <1>9 DEF m

\* Running an operator overwrites one value, which is the only one in its slot
\* that had not been overwritten.
LEMMA RunOpRunInv ==
  ASSUME RunInv, RunOp PROVE ServeInv' /\ ChainInv' /\ BranchInv' /\ ContentsInv'
<1> DEFINE m == MemBefore(next)
           r == ops[next].res
           s == slotOf[r]
<1>1. /\ Inv /\ GraphInv /\ PlanInv /\ SlotInv /\ CopyInv /\ RedirectInv /\ MemInv
      /\ ServeInv /\ ChainInv /\ BranchInv /\ ContentsInv
      /\ stage = "run" /\ stage \in Planned /\ next \in DOMAIN ops
      /\ DOMAIN ops = 1 .. Len(ops) /\ Len(ops) \in Nat
  BY GraphFacts DEF RunInv, Inv, RunOp, Planned
<1>2. /\ stage' = "run" /\ next' = next + 1
      /\ UNCHANGED <<ops, returns, plan, slots, slotOf, copies, redirect>>
      /\ mem' = [m EXCEPT ![s] = r]
      /\ misread' = IF ReadsRight(next, m) THEN misread ELSE misread \cup {next}
  BY DEF RunOp
<1>3. /\ m \in [Live(next + 1) -> Values \cup {NoValue}]
      /\ \A t \in Live(next) : m[t] = mem[t] /\ t \in Live(next + 1)
      /\ s \in Live(next + 1)
      /\ \A k \in CopiesBefore(next) : /\ copies[k].dst \in Live(next + 1)
                                       /\ m[copies[k].dst] = mem[copies[k].src]
  <2>1. s \in Live(next + 1)
    BY <1>1, SlotLive
  <2>2. QED
    BY <1>1, <2>1, MemBeforeFacts
<1>4. /\ \A i \in DOMAIN ops : HasCopy(i)' <=> HasCopy(i)
      /\ \A i \in DOMAIN ops : HasSlot(i)' <=> HasSlot(i)
      /\ \A i \in DOMAIN ops : HasSlot(i)
  BY <1>1, <1>2 DEF HasCopy, HasSlot
<1>5. SafeShape => /\ ReadsRight(next, m)
                   /\ \A k \in CopiesBefore(next) : mem[copies[k].src] = plan[next].alias
  BY <1>1, ReadsAreRight DEF RunInv
<1> HIDE DEF m, r, s
<1>6. /\ mem'[s] = r
      /\ \A t \in Live(next + 1) : t # s => mem'[t] = m[t]
  BY <1>2, <1>3
<1>7. ServeInv' /\ ChainInv' /\ BranchInv'
  <2>1. ServeInv'
    BY <1>1, <1>2, <1>4, SamePlan DEF ServeInv
  <2>2. ChainInv'
    BY <1>1, <1>2, <1>4, SameShape DEF ChainInv
  <2>3. BranchInv'
    BY <1>1, <1>2, <1>4, SameShape DEF BranchInv
  <2>4. QED
    BY <2>1, <2>2, <2>3
<1>8. ContentsInv'
  <2>1. SUFFICES ASSUME SafeShape PROVE ContentsInv'
    BY <1>2, SameShape DEF ContentsInv
  <2>2. misread' = {}
    BY <1>1, <1>2, <1>5, <2>1 DEF ContentsInv
  <2>3. ASSUME NEW v \in Values, ThereBefore(next + 1, v),
               \A i \in DOMAIN ops : i < next + 1 => plan[i].alias # v
        PROVE  mem'[slotOf[v]] = v
    <3>1. CASE v = r
      BY <1>6, <3>1 DEF s
    <3>2. CASE v # r
      <4>1. ThereBefore(next, v)
        <5>1. \A d \in DOMAIN ops : d < next + 1 /\ ops[d].res = v => d < next
          BY <1>1, <3>2 DEF r
        <5>2. QED
          BY <2>3, <5>1 DEF ThereBefore
      <4>2. mem[slotOf[v]] = v
        BY <1>1, <2>1, <2>3, <4>1 DEF ContentsInv
      <4>3. slotOf[v] \in Live(next) /\ slotOf[v] # s
        <5>1. CASE v \in Args
          <6>1. PICK k \in DOMAIN ArgList : v = ArgList[k]
            BY <5>1 DEF Args
          <6>2. slotOf[v] = k /\ k \in DOMAIN slots /\ slots[k] = "input"
            BY <1>1, <6>1, ArgSlotFacts DEF SlotInv
          <6>3. s > Len(ArgList) /\ Len(ArgList) \in Nat /\ k <= Len(ArgList)
            BY <1>1, <6>1, ResultSlots, ArgSlotFacts DEF s, r
          <6>4. QED
            BY <6>2, <6>3 DEF Live
        <5>2. CASE v \notin Args
          <6>1. PICK d \in DOMAIN ops : d < next /\ ops[d].res = v
            BY <4>1, <5>2 DEF ThereBefore
          <6>2. slotOf[v] \in Live(next)
            BY <1>1, <6>1, SlotLive
          <6>3. ASSUME slotOf[v] = s PROVE FALSE
            <7>1. ASSUME NEW n \in DOMAIN ops, BranchesOff(n), NEW l \in DOMAIN ops,
                         slotOf[ops[l].res] = slotOf[ops[n].res]
                  PROVE  l = n
              <8>1. PICK i \in DOMAIN ops : i < n /\ plan[i].alias = plan[n].alias
                BY <7>1 DEF BranchesOff
              <8>2. plan[i].alias # NoValue
                BY <7>1, <8>1 DEF BranchesOff
              <8>3. n \in LaterReaders(i) /\ plan[i].copy
                BY <1>1, <2>1, <8>1, <8>2, ShapeFacts
              <8>4. PICK k \in DOMAIN copies : copies[k].before = i
                                               /\ copies[k].dst = slotOf[ops[n].res]
                BY <1>1, <2>1, <8>1, <8>3 DEF BranchInv, HasCopy
              <8>5. l \in LaterReaders(i)
                BY <1>1, <7>1, <8>4 DEF RedirectInv
              <8>6. QED
                BY <1>1, <2>1, <8>2, <8>3, <8>5, ShapeFacts
            <7>2. ~BranchesOff(d) /\ ~BranchesOff(next)
              BY <1>1, <6>1, <6>3, <7>1 DEF s, r
            <7>3. PICK i \in DOMAIN ops : d < i /\ i <= next /\ plan[i].alias = ops[d].res
              BY <1>1, <1>4, <2>1, <6>1, <6>3, <7>2 DEF ChainInv, s, r
            <7>4. QED
              BY <1>1, <2>3, <6>1, <7>3
          <6>4. QED
            BY <6>2, <6>3
        <5>3. QED
          BY <5>1, <5>2
      <4>4. QED
        BY <1>3, <1>6, <4>2, <4>3
    <3>3. QED
      BY <3>1, <3>2
  <2>4. ASSUME NEW k \in DOMAIN copies, copies[k].before < next + 1,
               \A i \in DOMAIN ops : i < next + 1 => slotOf[ops[i].res] # copies[k].dst
        PROVE  mem'[copies[k].dst] = plan[copies[k].before].alias
    <3>1. copies[k].dst # s /\ copies[k].before \in DOMAIN ops
      BY <1>1, <2>4 DEF s, r, CopyInv
    <3>2. CASE copies[k].before = next
      <4>1. k \in CopiesBefore(next)
        BY <3>2 DEF CopiesBefore
      <4>2. QED
        BY <1>3, <1>5, <1>6, <2>1, <3>1, <3>2, <4>1
    <3>3. CASE copies[k].before < next
      <4>1. mem[copies[k].dst] = plan[copies[k].before].alias
        BY <1>1, <2>1, <2>4, <3>3 DEF ContentsInv
      <4>2. copies[k].dst \in Live(next)
        BY <1>1, <3>3 DEF CopyInv, Live
      <4>3. QED
        BY <1>3, <1>6, <3>1, <4>1, <4>2
    <3>4. QED
      BY <1>1, <2>4, <3>1, <3>2, <3>3
  <2>5. QED
    BY <1>2, <2>2, <2>3, <2>4, SameShape DEF ContentsInv, ThereBefore
<1>9. QED
  BY <1>7, <1>8

\* The returned values are in the buffers of the caller when the program ends.
LEMMA ReturnRunInv ==
  ASSUME RunInv, Return PROVE ServeInv' /\ ChainInv' /\ BranchInv' /\ ContentsInv'
<1>1. /\ Inv /\ GraphInv /\ PlanInv /\ SlotInv /\ MemInv
      /\ ServeInv /\ ChainInv /\ BranchInv /\ ContentsInv
      /\ stage = "run" /\ stage \in Planned /\ next \notin DOMAIN ops
      /\ DOMAIN ops = 1 .. Len(ops) /\ Len(ops) \in Nat
  BY GraphFacts DEF RunInv, Inv, Return, Planned
<1>2. /\ stage' = "done"
      /\ UNCHANGED <<ops, returns, next, plan, slots, slotOf, copies, redirect, misread>>
      /\ mem' = [s \in {k \in DOMAIN mem : slots[k] # "local"} |-> mem[s]]
  BY DEF Return
<1>3. /\ \A i \in DOMAIN ops : HasCopy(i)' <=> HasCopy(i)
      /\ \A i \in DOMAIN ops : HasSlot(i)' <=> HasSlot(i)
      /\ \A i \in DOMAIN ops : HasSlot(i) /\ i < next
  BY <1>1, <1>2 DEF HasCopy, HasSlot, GraphInv
<1>4. ServeInv'
  BY <1>1, <1>2, <1>3, SamePlan DEF ServeInv
<1>5. ChainInv'
  BY <1>1, <1>2, <1>3, SameShape DEF ChainInv
<1>6. BranchInv'
  BY <1>1, <1>2, <1>3, SameShape DEF BranchInv
<1>7. ContentsInv'
  <2>1. SUFFICES ASSUME SafeShape PROVE ContentsInv'
    BY <1>2, SameShape DEF ContentsInv
  <2>2. ASSUME NEW v \in returns PROVE mem'[slotOf[v]] = v
    <3>1. PICK i \in DOMAIN ops : ops[i].res = v /\ ~IsFill(i)
      BY <1>1, <2>1, ReturnedFacts
    <3>2. mem[slotOf[v]] = v
      <4>1. v \in Values /\ ThereBefore(next, v)
        BY <1>1, <1>3, <2>1, <3>1, ReturnedFacts DEF ThereBefore
      <4>2. QED
        BY <1>1, <2>1, <4>1, ReturnedFacts DEF ContentsInv
    <3>3. slots[slotOf[v]] = "output" /\ slotOf[v] \in DOMAIN slots
      BY <1>1, <1>3, <3>1, ResultSlots DEF ServeInv
    <3>4. slotOf[v] \in DOMAIN mem
      BY <1>1, <3>3 DEF MemInv, Live
    <3>5. QED
      BY <1>2, <3>2, <3>3, <3>4
  <2>3. QED
    BY <1>1, <1>2, <2>1, <2>2 DEF ContentsInv
<1>8. QED
  BY <1>4, <1>5, <1>6, <1>7

\* The invariant of the emitted program.
THEOREM RunInvariantHolds == Spec => []RunInv
<1>1. Init => RunInv
  BY InitRunInv
<1>2. RunInv /\ [Next]_vars => RunInv'
  <2> SUFFICES ASSUME RunInv, [Next]_vars PROVE RunInv'
    OBVIOUS
  <2>1. Inv'
    BY NextInv DEF RunInv
  <2>2. ServeInv' /\ ChainInv' /\ BranchInv' /\ ContentsInv'
    <3>1. CASE UNCHANGED vars
      <4>1. UNCHANGED <<ops, returns, plan, stage, next, slots, slotOf, copies, redirect,
                        mem, misread>>
        BY <3>1 DEF vars
      <4>2. ServeInv'
        BY <4>1, SamePlan DEF RunInv, ServeInv, HasSlot, HasCopy
      <4>3. ChainInv' /\ BranchInv'
        BY <4>1, SameShape DEF RunInv, ChainInv, BranchInv, HasSlot, HasCopy
      <4>4. ContentsInv'
        BY <4>1, SameShape DEF RunInv, ContentsInv, ThereBefore
      <4>5. QED
        BY <4>2, <4>3, <4>4
    <3>2. QED
      BY <2>1, <3>1, EarlyRunInv, DecideRunInv, AssignSlotRunInv, EndAssignRunInv,
         SkipCopyRunInv, InsertCopyRunInv, EndCopyRunInv, RunOpRunInv, ReturnRunInv
      DEF Next
  <2>3. QED
    BY <2>1, <2>2 DEF RunInv
<1>3. QED
  BY <1>1, <1>2, PTL DEF Spec

\* For every graph of the shape the plan relies on, each operator of the
\* program that print_bufferized emits reads the values its tensor form reads,
\* and the output buffers hold the results.
THEOREM SafeShapesAreCorrect == Spec => []SafeShapeIsCorrect
<1>1. RunInv => SafeShapeIsCorrect
  BY DEF RunInv, ContentsInv, SafeShapeIsCorrect, ReadsIntended
<1>2. QED
  BY <1>1, RunInvariantHolds, PTL
-----------------------------------------------------------------------------
(***************************************************************************)
(* Stage 0 of bufferization keeps what the function computes: pass_cse and *)
(* pass_dce, in any number of steps, leave the terms of the returned       *)
(* values as they are when every accumulator is zero.                      *)
(*                                                                         *)
(* The argument.  The meaning of a graph is the only function on values    *)
(* that satisfies the equation of every operator.  The meaning of the      *)
(* graph before an edit satisfies the equations of the graph after it.     *)
(***************************************************************************)

(***************************************************************************)
(* The meaning of a graph.                                                 *)
(***************************************************************************)
\* The term operator k computes from the terms of its operands.
Term(s, k, m) ==
  <<s[k].label, [i \in DOMAIN s[k].ins |-> m[s[k].ins[i]]],
                [i \in DOMAIN s[k].outs |-> m[s[k].outs[i]]]>>

\* m[k] is what the first k operators compute.
Computes(s, n, m) ==
  m = [k \in 0 .. n |->
         IF k = 0 THEN [v \in Values |-> <<v>>]
         ELSE [m[k - 1] EXCEPT ![s[k].res] = Term(s, k, m[k - 1])]]

\* Such a function exists for any number of operators.
LEMMA ComputesExists ==
  ASSUME NEW s, NEW N \in Nat
  PROVE  \E m : Computes(s, N, m)
<1> DEFINE P == {n \in Nat : \E m : Computes(s, n, m)}
           Base == [v \in Values |-> <<v>>]
           Step(c, k) == [c EXCEPT ![s[k].res] = Term(s, k, c)]
<1>1. 0 \in P
  <2> DEFINE m0 == [k \in 0 .. 0 |-> Base]
  <2>1. Computes(s, 0, m0)
    BY DEF Computes
  <2>2. QED
    BY <2>1
<1>2. ASSUME NEW n \in Nat, n \in P PROVE n + 1 \in P
  <2>1. PICK m : Computes(s, n, m)
    BY <1>2
  <2> DEFINE mm == [k \in 0 .. n + 1 |-> IF k = n + 1 THEN Step(m[n], n + 1) ELSE m[k]]
  <2>2. m = [k \in 0 .. n |-> IF k = 0 THEN Base ELSE Step(m[k - 1], k)]
    BY <2>1 DEF Computes
  <2> HIDE DEF Step, Base
  <2>3. ASSUME NEW k \in 0 .. n + 1
        PROVE  mm[k] = IF k = 0 THEN Base ELSE Step(mm[k - 1], k)
    <3>1. CASE k = n + 1
      <4>1. mm[k] = Step(m[n], n + 1) /\ mm[k - 1] = m[n] /\ k # 0
        BY <3>1
      <4> HIDE DEF mm
      <4>2. QED
        BY <3>1, <4>1
    <3>2. CASE k # n + 1
      <4>1. /\ k \in 0 .. n
            /\ mm[k] = m[k]
            /\ k # 0 => mm[k - 1] = m[k - 1]
        BY <2>3, <3>2
      <4>2. m[k] = IF k = 0 THEN Base ELSE Step(m[k - 1], k)
        BY <2>2, <4>1
      <4> HIDE DEF mm
      <4>3. QED
        BY <4>1, <4>2
    <3>3. QED
      BY <3>1, <3>2
  <2>4. mm = [k \in 0 .. n + 1 |-> IF k = 0 THEN Base ELSE Step(mm[k - 1], k)]
    <3>1. mm = [k \in 0 .. n + 1 |-> mm[k]]
      OBVIOUS
    <3> HIDE DEF mm
    <3>2. QED
      BY <2>3, <3>1
  <2> HIDE DEF mm
  <2>5. Computes(s, n + 1, mm)
    BY <2>4 DEF Computes, Step, Base
  <2>6. QED
    BY <2>5
<1> HIDE DEF P
<1>3. Nat \subseteq P
  BY <1>1, <1>2, NatSetInduction
<1>4. QED
  BY <1>3 DEF P

\* Meaning is its last element.
LEMMA MeaningUnfolds ==
  ASSUME NEW s, Len(s) \in Nat
  PROVE  \E m : Computes(s, Len(s), m) /\ Meaning(s) = m[Len(s)]
<1> DEFINE g == CHOOSE m : Computes(s, Len(s), m)
<1>1. Computes(s, Len(s), g)
  BY ComputesExists
<1>2. Meaning(s) = g[Len(s)]
  BY DEF Meaning, Computes, Term
<1>3. QED
  BY <1>1, <1>2

\* The terms of an operator's operands determine its own term.
LEMMA SameTerm ==
  ASSUME NEW s, NEW k, NEW m, NEW c, \A w \in Reads(s[k]) : m[w] = c[w]
  PROVE  Term(s, k, m) = Term(s, k, c)
<1>1. /\ \A i \in DOMAIN s[k].ins : m[s[k].ins[i]] = c[s[k].ins[i]]
      /\ \A i \in DOMAIN s[k].outs : m[s[k].outs[i]] = c[s[k].outs[i]]
  BY DEF Reads, Elements
<1>2. /\ [i \in DOMAIN s[k].ins |-> m[s[k].ins[i]]] = [i \in DOMAIN s[k].ins |-> c[s[k].ins[i]]]
      /\ [i \in DOMAIN s[k].outs |-> m[s[k].outs[i]]]
           = [i \in DOMAIN s[k].outs |-> c[s[k].outs[i]]]
  BY <1>1
<1>3. QED
  BY <1>2 DEF Term

\* What a graph of the builders gives a proof about its operators.
LEMMA BuiltFacts ==
  ASSUME NEW s, NEW R, WellFormed(s, R)
  PROVE  /\ s \in Seq(Ops) /\ DOMAIN s = 1 .. Len(s) /\ Len(s) \in Nat
         /\ \A i \in DOMAIN s :
              /\ s[i] \in Ops
              /\ s[i].res \in Values
              /\ s[i].res \notin Args
              /\ s[i].ins \in Seq(Values)
              /\ s[i].outs \in Seq(Values)
              /\ Reads(s[i]) \subseteq Values
              /\ Built(s[i])
         /\ \A i, j \in DOMAIN s : s[i].res = s[j].res => i = j
         /\ \A i \in DOMAIN s : \A v \in Reads(s[i]) :
              v \in Args \/ \E j \in DOMAIN s : j < i /\ s[j].res = v
<1>1. /\ s \in Seq(Ops)
      /\ \A i \in DOMAIN s : Built(s[i])
      /\ SingleDefinitions(s)
      /\ UsesDefined(s)
  BY WellFormedParts
<1>2. DOMAIN s = 1 .. Len(s) /\ Len(s) \in Nat /\ \A i \in DOMAIN s : s[i] \in Ops
  BY <1>1
<1>3. ASSUME NEW i \in DOMAIN s
      PROVE  /\ s[i].res \in Values /\ s[i].res \notin Args
             /\ s[i].ins \in Seq(Values) /\ s[i].outs \in Seq(Values)
  BY <1>2, DisjointAssumption DEF Ops, Values
<1>4. ASSUME NEW i \in DOMAIN s PROVE Reads(s[i]) \subseteq Values
  BY <1>3 DEF Reads, Elements
<1>5. ASSUME NEW i \in DOMAIN s, NEW v \in Reads(s[i]), v \notin Args
      PROVE  \E j \in DOMAIN s : j < i /\ s[j].res = v
  <2>1. PICK j \in 1 .. i - 1 : s[j].res = v
    BY <1>1, <1>5 DEF UsesDefined
  <2>2. QED
    BY <1>2, <2>1
<1>6. QED
  BY <1>1, <1>2, <1>3, <1>4, <1>5 DEF SingleDefinitions

\* Meaning gives a value nobody defines its own name, and satisfies the equation
\* of every operator.
LEMMA MeaningEquations ==
  ASSUME NEW s, NEW R, WellFormed(s, R)
  PROVE  /\ \A v \in Args : Meaning(s)[v] = <<v>>
         /\ \A i \in DOMAIN s : Meaning(s)[s[i].res] = Term(s, i, Meaning(s))
<1>1. /\ DOMAIN s = 1 .. Len(s) /\ Len(s) \in Nat
      /\ \A i \in DOMAIN s : /\ s[i].res \in Values
                             /\ s[i].res \notin Args
                             /\ Reads(s[i]) \subseteq Values
      /\ \A i, j \in DOMAIN s : s[i].res = s[j].res => i = j
      /\ \A i \in DOMAIN s : \A v \in Reads(s[i]) :
           v \in Args \/ \E j \in DOMAIN s : j < i /\ s[j].res = v
  BY BuiltFacts
<1>2. PICK m : Computes(s, Len(s), m) /\ Meaning(s) = m[Len(s)]
  BY <1>1, MeaningUnfolds
<1> DEFINE Good(k) ==
             /\ DOMAIN m[k] = Values
             /\ \A v \in Args : m[k][v] = <<v>>
             /\ \A i \in 1 .. k : m[k][s[i].res] = Term(s, i, m[k])
           P == {k \in Nat : k <= Len(s) => Good(k)}
<1>3. 0 \in P
  <2>1. m[0] = [v \in Values |-> <<v>>]
    BY <1>1, <1>2 DEF Computes
  <2>2. Good(0)
    BY <2>1 DEF Values
  <2>3. QED
    BY <2>2
<1>4. ASSUME NEW n \in Nat, n \in P PROVE n + 1 \in P
  <2>1. SUFFICES ASSUME n + 1 <= Len(s) PROVE Good(n + 1)
    OBVIOUS
  <2>2. n + 1 \in DOMAIN s /\ Good(n)
    BY <1>1, <1>4, <2>1
  <2> DEFINE r == s[n + 1].res
             t == Term(s, n + 1, m[n])
  <2>3. m[n + 1] = [m[n] EXCEPT ![r] = t]
    <3>1. n + 1 \in 0 .. Len(s) /\ n + 1 # 0 /\ (n + 1) - 1 = n
      BY <1>1, <2>2
    <3>2. m[n + 1] = [m[(n + 1) - 1] EXCEPT ![r] = Term(s, n + 1, m[(n + 1) - 1])]
      BY <1>2, <3>1, Zenon DEF Computes
    <3>3. QED
      BY <3>1, <3>2
  <2> HIDE DEF r, t
  <2>4. /\ DOMAIN m[n + 1] = Values
        /\ m[n + 1][r] = t
        /\ \A v \in Values : v # r => m[n + 1][v] = m[n][v]
    BY <1>1, <2>2, <2>3 DEF r
  <2>5. ASSUME NEW i \in 1 .. n + 1, NEW w \in Reads(s[i]) PROVE m[n + 1][w] = m[n][w]
    <3>1. i \in DOMAIN s /\ w \in Values
      BY <1>1, <2>2
    <3>2. w # r
      BY <1>1, <2>2, <3>1 DEF r
    <3>3. QED
      BY <2>4, <3>1, <3>2
  <2>6. \A i \in 1 .. n + 1 : Term(s, i, m[n + 1]) = Term(s, i, m[n])
    BY <2>5, SameTerm
  <2>7. ASSUME NEW i \in 1 .. n + 1 PROVE m[n + 1][s[i].res] = Term(s, i, m[n + 1])
    <3>1. CASE i = n + 1
      BY <2>4, <2>6, <3>1 DEF r, t
    <3>2. CASE i # n + 1
      <4>1. i \in 1 .. n /\ i \in DOMAIN s
        BY <1>1, <2>2, <3>2
      <4>2. s[i].res # r
        BY <1>1, <2>2, <3>2, <4>1 DEF r
      <4>3. QED
        BY <1>1, <2>2, <2>4, <2>6, <4>1, <4>2
    <3>3. QED
      BY <3>1, <3>2
  <2>8. \A v \in Args : m[n + 1][v] = <<v>>
    BY <1>1, <2>2, <2>4 DEF r, Values
  <2>9. QED
    BY <2>4, <2>7, <2>8
<1> HIDE DEF P, Good
<1>5. Nat \subseteq P
  BY <1>3, <1>4, NatSetInduction
<1>6. Good(Len(s))
  BY <1>1, <1>5 DEF P
<1>7. QED
  BY <1>1, <1>2, <1>6 DEF Good

\* It is the only function that does.
LEMMA MeaningUnique ==
  ASSUME NEW s, NEW R, WellFormed(s, R), NEW g,
         \A v \in Args : g[v] = <<v>>,
         \A i \in DOMAIN s : g[s[i].res] = Term(s, i, g)
  PROVE  \A v \in Args \cup DefinedIn(s) : g[v] = Meaning(s)[v]
<1> DEFINE M == Meaning(s)
<1>1. /\ DOMAIN s = 1 .. Len(s) /\ Len(s) \in Nat
      /\ \A i \in DOMAIN s : \A v \in Reads(s[i]) :
           v \in Args \/ \E j \in DOMAIN s : j < i /\ s[j].res = v
  BY BuiltFacts
<1>2. /\ \A v \in Args : M[v] = <<v>>
      /\ \A i \in DOMAIN s : M[s[i].res] = Term(s, i, M)
  BY MeaningEquations
<1> HIDE DEF M
<1> DEFINE P == {n \in Nat : \A i \in DOMAIN s : i <= n => g[s[i].res] = M[s[i].res]}
<1>3. 0 \in P
  BY <1>1
<1>4. ASSUME NEW n \in Nat, n \in P PROVE n + 1 \in P
  <2>1. SUFFICES ASSUME NEW i \in DOMAIN s, i = n + 1 PROVE g[s[i].res] = M[s[i].res]
    BY <1>1, <1>4
  <2>2. ASSUME NEW w \in Reads(s[i]) PROVE g[w] = M[w]
    <3>1. CASE w \in Args
      BY <1>2, <3>1
    <3>2. CASE \E j \in DOMAIN s : j < i /\ s[j].res = w
      BY <1>1, <1>4, <2>1, <3>2
    <3>3. QED
      BY <1>1, <3>1, <3>2
  <2>3. Term(s, i, g) = Term(s, i, M)
    BY <2>2, SameTerm
  <2>4. QED
    BY <1>2, <2>3
<1> HIDE DEF P
<1>5. Nat \subseteq P
  BY <1>3, <1>4, NatSetInduction
<1>6. \A i \in DOMAIN s : g[s[i].res] = M[s[i].res]
  BY <1>1, <1>5 DEF P
<1>7. QED
  BY <1>2, <1>6 DEF DefinedIn, M

(***************************************************************************)
(* The two edits.                                                          *)
(***************************************************************************)
\* Erasing an operator whose result nobody uses changes no other term.
LEMMA EraseMeaning ==
  ASSUME NEW s, NEW R, WellFormed(s, R), NEW i \in DOMAIN s,
         s[i].res \notin R,
         \A j \in DOMAIN s : s[i].res \notin Reads(s[j])
  PROVE  /\ \A v \in R : Meaning(Without(s, i))[v] = Meaning(s)[v]
         /\ ZeroAccumulators(s) => ZeroAccumulators(Without(s, i))
<1> DEFINE t == Without(s, i)
           M == Meaning(s)
<1>1. s \in Seq(Ops) /\ DOMAIN s = 1 .. Len(s) /\ Len(s) \in Nat
  BY BuiltFacts
<1>2. /\ DOMAIN t = 1 .. Len(s) - 1
      /\ \A k \in 1 .. Len(s) - 1 : t[k] = IF k < i THEN s[k] ELSE s[k + 1]
  BY <1>1, WithoutIsSeq
<1>3. WellFormed(t, R)
  BY EraseWellFormed
<1> HIDE DEF t
<1>4. \A k \in DOMAIN t : Before(k, i) \in DOMAIN s /\ t[k] = s[Before(k, i)]
  BY <1>1, <1>2 DEF Before
<1>5. /\ \A v \in Args : M[v] = <<v>>
      /\ \A j \in DOMAIN s : M[s[j].res] = Term(s, j, M)
  BY MeaningEquations
<1> HIDE DEF M
<1>6. \A k \in DOMAIN t : M[t[k].res] = Term(t, k, M)
  BY <1>4, <1>5 DEF Term
<1>7. \A v \in Args \cup DefinedIn(t) : M[v] = Meaning(t)[v]
  BY <1>3, <1>5, <1>6, MeaningUnique
<1>8. R \subseteq Args \cup DefinedIn(t)
  BY <1>3, WellFormedParts
<1>9. ASSUME ZeroAccumulators(s) PROVE ZeroAccumulators(t)
  <2>1. SUFFICES ASSUME NEW k \in DOMAIN t, NEW v \in Elements(t[k].outs)
                 PROVE  \E j \in DOMAIN t : t[j].res = v /\ t[j].label = "zero_init"
    BY DEF ZeroAccumulators
  <2>2. PICK j \in DOMAIN s : s[j].res = v /\ s[j].label = "zero_init"
    BY <1>4, <1>9, <2>1 DEF ZeroAccumulators
  <2>3. v \in Reads(s[Before(k, i)])
    BY <1>4, <2>1 DEF Reads
  <2>4. j # i
    BY <1>4, <2>2, <2>3
  <2>5. After(j, i) \in DOMAIN t /\ t[After(j, i)] = s[j]
    <3>1. After(j, i) \in 1 .. Len(s) - 1 /\ Before(After(j, i), i) = j
      BY <1>1, <2>4 DEF After, Before
    <3>2. QED
      BY <1>2, <1>4, <3>1
  <2>6. QED
    BY <2>2, <2>5
<1>10. QED
  BY <1>7, <1>8, <1>9 DEF M, t

\* The operators of a graph in which a value has been replaced.
LEMMA ReplacedFields ==
  ASSUME NEW s \in Seq(Ops), NEW old, NEW new, NEW k \in DOMAIN s
  PROVE  LET t == ReplacedUses(s, old, new)
         IN  /\ t[k].res = s[k].res
             /\ t[k].label = s[k].label
             /\ DOMAIN t[k].ins = DOMAIN s[k].ins
             /\ DOMAIN t[k].outs = DOMAIN s[k].outs
             /\ \A n \in DOMAIN s[k].ins : t[k].ins[n] = Renamed(s[k].ins[n], old, new)
             /\ \A n \in DOMAIN s[k].outs : t[k].outs[n] = Renamed(s[k].outs[n], old, new)
<1> DEFINE newIns  == [n \in DOMAIN s[k].ins |-> Renamed(s[k].ins[n], old, new)]
           newOuts == [n \in DOMAIN s[k].outs |-> Renamed(s[k].outs[n], old, new)]
           t == ReplacedUses(s, old, new)
<1>1. s[k] \in Ops
  OBVIOUS
<1>2. t[k] = [s[k] EXCEPT !.ins = newIns, !.outs = newOuts]
  BY DEF ReplacedUses
<1> HIDE DEF t, newIns, newOuts
<1>3. /\ t[k].res = s[k].res /\ t[k].label = s[k].label
      /\ t[k].ins = newIns /\ t[k].outs = newOuts
  BY <1>1, <1>2 DEF Ops
<1>4. QED
  BY <1>3 DEF t, newIns, newOuts

\* Replacing a value by one with the same term changes no term.
LEMMA RenameMeaning ==
  ASSUME NEW s, NEW R, WellFormed(s, R), NEW i \in DOMAIN s, NEW j \in DOMAIN s, i < j,
         Meaning(s)[s[i].res] = Meaning(s)[s[j].res]
  PROVE  LET t == ReplacedUses(s, s[j].res, s[i].res)
             Q == {Renamed(r, s[j].res, s[i].res) : r \in R}
         IN  /\ \A v \in Q : Meaning(t)[v] = Meaning(s)[v]
             /\ {Meaning(s)[v] : v \in Q} = {Meaning(s)[v] : v \in R}
             /\ ZeroAccumulators(s) /\ s[j].label # "zero_init" => ZeroAccumulators(t)
<1> DEFINE old == s[j].res
           new == s[i].res
           t   == ReplacedUses(s, old, new)
           Q   == {Renamed(r, old, new) : r \in R}
           M   == Meaning(s)
<1>1. /\ s \in Seq(Ops) /\ DOMAIN s = 1 .. Len(s) /\ Len(s) \in Nat
      /\ \A k, l \in DOMAIN s : s[k].res = s[l].res => k = l
  BY BuiltFacts
<1>2. WellFormed(t, Q) /\ DOMAIN t = DOMAIN s
  <2>1. /\ WellFormed(t, Q)
        /\ DOMAIN t = DOMAIN s
        /\ t[j].res = old
        /\ old \notin Q
        /\ \A k \in DOMAIN t : old \notin Reads(t[k])
    BY RenameWellFormed
  <2> HIDE DEF t, Q, old
  <2>2. QED
    BY <2>1
<1>3. /\ \A v \in Args : M[v] = <<v>>
      /\ \A k \in DOMAIN s : M[s[k].res] = Term(s, k, M)
  BY MeaningEquations
<1>4. ASSUME NEW k \in DOMAIN s
      PROVE  /\ t[k].res = s[k].res
             /\ t[k].label = s[k].label
             /\ DOMAIN t[k].ins = DOMAIN s[k].ins
             /\ DOMAIN t[k].outs = DOMAIN s[k].outs
             /\ \A n \in DOMAIN s[k].ins : t[k].ins[n] = Renamed(s[k].ins[n], old, new)
             /\ \A n \in DOMAIN s[k].outs : t[k].outs[n] = Renamed(s[k].outs[n], old, new)
  <2> HIDE DEF old, new
  <2>1. QED
    BY <1>1, ReplacedFields
<1>5. M[old] = M[new]
  OBVIOUS
<1> HIDE DEF old, new, t, Q, M
<1>6. \A v : M[Renamed(v, old, new)] = M[v]
  BY <1>5 DEF Renamed
<1>7. ASSUME NEW k \in DOMAIN t PROVE M[t[k].res] = Term(t, k, M)
  <2>1. k \in DOMAIN s /\ t[k].res = s[k].res /\ t[k].label = s[k].label
    BY <1>2, <1>4
  <2>2. /\ DOMAIN t[k].ins = DOMAIN s[k].ins
        /\ \A n \in DOMAIN s[k].ins : M[t[k].ins[n]] = M[s[k].ins[n]]
    BY <1>4, <1>6, <2>1
  <2>3. /\ DOMAIN t[k].outs = DOMAIN s[k].outs
        /\ \A n \in DOMAIN s[k].outs : M[t[k].outs[n]] = M[s[k].outs[n]]
    BY <1>4, <1>6, <2>1
  <2>4. Term(t, k, M) = Term(s, k, M)
    <3>1. /\ [n \in DOMAIN t[k].ins |-> M[t[k].ins[n]]]
               = [n \in DOMAIN s[k].ins |-> M[s[k].ins[n]]]
          /\ [n \in DOMAIN t[k].outs |-> M[t[k].outs[n]]]
               = [n \in DOMAIN s[k].outs |-> M[s[k].outs[n]]]
      BY <2>2, <2>3
    <3>2. QED
      BY <2>1, <3>1 DEF Term
  <2>5. QED
    BY <1>3, <2>1, <2>4
<1>8. \A v \in Args \cup DefinedIn(t) : M[v] = Meaning(t)[v]
  BY <1>2, <1>3, <1>7, MeaningUnique
<1>9. Q \subseteq Args \cup DefinedIn(t)
  BY <1>2, WellFormedParts
<1>10. {M[v] : v \in Q} = {M[v] : v \in R}
  BY <1>6 DEF Q
<1>11. ASSUME ZeroAccumulators(s), s[j].label # "zero_init" PROVE ZeroAccumulators(t)
  <2>1. SUFFICES ASSUME NEW k \in DOMAIN t, NEW v \in Elements(t[k].outs)
                 PROVE  \E l \in DOMAIN t : t[l].res = v /\ t[l].label = "zero_init"
    BY DEF ZeroAccumulators
  <2>2. PICK w \in Elements(s[k].outs) : v = Renamed(w, old, new)
    <3>1. PICK n \in DOMAIN t[k].outs : v = t[k].outs[n]
      BY DEF Elements
    <3>2. QED
      BY <1>2, <1>4, <3>1 DEF Elements
  <2>3. PICK l \in DOMAIN s : s[l].res = w /\ s[l].label = "zero_init"
    BY <1>2, <1>11, <2>1 DEF ZeroAccumulators
  <2>4. w # old
    BY <1>1, <1>11, <2>3 DEF old
  <2>5. QED
    BY <1>2, <1>4, <2>2, <2>3, <2>4 DEF Renamed
<1>12. QED
  BY <1>8, <1>9, <1>10, <1>11 DEF old, new, t, Q, M

\* Two operators that pass_cse takes for the same compute the same term when
\* accumulators are zero, although their accumulators may differ.
LEMMA SameOpSameMeaning ==
  ASSUME GraphInv, ZeroAccumulators(ops),
         NEW i \in DOMAIN ops, NEW j \in DOMAIN ops, SameOp(i, j)
  PROVE  Meaning(ops)[ops[i].res] = Meaning(ops)[ops[j].res]
<1> DEFINE M == Meaning(ops)
<1>1. /\ ops[i].label = ops[j].label /\ ops[i].ins = ops[j].ins
      /\ ops[i].label # "zero_init"
  BY DEF SameOp, IsFill
<1>2. /\ WellFormed(ops, returns)
      /\ Built(ops[i]) /\ Built(ops[j])
      /\ \A k \in DOMAIN ops : /\ Built(ops[k])
                               /\ ops[k].outs \in Seq(Values)
  BY BuiltFacts DEF GraphInv
<1>3. \A k \in DOMAIN ops : M[ops[k].res] = Term(ops, k, M)
  BY <1>2, MeaningEquations
<1> HIDE DEF M
<1> DEFINE zero == <<"zero_init", [n \in {} |-> M[n]], [n \in {} |-> M[n]]>>
\* Every fill has the same term.
<1>4. ASSUME NEW k \in DOMAIN ops, ops[k].label = "zero_init"
      PROVE  M[ops[k].res] = zero
  <2>1. ops[k].ins = <<>> /\ ops[k].outs = <<>>
    BY <1>2, <1>4 DEF Built
  <2>2. DOMAIN ops[k].ins = {} /\ DOMAIN ops[k].outs = {}
    BY <2>1
  <2>3. /\ [n \in DOMAIN ops[k].ins |-> M[ops[k].ins[n]]] = [n \in {} |-> M[n]]
        /\ [n \in DOMAIN ops[k].outs |-> M[ops[k].outs[n]]] = [n \in {} |-> M[n]]
    BY <2>2
  <2>4. QED
    BY <1>3, <1>4, <2>3 DEF Term
<1> HIDE DEF zero
<1>5. \A k \in DOMAIN ops : \A v \in Elements(ops[k].outs) : M[v] = zero
  BY <1>4 DEF ZeroAccumulators
<1>6. Len(ops[i].outs) = Len(ops[j].outs)
  BY <1>1, <1>2 DEF Built
<1>7. DOMAIN ops[i].outs = DOMAIN ops[j].outs
  BY <1>2, <1>6
<1>8. [n \in DOMAIN ops[i].outs |-> M[ops[i].outs[n]]]
        = [n \in DOMAIN ops[j].outs |-> M[ops[j].outs[n]]]
  <2>1. /\ \A n \in DOMAIN ops[i].outs : M[ops[i].outs[n]] = zero
        /\ \A n \in DOMAIN ops[j].outs : M[ops[j].outs[n]] = zero
    BY <1>5 DEF Elements
  <2>2. QED
    BY <1>7, <2>1
<1>9. Term(ops, i, M) = Term(ops, j, M)
  BY <1>1, <1>8 DEF Term
<1>10. QED
  BY <1>3, <1>9 DEF M

(***************************************************************************)
(* Stage 0.                                                                *)
(***************************************************************************)
\* The returned values have the terms they have in the graph as it was given.
MeaningInv ==
  stage \in {"cse", "dce", "alias"} /\ ZeroAccumulators(source.ops) =>
    /\ ZeroAccumulators(ops)
    /\ {Meaning(ops)[r] : r \in returns}
         = {Meaning(source.ops)[r] : r \in source.returns}

\* Erasing a duplicate keeps the terms of the returned values.
LEMMA CseMeaning == ASSUME Inv, MeaningInv, Cse PROVE MeaningInv'
<1>1. PICK p \in Duplicates :
        /\ ops' = Without(ReplacedUses(ops, ops[p[2]].res, ops[p[1]].res), p[2])
        /\ returns' = {Renamed(r, ops[p[2]].res, ops[p[1]].res) : r \in returns}
  BY DEF Cse
<1> DEFINE i == p[1]
           j == p[2]
           old == ops[j].res
           new == ops[i].res
           t == ReplacedUses(ops, old, new)
           Q == {Renamed(r, old, new) : r \in returns}
<1>2. i \in DOMAIN ops /\ j \in DOMAIN ops /\ SameOp(i, j) /\ i < j
  BY DEF Duplicates, SameOp
<1>3. /\ stage = "cse" /\ UNCHANGED <<stage, source>>
      /\ ops' = Without(t, j) /\ returns' = Q
  BY <1>1 DEF Cse
<1>4. GraphInv /\ WellFormed(ops, returns)
  BY DEF Inv, GraphInv
<1>5. /\ WellFormed(t, Q)
      /\ DOMAIN t = DOMAIN ops
      /\ t[j].res = old
      /\ old \notin Q
      /\ \A k \in DOMAIN t : old \notin Reads(t[k])
  BY <1>2, <1>4, RenameWellFormed
<1>6. SUFFICES ASSUME ZeroAccumulators(source.ops)
               PROVE  /\ ZeroAccumulators(Without(t, j))
                      /\ {Meaning(Without(t, j))[r] : r \in Q}
                           = {Meaning(source.ops)[r] : r \in source.returns}
  BY <1>3 DEF MeaningInv
<1>7. /\ ZeroAccumulators(ops)
      /\ {Meaning(ops)[r] : r \in returns}
           = {Meaning(source.ops)[r] : r \in source.returns}
  BY <1>3, <1>6 DEF MeaningInv
<1>8. Meaning(ops)[new] = Meaning(ops)[old] /\ ops[j].label # "zero_init"
  BY <1>2, <1>4, <1>7, SameOpSameMeaning DEF SameOp, IsFill
<1>9. /\ \A v \in Q : Meaning(t)[v] = Meaning(ops)[v]
      /\ {Meaning(ops)[v] : v \in Q} = {Meaning(ops)[v] : v \in returns}
      /\ ZeroAccumulators(t)
  <2> HIDE DEF i, j
  <2>1. /\ \A v \in Q : Meaning(t)[v] = Meaning(ops)[v]
        /\ {Meaning(ops)[v] : v \in Q} = {Meaning(ops)[v] : v \in returns}
        /\ ZeroAccumulators(ops) /\ ops[j].label # "zero_init" => ZeroAccumulators(t)
    BY <1>2, <1>4, <1>8, RenameMeaning
  <2> HIDE DEF t, Q
  <2>2. QED
    BY <1>7, <1>8, <2>1
<1>10. /\ \A v \in Q : Meaning(Without(t, j))[v] = Meaning(t)[v]
       /\ ZeroAccumulators(Without(t, j))
  BY <1>2, <1>5, <1>9, EraseMeaning
<1> HIDE DEF t, Q, i, j, old, new
<1>11. {Meaning(Without(t, j))[r] : r \in Q} = {Meaning(ops)[v] : v \in Q}
  BY <1>9, <1>10
<1>12. QED
  BY <1>7, <1>9, <1>10, <1>11

\* Erasing an operator nobody uses keeps the terms of the returned values.
LEMMA DceMeaning == ASSUME Inv, MeaningInv, Dce PROVE MeaningInv'
<1>1. PICK i \in DOMAIN ops : IsDead(i) /\ ops' = Without(ops, i)
  BY DEF Dce
<1>2. stage = "dce" /\ UNCHANGED <<stage, source, returns>>
  BY DEF Dce
<1>3. WellFormed(ops, returns)
  BY DEF Inv, GraphInv
<1>4. ops[i].res \notin returns /\ \A j \in DOMAIN ops : ops[i].res \notin Reads(ops[j])
  BY <1>1 DEF IsDead, Users, Operands
<1>5. /\ \A v \in returns : Meaning(Without(ops, i))[v] = Meaning(ops)[v]
      /\ ZeroAccumulators(ops) => ZeroAccumulators(Without(ops, i))
  BY <1>3, <1>4, EraseMeaning
<1>6. SUFFICES ASSUME ZeroAccumulators(source.ops)
               PROVE  /\ ZeroAccumulators(Without(ops, i))
                      /\ {Meaning(Without(ops, i))[r] : r \in returns}
                           = {Meaning(source.ops)[r] : r \in source.returns}
  BY <1>1, <1>2 DEF MeaningInv
<1>7. /\ ZeroAccumulators(ops)
      /\ {Meaning(ops)[r] : r \in returns}
           = {Meaning(source.ops)[r] : r \in source.returns}
  BY <1>2, <1>6 DEF MeaningInv
<1>8. QED
  BY <1>5, <1>7

\* Stage 0 keeps what the function returns, for every graph whose accumulators
\* are zero, and leaves no use without its definition.
THEOREM PrecleanIsSound == Spec => []PrecleanKeepsResults
<1>1. Init => Inv /\ MeaningInv
  BY InitInv DEF Init, MeaningInv
<1>2. (Inv /\ MeaningInv) /\ [Next]_vars => (Inv /\ MeaningInv)'
  <2> SUFFICES ASSUME Inv, MeaningInv, [Next]_vars PROVE Inv' /\ MeaningInv'
    OBVIOUS
  <2>1. Inv'
    BY NextInv
  <2>2. CASE Cse
    BY <2>1, <2>2, CseMeaning
  <2>3. CASE Dce
    BY <2>1, <2>3, DceMeaning
  <2>4. CASE EndCse \/ EndDce \/ GroupAlias
    <3>1. /\ stage \in {"cse", "dce", "alias"}
          /\ UNCHANGED <<source, ops, returns>>
      BY <2>4 DEF EndCse, EndDce, GroupAlias
    <3>2. QED
      BY <2>1, <3>1 DEF MeaningInv
  <2>5. CASE UNCHANGED vars
    <3>1. UNCHANGED <<source, stage, ops, returns>>
      BY <2>5 DEF vars
    <3>2. QED
      BY <2>1, <3>1 DEF MeaningInv
  <2>6. CASE \/ EndAlias \/ Decide \/ AssignSlot \/ EndAssign \/ InsertCopy \/ SkipCopy
             \/ EndCopy \/ RunOp \/ Return
    <3>1. stage' \notin {"cse", "dce", "alias"}
      BY <2>6 DEF EndAlias, Decide, AssignSlot, EndAssign, InsertCopy, SkipCopy, EndCopy,
                  RunOp, Return
    <3>2. QED
      BY <2>1, <3>1 DEF MeaningInv
  <2>7. QED
    BY <2>2, <2>3, <2>4, <2>5, <2>6 DEF Next
<1>3. Inv /\ MeaningInv => PrecleanKeepsResults
  BY WellFormedParts DEF Inv, GraphInv, DefinedBeforeUse, PrecleanKeepsResults, MeaningInv
<1>4. QED
  BY <1>1, <1>2, <1>3, PTL DEF Spec
=============================================================================
